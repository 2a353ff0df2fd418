-------------------------- MODULE PtlsDeliveryProof ---------------------------
(***************************************************************************)
(* Proof that between two ends of picotls.c no byte of an application is   *)
(* skipped, repeated or reordered, for every plan of connections: what one *)
(* reads is a prefix of what the other has sent, and in the end all of it. *)
(* Of the early data the server reads all or nothing, and the client is    *)
(* told which.                                                             *)
(*                                                                         *)
(* Each stream carries, record by record, what its sender has sent beyond  *)
(* what its receiver has taken, and a record with data that is not         *)
(* delivered ends the connection.  The exception is early data: a server   *)
(* that has refused it drops every record it cannot open, so that nothing  *)
(* of what follows may be one of those.  Three facts see to that.  The     *)
(* client's Finished stands between its early data and the rest; behind    *)
(* it, each record is sealed under the key and number that follow from the *)
(* record before, from the client's application secret on; and the server  *)
(* that takes that Finished reads on with the same secret, as the two ends *)
(* then agree (PtlsAgreementProof).                                        *)
(***************************************************************************)
EXTENDS PtlsAgreementProof, FiniteSetTheorems

-----------------------------------------------------------------------------
(* What a stream carries. *)

IsData(r) == r.msg.mt = "DATA"
IsFin(r)  == r.msg.mt = "FIN"

\* L numbers the messages of an application: before record i + 1, L[i] of
\* those in `sent` are gone.  A Finished stands at a number in at.
Counts(q, L, a, sent, at) ==
    /\ L[0] = a /\ L[Len(q)] = Len(sent)
    /\ \A i \in 0..Len(q) : L[i] \in 0..Len(sent)
    /\ \A i \in 1..Len(q) :
          /\ IsData(q[i]) => L[i] = L[i - 1] + 1 /\ q[i].msg = sent[L[i]]
          /\ ~IsData(q[i]) => L[i] = L[i - 1]
          /\ IsFin(q[i]) => L[i] \in at

\* The records of q carry what is in `sent` beyond the first a messages.
Carries(q, a, sent, at) ==
    IsSeq(q) /\ IsSeq(sent) /\ \E L : Counts(q, L, a, sent, at)

LEMMA CarriesNone ==
  ASSUME NEW sent, IsSeq(sent), NEW at
  PROVE  Carries(<<>>, Len(sent), sent, at)
<1> DEFINE L == [i \in {0} |-> Len(sent)]
<1>1. IsSeq(<<>>) /\ Len(<<>>) = 0 /\ Len(sent) \in Nat
  BY EmptyIsSeq, LenOfSeq
<1>2. Counts(<<>>, L, Len(sent), sent, at)
  BY <1>1 DEF Counts
<1> QED
  BY <1>1, <1>2 DEF Carries

\* The next record is taken.
LEMMA CarriesHead ==
  ASSUME NEW q, NEW a, NEW sent, NEW at, Carries(q, a, sent, at), q # <<>>
  PROVE  /\ IsData(Head(q)) => /\ a + 1 \in 1..Len(sent) /\ Head(q).msg = sent[a + 1]
                               /\ Carries(Tail(q), a + 1, sent, at)
         /\ ~IsData(Head(q)) => Carries(Tail(q), a, sent, at)
         /\ IsFin(Head(q)) => a \in at
<1> DEFINE t == Tail(q)
<1>1. IsSeq(q) /\ IsSeq(sent)
  BY DEF Carries
<1>2. PICK L : Counts(q, L, a, sent, at)
  BY DEF Carries
<1>3. /\ IsSeq(t) /\ Len(t) = Len(q) - 1 /\ Len(q) \in Nat \ {0} /\ Len(sent) \in Nat
      /\ \A i \in 1..Len(t) : t[i] = q[i + 1]
      /\ Head(q) = q[1]
  BY <1>1, SeqTail, LenOfSeq
<1> DEFINE M == [i \in 0..Len(t) |-> L[i + 1]]
           b == L[1]
<1> HIDE DEF t
<1>4. Counts(t, M, b, sent, at)
  <2>1. M[0] = b /\ M[Len(t)] = Len(sent) /\ \A i \in 0..Len(t) : M[i] \in 0..Len(sent)
    BY <1>2, <1>3 DEF Counts
  <2>2. ASSUME NEW i \in 1..Len(t)
        PROVE  /\ IsData(t[i]) => M[i] = M[i - 1] + 1 /\ t[i].msg = sent[M[i]]
               /\ ~IsData(t[i]) => M[i] = M[i - 1]
               /\ IsFin(t[i]) => M[i] \in at
    <3>1. i + 1 \in 1..Len(q) /\ t[i] = q[i + 1] /\ M[i] = L[i + 1] /\ M[i - 1] = L[i + 1 - 1]
      BY <1>3
    <3> HIDE DEF M
    <3> QED
      BY <1>2, <3>1 DEF Counts
  <2> HIDE DEF M, b
  <2> QED
    BY <2>1, <2>2 DEF Counts
<1> HIDE DEF M
<1>5. Carries(t, b, sent, at)
  BY <1>1, <1>3, <1>4 DEF Carries
<1>6. 1 \in 1..Len(q) /\ 1 \in 0..Len(q) /\ L[1 - 1] = a
  BY <1>2, <1>3 DEF Counts
<1>7. /\ b \in 0..Len(sent)
      /\ IsData(q[1]) => b = a + 1 /\ q[1].msg = sent[b]
      /\ ~IsData(q[1]) => b = a
      /\ IsFin(q[1]) => b \in at
  BY <1>2, <1>6 DEF Counts
<1>8. a \in 0..Len(sent)
  BY <1>2, <1>3 DEF Counts
<1>9. IsFin(q[1]) => ~IsData(q[1])
  BY DEF IsFin, IsData
<1> HIDE DEF b
<1>10. IsData(q[1]) => b \in 1..Len(sent)
  BY <1>3, <1>7, <1>8
<1> QED
  BY <1>3, <1>5, <1>7, <1>9, <1>10 DEF t

\* What is carried is what is left of `sent`.
LEMMA CarriesFrom ==
  ASSUME NEW q, NEW a, NEW sent, NEW at, Carries(q, a, sent, at)
  PROVE  /\ a \in 0..Len(sent) /\ Len(sent) \in Nat /\ IsSeq(sent) /\ IsSeq(q)
         /\ q = <<>> => a = Len(sent)
<1>1. PICK L : Counts(q, L, a, sent, at)
  BY DEF Carries
<1>2. Len(q) \in Nat /\ Len(sent) \in Nat /\ Len(<<>>) = 0
  BY LenOfSeq, EmptyIsSeq DEF Carries
<1> QED
  BY <1>1, <1>2 DEF Counts, Carries

\* Records without data are added.
LEMMA CarriesMore ==
  ASSUME NEW q, NEW a, NEW sent, NEW at, Carries(q, a, sent, at), NEW out, IsSeq(out),
         \A i \in 1..Len(out) : ~IsData(out[i]) /\ (IsFin(out[i]) => Len(sent) \in at)
  PROVE  Carries(q \o out, a, sent, at)
<1> DEFINE all == q \o out
<1>1. IsSeq(q) /\ IsSeq(sent)
  BY DEF Carries
<1>2. PICK L : Counts(q, L, a, sent, at)
  BY DEF Carries
<1>3. /\ IsSeq(all) /\ Len(all) = Len(q) + Len(out) /\ Len(q) \in Nat /\ Len(out) \in Nat
      /\ Len(sent) \in Nat
      /\ \A i \in 1..Len(q) : all[i] = q[i]
      /\ \A i \in 1..Len(out) : all[Len(q) + i] = out[i]
  BY <1>1, SeqSum, LenOfSeq
<1> HIDE DEF all
<1> DEFINE M == [i \in 0..Len(all) |-> IF i <= Len(q) THEN L[i] ELSE Len(sent)]
<1>4. Counts(all, M, a, sent, at)
  <2>1. M[0] = a /\ M[Len(all)] = Len(sent) /\ \A i \in 0..Len(all) : M[i] \in 0..Len(sent)
    BY <1>2, <1>3 DEF Counts
  <2>2. ASSUME NEW i \in 1..Len(all)
        PROVE  /\ IsData(all[i]) => M[i] = M[i - 1] + 1 /\ all[i].msg = sent[M[i]]
               /\ ~IsData(all[i]) => M[i] = M[i - 1]
               /\ IsFin(all[i]) => M[i] \in at
    <3>1. CASE i <= Len(q)
      <4>1. i \in 1..Len(q) /\ all[i] = q[i] /\ M[i] = L[i] /\ M[i - 1] = L[i - 1]
        BY <1>3, <3>1
      <4> HIDE DEF M
      <4> QED
        BY <1>2, <4>1 DEF Counts
    <3>2. CASE i > Len(q)
      <4>1. i - Len(q) \in 1..Len(out) /\ all[i] = out[i - Len(q)] /\ M[i] = Len(sent)
        BY <1>3, <3>2
      <4>2. M[i - 1] = Len(sent)
        BY <1>2, <1>3, <3>2 DEF Counts
      <4> HIDE DEF M
      <4> QED
        BY <4>1, <4>2
    <3> QED
      BY <1>3, <3>1, <3>2
  <2> HIDE DEF M
  <2> QED
    BY <2>1, <2>2 DEF Counts
<1> HIDE DEF M
<1> QED
  BY <1>1, <1>3, <1>4 DEF Carries, all

\* A record with data is added.
LEMMA CarriesSent ==
  ASSUME NEW q, NEW a, NEW sent, NEW at, Carries(q, a, sent, at), NEW r, IsData(r)
  PROVE  Carries(Append(q, r), a, Append(sent, r.msg), at)
<1> DEFINE all == Append(q, r)
           more == Append(sent, r.msg)
<1>1. IsSeq(q) /\ IsSeq(sent)
  BY DEF Carries
<1>2. PICK L : Counts(q, L, a, sent, at)
  BY DEF Carries
<1>3. /\ IsSeq(all) /\ Len(all) = Len(q) + 1 /\ Len(q) \in Nat
      /\ all[Len(q) + 1] = r
      /\ \A i \in 1..Len(q) : all[i] = q[i]
  BY <1>1, AppendIs
<1>4. /\ IsSeq(more) /\ Len(more) = Len(sent) + 1 /\ Len(sent) \in Nat
      /\ more[Len(sent) + 1] = r.msg
      /\ \A i \in 1..Len(sent) : more[i] = sent[i]
  BY <1>1, AppendIs
<1> HIDE DEF all, more
<1> DEFINE M == [i \in 0..Len(all) |-> IF i <= Len(q) THEN L[i] ELSE Len(sent) + 1]
<1>5. Counts(all, M, a, more, at)
  <2>1. M[0] = a /\ M[Len(all)] = Len(more) /\ \A i \in 0..Len(all) : M[i] \in 0..Len(more)
    BY <1>2, <1>3, <1>4 DEF Counts
  <2>2. ASSUME NEW i \in 1..Len(all)
        PROVE  /\ IsData(all[i]) => M[i] = M[i - 1] + 1 /\ all[i].msg = more[M[i]]
               /\ ~IsData(all[i]) => M[i] = M[i - 1]
               /\ IsFin(all[i]) => M[i] \in at
    <3>1. CASE i <= Len(q)
      <4>1. i \in 1..Len(q) /\ all[i] = q[i] /\ M[i] = L[i] /\ M[i - 1] = L[i - 1]
        BY <1>3, <3>1
      <4>2. L[i] \in 0..Len(sent) /\ L[i - 1] \in 0..Len(sent)
        BY <1>2, <1>3, <4>1 DEF Counts
      <4>3. /\ IsData(q[i]) => L[i] = L[i - 1] + 1 /\ q[i].msg = sent[L[i]]
            /\ ~IsData(q[i]) => L[i] = L[i - 1]
            /\ IsFin(q[i]) => L[i] \in at
        BY <1>2, <4>1 DEF Counts
      <4>4. IsData(q[i]) => L[i] \in 1..Len(sent)
        BY <1>4, <4>2, <4>3
      <4> HIDE DEF M
      <4> QED
        BY <1>4, <4>1, <4>3, <4>4
    <3>2. CASE i > Len(q)
      <4>1. i = Len(q) + 1 /\ all[i] = r /\ M[i] = Len(sent) + 1 /\ M[i - 1] = Len(sent)
        BY <1>2, <1>3, <3>2 DEF Counts
      <4>2. ~IsFin(r)
        BY DEF IsData, IsFin
      <4> HIDE DEF M
      <4> QED
        BY <1>4, <4>1, <4>2
    <3> QED
      BY <1>3, <3>1, <3>2
  <2> HIDE DEF M
  <2> QED
    BY <2>1, <2>2 DEF Counts
<1> HIDE DEF M
<1> QED
  BY <1>3, <1>4, <1>5 DEF Carries, all, more

\* Where no Finished stands, none is in the wrong place.
LEMMA CarriesSilent ==
  ASSUME NEW q, NEW a, NEW sent, NEW at, Carries(q, a, sent, at), Silent(q), NEW at2
  PROVE  Carries(q, a, sent, at2)
<1>1. PICK L : Counts(q, L, a, sent, at)
  BY DEF Carries
<1>2. \A i \in 1..Len(q) : ~IsFin(q[i])
  BY DEF Silent, IsFin
<1>3. Counts(q, L, a, sent, at2)
  BY <1>1, <1>2 DEF Counts
<1> QED
  BY <1>3 DEF Carries

-----------------------------------------------------------------------------
(* The keys of a stream. *)

\* The traffic protection behind record r, of which tp is that of r itself.
After(r, tp) == IF r.msg.mt = "KU" THEN UpdateKey([tp EXCEPT !.seq = @ + 1])
                ELSE [tp EXCEPT !.seq = @ + 1]

\* Behind its i-th record, K follows the keys of q from tp on.
Locked(q, K, i, tp) ==
    /\ K[i] = tp /\ \A j \in i..Len(q) : Traffic(K[j]) /\ K[j].aead # <<>>
    /\ \A j \in i + 1..Len(q) : /\ q[j].key = K[j - 1].aead /\ q[j].seq = K[j - 1].seq
                                /\ K[j] = After(q[j], K[j - 1])

\* Who holds tp can open all of q behind its i-th record, and what the client c
\* will send next.
Unlocks(q, i, tp, c) ==
    IsSeq(q) /\ \E K : Locked(q, K, i, tp) /\ (Open(c) => K[Len(q)] = c.enc)

LEMMA AfterIs ==
  ASSUME NEW r, NEW tp, Traffic(tp), tp.aead # <<>>
  PROVE  Traffic(After(r, tp)) /\ After(r, tp).aead # <<>>
<1> DEFINE next == [tp EXCEPT !.seq = @ + 1]
<1>1. Traffic(next) /\ next.aead = tp.aead
  BY DEF Traffic
<1> HIDE DEF next
<1>2. \A cs, x : <<cs, x>> # <<>>
  OBVIOUS
<1>3. /\ Traffic(UpdateKey(next))
      /\ UpdateKey(next).aead = <<next.aead[1], NextSecret(next.secret)>>
  BY TrafficIs DEF UpdateKey
<1> QED
  BY <1>1, <1>2, <1>3 DEF After, next

LEMMA UnlocksHead ==
  ASSUME NEW q, NEW tp, NEW c, Unlocks(q, 0, tp, c), q # <<>>
  PROVE  /\ Head(q).key = tp.aead /\ Head(q).seq = tp.seq /\ tp.aead # <<>>
         /\ Unlocks(Tail(q), 0, After(Head(q), tp), c)
<1> DEFINE t == Tail(q)
<1>1. IsSeq(q)
  BY DEF Unlocks
<1>2. PICK K : Locked(q, K, 0, tp) /\ (Open(c) => K[Len(q)] = c.enc)
  BY DEF Unlocks
<1>3. /\ IsSeq(t) /\ Len(t) = Len(q) - 1 /\ Len(q) \in Nat \ {0}
      /\ \A i \in 1..Len(t) : t[i] = q[i + 1]
      /\ Head(q) = q[1]
  BY <1>1, SeqTail
<1> DEFINE M == [j \in 0..Len(t) |-> K[j + 1]]
<1> HIDE DEF t
<1>4. 1 \in 0 + 1..Len(q) /\ 0 \in 0..Len(q) /\ K[1 - 1] = tp
  BY <1>2, <1>3 DEF Locked
<1>5. K[1] = After(q[1], tp) /\ q[1].key = tp.aead /\ q[1].seq = tp.seq /\ tp.aead # <<>>
  BY <1>2, <1>4 DEF Locked
<1>6. M[0] = K[1] /\ M[Len(t)] = K[Len(q)]
  BY <1>3
<1>7. ASSUME NEW j \in 0..Len(t) PROVE Traffic(M[j]) /\ M[j].aead # <<>>
  <2>1. j + 1 \in 0..Len(q) /\ M[j] = K[j + 1]
    BY <1>3
  <2> HIDE DEF M
  <2> QED
    BY <1>2, <2>1 DEF Locked
<1>8. ASSUME NEW j \in 0 + 1..Len(t)
      PROVE  t[j].key = M[j - 1].aead /\ t[j].seq = M[j - 1].seq /\ M[j] = After(t[j], M[j - 1])
  <2>1. /\ j + 1 \in 0 + 1..Len(q) /\ t[j] = q[j + 1] /\ M[j] = K[j + 1]
        /\ M[j - 1] = K[j + 1 - 1]
    BY <1>3
  <2> HIDE DEF M
  <2> QED
    BY <1>2, <2>1 DEF Locked
<1> HIDE DEF M
<1>9. Locked(t, M, 0, After(q[1], tp))
  BY <1>5, <1>6, <1>7, <1>8 DEF Locked
<1>10. Unlocks(t, 0, After(q[1], tp), c)
  BY <1>2, <1>3, <1>6, <1>9 DEF Unlocks
<1> QED
  BY <1>3, <1>5, <1>10 DEF t

LEMMA UnlocksTail ==
  ASSUME NEW q, NEW i \in 1..Len(q), NEW tp, NEW c, Unlocks(q, i, tp, c), q # <<>>
  PROVE  Unlocks(Tail(q), i - 1, tp, c)
<1> DEFINE t == Tail(q)
<1>1. IsSeq(q)
  BY DEF Unlocks
<1>2. PICK K : Locked(q, K, i, tp) /\ (Open(c) => K[Len(q)] = c.enc)
  BY DEF Unlocks
<1>3. /\ IsSeq(t) /\ Len(t) = Len(q) - 1 /\ Len(q) \in Nat \ {0}
      /\ \A j \in 1..Len(t) : t[j] = q[j + 1]
  BY <1>1, SeqTail
<1> DEFINE M == [j \in 0..Len(t) |-> K[j + 1]]
<1> HIDE DEF t
<1>4. M[i - 1] = tp /\ M[Len(t)] = K[Len(q)]
  BY <1>2, <1>3 DEF Locked
<1>5. ASSUME NEW j \in (i - 1)..Len(t) PROVE Traffic(M[j]) /\ M[j].aead # <<>>
  <2>1. j + 1 \in i..Len(q) /\ M[j] = K[j + 1]
    BY <1>3
  <2> HIDE DEF M
  <2> QED
    BY <1>2, <2>1 DEF Locked
<1>6. ASSUME NEW j \in (i - 1) + 1..Len(t)
      PROVE  t[j].key = M[j - 1].aead /\ t[j].seq = M[j - 1].seq /\ M[j] = After(t[j], M[j - 1])
  <2>1. /\ j + 1 \in i + 1..Len(q) /\ t[j] = q[j + 1] /\ M[j] = K[j + 1]
        /\ M[j - 1] = K[j + 1 - 1]
    BY <1>3
  <2> HIDE DEF M
  <2> QED
    BY <1>2, <2>1 DEF Locked
<1> HIDE DEF M
<1>7. Locked(t, M, i - 1, tp)
  BY <1>4, <1>5, <1>6 DEF Locked
<1> QED
  BY <1>2, <1>3, <1>4, <1>7 DEF Unlocks, t

\* One more record under the client's key, which the client c2 then has behind it.
LEMMA UnlocksOn ==
  ASSUME NEW q, NEW i \in 0..Len(q), NEW tp, NEW c, Unlocks(q, i, tp, c), Open(c),
         NEW r, r.key = c.enc.aead, r.seq = c.enc.seq, NEW c2, c2.enc = After(r, c.enc)
  PROVE  Unlocks(Append(q, r), i, tp, c2)
<1> DEFINE all == Append(q, r)
<1>1. IsSeq(q)
  BY DEF Unlocks
<1>2. PICK K : Locked(q, K, i, tp) /\ K[Len(q)] = c.enc
  BY DEF Unlocks
<1>3. /\ IsSeq(all) /\ Len(all) = Len(q) + 1 /\ Len(q) \in Nat /\ all[Len(q) + 1] = r
      /\ \A j \in 1..Len(q) : all[j] = q[j]
  BY <1>1, AppendIs
<1> HIDE DEF all
<1> DEFINE M == [j \in 0..Len(all) |-> IF j <= Len(q) THEN K[j] ELSE c2.enc]
<1>4. Traffic(c.enc) /\ c.enc.aead # <<>>
  BY <1>2, <1>3 DEF Locked
<1>5. Traffic(c2.enc) /\ c2.enc.aead # <<>>
  BY <1>4, AfterIs
<1>6. M[i] = tp /\ M[Len(all)] = c2.enc
  BY <1>2, <1>3 DEF Locked
<1>7. ASSUME NEW j \in i..Len(all) PROVE Traffic(M[j]) /\ M[j].aead # <<>>
  <2>1. CASE j <= Len(q)
    <3>1. j \in i..Len(q) /\ M[j] = K[j]
      BY <1>3, <2>1
    <3> HIDE DEF M
    <3> QED
      BY <1>2, <3>1 DEF Locked
  <2>2. CASE j > Len(q)
    <3>1. M[j] = c2.enc
      BY <1>3, <2>2
    <3> HIDE DEF M
    <3> QED
      BY <1>5, <3>1
  <2> QED
    BY <1>3, <2>1, <2>2
<1>8. ASSUME NEW j \in i + 1..Len(all)
      PROVE  /\ all[j].key = M[j - 1].aead /\ all[j].seq = M[j - 1].seq
             /\ M[j] = After(all[j], M[j - 1])
  <2>1. CASE j <= Len(q)
    <3>1. j \in i + 1..Len(q) /\ all[j] = q[j] /\ M[j] = K[j] /\ M[j - 1] = K[j - 1]
      BY <1>3, <2>1
    <3> HIDE DEF M
    <3> QED
      BY <1>2, <3>1 DEF Locked
  <2>2. CASE j > Len(q)
    <3>1. all[j] = r /\ M[j] = c2.enc /\ M[j - 1] = c.enc
      BY <1>2, <1>3, <2>2
    <3> HIDE DEF M
    <3> QED
      BY <3>1
  <2> QED
    BY <1>3, <2>1, <2>2
<1> HIDE DEF M
<1>9. Locked(all, M, i, tp)
  BY <1>6, <1>7, <1>8 DEF Locked
<1> QED
  BY <1>3, <1>6, <1>9 DEF Unlocks, all

LEMMA UnlocksStart ==
  ASSUME NEW q, IsSeq(q), NEW c, Traffic(c.enc), c.enc.aead # <<>>
  PROVE  Unlocks(q, Len(q), c.enc, c)
<1> DEFINE K == [j \in {Len(q)} |-> c.enc]
<1>1. Len(q) \in Nat
  BY LenOfSeq
<1>2. Locked(q, K, Len(q), c.enc)
  BY <1>1 DEF Locked
<1>3. K[Len(q)] = c.enc
  OBVIOUS
<1> HIDE DEF K
<1> QED
  BY <1>2, <1>3 DEF Unlocks

\* The client sends no more than before.
LEMMA UnlocksStill ==
  ASSUME NEW q, NEW i, NEW tp, NEW c, Unlocks(q, i, tp, c), NEW c2,
         Open(c2) => Open(c) /\ c2.enc = c.enc
  PROVE  Unlocks(q, i, tp, c2)
  BY DEF Unlocks

\* Behind other records.
LEMMA UnlocksBehind ==
  ASSUME NEW q, IsSeq(q), NEW out, NEW i \in 0..Len(out), NEW tp, NEW c, Unlocks(out, i, tp, c)
  PROVE  Unlocks(q \o out, Len(q) + i, tp, c)
<1> DEFINE all == q \o out
           n == Len(q)
<1>1. IsSeq(out)
  BY DEF Unlocks
<1>2. PICK K : Locked(out, K, i, tp) /\ (Open(c) => K[Len(out)] = c.enc)
  BY DEF Unlocks
<1>3. /\ IsSeq(all) /\ Len(all) = n + Len(out) /\ n \in Nat /\ Len(out) \in Nat
      /\ \A j \in 1..Len(out) : all[n + j] = out[j]
  BY <1>1, SeqSum, LenOfSeq
<1> HIDE DEF all, n
<1> DEFINE M == [j \in n..Len(all) |-> K[j - n]]
<1>4. M[n + i] = tp /\ M[Len(all)] = K[Len(out)]
  BY <1>2, <1>3 DEF Locked
<1>5. ASSUME NEW j \in n + i..Len(all) PROVE Traffic(M[j]) /\ M[j].aead # <<>>
  <2>1. j - n \in i..Len(out) /\ M[j] = K[j - n]
    BY <1>3
  <2> HIDE DEF M
  <2> QED
    BY <1>2, <2>1 DEF Locked
<1>6. ASSUME NEW j \in n + i + 1..Len(all)
      PROVE  /\ all[j].key = M[j - 1].aead /\ all[j].seq = M[j - 1].seq
             /\ M[j] = After(all[j], M[j - 1])
  <2>1. PICK d \in 1..Len(out) : d \in i + 1..Len(out) /\ j = n + d
    <3>1. j - n \in i + 1..Len(out) /\ j - n \in 1..Len(out) /\ j = n + (j - n)
      BY <1>3
    <3> QED
      BY <3>1
  <2>2. M[j] = K[d] /\ M[j - 1] = K[d - 1]
    BY <1>3, <2>1
  <2>3. all[j] = out[d]
    BY <1>3, <2>1
  <2> HIDE DEF M
  <2> QED
    BY <1>2, <2>1, <2>2, <2>3 DEF Locked
<1> HIDE DEF M
<1>7. Locked(all, M, n + i, tp)
  BY <1>4, <1>5, <1>6 DEF Locked
<1> QED
  BY <1>2, <1>3, <1>4, <1>7 DEF Unlocks, all, n

-----------------------------------------------------------------------------
(* The handshake sends no data of an application, and delivers none. *)

NoData(q) == IsSeq(q) /\ \A i \in 1..Len(q) : ~IsData(q[i])

\* The end e, that has taken `got` and sent `sent` before this call of picotls.
Mute(e, got, sent) == /\ {"got", "sent", "out"} \subseteq DOMAIN e
                      /\ e.got = got /\ e.sent = sent /\ NoData(e.out)

LEMMA NoDataMore ==
  ASSUME NEW q, NoData(q), NEW r, ~IsData(r)
  PROVE  NoData(Append(q, r))
<1>1. /\ IsSeq(Append(q, r)) /\ Len(Append(q, r)) = Len(q) + 1 /\ Len(q) \in Nat
      /\ Append(q, r)[Len(q) + 1] = r
      /\ \A i \in 1..Len(q) : Append(q, r)[i] = q[i]
  BY AppendIs DEF NoData
<1> DEFINE t == Append(q, r)
<1> HIDE DEF t
<1>2. ASSUME NEW i \in 1..Len(t) PROVE ~IsData(t[i])
  <2>1. i \in 1..Len(q) \/ i = Len(q) + 1
    BY <1>1 DEF t
  <2> QED
    BY <1>1, <2>1 DEF NoData, t
<1> QED
  BY <1>1, <1>2 DEF NoData, t

LEMMA NoDataEmpty == NoData(<<>>)
  BY EmptyIsSeq DEF NoData

LEMMA MuteSame ==
  ASSUME NEW e, NEW got, NEW sent, Mute(e, got, sent), NEW f, NEW changed, Same(e, f, changed),
         "got" \notin changed, "sent" \notin changed, "out" \notin changed
  PROVE  Mute(f, got, sent)
  BY DEF Mute, Same

LEMMA MuteFail ==
  ASSUME NEW e, NEW got, NEW sent, Mute(e, got, sent), NEW alert
  PROVE  Mute(Fail(e, alert), got, sent)
  BY DEF Mute, Fail

LEMMA MuteEmit ==
  ASSUME NEW e, NEW got, NEW sent, Mute(e, got, sent), NEW m, m.mt # "DATA"
  PROVE  Mute(Emit(e, m), got, sent) /\ Mute(Push(e, m), got, sent)
<1> DEFINE r == Sealed(e.enc, m)
           t == Emit(e, m)
<1>1. r.msg = m
  BY SealedIs
<1>2. /\ DOMAIN t = DOMAIN e /\ t.got = e.got /\ t.sent = e.sent /\ t.out = Append(e.out, r)
  BY DEF Emit, Mute
<1> HIDE DEF r
<1>3. NoData(Append(e.out, r))
  BY <1>1, NoDataMore DEF Mute, IsData
<1>4. Mute(t, got, sent)
  BY <1>2, <1>3 DEF Mute
<1> HIDE DEF t
<1>5. Mute([t EXCEPT !.sched = Update(@, m)], got, sent)
  BY <1>4 DEF Mute
<1> QED
  BY <1>4, <1>5 DEF Push, t

LEMMA MuteCCS ==
  ASSUME NEW e, NEW got, NEW sent, Mute(e, got, sent)
  PROVE  Mute(PushCCS(e), got, sent)
<1> DEFINE r == Record([mt |-> "CCS"])
           f == [e EXCEPT !.out = Append(@, r), !.ccs = FALSE]
<1>1. ~IsData(r)
  BY DEF Record, IsData
<1>2. DOMAIN f = DOMAIN e /\ f.got = e.got /\ f.sent = e.sent /\ f.out = Append(e.out, r)
  BY DEF Mute
<1>3. PushCCS(e) = IF e.ccs THEN f ELSE e
  BY DEF PushCCS
<1> HIDE DEF f, r
<1>4. Mute(f, got, sent)
  BY <1>1, <1>2, NoDataMore DEF Mute
<1> QED
  BY <1>3, <1>4

-----------------------------------------------------------------------------
(* The client's handshake. *)

\* A client that has not finished its handshake.
Young(e, got, sent) == Mute(e, got, sent) /\ "st" \in DOMAIN e /\ e.st # "POST_HANDSHAKE"

LEMMA YoungFail ==
  ASSUME NEW e, NEW got, NEW sent, Young(e, got, sent), NEW alert
  PROVE  Young(Fail(e, alert), got, sent)
  BY DEF Young, Mute, Fail

LEMMA YoungEmit ==
  ASSUME NEW e, NEW got, NEW sent, Young(e, got, sent), NEW m, m.mt # "DATA"
  PROVE  Young(Emit(e, m), got, sent)
<1> DEFINE f == Emit(e, m)
<1>1. DOMAIN f = DOMAIN e /\ ("st" \in DOMAIN e => f.st = e.st)
  BY DEF Emit
<1> HIDE DEF f
<1>2. Mute(f, got, sent)
  BY MuteEmit DEF Young, f
<1>3. Young(f, got, sent)
  BY <1>1, <1>2 DEF Young
<1> QED
  BY <1>3 DEF f

LEMMA YoungCCS ==
  ASSUME NEW e, NEW got, NEW sent, Young(e, got, sent)
  PROVE  Young(PushCCS(e), got, sent)
<1> DEFINE f == PushCCS(e)
<1>1. DOMAIN f = DOMAIN e /\ ("st" \in DOMAIN e => f.st = e.st)
  BY DEF PushCCS
<1> HIDE DEF f
<1>2. Mute(f, got, sent)
  BY MuteCCS DEF Young, f
<1>3. Young(f, got, sent)
  BY <1>1, <1>2 DEF Young
<1> QED
  BY <1>3 DEF f

LEMMA OfferYoung ==
  ASSUME NEW e, NEW got, NEW sent, Young(e, got, sent), NEW cfg, NEW now0, NEW second, NEW cookie
  PROVE  Young(SendClientHello(cfg, e, now0, second, cookie), got, sent)
<1> DEFINE psk == ClientPsk(cfg, now0)
           o == Offering(cfg, e, psk, second)
           x == Scheduled(cfg, o, psk, second)
           inner == InnerHello(cfg, x, second, psk, cookie)
           wire == WireHello(cfg, x, second, psk, cookie, inner)
           h == EmitHello(x, second, inner, wire)
           key == SetupTraffic(h.cs[1], Derive(h.sched, "c_e_traffic"), 1)
           keyed == [h EXCEPT !.enc = key]
           said == IF h.usingEarly THEN PushCCS(keyed) ELSE h
<1>1. SendClientHello(cfg, e, now0, second, cookie) = KeyEarly(h, psk, second)
  BY DEF SendClientHello, SendPrepared, SendOffer
<1> HIDE DEF psk
<1>2. Young(o, got, sent)
  BY DEF Young, Mute, Offering
<1> HIDE DEF o
<1>3. Young(x, got, sent)
  BY <1>2 DEF Young, Mute, Scheduled
<1> HIDE DEF x
<1>4. wire.mt # "DATA"
  <2>1. inner.mt = "CH"
    <3> DEFINE bare == EncodeClientHello(cfg, x, FALSE, second, psk, cookie,
                           IF x.ech.on THEN EchExt("inner", "none", second, <<>>) ELSE x.ech.first)
    <3>1. bare.mt = "CH" /\ "mt" \in DOMAIN bare
      BY DEF EncodeClientHello
    <3>2. inner = IF psk = <<>> THEN bare
                  ELSE [bare EXCEPT !.psk[1].binder = Binder(x.sched, bare, psk[1].label)]
      BY DEF InnerHello
    <3> HIDE DEF bare, inner
    <3> QED
      BY <3>1, <3>2
  <2>2. EncodeClientHello(cfg, x, TRUE, second, psk, cookie,
                          EchExt("outer", cfg.ech, second, <<inner>>)).mt = "CH"
    BY DEF EncodeClientHello
  <2> HIDE DEF inner
  <2> QED
    BY <2>1, <2>2 DEF WireHello
<1> HIDE DEF wire, inner
<1>5. Young(h, got, sent)
  <2> DEFINE base == [x EXCEPT
                !.sched = IF x.ech.on THEN UpdateOuter(Update(@, inner), wire)
                          ELSE Update(@, inner),
                !.ech.first = IF x.ech.on /\ ~second THEN wire.ech ELSE @]
  <2>1. h = Emit(base, wire)
    BY DEF EmitHello
  <2>2. Young(base, got, sent)
    BY <1>3 DEF Young, Mute
  <2> HIDE DEF base
  <2> QED
    BY <1>4, <2>1, <2>2, YoungEmit
<1> HIDE DEF h, key
<1>6. Young(keyed, got, sent)
  BY <1>5 DEF Young, Mute
<1> HIDE DEF keyed
<1>7. Young(said, got, sent)
  BY <1>5, <1>6, YoungCCS
<1>8. KeyEarly(h, psk, second) =
        [said EXCEPT
           !.expEarly = IF psk # <<>> /\ ~second THEN Derive(h.sched, "e_exp_master") ELSE @,
           !.st = IF second THEN "EXPECT_SECOND_SERVER_HELLO" ELSE "EXPECT_SERVER_HELLO"]
  BY DEF KeyEarly, keyed, key
<1> HIDE DEF said
<1> QED
  BY <1>1, <1>7, <1>8 DEF Young, Mute

LEMMA EchYoung ==
  ASSUME NEW e, NEW got, NEW sent, Young(e, got, sent), NEW m, NEW label
  PROVE  Young(EchSelectHello(e, m, label), got, sent)
  BY DEF Young, Mute, EchSelectHello

LEMMA HelloYoung ==
  ASSUME NEW e, NEW got, NEW sent, Young(e, got, sent), NEW cfg, NEW m, NEW now0
  PROVE  Young(HandleHello(cfg, e, m, now0), got, sent)
<1>1. Young(HandleRetry(cfg, e, m, now0), got, sent)
  <2> DEFINE ikm == IF cfg.psk = <<>> THEN Zero ELSE Psk(cfg.psk[1].secret)
             e1  == [e EXCEPT !.cs = <<m.cs>>,
                       !.sched = TransformPostCh1(SelectCipher(@, m.cs, FALSE, ikm))]
             e2  == IF e.ech.on THEN EchSelectHello(e1, m, "hrr") ELSE e1
             share == IF m.share # <<>> THEN FirstOf(cfg.groups, ToSet(m.share)) ELSE e.share
             e3  == EndRejected([e2 EXCEPT !.sched = Update(@, m), !.share = share])
  <2>1. HandleRetry(cfg, e, m, now0) = IF share = <<>> THEN Fail(e3, "ILLEGAL_PARAMETER")
                                       ELSE SendClientHello(cfg, e3, now0, TRUE, m.cookie)
    BY DEF HandleRetry
  <2> HIDE DEF ikm, share
  <2>2. Young(e1, got, sent)
    BY DEF Young, Mute
  <2> HIDE DEF e1
  <2>3. Young(e2, got, sent)
    BY <2>2, EchYoung
  <2> HIDE DEF e2
  <2>4. Young(e3, got, sent)
    BY <2>3 DEF Young, Mute, EndRejected
  <2> HIDE DEF e3
  <2> QED
    BY <2>1, <2>4, YoungFail, OfferYoung
<1>2. Young(HandleServerHello(cfg, e, m), got, sent)
  <2> DEFINE e2 == EchTaken(e, m)
             t == Extract(Update([e2.sched EXCEPT !.outer = <<>>], m),
                          IF m.share = <<>> THEN Zero ELSE Dhe(m.share[1]))
             own == Derive(t, "c_hs_traffic")
             peer == SetupTraffic(m.cs, Derive(t, "s_hs_traffic"), 2)
             f == [e2 EXCEPT !.sched = t, !.ech.on = FALSE, !.ech.first = <<>>, !.dec = peer,
                      !.pend = IF e.usingEarly THEN <<own>> ELSE <<>>,
                      !.enc  = IF e.usingEarly THEN @ ELSE SetupTraffic(m.cs, own, 2),
                      !.st   = "EXPECT_ENCRYPTED_EXTENSIONS"]
  <2>1. HandleServerHello(cfg, e, m) =
           IF cfg.psk # <<>> /\ ~m.psk THEN Fail(e2, "HANDSHAKE_FAILURE") ELSE f
    BY DEF HandleServerHello, EchTaken, CipherTaken
  <2>2. Young(CipherTaken(e, m), got, sent)
    BY DEF CipherTaken, Young, Mute
  <2>3. Young(e2, got, sent)
    BY <2>2, EchYoung DEF EchTaken
  <2> HIDE DEF e2, t, own, peer
  <2>4. Young(f, got, sent)
    BY <2>3 DEF Young, Mute
  <2> HIDE DEF f
  <2> QED
    BY <2>1, <2>3, <2>4, YoungFail
<1> QED
  BY <1>1, <1>2, YoungFail DEF HandleHello

\* The client x on its last flight: `exp` and `cs` are settled.
Parting(x, got, sent, exp, cs) ==
    /\ Mute(x, got, sent) /\ Silent(x.out)
    /\ {"exp", "cs", "usingEarly", "sched", "enc", "st", "ret", "pend"} \subseteq DOMAIN x
    /\ x.exp = exp /\ x.cs = cs

LEMMA PartingPush ==
  ASSUME NEW x, NEW got, NEW sent, NEW exp, NEW cs, Parting(x, got, sent, exp, cs),
         NEW m, m.mt \notin {"DATA", "FIN"}
  PROVE  Parting(Push(x, m), got, sent, exp, cs) /\ Push(x, m).usingEarly = x.usingEarly
<1> DEFINE t == Emit(x, m)
           r == Sealed(x.enc, m)
           y == Push(x, m)
<1>1. Mute(x, got, sent) /\ m.mt # "DATA" /\ m.mt # "FIN"
  BY DEF Parting
<1>2. Mute(y, got, sent)
  <2> HIDE DEF y
  <2> QED
    BY <1>1, MuteEmit DEF y
<1>3. /\ DOMAIN t = DOMAIN x /\ t.out = Append(x.out, r)
      /\ t.exp = x.exp /\ t.cs = x.cs /\ t.usingEarly = x.usingEarly
  BY DEF Emit, Parting, Mute
<1>4. r.msg = m
  BY SealedIs
<1> HIDE DEF r
<1>5. Silent(t.out)
  BY <1>1, <1>3, <1>4, SilentIs DEF Parting
<1> HIDE DEF t
<1>6. y = [t EXCEPT !.sched = Update(@, m)]
  BY DEF Push, t
<1>7. /\ DOMAIN y = DOMAIN t /\ y.out = t.out /\ y.exp = t.exp /\ y.cs = t.cs
      /\ y.usingEarly = t.usingEarly
  BY <1>3, <1>6 DEF Parting, Mute
<1> HIDE DEF y
<1>8. Parting(y, got, sent, exp, cs) /\ y.usingEarly = x.usingEarly
  BY <1>2, <1>3, <1>5, <1>7 DEF Parting
<1> QED
  BY <1>8 DEF y

LEMMA EarlyEndParts ==
  ASSUME NEW x, NEW got, NEW sent, NEW exp, NEW cs, Parting(x, got, sent, exp, cs),
         x.usingEarly => x.pend # <<>>, x.usingEarly \in BOOLEAN, NEW cfg
  PROVE  /\ Parting(EndEarlyData(cfg, x), got, sent, exp, cs)
         /\ EndEarlyData(cfg, x).usingEarly = FALSE
<1> DEFINE m == [mt |-> "EOED"]
           p == Push(x, m)
           told == IF x.usingEarly /\ ~cfg.omitEoed THEN p ELSE x
           key == SetupTraffic(x.cs[1], x.pend[1], 2)
           f == [told EXCEPT !.usingEarly = FALSE, !.pend = <<>>,
                             !.asserts = @ /\ x.enc.aead # <<>>, !.enc = key]
<1>1. EndEarlyData(cfg, x) = IF x.pend = <<>> THEN x ELSE f
  BY DEF EndEarlyData
<1>2. m.mt \notin {"DATA", "FIN"}
  OBVIOUS
<1> HIDE DEF m, key
<1>3. Parting(p, got, sent, exp, cs)
  BY <1>2, PartingPush
<1> HIDE DEF p
<1>4. Parting(told, got, sent, exp, cs)
  BY <1>3
<1> HIDE DEF told
<1>5. /\ DOMAIN f = DOMAIN told /\ f.out = told.out /\ f.got = told.got /\ f.sent = told.sent
      /\ f.exp = told.exp /\ f.cs = told.cs /\ f.usingEarly = FALSE
  BY <1>4 DEF Parting, Mute
<1> HIDE DEF f
<1>6. Parting(f, got, sent, exp, cs) /\ f.usingEarly = FALSE
  BY <1>4, <1>5 DEF Parting, Mute
<1>7. x.pend = <<>> => x.usingEarly = FALSE
  OBVIOUS
<1> QED
  BY <1>1, <1>6, <1>7

LEMMA SpecifierParts ==
  ASSUME NEW x, NEW got, NEW sent, NEW exp, NEW cs, Parting(x, got, sent, exp, cs)
  PROVE  Parting(PushCCS(x), got, sent, exp, cs) /\ PushCCS(x).usingEarly = x.usingEarly
<1> DEFINE y == PushCCS(x)
<1>1. Mute(y, got, sent)
  <2> HIDE DEF y
  <2> QED
    BY MuteCCS DEF y, Parting
<1>2. {"enc", "out"} \subseteq DOMAIN x
  BY DEF Parting, Mute
<1>3. /\ Same(x, y, {"out", "ccs"})
      /\ \/ y.out = x.out
         \/ \E r : r.msg.mt = "CCS" /\ y.out = Append(x.out, r)
  BY <1>2, PushCCSIs
<1> HIDE DEF y
<1>4. Silent(y.out)
  <2>1. CASE y.out = x.out
    BY <2>1 DEF Parting
  <2>2. CASE y.out # x.out
    <3>1. PICK r : r.msg.mt = "CCS" /\ y.out = Append(x.out, r)
      BY <1>3, <2>2
    <3>2. r.msg.mt # "FIN" /\ Silent(x.out)
      BY <3>1 DEF Parting
    <3> QED
      BY <3>1, <3>2, SilentIs
  <2> QED
    BY <2>1, <2>2
<1>5. Parting(y, got, sent, exp, cs) /\ y.usingEarly = x.usingEarly
  BY <1>1, <1>3, <1>4 DEF Same, Parting
<1> QED
  BY <1>5 DEF y

LEMMA CertificateParts ==
  ASSUME NEW x, NEW got, NEW sent, NEW exp, NEW cs, Parting(x, got, sent, exp, cs), NEW cfg
  PROVE  /\ Parting(SendClientCertificate(cfg, x), got, sent, exp, cs)
         /\ SendClientCertificate(cfg, x).usingEarly = x.usingEarly
<1> DEFINE m == [mt |-> "CERT", has |-> cfg.cert]
           y == Push(x, m)
           cv == [mt |-> "CV", mac |-> SignData(y.sched, "client")]
           both == Push(y, cv)
<1>1. SendClientCertificate(cfg, x) = IF cfg.cert THEN both ELSE y
  BY DEF SendClientCertificate
<1>2. m.mt \notin {"DATA", "FIN"} /\ cv.mt \notin {"DATA", "FIN"}
  OBVIOUS
<1> HIDE DEF m, cv
<1>3. Parting(y, got, sent, exp, cs) /\ y.usingEarly = x.usingEarly
  BY <1>2, PartingPush
<1> HIDE DEF y
<1>4. Parting(both, got, sent, exp, cs) /\ both.usingEarly = y.usingEarly
  BY <1>2, <1>3, PartingPush
<1> HIDE DEF both
<1> QED
  BY <1>1, <1>3, <1>4

\* Behind its Finished the client sends under the secret that goes with its outcome.
AppSecret(exp) == <<"derived", "c_ap_traffic", exp[3], exp[4], exp[5]>>

AppTraffic(c) == SetupTraffic(c.cs[1], AppSecret(c.exp), 3)

LEMMA AppSecretIs == \A s : AppSecret(Derive(s, "exp_master")) = Derive(s, "c_ap_traffic")
  BY DEF AppSecret, Derive, DeriveFrom

\* The client f has sent its Finished.
Parted(f, got, sent) ==
    /\ Mute(f, got, sent) /\ f.usingEarly = FALSE /\ f.st = "POST_HANDSHAKE"
    /\ IsSeq(f.out) /\ Len(f.out) \in Nat \ {0}
    /\ \A i \in 1..Len(f.out) : IsFin(f.out[i]) => i = Len(f.out)
    /\ f.enc = AppTraffic(f)

LEMMA FinishedParts ==
  ASSUME NEW e, NEW got, NEW sent, Mute(e, got, sent), ClientEnd(e), ClientStory(e),
         Silent(e.out), e.st = "EXPECT_FINISHED", NEW cfg, NEW m, MessageTyped(m), m.mt = "FIN",
         NEW f, f = HandleServerFinished(cfg, e, m)
  PROVE  \/ f = Fail(e, "HANDSHAKE_FAILURE")
         \/ Parted(f, got, sent) /\ f.ret \in {"OK", "ECH_REQUIRED"}
<1> DEFINE rejected == e.ech.offered /\ ~e.ech.accepted
           s    == Extract(Update(e.sched, m), Zero)
           mine == Derive(s, "c_ap_traffic")
           exp  == Derive(s, "exp_master")
           x    == [e EXCEPT !.sched = s, !.exp = Derive(s, "exp_master"),
                             !.dec = SetupTraffic(e.cs[1], Derive(s, "s_ap_traffic"), 3)]
           x0   == EndEarlyData(cfg, x)
           x1   == PushCCS(x0)
           asked == ~rejected /\ e.certReq
           xc   == SendClientCertificate(cfg, x1)
           x2   == IF asked THEN xc ELSE x1
           y    == SendFinished(x2)
           key  == SetupTraffic(e.cs[1], mine, 3)
           ret  == IF rejected THEN "ECH_REQUIRED" ELSE "OK"
           g    == [y EXCEPT !.enc = key, !.st = "POST_HANDSHAKE", !.ret = ret]
           bad  == m.mac # VerifyData(e.sched, e.dec.secret)
<1>1. f = IF bad THEN Fail(e, "HANDSHAKE_FAILURE") ELSE g
  BY DEF HandleServerFinished
<1>2. AwaitsFinished(e)
  BY DEF ClientStory, RestStates
<1>3. ret \in {"OK", "ECH_REQUIRED"}
  OBVIOUS
<1>4. s = Extract(Update(e.sched, m), Zero) /\ AppSecret(exp) = mine
  BY AppSecretIs
<1> HIDE DEF bad, asked, ret, s, mine, rejected
<1>5. Same(e, x, {"sched", "exp", "dec"}) /\ x.sched = s /\ x.exp = exp
  BY DEF Same, ClientEnd, ClientEndFields
<1> HIDE DEF x
<1>6. (x.usingEarly => x.pend # <<>>) /\ Finishing(x, ClientHs(x))
  BY <1>2, <1>4, <1>5, FinishedHeard
<1>7. x.usingEarly \in BOOLEAN /\ "ret" \in DOMAIN x
  BY <1>6 DEF Finishing, ClientEnd, ClientEndFields
<1> DEFINE cs == e.cs
<1>8. Parting(x, got, sent, exp, cs)
  BY <1>5 DEF Same, Parting, Mute, ClientEnd, ClientEndFields
<1> HIDE DEF exp, cs
<1>9. Parting(x0, got, sent, exp, cs) /\ x0.usingEarly = FALSE
  BY <1>6, <1>7, <1>8, EarlyEndParts
<1> HIDE DEF x0
<1>10. Parting(x1, got, sent, exp, cs) /\ x1.usingEarly = FALSE
  BY <1>9, SpecifierParts
<1> HIDE DEF x1
<1>11. Parting(xc, got, sent, exp, cs) /\ xc.usingEarly = FALSE
  BY <1>10, CertificateParts
<1> HIDE DEF xc
<1>12. Parting(x2, got, sent, exp, cs) /\ x2.usingEarly = FALSE
  BY <1>10, <1>11
<1> HIDE DEF x2
<1> DEFINE fin == [mt |-> "FIN", mac |-> VerifyData(x2.sched, x2.enc.secret)]
           r == Sealed(x2.enc, fin)
           t == Emit(x2, fin)
<1>13. y = [t EXCEPT !.sched = Update(@, fin)]
  BY DEF SendFinished, Push
<1>14. fin.mt # "DATA"
  OBVIOUS
<1> HIDE DEF fin, y
<1>15. /\ DOMAIN t = DOMAIN x2 /\ t.out = Append(x2.out, r) /\ t.exp = exp /\ t.cs = cs
       /\ t.usingEarly = FALSE
  BY <1>12 DEF Emit, Parting, Mute
<1>16. Mute(t, got, sent)
  <2> HIDE DEF t
  <2> QED
    BY <1>12, <1>14, MuteEmit DEF t, Parting
<1> HIDE DEF t
<1>17. /\ DOMAIN y = DOMAIN x2 /\ y.out = t.out /\ y.exp = exp /\ y.cs = cs /\ y.usingEarly = FALSE
       /\ y.got = t.got /\ y.sent = t.sent
  BY <1>12, <1>13, <1>15 DEF Parting, Mute
<1>18. /\ DOMAIN g = DOMAIN y /\ g.out = y.out /\ g.exp = exp /\ g.cs = cs /\ g.usingEarly = FALSE
       /\ g.got = y.got /\ g.sent = y.sent /\ g.enc = key /\ g.st = "POST_HANDSHAKE" /\ g.ret = ret
  BY <1>12, <1>17 DEF Parting
<1> HIDE DEF g
<1>19. Mute(g, got, sent)
  BY <1>15, <1>16, <1>17, <1>18 DEF Mute
<1>20. g.enc = AppTraffic(g)
  BY <1>4, <1>18 DEF AppTraffic, cs
<1> HIDE DEF key
<1>21. /\ IsSeq(g.out) /\ Len(g.out) = Len(x2.out) + 1 /\ Len(x2.out) \in Nat
       /\ \A i \in 1..Len(x2.out) : g.out[i] = x2.out[i]
  BY <1>12, <1>15, <1>17, <1>18, AppendIs DEF Parting, Silent
<1>22. \A i \in 1..Len(x2.out) : ~IsFin(g.out[i])
  BY <1>12, <1>21 DEF Parting, Silent, IsFin
<1>23. \A i \in 1..Len(g.out) : IsFin(g.out[i]) => i = Len(g.out)
  BY <1>21, <1>22
<1>24. Parted(g, got, sent) /\ g.ret \in {"OK", "ECH_REQUIRED"}
  BY <1>3, <1>18, <1>19, <1>20, <1>21, <1>23 DEF Parted
<1> QED
  BY <1>1, <1>24

\* What the client e makes of the record r.
ClientPlays(e, r, f) ==
    /\ {"got", "sent", "out"} \subseteq DOMAIN f /\ f.sent = e.sent /\ NoData(f.out)
    /\ f.got = e.got \/ (IsData(r) /\ f.got = Append(e.got, r.msg))
    /\ IsData(r) /\ Open(f) => f.got = Append(e.got, r.msg)
    /\ e.st = "POST_HANDSHAKE" => f.out = e.out /\ f.enc = e.enc /\ f.usingEarly = e.usingEarly
    /\ e.st # "POST_HANDSHAKE" /\ f.st = "POST_HANDSHAKE" => Parted(f, e.got, e.sent)

Playing(e) == /\ ClientEnd(e) /\ ClientStory(e) /\ Silent(e.out)
              /\ {"got", "sent"} \subseteq DOMAIN e /\ NoData(e.out)

LEMMA FailPlays ==
  ASSUME NEW e, Playing(e), NEW r, NEW alert, alert \notin {"OK", "IN_PROGRESS", "ASYNC_OPERATION"}
  PROVE  ClientPlays(e, r, Fail(e, alert))
<1> DEFINE f == Fail(e, alert)
<1>1. Same(e, f, {"ret"}) /\ f.ret = alert
  BY FailIs DEF Playing
<1> HIDE DEF f
<1>2. /\ {"got", "sent", "out"} \subseteq DOMAIN f /\ f.sent = e.sent /\ f.out = e.out
      /\ f.got = e.got /\ f.st = e.st /\ f.enc = e.enc /\ f.usingEarly = e.usingEarly
  BY <1>1 DEF Same, Playing, ClientEnd, ClientEndFields
<1>3. ~Open(f)
  BY <1>1 DEF Open
<1>4. ClientPlays(e, r, f)
  BY <1>2, <1>3 DEF ClientPlays, Playing
<1> QED
  BY <1>4 DEF f

\* No handler of a message sends or takes data, and none answers after the handshake.
LEMMA HandlePlays ==
  ASSUME NEW e, Playing(e), NEW r, ~IsData(r), MessageTyped(r.msg), NEW cfg, NEW now0
  PROVE  ClientPlays(e, r, ClientHandle(cfg, e, r.msg, now0))
<1> DEFINE m == r.msg
           f == ClientHandle(cfg, e, r.msg, now0)
           got == e.got
           sent == e.sent
<1>0. Mute(e, got, sent) /\ ClientEnd(e) /\ ClientStory(e) /\ Silent(e.out)
  BY DEF Mute, Playing, ClientEnd, ClientEndFields
<1>1. ASSUME NEW g, Young(g, got, sent), e.st # "POST_HANDSHAKE"
      PROVE  ClientPlays(e, r, g)
  BY <1>1 DEF ClientPlays, Young, Mute
<1>2. ASSUME NEW alert, alert \notin {"OK", "IN_PROGRESS", "ASYNC_OPERATION"}
      PROVE  ClientPlays(e, r, Fail(e, alert))
  BY <1>2, FailPlays
<1>3. "st" \in DOMAIN e
  BY <1>0 DEF ClientEnd, ClientEndFields
<1>4. ASSUME NEW g \in {HandleCertificateRequest(e, m), HandleServerCertificate(cfg, e, m),
                       HandleServerCertificateVerify(e, m)}, e.st # "POST_HANDSHAKE"
      PROVE  ClientPlays(e, r, g)
  <2>1. ASSUME NEW x, Young(x, got, sent), NEW st, st # "POST_HANDSHAKE"
        PROVE  Young(Absorb(x, m, st), got, sent)
    BY <2>1 DEF Absorb, Young, Mute
  <2>2. Young(e, got, sent) /\ Young([e EXCEPT !.certReq = TRUE], got, sent)
    BY <1>0, <1>3, <1>4 DEF Young, Mute
  <2>3. /\ Young(Absorb([e EXCEPT !.certReq = TRUE], m, "EXPECT_CERTIFICATE"), got, sent)
        /\ Young(Absorb(e, m, "EXPECT_CERTIFICATE_VERIFY"), got, sent)
        /\ Young(Absorb(e, m, "EXPECT_FINISHED"), got, sent)
    BY <2>1, <2>2
  <2>4. /\ ClientPlays(e, r, Absorb([e EXCEPT !.certReq = TRUE], m, "EXPECT_CERTIFICATE"))
        /\ ClientPlays(e, r, Absorb(e, m, "EXPECT_CERTIFICATE_VERIFY"))
        /\ ClientPlays(e, r, Absorb(e, m, "EXPECT_FINISHED"))
    BY <1>1, <1>4, <2>3
  <2>5. /\ ClientPlays(e, r, Fail(e, "BAD_CERTIFICATE")) /\ ClientPlays(e, r, Fail(e, "ILLEGAL_PARAMETER"))
        /\ ClientPlays(e, r, Fail(e, "DECRYPT_ERROR"))
    BY <1>2
  <2>6. g \in {Absorb([e EXCEPT !.certReq = TRUE], m, "EXPECT_CERTIFICATE"),
              Absorb(e, m, "EXPECT_CERTIFICATE_VERIFY"), Absorb(e, m, "EXPECT_FINISHED"),
              Fail(e, "BAD_CERTIFICATE"), Fail(e, "ILLEGAL_PARAMETER"), Fail(e, "DECRYPT_ERROR")}
    BY <1>4 DEF HandleCertificateRequest, HandleServerCertificate, HandleServerCertificateVerify
  <2> QED
    BY <2>4, <2>5, <2>6
<1>5. ASSUME e.st = "EXPECT_ENCRYPTED_EXTENSIONS"
      PROVE  ClientPlays(e, r, HandleEncryptedExtensions(cfg, e, m))
  <2> DEFINE rejectable == (e.ech.offered \/ e.ech.grease) /\ ~e.ech.accepted
             tests == <<
                <<m.name /\ cfg.sni = "none", "ILLEGAL_PARAMETER">>,
                <<m.early /\ ~e.usingEarly, "ILLEGAL_PARAMETER">>,
                <<m.retryConfigs /\ ~rejectable, "UNSUPPORTED_EXTENSION">> >>
             st == IF e.isPsk THEN "EXPECT_FINISHED" ELSE "EXPECT_CERTIFICATE_REQUEST_OR_CERTIFICATE"
             heard == Absorb(e, m, st)
             early == e.usingEarly /\ m.early
             acc == Acceptance(e, m)
             g == [heard EXCEPT !.alpn = m.alpn, !.usingEarly = @ /\ m.early, !.acceptance = acc]
  <2>1. HandleEncryptedExtensions(cfg, e, m) =
           IF FirstAlert(tests) # "none" THEN Fail(e, FirstAlert(tests)) ELSE g
    BY DEF HandleEncryptedExtensions
  <2>2. /\ DOMAIN heard = DOMAIN e /\ heard.st = st /\ heard.got = got /\ heard.sent = sent
        /\ heard.out = e.out
    BY <1>0, <1>3 DEF Absorb, Mute
  <2>3. st # "POST_HANDSHAKE"
    OBVIOUS
  <2> HIDE DEF heard, st, acc
  <2>4. /\ DOMAIN g = DOMAIN e /\ g.st = st /\ g.got = got /\ g.sent = sent /\ g.out = e.out
    BY <1>0, <1>3, <2>2 DEF Mute
  <2> HIDE DEF g
  <2>5. Young(g, got, sent)
    BY <1>0, <1>3, <2>3, <2>4 DEF Young, Mute
  <2>6. ClientPlays(e, r, g)
    BY <1>1, <1>5, <2>5
  <2>7. FirstAlert(tests) \in {"none", "ILLEGAL_PARAMETER", "UNSUPPORTED_EXTENSION"}
    <3>1. DOMAIN tests = 1..3 /\ 3 \in Nat
      OBVIOUS
    <3>2. \A i \in 1..3 : tests[i][2] \in {"ILLEGAL_PARAMETER", "UNSUPPORTED_EXTENSION"}
      OBVIOUS
    <3> HIDE DEF tests
    <3> QED
      BY <3>1, <3>2, AlertIs
  <2> HIDE DEF tests
  <2>8. FirstAlert(tests) # "none" => ClientPlays(e, r, Fail(e, FirstAlert(tests)))
    BY <1>2, <2>7
  <2> QED
    BY <2>1, <2>6, <2>8
<1>6. ASSUME e.st = "POST_HANDSHAKE",
             NEW g \in {HandleNewSessionTicket(cfg, e, m, now0), HandleKeyUpdate(e, m)}
      PROVE  ClientPlays(e, r, g)
  <2> DEFINE kept == [obtained |-> now0, kx |-> e.share[1], cs |-> e.cs[1],
                 ageAdd |-> m.ageAdd, box |-> m.box, maxEarly |-> m.maxEarly,
                 secret |-> DeriveResumption(e.sched)]
             free == {"ret", "asserts", "saved", "dec", "needsKU"}
  <2>1. g \in {[e EXCEPT !.ret = "OK"], [e EXCEPT !.asserts = FALSE], HandleKeyUpdate(e, m),
              [e EXCEPT !.saved = Append(@, kept), !.ret = "OK"]}
    <3> HIDE DEF kept
    <3> QED
      BY <1>6 DEF HandleNewSessionTicket, kept
  <2> HIDE DEF kept
  <2>2. /\ Same(e, [e EXCEPT !.ret = "OK"], free) /\ Same(e, [e EXCEPT !.asserts = FALSE], free)
        /\ Same(e, HandleKeyUpdate(e, m), free)
        /\ Same(e, [e EXCEPT !.saved = Append(@, kept), !.ret = "OK"], free)
    BY DEF Same, HandleKeyUpdate
  <2>3. Same(e, g, free)
    BY <2>1, <2>2
  <2> QED
    BY <1>0, <1>6, <2>3 DEF Same, ClientPlays, Mute, Playing, ClientEnd, ClientEndFields
<1>7. ASSUME e.st = "EXPECT_FINISHED", m.mt = "FIN"
      PROVE  ClientPlays(e, r, HandleServerFinished(cfg, e, m))
  <2> DEFINE g == HandleServerFinished(cfg, e, m)
  <2>1. \/ g = Fail(e, "HANDSHAKE_FAILURE")
        \/ Parted(g, got, sent)
    BY <1>0, <1>7, FinishedParts
  <2> HIDE DEF g
  <2>2. Parted(g, got, sent) => ClientPlays(e, r, g)
    BY <1>7 DEF ClientPlays, Parted, Mute
  <2>3. ClientPlays(e, r, Fail(e, "HANDSHAKE_FAILURE"))
    BY <1>2
  <2> QED
    BY <2>1, <2>2, <2>3 DEF g
<1>8. ASSUME e.st \in WaitStates
      PROVE  ClientPlays(e, r, HandleHello(cfg, e, m, now0))
  <2>1. Young(e, got, sent) /\ e.st # "POST_HANDSHAKE"
    BY <1>0, <1>3, <1>8 DEF Young, WaitStates
  <2> QED
    BY <1>1, <2>1, HelloYoung
<1>9. ClientPlays(e, r, Fail(e, "UNEXPECTED_MESSAGE"))
  BY <1>2
<1>10. \/ e.st \in WaitStates /\ f = HandleHello(cfg, e, m, now0)
       \/ e.st = "EXPECT_ENCRYPTED_EXTENSIONS" /\ f = HandleEncryptedExtensions(cfg, e, m)
       \/ /\ f \in {HandleCertificateRequest(e, m), HandleServerCertificate(cfg, e, m),
                    HandleServerCertificateVerify(e, m)}
          /\ e.st # "POST_HANDSHAKE"
       \/ e.st = "EXPECT_FINISHED" /\ m.mt = "FIN" /\ f = HandleServerFinished(cfg, e, m)
       \/ /\ e.st = "POST_HANDSHAKE"
          /\ f \in {HandleNewSessionTicket(cfg, e, m, now0), HandleKeyUpdate(e, m)}
       \/ f = Fail(e, "UNEXPECTED_MESSAGE")
  BY DEF ClientHandle, WaitStates
<1> HIDE DEF f, m, got, sent
<1>11. ClientPlays(e, r, f)
  BY <1>4, <1>5, <1>6, <1>7, <1>8, <1>9, <1>10
<1> QED
  BY <1>11 DEF f, m

LEMMA RecordPlays ==
  ASSUME NEW e, Playing(e), NEW r, MessageTyped(r.msg), NEW signs
  PROVE  ClientPlays(e, r, Input(e, FALSE, r, signs))
<1> DEFINE f == Input(e, FALSE, r, signs)
           x == Opened(e)
<1>1. ASSUME NEW y, Playing(y) PROVE ClientPlays(y, r, Content(y, FALSE, r.msg, signs))
  <2> DEFINE taken == [y EXCEPT !.got = Append(@, r.msg), !.ret = "OK"]
             g == Content(y, FALSE, r.msg, signs)
  <2>1. ClientPlays(y, r, Fail(y, "PEER_ALERT")) /\ ClientPlays(y, r, Fail(y, "UNEXPECTED_MESSAGE"))
    BY <1>1, FailPlays
  <2>2. CASE IsData(r)
    <3>1. g = taken \/ g = Fail(y, "UNEXPECTED_MESSAGE")
      BY <2>2 DEF IsData, Content, Deliver
    <3>2. /\ DOMAIN taken = DOMAIN y /\ taken.got = Append(y.got, r.msg) /\ taken.sent = y.sent
          /\ taken.out = y.out /\ taken.st = y.st /\ taken.enc = y.enc
          /\ taken.usingEarly = y.usingEarly
      BY <1>1 DEF Playing, ClientEnd, ClientEndFields
    <3> HIDE DEF taken
    <3>3. ClientPlays(y, r, taken)
      BY <1>1, <2>2, <3>2 DEF ClientPlays, Playing, ClientEnd, ClientEndFields
    <3> HIDE DEF g
    <3> QED
      BY <2>1, <3>1, <3>3 DEF g
  <2>3. CASE ~IsData(r)
    <3>1. g = Fail(y, "PEER_ALERT") \/ g = ClientHandle(C, y, r.msg, now)
      BY <2>3 DEF IsData, Content
    <3>2. ClientPlays(y, r, ClientHandle(C, y, r.msg, now))
      BY <1>1, <2>3, HandlePlays
    <3> HIDE DEF g
    <3> QED
      BY <2>1, <3>1, <3>2 DEF g
  <2> QED
    BY <2>2, <2>3
<1> DEFINE ends == {Fail(e, "HANDSHAKE_FAILURE"), Fail(e, "PEER_ALERT"), Fail(e, "BAD_RECORD_MAC"),
                    Fail(e, "UNEXPECTED_MESSAGE"), Content(x, FALSE, r.msg, signs),
                    Content(e, FALSE, r.msg, signs)}
<1>2. f \in ends \/ (r.msg.mt = "CCS" /\ f = e)
  <2>1. CASE r.msg.mt = "CCS"
    <3>1. f \in ends \cup {e}
      BY DEF Input, Skipping
    <3> QED
      BY <2>1, <3>1
  <2>2. CASE r.msg.mt # "CCS"
    BY <2>2 DEF Input, Skipping
  <2> QED
    BY <2>1, <2>2
<1>2a. f \in ends \/ (~IsData(r) /\ f = e)
  BY <1>2 DEF IsData
<1> HIDE DEF f
<1>3. /\ ClientPlays(e, r, Fail(e, "HANDSHAKE_FAILURE")) /\ ClientPlays(e, r, Fail(e, "PEER_ALERT"))
      /\ ClientPlays(e, r, Fail(e, "BAD_RECORD_MAC")) /\ ClientPlays(e, r, Fail(e, "UNEXPECTED_MESSAGE"))
  BY FailPlays
<1>4. ~IsData(r) => ClientPlays(e, r, e)
  BY DEF ClientPlays, Playing, ClientEnd, ClientEndFields
<1>5. ClientPlays(e, r, Content(e, FALSE, r.msg, signs))
  BY <1>1
<1>6. ClientPlays(e, r, Content(x, FALSE, r.msg, signs))
  <2>1. Fins(e.out, e)
    BY SilentIs DEF Playing
  <2>2. ClientTurns(e, x) /\ ClientStory(x)
    BY <2>1, LaterTurns DEF Playing
  <2>3. /\ x.out = e.out /\ x.st = e.st /\ x.enc = e.enc /\ x.usingEarly = e.usingEarly
        /\ x.got = e.got /\ x.sent = e.sent /\ DOMAIN x = DOMAIN e
    BY DEF Opened, Playing, ClientEnd, ClientEndFields
  <2> HIDE DEF x
  <2>4. Playing(x)
    BY <2>2, <2>3 DEF Playing, ClientTurns
  <2>5. ClientPlays(x, r, Content(x, FALSE, r.msg, signs))
    BY <1>1, <2>4
  <2> QED
    BY <2>3, <2>5 DEF ClientPlays
<1>7. ClientPlays(e, r, f)
  BY <1>2a, <1>3, <1>4, <1>5, <1>6
<1> QED
  BY <1>7 DEF f

-----------------------------------------------------------------------------
(* A step of the client, seen from the stream to the server. *)

\* What the client e adds to its stream when it becomes f: after the handshake,
\* under its next keys; before, a Finished, behind which all is under the keys of f.
Extends(e, f) ==
    /\ IsSeq(f.out)
    /\ e.st = "POST_HANDSHAKE" => /\ Silent(f.out)
                                  /\ \A q, tp : \A i \in 0..Len(q) :
                                       Unlocks(q, i, tp, e) => Unlocks(q \o f.out, i, tp, f)
    /\ e.st # "POST_HANDSHAKE" =>
          \A i \in 1..Len(f.out) : IsFin(f.out[i]) => Unlocks(f.out, i, AppTraffic(f), f)

\* One more record under its key, from an end that may end with that.
LEMMA UnlocksOnce ==
  ASSUME NEW q, NEW i \in 0..Len(q), NEW tp, NEW c, Unlocks(q, i, tp, c), Open(c),
         NEW r, r.key = c.enc.aead, r.seq = c.enc.seq, NEW f, ~Open(f)
  PROVE  Unlocks(Append(q, r), i, tp, f)
<1> DEFINE c2 == [ret |-> "OK", enc |-> After(r, c.enc)]
<1>1. c2.enc = After(r, c.enc)
  OBVIOUS
<1> HIDE DEF c2
<1>2. Unlocks(Append(q, r), i, tp, c2)
  BY <1>1, UnlocksOn
<1> QED
  BY <1>2, UnlocksStill

\* The record that SendAlert adds.
AlertOf(e, server, m) == IF server \/ e.st = "POST_HANDSHAKE" THEN Sealed(e.enc, m) ELSE Record(m)

\* f is e at the end of ptls_handshake or ptls_receive; o is what is left of
\* what was written, and an alert may follow.
Concluded(e, o, f, server) ==
    /\ Same(e, f, {"out"}) /\ (o = e.out \/ (o = <<>> /\ ~GoesOn(e)))
    /\ \/ f.out = o
       \/ ~GoesOn(e) /\ \E m : m.mt = "ALERT" /\ f.out = Append(o, AlertOf(e, server, m))

LEMMA FinishedAs ==
  ASSUME NEW e, {"enc", "out", "ret", "st"} \subseteq DOMAIN e, NEW before, NEW server \in BOOLEAN
  PROVE  \E o : Concluded(e, o, Finish(before, e, server), server)
<1> DEFINE f == Finish(before, e, server)
           o == IF e.ret = "ECH_REQUIRED" THEN e.out ELSE <<>>
           dropped == [e EXCEPT !.out = IF e.ret = "ECH_REQUIRED" THEN @ ELSE <<>>]
           empty == [e EXCEPT !.out = <<>>]
           m == [mt |-> "ALERT", desc |-> dropped.ret]
           r == IF server \/ dropped.st = "POST_HANDSHAKE" THEN Sealed(dropped.enc, m) ELSE Record(m)
           sent == [dropped EXCEPT !.out = Append(@, r)]
<1>1. /\ Same(e, dropped, {"out"}) /\ dropped.out = o
      /\ Same(e, empty, {"out"}) /\ empty.out = <<>>
      /\ DOMAIN dropped = DOMAIN e /\ Same(e, e, {"out"})
  BY DEF Same
<1>2. f = e \/ (~GoesOn(e) /\ (f = empty \/ f = sent))
  BY DEF Finish, SendAlert, Open, GoesOn
<1>3. m.mt = "ALERT"
  OBVIOUS
<1> HIDE DEF m, dropped, f
<1>4. r = AlertOf(e, server, m)
  BY <1>1 DEF AlertOf, Same
<1> HIDE DEF r
<1>5. Same(dropped, sent, {"out"}) /\ sent.out = Append(o, r)
  BY <1>1 DEF Same
<1>6. Same(e, sent, {"out"})
  BY <1>1, <1>5 DEF Same
<1>7. o = e.out \/ o = <<>>
  OBVIOUS
<1> HIDE DEF sent, empty, o
<1>8. CASE f = e
  <2>1. Concluded(e, e.out, f, server)
    BY <1>1, <1>8 DEF Concluded
  <2> QED
    BY <2>1 DEF f
<1>9. CASE ~GoesOn(e) /\ f = empty
  <2>1. Concluded(e, <<>>, f, server)
    BY <1>1, <1>9 DEF Concluded
  <2> QED
    BY <2>1 DEF f
<1>10. CASE ~GoesOn(e) /\ f = sent
  <2>1. Concluded(e, o, f, server)
    BY <1>3, <1>4, <1>5, <1>6, <1>7, <1>10 DEF Concluded
  <2> QED
    BY <2>1 DEF f
<1> QED
  BY <1>2, <1>8, <1>9, <1>10

LEMMA ConcludedMute ==
  ASSUME NEW e, NEW o, NEW f, NEW server, Concluded(e, o, f, server), NoData(e.out)
  PROVE  NoData(o) /\ NoData(f.out) /\ IsSeq(o)
<1>1. NoData(o)
  BY NoDataEmpty DEF Concluded
<1>2. CASE f.out = o
  BY <1>1, <1>2 DEF NoData
<1>3. CASE f.out # o
  <2>1. PICK m : m.mt = "ALERT" /\ f.out = Append(o, AlertOf(e, server, m))
    BY <1>3 DEF Concluded
  <2>2. AlertOf(e, server, m).msg = m
    BY SealedIs DEF AlertOf
  <2> DEFINE n == AlertOf(e, server, m)
  <2>3. n.msg.mt = "ALERT" /\ f.out = Append(o, n)
    BY <2>1, <2>2
  <2> HIDE DEF n
  <2>4. NoData(Append(o, n))
    BY <1>1, <2>3, NoDataMore DEF IsData
  <2> QED
    BY <1>1, <2>3, <2>4 DEF NoData
<1> QED
  BY <1>2, <1>3

\* Nothing is taken from the stream that the client had before.
LEMMA ConcludedExtends ==
  ASSUME NEW e, e.out = <<>>, Open(e), e.st = "POST_HANDSHAKE", NEW x, x.out = <<>>,
         x.enc = e.enc, x.st = e.st, x.enc.aead # <<>>, {"enc", "ret"} \subseteq DOMAIN x,
         NEW o, NEW f, Concluded(x, o, f, FALSE)
  PROVE  Extends(e, f)
<1>1. o = <<>> /\ f.enc = e.enc /\ f.ret = x.ret /\ Silent(<<>>)
  BY SilentIs, EmptyIsSeq DEF Concluded, Same, Silent
<1>2. CASE f.out = o
  <2>1. f.out = <<>> /\ IsSeq(<<>>) /\ Silent(f.out)
    BY <1>1, <1>2, EmptyIsSeq
  <2>2. ASSUME NEW q, NEW tp, NEW i \in 0..Len(q), Unlocks(q, i, tp, e)
        PROVE  Unlocks(q \o f.out, i, tp, f)
    <3>1. IsSeq(q)
      BY <2>2 DEF Unlocks
    <3>2. q \o f.out = q
      BY <2>1, <3>1, SeqSumEmpty
    <3>3. Unlocks(q, i, tp, f)
      BY <1>1, <2>2, UnlocksStill
    <3> QED
      BY <3>2, <3>3
  <2> QED
    BY <2>1, <2>2 DEF Extends
<1>3. CASE f.out # o
  <2>1. PICK m : m.mt = "ALERT" /\ f.out = Append(o, AlertOf(x, FALSE, m)) /\ ~GoesOn(x)
    BY <1>3 DEF Concluded
  <2>2. AlertOf(x, FALSE, m) = Sealed(e.enc, m)
    BY DEF AlertOf
  <2>3. PICK n : n.msg = m /\ n.key = e.enc.aead /\ n.seq = e.enc.seq /\ f.out = Append(<<>>, n)
    <3>1. PICK n : n = Sealed(e.enc, m)
      OBVIOUS
    <3>2. n.msg = m /\ n.key = e.enc.aead /\ n.seq = e.enc.seq
      BY <3>1, SealedIs
    <3>3. f.out = Append(<<>>, n)
      BY <1>1, <2>1, <2>2, <3>1
    <3> QED
      BY <3>2, <3>3
  <2>4. f.out = <<n>> /\ IsSeq(f.out)
    BY <2>3, SingleIs
  <2>5. Silent(Append(<<>>, n))
    BY <1>1, <2>1, <2>3, SilentIs
  <2>6. ~Open(f)
    BY <1>1, <2>1 DEF GoesOn, Open
  <2>7. ASSUME NEW q, NEW tp, NEW i \in 0..Len(q), Unlocks(q, i, tp, e)
        PROVE  Unlocks(q \o f.out, i, tp, f)
    <3>1. IsSeq(q)
      BY <2>7 DEF Unlocks
    <3>2. Append(q, n) = q \o <<n>>
      BY <3>1, SeqAppended
    <3>3. Unlocks(Append(q, n), i, tp, f)
      BY <2>3, <2>6, <2>7, UnlocksOnce
    <3> QED
      BY <2>4, <3>2, <3>3
  <2> QED
    BY <2>3, <2>4, <2>5, <2>7 DEF Extends
<1> QED
  BY <1>2, <1>3

\* The end of the client's handshake.
LEMMA ConcludedParts ==
  ASSUME NEW e, e.st # "POST_HANDSHAKE", NEW x, NoData(x.out), Fins(x.out, x),
         {"enc", "ret", "cs", "exp"} \subseteq DOMAIN x,
         x.st = "POST_HANDSHAKE" => /\ Parted(x, e.got, e.sent) /\ Traffic(x.enc)
                                    /\ x.enc.aead # <<>>,
         NEW o, NEW f, Concluded(x, o, f, FALSE)
  PROVE  Extends(e, f)
<1>1. f.enc = x.enc /\ f.ret = x.ret /\ f.cs = x.cs /\ f.exp = x.exp
  BY DEF Concluded, Same
<1>2. AppTraffic(f) = AppTraffic(x)
  BY <1>1 DEF AppTraffic
<1>3. IsSeq(f.out) /\ IsSeq(o) /\ IsSeq(x.out)
  BY ConcludedMute DEF NoData
<1>4. Len(<<>>) = 0
  BY EmptyIsSeq
<1>5. SUFFICES ASSUME NEW i \in 1..Len(f.out), IsFin(f.out[i])
               PROVE  Unlocks(f.out, i, x.enc, f) /\ AppTraffic(x) = x.enc
  BY <1>2, <1>3 DEF Extends
<1>6. ASSUME o # <<>>, NEW j \in 1..Len(o), IsFin(o[j])
      PROVE  /\ o = x.out /\ j = Len(x.out) /\ x.enc = AppTraffic(x) /\ x.st = "POST_HANDSHAKE"
             /\ Traffic(x.enc) /\ x.enc.aead # <<>>
  <2>1. o = x.out
    BY <1>6 DEF Concluded
  <2>2. x.st = "POST_HANDSHAKE"
    BY <1>6, <2>1 DEF Fins, IsFin
  <2> QED
    BY <1>6, <2>1, <2>2 DEF Parted
<1> DEFINE c == [ret |-> "OK", enc |-> x.enc]
<1>7. c.enc = x.enc /\ Open(c)
  BY DEF Open
<1> HIDE DEF c
<1>8. Traffic(x.enc) /\ x.enc.aead # <<>> => Unlocks(x.out, Len(x.out), x.enc, c)
  BY <1>3, <1>7, UnlocksStart
<1>9. CASE f.out = o
  <2>1. o # <<>> /\ i \in 1..Len(o) /\ IsFin(o[i])
    BY <1>4, <1>5, <1>9
  <2>2. o = x.out /\ i = Len(x.out) /\ x.enc = AppTraffic(x) /\ Traffic(x.enc) /\ x.enc.aead # <<>>
    BY <1>6, <2>1
  <2>3. Unlocks(x.out, Len(x.out), x.enc, x)
    BY <1>3, <2>2, UnlocksStart
  <2>4. Unlocks(x.out, Len(x.out), x.enc, f)
    BY <1>1, <2>3, UnlocksStill DEF Open
  <2> QED
    BY <1>9, <2>2, <2>4
<1>10. CASE f.out # o
  <2>1. PICK m : m.mt = "ALERT" /\ f.out = Append(o, AlertOf(x, FALSE, m)) /\ ~GoesOn(x)
    BY <1>10 DEF Concluded
  <2>2. PICK n : n = AlertOf(x, FALSE, m)
    OBVIOUS
  <2>3. n.msg = m /\ f.out = Append(o, n)
    BY <2>1, <2>2, SealedIs DEF AlertOf
  <2>4. /\ Len(Append(o, n)) = Len(o) + 1 /\ Len(o) \in Nat /\ Append(o, n)[Len(o) + 1] = n
        /\ \A j \in 1..Len(o) : Append(o, n)[j] = o[j]
    BY <1>3, AppendIs
  <2>5. ~IsFin(n)
    BY <2>1, <2>3 DEF IsFin
  <2>6. i \in 1..Len(o) \/ i = Len(o) + 1
    BY <1>5, <2>3, <2>4
  <2>7. i \in 1..Len(o) /\ IsFin(o[i])
    BY <1>5, <2>3, <2>4, <2>5, <2>6
  <2>8. o # <<>>
    BY <1>4, <2>7
  <2>9. /\ o = x.out /\ i = Len(x.out) /\ x.enc = AppTraffic(x) /\ x.st = "POST_HANDSHAKE"
        /\ Traffic(x.enc) /\ x.enc.aead # <<>>
    BY <1>6, <2>7, <2>8
  <2>10. n.key = c.enc.aead /\ n.seq = c.enc.seq
    BY <1>7, <2>2, <2>9, SealedIs DEF AlertOf
  <2>11. ~Open(f)
    BY <1>1, <2>1 DEF GoesOn, Open
  <2>12. Unlocks(x.out, i, x.enc, c) /\ i \in 0..Len(x.out)
    BY <1>8, <2>4, <2>7, <2>9
  <2>13. Unlocks(Append(x.out, n), i, x.enc, f)
    BY <1>7, <2>10, <2>11, <2>12, UnlocksOnce
  <2> QED
    BY <2>3, <2>9, <2>13
<1> QED
  BY <1>9, <1>10

\* What is left of x by Finish, f, as a step from e.
Leaves(e, x, f) == /\ Extends(e, f) /\ f.got = x.got /\ f.sent = x.sent /\ NoData(f.out)
                   /\ f.usingEarly = x.usingEarly /\ f.st = x.st /\ f.ret = x.ret

\* What ptls_handshake or ptls_receive makes of a record.
LEMMA FinishExtends ==
  ASSUME NEW e, e.out = <<>>, Open(e), NEW r, NEW x, ClientPlays(e, r, x), ClientTurns(e, x),
         x.st = "POST_HANDSHAKE" => Traffic(x.enc) /\ x.enc.aead # <<>>,
         NEW before, NEW f, f = Finish(before, x, FALSE)
  PROVE  Leaves(e, x, f)
<1>1. {"enc", "out", "ret", "st", "got", "sent", "usingEarly", "cs", "exp"} \subseteq DOMAIN x
  BY DEF ClientPlays, ClientTurns, ClientEnd, ClientEndFields
<1>2. PICK o : Concluded(x, o, f, FALSE)
  <2>1. FALSE \in BOOLEAN /\ {"enc", "out", "ret", "st"} \subseteq DOMAIN x
    BY <1>1
  <2>2. \E o : Concluded(x, o, Finish(before, x, FALSE), FALSE)
    BY <2>1, FinishedAs
  <2> QED
    BY <2>2
<1>3. /\ f.got = x.got /\ f.sent = x.sent /\ f.usingEarly = x.usingEarly /\ f.st = x.st
      /\ f.ret = x.ret
  BY <1>1, <1>2 DEF Concluded, Same
<1>4. NoData(x.out) /\ NoData(f.out)
  BY <1>2, ConcludedMute DEF ClientPlays
<1>5. CASE e.st = "POST_HANDSHAKE"
  <2>1. x.out = <<>> /\ x.enc = e.enc /\ x.st = e.st /\ x.enc.aead # <<>>
    BY <1>5 DEF ClientPlays, ClientTurns, ClientStays
  <2>2. Extends(e, f)
    BY <1>1, <1>2, <1>5, <2>1, ConcludedExtends
  <2> QED
    BY <1>3, <1>4, <2>2 DEF Leaves
<1>6. CASE e.st # "POST_HANDSHAKE"
  <2>1. Fins(x.out, x)
    BY DEF ClientTurns
  <2>2. x.st = "POST_HANDSHAKE" => Parted(x, e.got, e.sent)
    BY <1>6 DEF ClientPlays
  <2>3. Extends(e, f)
    BY <1>1, <1>2, <1>4, <1>6, <2>1, <2>2, ConcludedParts
  <2> QED
    BY <1>3, <1>4, <2>3 DEF Leaves
<1> QED
  BY <1>5, <1>6

-----------------------------------------------------------------------------
(* What an end has taken of what the other has sent. *)

LEMMA PartIs ==
  ASSUME NEW q, IsSeq(q), NEW a \in 0..Len(q), NEW k \in 0..a
  PROVE  /\ IsSeq(SubSeq(q, k + 1, a)) /\ Len(SubSeq(q, k + 1, a)) = a - k
         /\ \A i \in 1..(a - k) : SubSeq(q, k + 1, a)[i] = q[k + i]
<1>1. PICK X : q \in Seq(X)
  BY DEF IsSeq
<1>2. Len(q) \in Nat /\ \A i \in k + 1..a : q[i] \in X
  BY <1>1, LenProperties
<1>3. k + 1 \in Int /\ a \in Int /\ a \in Nat /\ k \in Nat /\ k <= a
  BY <1>2
<1>4. /\ SubSeq(q, k + 1, a) \in Seq(X)
      /\ Len(SubSeq(q, k + 1, a)) = (IF k + 1 <= a THEN a - (k + 1) + 1 ELSE 0)
      /\ \A i \in 1..a - (k + 1) + 1 : SubSeq(q, k + 1, a)[i] = q[k + 1 + i - 1]
  BY <1>2, <1>3, SubSeqProperties
<1>5. a - (k + 1) + 1 = a - k
  BY <1>3
<1>6. \A i \in 1..(a - k) : k + 1 + i - 1 = k + i
  BY <1>3
<1> QED
  BY <1>3, <1>4, <1>5, <1>6 DEF IsSeq

LEMMA PartNone ==
  ASSUME NEW q, IsSeq(q), NEW a \in 0..Len(q)
  PROVE  SubSeq(q, a + 1, a) = <<>>
<1>1. a + 1 \in Int /\ a \in Int /\ a < a + 1
  BY LenOfSeq
<1> QED
  BY <1>1, SubSeqEmpty

LEMMA PartNext ==
  ASSUME NEW q, IsSeq(q), NEW a \in 0..Len(q), a + 1 \in 1..Len(q), NEW k \in 0..a
  PROVE  SubSeq(q, k + 1, a + 1) = Append(SubSeq(q, k + 1, a), q[a + 1])
<1> DEFINE p == SubSeq(q, k + 1, a)
           p2 == SubSeq(q, k + 1, a + 1)
           more == Append(p, q[a + 1])
<1>0. Len(q) \in Nat /\ a \in Nat /\ k \in Nat
  BY LenOfSeq
<1>1. /\ IsSeq(p) /\ Len(p) = a - k
      /\ \A i \in 1..(a - k) : p[i] = q[k + i]
  BY PartIs
<1>2. /\ IsSeq(p2) /\ Len(p2) = a + 1 - k
      /\ \A i \in 1..(a + 1 - k) : p2[i] = q[k + i]
  <2>1. a + 1 \in 0..Len(q) /\ k \in 0..a + 1
    BY <1>0
  <2> QED
    BY <2>1, PartIs
<1> HIDE DEF p, p2
<1>3. /\ IsSeq(more) /\ Len(more) = a - k + 1 /\ more[a - k + 1] = q[a + 1]
      /\ \A i \in 1..(a - k) : more[i] = p[i]
  BY <1>1, AppendIs
<1> HIDE DEF more
<1>4. ASSUME NEW i \in 1..Len(p2) PROVE p2[i] = more[i]
  <2>1. i \in 1..(a - k) \/ i = a - k + 1
    BY <1>0, <1>2
  <2>2. k + (a - k + 1) = a + 1 /\ i \in 1..(a + 1 - k)
    BY <1>0, <1>2
  <2> QED
    BY <1>1, <1>2, <1>3, <2>1, <2>2
<1>5. Len(p2) = Len(more)
  BY <1>0, <1>2, <1>3
<1>6. p2 = more
  BY <1>2, <1>3, <1>4, <1>5, SeqsEqual
<1> QED
  BY <1>6 DEF p, p2, more

LEMMA PartKept ==
  ASSUME NEW q, NEW q2, Begins(q, q2), NEW a \in 0..Len(q), NEW k \in 0..a
  PROVE  SubSeq(q2, k + 1, a) = SubSeq(q, k + 1, a)
<1>0. Len(q) \in Nat /\ Len(q2) \in Nat /\ a \in Nat /\ k \in Nat /\ a \in 0..Len(q2)
      /\ IsSeq(q) /\ IsSeq(q2)
  BY LenOfSeq DEF Begins
<1>1. /\ IsSeq(SubSeq(q, k + 1, a)) /\ Len(SubSeq(q, k + 1, a)) = a - k
      /\ \A i \in 1..(a - k) : SubSeq(q, k + 1, a)[i] = q[k + i]
  BY <1>0, PartIs
<1>2. /\ IsSeq(SubSeq(q2, k + 1, a)) /\ Len(SubSeq(q2, k + 1, a)) = a - k
      /\ \A i \in 1..(a - k) : SubSeq(q2, k + 1, a)[i] = q2[k + i]
  BY <1>0, PartIs
<1>3. \A i \in 1..(a - k) : q2[k + i] = q[k + i]
  <2>1. \A i \in 1..(a - k) : k + i \in 1..Len(q)
    BY <1>0
  <2> QED
    BY <2>1 DEF Begins
<1> QED
  BY <1>1, <1>2, <1>3, SeqsEqual

-----------------------------------------------------------------------------
(* The invariant. *)

\* The first k messages are early data, no other is.
Split(sent, k) == \A i \in 1..Len(sent) : sent[i].early <=> i <= k

\* What the server s has taken when a messages have gone by: a server that
\* accepts early data all of them, any other those behind the early data.
Taken(s, sent, k, a) ==
    /\ s.st = "POST_HANDSHAKE" => k <= a
    /\ s.expEarly # <<>> => s.got = SubSeq(sent, 1, a)
    /\ s.expEarly = <<>> =>
          s.got = IF s.st = "POST_HANDSHAKE" THEN SubSeq(sent, k + 1, a) ELSE <<>>

\* The stream q from the client c to the server s that reads it.  The client's
\* Finished stands behind its k messages of early data; behind it all is under
\* the keys that follow from the secret of the client's outcome.
Flow(q, c, s, k, a) ==
    /\ Carries(q, a, c.sent, {k})
    /\ s.st = "EXPECT_CLIENT_HELLO" => a = 0
    /\ s.st = "POST_HANDSHAKE" => Unlocks(q, 0, s.dec, c)
    /\ \A i \in 1..Len(q) : IsFin(q[i]) => Unlocks(q, i, AppTraffic(c), c)

Forth(q, c, s) ==
    \E k, a \in 0..Len(c.sent) :
       /\ Split(c.sent, k) /\ (c.st # "POST_HANDSHAKE" => k = Len(c.sent))
       /\ Taken(s, c.sent, k, a)
       /\ Open(s) => Flow(q, c, s, k, a)

Back(q, s, c) ==
    \E a \in 0..Len(s.sent) : /\ c.got = SubSeq(s.sent, 1, a)
                              /\ Open(c) => Carries(q, a, s.sent, Nat)

\* A client sends no early data after its handshake.
Clear(c) == /\ {"got", "sent"} \subseteq DOMAIN c /\ IsSeq(c.sent)
            /\ c.st = "POST_HANDSHAKE" => c.usingEarly = FALSE

\* What a server has from its client's hello on: a record is skipped only if
\* early data was refused, read early only if it was accepted.
Tale(s) ==
    /\ s.st = "EXPECT_CLIENT_HELLO" => s.skipped = <<>> /\ s.sent = <<>>
    /\ s.skipped # <<>> => s.expEarly = <<>>
    /\ s.pend # <<>> => s.expEarly # <<>>
    /\ s.st \in EndStates => s.pendApp = <<AppSecret(s.exp)>>

\* The server has the client's Finished only from a client that has ended, and
\* that has been told of its early data what the server did with it.
FinishedFirst(c, s) ==
    s.st = "POST_HANDSHAKE" =>
        c.st = "POST_HANDSHAKE" /\ EarlyTaken(c) /\ ClientEarly(c) = s.expEarly

-----------------------------------------------------------------------------
(* What a step of the client means for what is under way. *)

\* d is c for all that matters here.
Alike(c, d) == /\ d.sent = c.sent /\ d.enc = c.enc /\ d.ret = c.ret /\ d.cs = c.cs
               /\ d.exp = c.exp /\ d.st = c.st /\ d.expEarly = c.expEarly
               /\ d.acceptance = c.acceptance

LEMMA FlowAlike ==
  ASSUME NEW q, NEW c, NEW d, Alike(c, d), NEW s, NEW k, NEW a, Flow(q, c, s, k, a)
  PROVE  Flow(q, d, s, k, a)
<1>1. AppTraffic(d) = AppTraffic(c)
  BY DEF Alike, AppTraffic
<1>2. Open(d) => Open(c) /\ d.enc = c.enc
  BY DEF Alike, Open
<1>3. s.st = "POST_HANDSHAKE" => Unlocks(q, 0, s.dec, d)
  BY <1>2, UnlocksStill DEF Flow
<1>4. \A i \in 1..Len(q) : IsFin(q[i]) => Unlocks(q, i, AppTraffic(d), d)
  BY <1>1, <1>2, UnlocksStill DEF Flow
<1> QED
  BY <1>3, <1>4 DEF Flow, Alike

LEMMA FlowGoesOn ==
  ASSUME NEW q, NEW c, NEW s, NEW k, NEW a, Flow(q, c, s, k, a), Fins(q, c), FinishedFirst(c, s),
         NEW f, Extends(c, f), ClientStays(c, f), NEW k2, Carries(q \o f.out, a, f.sent, {k2})
  PROVE  Flow(q \o f.out, f, s, k2, a)
<1> DEFINE all == q \o f.out
<1>1. IsSeq(q) /\ IsSeq(f.out)
  BY DEF Fins, Extends
<1>2. /\ Len(all) = Len(q) + Len(f.out) /\ Len(q) \in Nat /\ Len(f.out) \in Nat
      /\ \A i \in 1..Len(q) : all[i] = q[i]
      /\ \A i \in 1..Len(f.out) : all[Len(q) + i] = f.out[i]
  BY <1>1, SeqSum, LenOfSeq
<1>3. c.st = "POST_HANDSHAKE" => AppTraffic(f) = AppTraffic(c)
  BY DEF ClientStays, SameOutcome, AppTraffic
<1>4. c.st = "POST_HANDSHAKE" =>
         \A tp : \A i \in 0..Len(q) : Unlocks(q, i, tp, c) => Unlocks(all, i, tp, f)
  BY DEF Extends
<1>5. s.st = "POST_HANDSHAKE" => Unlocks(all, 0, s.dec, f)
  <2>1. 0 \in 0..Len(q)
    BY <1>2
  <2> QED
    BY <1>4, <2>1 DEF Flow, FinishedFirst
<1>6. ASSUME NEW j \in 1..Len(f.out), IsFin(f.out[j])
      PROVE  Unlocks(all, Len(q) + j, AppTraffic(f), f)
  <2>1. c.st # "POST_HANDSHAKE"
    BY <1>6 DEF Extends, Silent, IsFin
  <2>2. Unlocks(f.out, j, AppTraffic(f), f)
    BY <1>6, <2>1 DEF Extends
  <2>3. j \in 0..Len(f.out)
    BY <1>2
  <2> QED
    BY <1>1, <2>2, <2>3, UnlocksBehind
<1>7. ASSUME NEW i \in 1..Len(q), IsFin(q[i])
      PROVE  Unlocks(all, i, AppTraffic(f), f)
  <2>1. c.st = "POST_HANDSHAKE"
    BY <1>7 DEF Fins, IsFin
  <2>2. Unlocks(q, i, AppTraffic(c), c) /\ i \in 0..Len(q)
    BY <1>2, <1>7 DEF Flow
  <2> QED
    BY <1>3, <1>4, <2>1, <2>2
<1> HIDE DEF all
<1>8. ASSUME NEW i \in 1..Len(all), IsFin(all[i])
      PROVE  Unlocks(all, i, AppTraffic(f), f)
  <2>1. CASE i <= Len(q)
    <3>1. i \in 1..Len(q) /\ IsFin(q[i])
      BY <1>2, <1>8, <2>1
    <3> QED
      BY <1>7, <3>1
  <2>2. CASE i > Len(q)
    <3>1. PICK j \in 1..Len(f.out) : i = Len(q) + j
      <4>1. i - Len(q) \in 1..Len(f.out) /\ i = Len(q) + (i - Len(q))
        BY <1>2, <2>2
      <4> QED
        BY <4>1
    <3>2. IsFin(f.out[j])
      BY <1>2, <1>8, <3>1
    <3> QED
      BY <1>6, <3>1, <3>2
  <2> QED
    BY <1>2, <2>1, <2>2
<1>9. Carries(all, a, f.sent, {k2})
  BY DEF all
<1>10. s.st = "EXPECT_CLIENT_HELLO" => a = 0
  BY DEF Flow
<1>11. Flow(all, f, s, k2, a)
  BY <1>5, <1>8, <1>9, <1>10 DEF Flow
<1> QED
  BY <1>11 DEF all

\* A step of the client that sends no data.
LEMMA ForthKept ==
  ASSUME NEW q, NEW c, NEW s, Forth(q, c, s), IsSeq(c.sent), FinishedFirst(c, s), Fins(q, c),
         NEW f, Extends(c, f), ClientStays(c, f), NoData(f.out), f.sent = c.sent,
         NEW d, Alike(f, d)
  PROVE  Forth(q \o f.out, d, s)
<1>1. PICK k \in 0..Len(c.sent), a \in 0..Len(c.sent) :
         /\ Split(c.sent, k) /\ (c.st # "POST_HANDSHAKE" => k = Len(c.sent))
         /\ Taken(s, c.sent, k, a)
         /\ Open(s) => Flow(q, c, s, k, a)
  BY DEF Forth
<1>2. ASSUME Flow(q, c, s, k, a) PROVE Flow(q \o f.out, d, s, k, a)
  <2>1. Carries(q, a, c.sent, {k}) /\ IsSeq(f.out)
    BY <1>2 DEF Flow, NoData
  <2>2. \A i \in 1..Len(f.out) : ~IsData(f.out[i]) /\ (IsFin(f.out[i]) => Len(c.sent) \in {k})
    BY <1>1 DEF NoData, Extends, Silent, IsFin
  <2>3. Carries(q \o f.out, a, c.sent, {k})
    BY <2>1, <2>2, CarriesMore
  <2>4. Carries(q \o f.out, a, f.sent, {k})
    BY <2>3
  <2>5. Flow(q \o f.out, f, s, k, a)
    BY <1>2, <2>4, FlowGoesOn
  <2> QED
    BY <2>5, FlowAlike
<1>3. d.st # "POST_HANDSHAKE" => c.st # "POST_HANDSHAKE"
  BY DEF Alike, ClientStays
<1>4. d.sent = c.sent
  BY DEF Alike
<1> QED
  BY <1>1, <1>2, <1>3, <1>4 DEF Forth

\* A message of the client's application is sent.
LEMMA ForthSent ==
  ASSUME NEW q, NEW c, NEW s, Forth(q, c, s), IsSeq(c.sent), FinishedFirst(c, s), Fins(q, c),
         NEW f, Extends(c, f), ClientStays(c, f), f.st = c.st, NEW m, f.sent = Append(c.sent, m),
         m.early <=> c.st # "POST_HANDSHAKE",
         \A a, at : Carries(q, a, c.sent, at) => Carries(q \o f.out, a, f.sent, at),
         NEW d, Alike(f, d)
  PROVE  Forth(q \o f.out, d, s)
<1> DEFINE more == Append(c.sent, m)
           n == Len(c.sent)
<1>1. PICK k \in 0..n, a \in 0..n :
         /\ Split(c.sent, k) /\ (c.st # "POST_HANDSHAKE" => k = n)
         /\ Taken(s, c.sent, k, a)
         /\ Open(s) => Flow(q, c, s, k, a)
  BY DEF Forth
<1>2. /\ Len(more) = n + 1 /\ n \in Nat /\ more[n + 1] = m
      /\ \A i \in 1..n : more[i] = c.sent[i]
      /\ Begins(c.sent, more)
  BY AppendIs
<1> DEFINE k2 == IF c.st = "POST_HANDSHAKE" THEN k ELSE n + 1
<1>3. f.sent = more
  OBVIOUS
<1> HIDE DEF more
<1>4. k2 \in 0..Len(more) /\ a \in 0..Len(more)
  BY <1>1, <1>2
<1>5. Split(more, k2)
  <2>1. ASSUME NEW i \in 1..Len(more) PROVE more[i].early <=> i <= k2
    <3>1. CASE i = n + 1
      BY <1>2, <3>1
    <3>2. CASE i # n + 1
      <4>1. i \in 1..n /\ i <= n
        BY <1>2, <3>2
      <4>2. more[i].early <=> i <= k
        BY <1>1, <1>2, <4>1 DEF Split
      <4> QED
        BY <1>1, <1>2, <4>1, <4>2
    <3> QED
      BY <3>1, <3>2
  <2> HIDE DEF k2
  <2> QED
    BY <2>1 DEF Split
<1>6. Taken(s, more, k2, a)
  <2>1. SubSeq(more, 1, a) = SubSeq(c.sent, 1, a)
    BY <1>2, FrontKept
  <2>2. s.st = "POST_HANDSHAKE" => k2 = k
    BY DEF FinishedFirst
  <2>3. ASSUME k <= a PROVE SubSeq(more, k + 1, a) = SubSeq(c.sent, k + 1, a)
    <3>1. k \in 0..a
      BY <1>2, <2>3
    <3> QED
      BY <1>2, <3>1, PartKept
  <2> HIDE DEF k2
  <2> QED
    BY <1>1, <2>1, <2>2, <2>3 DEF Taken
<1>7. ASSUME Flow(q, c, s, k, a) PROVE Flow(q \o f.out, d, s, k2, a)
  <2>1. Carries(q, a, c.sent, {k})
    BY <1>7 DEF Flow
  <2>2. Carries(q, a, c.sent, {k2})
    <3>1. CASE c.st = "POST_HANDSHAKE"
      BY <2>1, <3>1
    <3>2. CASE c.st # "POST_HANDSHAKE"
      <4>1. Silent(q)
        BY <3>2 DEF Fins, Silent
      <4> QED
        BY <2>1, <4>1, CarriesSilent
    <3> QED
      BY <3>1, <3>2
  <2> HIDE DEF k2
  <2>3. Carries(q \o f.out, a, f.sent, {k2})
    BY <2>2
  <2>4. Flow(q \o f.out, f, s, k2, a)
    BY <1>7, <2>3, FlowGoesOn
  <2> QED
    BY <2>4, FlowAlike
<1>8. d.sent = more /\ (d.st # "POST_HANDSHAKE" => k2 = Len(more))
  BY <1>2, <1>3 DEF Alike
<1> HIDE DEF k2
<1> QED
  BY <1>1, <1>4, <1>5, <1>6, <1>7, <1>8 DEF Forth

LEMMA ExtendsNone ==
  ASSUME NEW e, Open(e), NEW f, f.out = <<>>, f.enc = e.enc
  PROVE  Extends(e, f)
<1>1. IsSeq(f.out) /\ Silent(f.out) /\ Len(f.out) = 0
  <2>1. IsSeq(<<>>) /\ Silent(<<>>) /\ Len(<<>>) = 0
    BY EmptyIsSeq DEF Silent
  <2> QED
    BY <2>1
<1>2. ASSUME NEW q, NEW tp, NEW i \in 0..Len(q), Unlocks(q, i, tp, e)
      PROVE  Unlocks(q \o f.out, i, tp, f)
  <2>1. IsSeq(q)
    BY <1>2 DEF Unlocks
  <2>2. q \o f.out = q
    BY <2>1, SeqSumEmpty
  <2>3. Unlocks(q, i, tp, f)
    BY <1>2, UnlocksStill
  <2> QED
    BY <2>2, <2>3
<1> QED
  BY <1>1, <1>2 DEF Extends

\* Before the end of the handshake a call that sends no Finished.
LEMMA ExtendsSilent ==
  ASSUME NEW e, e.st # "POST_HANDSHAKE", NEW f, Silent(f.out)
  PROVE  Extends(e, f)
  BY DEF Extends, Silent, IsFin

LEMMA SealedNext ==
  ASSUME NEW e, {"enc", "out"} \subseteq DOMAIN e, Traffic(e.enc), e.enc.aead # <<>>, NEW m
  PROVE  \E r : /\ r.msg = m /\ r.key = e.enc.aead /\ r.seq = e.enc.seq
                /\ Emit(e, m).out = Append(e.out, r)
                /\ Emit(e, m).enc = [e.enc EXCEPT !.seq = @ + 1]
<1> DEFINE f == Emit(e, m)
<1>1. PICK r : r = Sealed(e.enc, m)
  OBVIOUS
<1>2. r.msg = m /\ r.key = e.enc.aead /\ r.seq = e.enc.seq
  BY <1>1, SealedIs
<1>3. f.out = Append(e.out, r) /\ f.enc = [e.enc EXCEPT !.seq = @ + 1]
  BY <1>1 DEF Emit, Traffic
<1> QED
  BY <1>2, <1>3

\* ptls_send, with or without a change of the key before it: what it adds to
\* the stream is the message, and can be opened with what opens the rest.
LEMMA SendIs ==
  ASSUME NEW e, {"enc", "out", "sent", "ret"} \subseteq DOMAIN e, Open(e),
         e.out = <<>>, Traffic(e.enc), e.enc.aead # <<>>, NEW m, m.mt = "DATA",
         NEW f, f = PtlsSend(e, m)
  PROVE  /\ Same(e, f, {"enc", "out", "needsKU", "reqKU", "sent"})
         /\ f.sent = Append(e.sent, m) /\ Silent(f.out)
         /\ \A q, a, sent, at : Carries(q, a, sent, at) =>
               Carries(q \o f.out, a, Append(sent, m), at)
         /\ \A q, tp : \A i \in 0..Len(q) : Unlocks(q, i, tp, e) => Unlocks(q \o f.out, i, tp, f)
<1> DEFINE due     == e.needsKU \/ e.enc.seq >= MaxSeq
           ku      == [mt |-> "KU", request |-> e.reqKU]
           told    == Emit(e, ku)
           turned  == [told EXCEPT !.enc = UpdateKey(@), !.needsKU = FALSE, !.reqKU = FALSE]
           changed == IF ~due THEN e ELSE turned
           last    == Emit(changed, m)
           g       == [last EXCEPT !.sent = Append(@, m)]
           free    == {"enc", "out", "needsKU", "reqKU"}
           \* x is e with the records of o sent.
           Went(x, o) ==
              /\ Same(e, x, free) /\ x.out = o /\ IsSeq(o) /\ Silent(o)
              /\ Traffic(x.enc) /\ x.enc.aead # <<>>
              /\ \A q, a, sent, at : Carries(q, a, sent, at) => Carries(q \o o, a, sent, at)
              /\ \A q, tp : \A i \in 0..Len(q) : Unlocks(q, i, tp, e) => Unlocks(q \o o, i, tp, x)
<1>1. f = g
  BY DEF PtlsSend
<1>2. ku.mt = "KU"
  OBVIOUS
<1> HIDE DEF due, ku
<1>3. Went(e, <<>>)
  <2>1. IsSeq(<<>>) /\ Silent(<<>>)
    BY EmptyIsSeq DEF Silent
  <2>2. \A q : IsSeq(q) => q \o <<>> = q
    BY SeqSumEmpty
  <2>3. \A q, a, sent, at : Carries(q, a, sent, at) => q \o <<>> = q
    BY <2>2 DEF Carries
  <2>4. \A q, tp, i : Unlocks(q, i, tp, e) => q \o <<>> = q
    BY <2>2 DEF Unlocks
  <2> QED
    BY <2>1, <2>3, <2>4 DEF Same
<1>4. ASSUME NEW q, IsSeq(q), NEW r PROVE q \o <<r>> = Append(q, r)
  BY <1>4, SeqAppended
<1>5. due => \E r : Went(turned, <<r>>)
  <2>1. /\ Same(e, told, {"enc", "out"})
        /\ \E r : /\ r.msg = ku /\ r.key = e.enc.aead /\ r.seq = e.enc.seq
                  /\ told.out = Append(e.out, r)
                  /\ told.enc = [e.enc EXCEPT !.seq = @ + 1]
    <3>1. Same(e, told, {"enc", "out"})
      BY DEF Emit, Same
    <3> HIDE DEF told
    <3> QED
      BY <3>1, SealedNext DEF told
  <2> HIDE DEF told
  <2>2. PICK r : /\ r.msg = ku /\ r.key = e.enc.aead /\ r.seq = e.enc.seq
                 /\ told.out = Append(e.out, r)
                 /\ told.enc = [e.enc EXCEPT !.seq = @ + 1]
    BY <2>1
  <2>3. {"enc", "out"} \subseteq DOMAIN told
    BY <2>1 DEF Same
  <2>4. Same(told, turned, {"enc", "needsKU", "reqKU"}) /\ turned.enc = UpdateKey(told.enc)
        /\ turned.out = told.out
    BY <2>3 DEF Same
  <2> HIDE DEF turned
  <2>5. turned.enc = After(r, e.enc)
    BY <1>2, <2>2, <2>4 DEF After
  <2>6. Traffic(turned.enc) /\ turned.enc.aead # <<>>
    BY <2>5, AfterIs
  <2>7. turned.out = <<r>> /\ IsSeq(<<r>>)
    BY <2>2, <2>4, SingleIs
  <2>8. r.msg.mt # "FIN" /\ ~IsData(r) /\ ~IsFin(r)
    BY <1>2, <2>2 DEF IsData, IsFin
  <2>9. Silent(<<r>>)
    <3>1. Silent(Append(<<>>, r))
      BY <1>3, <2>8, SilentIs
    <3> QED
      BY <3>1, SingleIs
  <2>10. Same(e, turned, free)
    BY <2>1, <2>4 DEF Same
  <2>11. ASSUME NEW q, NEW a, NEW sent, NEW at, Carries(q, a, sent, at)
         PROVE  Carries(q \o <<r>>, a, sent, at)
    <3>1. IsSeq(<<r>>) /\ Len(<<r>>) = 1 /\ <<r>>[1] = r
      BY SingleIs
    <3> DEFINE o == <<r>>
    <3>2. \A i \in 1..Len(o) : ~IsData(o[i]) /\ (IsFin(o[i]) => Len(sent) \in at)
      BY <2>8, <3>1
    <3> HIDE DEF o
    <3>3. Carries(q \o o, a, sent, at)
      BY <2>11, <3>1, <3>2, CarriesMore DEF o
    <3> QED
      BY <3>3 DEF o
  <2>12. ASSUME NEW q, NEW tp, NEW i \in 0..Len(q), Unlocks(q, i, tp, e)
         PROVE  Unlocks(q \o <<r>>, i, tp, turned)
    <3>1. Unlocks(Append(q, r), i, tp, turned)
      BY <2>2, <2>5, <2>12, UnlocksOn
    <3>2. q \o <<r>> = Append(q, r)
      BY <1>4, <2>12 DEF Unlocks
    <3> QED
      BY <3>1, <3>2
  <2> QED
    BY <2>6, <2>7, <2>9, <2>10, <2>11, <2>12
<1> HIDE DEF turned
<1>6. PICK o : Went(changed, o)
  BY <1>3, <1>5
<1> HIDE DEF changed
<1>7. /\ {"enc", "out", "sent", "ret"} \subseteq DOMAIN changed /\ changed.sent = e.sent
      /\ changed.ret = e.ret
  BY <1>6 DEF Same
<1>8. PICK d : /\ d.msg = m /\ d.key = changed.enc.aead /\ d.seq = changed.enc.seq
               /\ last.out = Append(changed.out, d)
               /\ last.enc = [changed.enc EXCEPT !.seq = @ + 1]
  <2> HIDE DEF last
  <2> QED
    BY <1>6, <1>7, SealedNext DEF last
<1>9. Same(changed, last, {"enc", "out"})
  BY DEF Emit, Same
<1> HIDE DEF last
<1>10. Same(last, g, {"sent"}) /\ g.sent = Append(e.sent, m) /\ g.out = last.out /\ g.enc = last.enc
  BY <1>7, <1>9 DEF Same
<1> HIDE DEF g
<1>11. Same(e, g, {"enc", "out", "needsKU", "reqKU", "sent"})
  BY <1>6, <1>9, <1>10 DEF Same
<1>12. g.out = Append(o, d) /\ g.enc = After(d, changed.enc) /\ IsData(d)
  BY <1>6, <1>8, <1>10 DEF After, IsData
<1>13. d.msg.mt # "FIN" /\ Silent(o)
  BY <1>6, <1>8
<1>14. Silent(g.out)
  BY <1>12, <1>13, SilentIs
<1>15. ASSUME NEW q, IsSeq(q) PROVE q \o g.out = Append(q \o o, d)
  <2>1. IsSeq(o) /\ IsSeq(<<d>>) /\ Append(o, d) = o \o <<d>>
    BY <1>6, SeqAppended
  <2>2. IsSeq(q \o o)
    BY <1>15, <2>1, SeqSum
  <2>3. Append(q \o o, d) = (q \o o) \o <<d>>
    BY <2>2, SeqAppended
  <2>4. q \o (o \o <<d>>) = (q \o o) \o <<d>>
    BY <1>15, <2>1, SeqSumAssociates
  <2> QED
    BY <1>12, <2>1, <2>3, <2>4
<1>16. ASSUME NEW q, NEW a, NEW sent, NEW at, Carries(q, a, sent, at)
       PROVE  Carries(q \o g.out, a, Append(sent, m), at)
  <2>1. Carries(q \o o, a, sent, at)
    BY <1>6, <1>16
  <2>2. Carries(Append(q \o o, d), a, Append(sent, d.msg), at)
    BY <1>12, <2>1, CarriesSent
  <2>3. q \o g.out = Append(q \o o, d)
    BY <1>15, <1>16 DEF Carries
  <2> QED
    BY <1>8, <2>2, <2>3
<1>17. ASSUME NEW q, NEW tp, NEW i \in 0..Len(q), Unlocks(q, i, tp, e)
       PROVE  Unlocks(q \o g.out, i, tp, g)
  <2>1. Unlocks(q \o o, i, tp, changed)
    BY <1>6, <1>17
  <2>2. IsSeq(q) /\ IsSeq(o)
    BY <1>6, <1>17 DEF Unlocks
  <2>3. i \in 0..Len(q \o o)
    <3>1. Len(q \o o) = Len(q) + Len(o) /\ Len(q) \in Nat /\ Len(o) \in Nat
      BY <2>2, SeqSum, LenOfSeq
    <3> QED
      BY <3>1
  <2>4. Open(changed)
    BY <1>7 DEF Open
  <2>5. Unlocks(Append(q \o o, d), i, tp, g)
    BY <1>8, <1>12, <2>1, <2>3, <2>4, UnlocksOn
  <2> QED
    BY <1>15, <2>2, <2>5
<1> QED
  BY <1>1, <1>10, <1>11, <1>14, <1>16, <1>17

-----------------------------------------------------------------------------
(* The steps of the client. *)

ServerTold(s) == {"got", "sent"} \subseteq DOMAIN s /\ IsSeq(s.sent) /\ (Open(s) => Tale(s))

\* What is known of the data under way, and of the ends as far as it matters.
Delivers == /\ Forth(toSrv, cli, srv) /\ Back(toCli, srv, cli) /\ FinishedFirst(cli, srv)
            /\ Clear(cli) /\ ServerTold(srv)

\* The client reads no record, or this one.
LEMMA BackRead ==
  ASSUME NEW q, q # <<>>, NEW s, IsSeq(s.sent), NEW c, Open(c), Back(q, s, c),
         NEW f, ClientPlays(c, Head(q), f)
  PROVE  \E a \in 0..Len(s.sent) : /\ f.got = SubSeq(s.sent, 1, a)
                                   /\ Open(f) => Carries(Tail(q), a, s.sent, Nat)
<1> DEFINE r == Head(q)
<1>1. PICK a \in 0..Len(s.sent) : c.got = SubSeq(s.sent, 1, a) /\ Carries(q, a, s.sent, Nat)
  BY DEF Back
<1>2. /\ IsData(r) => /\ a + 1 \in 1..Len(s.sent) /\ r.msg = s.sent[a + 1]
                      /\ Carries(Tail(q), a + 1, s.sent, Nat)
      /\ ~IsData(r) => Carries(Tail(q), a, s.sent, Nat)
  BY <1>1, CarriesHead
<1>3. /\ f.got = c.got \/ (IsData(r) /\ f.got = Append(c.got, r.msg))
      /\ IsData(r) /\ Open(f) => f.got = Append(c.got, r.msg)
  BY DEF ClientPlays
<1> HIDE DEF r
<1>4. CASE f.got = c.got /\ ~(IsData(r) /\ Open(f))
  BY <1>1, <1>2, <1>4
<1>5. CASE IsData(r) /\ f.got = Append(c.got, r.msg)
  <2>1. 0 \in 0..a /\ a + 1 \in 0..Len(s.sent)
    <3>1. Len(s.sent) \in Nat
      BY LenOfSeq
    <3> QED
      BY <1>2, <1>5, <3>1
  <2>2. SubSeq(s.sent, 0 + 1, a + 1) = Append(SubSeq(s.sent, 0 + 1, a), s.sent[a + 1])
    BY <1>2, <1>5, <2>1, PartNext
  <2>3. f.got = SubSeq(s.sent, 1, a + 1)
    BY <1>1, <1>2, <1>5, <2>2
  <2> QED
    BY <1>2, <1>5, <2>1, <2>3
<1> QED
  BY <1>3, <1>4, <1>5

LEMMA ClientStepDelivers ==
  ASSUME AInv, AInv', Client, Delivers
  PROVE  Delivers'
<1>0. IInv /\ ClientMarks(toSrv, cli)
  BY DEF AInv
<1>1. PICK U, V : Wire(toSrv, toCli, cli, srv, U, V)
  BY <1>0 DEF IInv, Between
<1>2. C.tickets \in Nat \X Nat
  BY <1>0, SettingsAre DEF IInv
<1>3. /\ ClientEnd(cli) /\ Fins(toSrv, cli) /\ (Open(cli) => ClientStory(cli))
      /\ cli.out = <<>> /\ Silent(<<>>) /\ NoData(<<>>) /\ IsSeq(toSrv)
      /\ ClientMarks(toSrv, cli)'
  BY <1>0, <1>1, EmptyIsSeq, NoDataEmpty DEF AInv, ClientMarks, Wire, ClientRests, Silent, Fins
<1>4. /\ {"got", "sent"} \subseteq DOMAIN cli /\ IsSeq(cli.sent) /\ IsSeq(srv.sent)
      /\ cli.st = "POST_HANDSHAKE" => cli.usingEarly = FALSE
      /\ Forth(toSrv, cli, srv) /\ Back(toCli, srv, cli) /\ FinishedFirst(cli, srv)
      /\ ServerTold(srv)
  BY DEF Delivers, Clear, ServerTold
<1>4a. {"st", "ret", "enc", "out", "cs", "exp", "usingEarly", "got", "sent"} \subseteq DOMAIN cli
  BY <1>3, <1>4 DEF ClientEnd, ClientEndFields
\* The client and its stream, from the call that made it f.
<1>5. ASSUME NEW f, ClientGoes(f), NoData(f.out), f.sent = cli.sent, Extends(cli, f),
             ClientStays(cli, f), f.st = "POST_HANDSHAKE" => f.usingEarly = FALSE,
             srv' = srv, {"got", "sent"} \subseteq DOMAIN f,
             \E a \in 0..Len(srv.sent) : /\ f.got = SubSeq(srv.sent, 1, a)
                                         /\ Open(f) => Carries(toCli', a, srv.sent, Nat)
      PROVE  Delivers'
  <2>1. cli' = Sent(f) /\ toSrv' = toSrv \o f.out
    BY <1>5 DEF ClientGoes
  <2> DEFINE d == Sent(f)
  <2>2. Alike(f, d) /\ d.got = f.got /\ d.usingEarly = f.usingEarly /\ DOMAIN d = DOMAIN f
    BY DEF Alike, Sent
  <2> HIDE DEF d
  <2>3. Forth(toSrv \o f.out, d, srv)
    BY <1>3, <1>4, <1>5, <2>2, ForthKept
  <2>4. Back(toCli', srv, d)
    BY <1>5, <2>2 DEF Back, Alike, Open
  <2>5. FinishedFirst(d, srv)
    BY <1>4, <1>5, <2>2 DEF FinishedFirst, Alike, ClientStays, SameOutcome, EarlyTaken, ClientEarly
  <2>6. Clear(d)
    BY <1>4, <1>5, <2>2 DEF Clear, Alike
  <2>7. cli' = d
    BY <2>1 DEF d
  <2> QED
    BY <1>4, <1>5, <2>1, <2>3, <2>4, <2>5, <2>6, <2>7 DEF Delivers
\* A client that reads nothing.
<1>6. ASSUME Open(cli), NEW f, f.got = cli.got, toCli' = toCli
      PROVE  \E a \in 0..Len(srv.sent) : /\ f.got = SubSeq(srv.sent, 1, a)
                                         /\ Open(f) => Carries(toCli', a, srv.sent, Nat)
  BY <1>4, <1>6 DEF Back
<1>7. CASE ClientStart
  <2> DEFINE f == SendClientHello(C, cli, now, FALSE, <<>>)
             got == cli.got
             sent == cli.sent
  <2>1. /\ Open(cli) /\ cli.st = "HANDSHAKE_START" /\ ClientGoes(f) /\ srv' = srv
        /\ toCli' = toCli
    BY <1>7 DEF ClientStart
  <2>2. Silent(f.out)
    BY <1>2, <1>3, <2>1, HelloOffered DEF ClientStory
  <2>3. Young(cli, got, sent)
    BY <1>3, <1>4a, <2>1 DEF Young, Mute
  <2>4. Young(f, got, sent)
    <3> HIDE DEF got, sent
    <3> QED
      BY <2>3, OfferYoung
  <2> HIDE DEF f
  <2>5. Extends(cli, f) /\ ClientStays(cli, f)
    BY <2>1, <2>2, ExtendsSilent DEF ClientStays
  <2>6. /\ NoData(f.out) /\ f.sent = cli.sent /\ f.got = cli.got /\ f.st # "POST_HANDSHAKE"
        /\ {"got", "sent"} \subseteq DOMAIN f
    BY <2>4 DEF Young, Mute
  <2> QED
    BY <1>5, <1>6, <2>1, <2>5, <2>6
<1>8. CASE ClientReceive
  <2> DEFINE r == Head(toCli)
             x == Input(cli, FALSE, r, "none")
             f == Finish(cli, x, FALSE)
  <2>1. Open(cli) /\ toCli # <<>> /\ ClientGoes(f) /\ srv' = srv /\ toCli' = Tail(toCli)
    BY <1>8 DEF ClientReceive
  <2>2. MessageTyped(r.msg)
    BY <1>1, <2>1, NumberedTail DEF Wire
  <2>3. ClientTurns(cli, x)
    BY <1>2, <1>3, <2>1, <2>2, RecordTurns
  <2>4. Playing(cli)
    BY <1>3, <1>4, <2>1 DEF Playing
  <2>5. ClientPlays(cli, r, x)
    BY <2>2, <2>4, RecordPlays
  <2>6. PICK U2 : ClientHolds(toSrv, x, U2, V)
    <3>1. ClientHolds(toSrv, cli, U, V)
      BY <1>1, <2>1 DEF Wire, ClientRests
    <3> QED
      BY <1>2, <3>1, ClientReads
  <2> HIDE DEF x
  <2>7. x.st = "POST_HANDSHAKE" => Traffic(x.enc) /\ x.enc.aead # <<>>
    BY <2>6 DEF ClientHolds, Sending, ClientStage
  <2>8. f = Finish(cli, x, FALSE)
    OBVIOUS
  <2> HIDE DEF f
  <2>9. /\ Extends(cli, f) /\ f.got = x.got /\ f.sent = x.sent /\ NoData(f.out)
        /\ f.usingEarly = x.usingEarly /\ f.st = x.st /\ f.ret = x.ret
    <3>1. Leaves(cli, x, f)
      BY <1>3, <2>1, <2>3, <2>5, <2>7, <2>8, FinishExtends
    <3> QED
      BY <3>1 DEF Leaves
  <2>10. ClientTurns(cli, f)
    BY <2>3, <2>8, FinishTurns
  <2>11. f.sent = cli.sent /\ (f.st = "POST_HANDSHAKE" => f.usingEarly = FALSE)
    BY <1>4, <2>5, <2>9 DEF ClientPlays, Parted
  <2>12. \E a \in 0..Len(srv.sent) : /\ f.got = SubSeq(srv.sent, 1, a)
                                     /\ Open(f) => Carries(toCli', a, srv.sent, Nat)
    <3>1. \E a \in 0..Len(srv.sent) : /\ x.got = SubSeq(srv.sent, 1, a)
                                      /\ Open(x) => Carries(Tail(toCli), a, srv.sent, Nat)
      BY <1>4, <2>1, <2>5, BackRead DEF r
    <3>2. Open(f) => Open(x)
      BY <2>9 DEF Open
    <3> QED
      BY <2>1, <2>9, <3>1, <3>2
  <2>13. {"got", "sent"} \subseteq DOMAIN f
    <3>1. {"enc", "out", "ret", "st"} \subseteq DOMAIN x /\ FALSE \in BOOLEAN
      BY <2>3 DEF ClientTurns, ClientEnd, ClientEndFields
    <3>2. PICK o : Concluded(x, o, f, FALSE)
      BY <2>8, <3>1, FinishedAs
    <3> QED
      BY <2>5, <3>2 DEF ClientPlays, Concluded, Same
  <2>14. ClientStays(cli, f)
    BY <2>10 DEF ClientTurns
  <2> QED
    BY <1>5, <2>1, <2>9, <2>11, <2>12, <2>13, <2>14
\* ptls_send
<1>9. ASSUME NEW m, m.mt = "DATA", m.early <=> cli.st # "POST_HANDSHAKE", Open(cli),
             cli.usingEarly \/ cli.st = "POST_HANDSHAKE", NEW f, f = PtlsSend(cli, m),
             ClientGoes(f), srv' = srv, toCli' = toCli
      PROVE  Delivers'
  <2>1. ClientHolds(toSrv, cli, U, V)
    BY <1>1, <1>9 DEF Wire, ClientRests
  <2>2. Traffic(cli.enc) /\ cli.enc.aead # <<>>
    BY <1>9, <2>1 DEF ClientHolds, Sending, ClientStage
  <2>3. {"enc", "out", "sent", "ret"} \subseteq DOMAIN cli
    BY <1>4a
  <2>4. /\ Same(cli, f, {"enc", "out", "needsKU", "reqKU", "sent"})
        /\ f.sent = Append(cli.sent, m) /\ Silent(f.out)
        /\ \A q, a, sent, at : Carries(q, a, sent, at) =>
              Carries(q \o f.out, a, Append(sent, m), at)
        /\ \A q, tp : \A i \in 0..Len(q) : Unlocks(q, i, tp, cli) => Unlocks(q \o f.out, i, tp, f)
    BY <1>3, <1>9, <2>2, <2>3, SendIs
  <2>5. ClientStays(cli, f)
    <3>1. ClientTurns(cli, f)
      BY <1>3, <1>9, SendTurns
    <3> QED
      BY <3>1 DEF ClientTurns
  <2>6. /\ f.st = cli.st /\ f.got = cli.got /\ f.usingEarly = cli.usingEarly /\ f.ret = cli.ret
        /\ DOMAIN f = DOMAIN cli
    BY <1>4a, <2>4 DEF Same
  <2>7. Extends(cli, f)
    BY <2>4 DEF Extends, Silent, IsFin
  <2>8. \A a, at : Carries(toSrv, a, cli.sent, at) => Carries(toSrv \o f.out, a, f.sent, at)
    BY <2>4
  <2> DEFINE d == Sent(f)
  <2>9. Alike(f, d) /\ d.got = f.got /\ d.usingEarly = f.usingEarly /\ DOMAIN d = DOMAIN f
    BY DEF Alike, Sent
  <2>10. cli' = d /\ toSrv' = toSrv \o f.out
    BY <1>9 DEF ClientGoes
  <2> HIDE DEF d
  <2>11. Forth(toSrv \o f.out, d, srv)
    BY <1>3, <1>4, <1>9, <2>4, <2>5, <2>6, <2>7, <2>8, <2>9, ForthSent
  <2>12. Back(toCli, srv, d)
    BY <1>4, <2>6, <2>9 DEF Back, Alike, Open
  <2>13. FinishedFirst(d, srv)
    BY <1>4, <2>5, <2>6, <2>9
       DEF FinishedFirst, Alike, ClientStays, SameOutcome, EarlyTaken, ClientEarly
  <2>14. IsSeq(f.sent)
    BY <1>4, <2>4, AppendIs
  <2>15. Clear(d)
    BY <1>4, <2>6, <2>9, <2>14 DEF Clear, Alike
  <2> QED
    BY <1>4, <1>9, <2>10, <2>11, <2>12, <2>13, <2>15 DEF Delivers
<1>10. CASE ClientSendEarly
  <2> DEFINE m == Data(TRUE, Len(cli.sent) + 1)
             f == PtlsSend(cli, m)
  <2>1. m.mt = "DATA" /\ m.early
    BY DEF Data
  <2>2. Open(cli) /\ cli.usingEarly /\ ClientGoes(f) /\ srv' = srv /\ toCli' = toCli
    BY <1>10 DEF ClientSendEarly
  <2> HIDE DEF m
  <2>3. cli.st # "POST_HANDSHAKE"
    BY <1>4, <2>2
  <2>4. f = PtlsSend(cli, m)
    OBVIOUS
  <2> HIDE DEF f
  <2> QED
    BY <1>9, <2>1, <2>2, <2>3, <2>4
<1>11. CASE ClientSend
  <2> DEFINE m == Data(FALSE, Len(AppSent(cli)) + 1)
             f == PtlsSend(cli, m)
  <2>1. m.mt = "DATA" /\ ~m.early
    BY DEF Data
  <2>2. Open(cli) /\ cli.ret = "OK" /\ ClientGoes(f) /\ srv' = srv /\ toCli' = toCli
    BY <1>11 DEF ClientSend, Open
  <2> HIDE DEF m
  <2>3. cli.st = "POST_HANDSHAKE"
    BY <1>1, <2>2 DEF Wire, ClientRests, ClientHolds, ClientStage
  <2>4. f = PtlsSend(cli, m)
    OBVIOUS
  <2> HIDE DEF f
  <2> QED
    BY <1>9, <2>1, <2>2, <2>3, <2>4
\* Nothing is sent or read.
<1>12. ASSUME NEW f, cli' = f, Same(cli, f, {"ret", "needsKU", "reqKU"}), Open(cli),
              UNCHANGED <<srv, toSrv, toCli>>
       PROVE  Delivers'
  <2>1. /\ f.got = cli.got /\ f.sent = cli.sent /\ f.out = <<>> /\ f.enc = cli.enc
        /\ f.st = cli.st /\ f.usingEarly = cli.usingEarly /\ f.cs = cli.cs /\ f.exp = cli.exp
        /\ DOMAIN f = DOMAIN cli
    BY <1>3, <1>4a, <1>12 DEF Same
  <2>2. Extends(cli, f)
    BY <1>12, <2>1, ExtendsNone
  <2>3. ClientStays(cli, f)
    <3>1. Same(cli, f, {"ret", "dec", "got", "saved", "asserts", "needsKU", "reqKU", "certReq"})
      BY <1>12 DEF Same
    <3>2. Fins(cli.out, cli)
      BY <1>3, SilentIs
    <3>3. ClientTurns(cli, f)
      BY <1>3, <1>12, <3>1, <3>2, ClientRemains
    <3> QED
      BY <3>3 DEF ClientTurns
  <2>4. NoData(f.out)
    BY <1>3, <2>1
  <2>5. Alike(f, f)
    BY DEF Alike
  <2>6. Forth(toSrv \o f.out, f, srv)
    BY <1>3, <1>4, <2>1, <2>2, <2>3, <2>4, <2>5, ForthKept
  <2>7. toSrv \o f.out = toSrv
    BY <1>3, <2>1, SeqSumEmpty
  <2>8. Back(toCli, srv, f)
    BY <1>4, <1>12, <2>1 DEF Back
  <2>9. FinishedFirst(f, srv) /\ Clear(f)
    BY <1>4, <2>1, <2>3
       DEF FinishedFirst, Clear, ClientStays, SameOutcome, EarlyTaken, ClientEarly
  <2> QED
    BY <1>4, <1>12, <2>6, <2>7, <2>8, <2>9 DEF Delivers
<1>13. CASE ClientUpdateKey
  <2> DEFINE f == [cli EXCEPT !.needsKU = TRUE, !.reqKU = TRUE]
  <2>1. cli' = f /\ UNCHANGED <<srv, toSrv, toCli>> /\ Open(cli)
    BY <1>13 DEF ClientUpdateKey, Open
  <2>2. Same(cli, f, {"ret", "needsKU", "reqKU"})
    BY DEF Same
  <2> HIDE DEF f
  <2> QED
    BY <1>12, <2>1, <2>2
<1>14. CASE ClientEof
  <2> DEFINE f == [cli EXCEPT !.ret = "EOF"]
  <2>1. cli' = f /\ UNCHANGED <<srv, toSrv, toCli>> /\ Open(cli)
    BY <1>14 DEF ClientEof
  <2>2. Same(cli, f, {"ret", "needsKU", "reqKU"})
    BY DEF Same
  <2> HIDE DEF f
  <2> QED
    BY <1>12, <2>1, <2>2
<1> QED
  BY <1>7, <1>8, <1>10, <1>11, <1>13, <1>14 DEF Client

-----------------------------------------------------------------------------
(* The handshake of the server. *)

HeardFields == {"st", "ret", "sched", "enc", "dec", "pend", "pendApp", "cs", "exp", "expEarly",
                "skipped", "tickets", "issued", "asserts", "isPsk", "share", "ech"}

\* The server e, with what `early` is to it: the secret of the early data that
\* it accepts.  It skips records only without one, and has early data to read
\* only with one.
Heard(e, got, sent, early) ==
    /\ Mute(e, got, sent) /\ HeardFields \subseteq DOMAIN e /\ e.expEarly = early
    /\ e.tickets \in Nat
    /\ e.skipped # <<>> => early = <<>>
    /\ e.pend # <<>> => early # <<>>

\* What comes of a ClientHello, unless it was a stateless retry.
Sober(f, got, sent, early) ==
    /\ Heard(f, got, sent, early) /\ f.st # "POST_HANDSHAKE" /\ f.ret # "STATELESS_RETRY"
    /\ Open(f) => /\ f.st # "EXPECT_CLIENT_HELLO"
                  /\ f.st \in EndStates => f.pendApp = <<AppSecret(f.exp)>>

LEMMA NoDataJoin ==
  ASSUME NEW p, NoData(p), NEW q, NoData(q)
  PROVE  NoData(p \o q)
<1> DEFINE all == p \o q
<1>1. /\ IsSeq(p) /\ \A i \in 1..Len(p) : ~IsData(p[i])
      /\ IsSeq(q) /\ \A i \in 1..Len(q) : ~IsData(q[i])
  BY DEF NoData
<1>2. /\ IsSeq(all) /\ Len(p) \in Nat
      /\ \A i \in 1..Len(p) : all[i] = p[i]
      /\ \A i \in 1..Len(q) : all[Len(p) + i] = q[i]
      /\ \A i \in 1..Len(all) : i \in 1..Len(p) \/ i - Len(p) \in 1..Len(q)
  BY <1>1, SeqSum, LenOfSeq
<1> HIDE DEF all
<1>3. ASSUME NEW i \in 1..Len(all) PROVE ~IsData(all[i])
  <2>1. CASE i \in 1..Len(p)
    BY <1>1, <1>2, <2>1 DEF IsData
  <2>2. CASE i - Len(p) \in 1..Len(q)
    <3>1. PICK j \in 1..Len(q) : j = i - Len(p)
      BY <2>2
    <3>2. i = Len(p) + j
      BY <1>2, <3>1
    <3>3. all[i] = q[j]
      BY <1>2, <3>2
    <3> QED
      BY <1>1, <3>3 DEF IsData
  <2> QED
    BY <1>2, <2>1, <2>2
<1> QED
  BY <1>2, <1>3 DEF NoData, all

LEMMA HeardSame ==
  ASSUME NEW e, NEW got, NEW sent, NEW early, Heard(e, got, sent, early), NEW f, NEW changed,
         Same(e, f, changed),
         {"got", "sent", "out", "expEarly", "skipped", "pend", "tickets"} \intersect changed = {}
  PROVE  Heard(f, got, sent, early)
<1>1. Mute(f, got, sent)
  BY MuteSame DEF Heard
<1>2. /\ DOMAIN f = DOMAIN e /\ f.expEarly = e.expEarly /\ f.skipped = e.skipped
      /\ f.pend = e.pend /\ f.tickets = e.tickets
  BY DEF Same, Heard, HeardFields
<1> QED
  BY <1>1, <1>2 DEF Heard

\* What the emitters leave alone of a server.
Spoke(e, f) == /\ f.st = e.st /\ f.ret = e.ret /\ f.cs = e.cs /\ f.pend = e.pend /\ f.exp = e.exp
               /\ f.pendApp = e.pendApp /\ f.skipped = e.skipped /\ f.expEarly = e.expEarly
               /\ f.tickets = e.tickets

LEMMA HeardPush ==
  ASSUME NEW e, NEW got, NEW sent, NEW early, Heard(e, got, sent, early), NEW m, m.mt # "DATA"
  PROVE  /\ Heard(Push(e, m), got, sent, early) /\ Spoke(e, Push(e, m))
         /\ Heard(Emit(e, m), got, sent, early) /\ Spoke(e, Emit(e, m))
<1> DEFINE t == Emit(e, m)
           f == Push(e, m)
<1>1. Mute(t, got, sent) /\ Mute(f, got, sent)
  BY MuteEmit DEF Heard
<1>2. Same(e, t, {"enc", "out"}) /\ HeardFields \subseteq DOMAIN e
  BY DEF Emit, Same, Heard
<1>3. Same(t, f, {"sched"})
  BY DEF Push, Same
<1> HIDE DEF t, f
<1>4. /\ DOMAIN t = DOMAIN e /\ t.expEarly = e.expEarly /\ t.skipped = e.skipped /\ t.pend = e.pend
      /\ t.st = e.st /\ t.ret = e.ret /\ t.cs = e.cs /\ t.exp = e.exp /\ t.pendApp = e.pendApp
      /\ t.tickets = e.tickets
  BY <1>2 DEF Same, HeardFields
<1>5. /\ DOMAIN f = DOMAIN t /\ f.expEarly = t.expEarly /\ f.skipped = t.skipped /\ f.pend = t.pend
      /\ f.st = t.st /\ f.ret = t.ret /\ f.cs = t.cs /\ f.exp = t.exp /\ f.pendApp = t.pendApp
      /\ f.tickets = t.tickets
  BY <1>2, <1>3, <1>4 DEF Same, HeardFields
<1>6. Heard(t, got, sent, early) /\ Spoke(e, t)
  BY <1>1, <1>2, <1>4 DEF Heard, Spoke
<1>7. Heard(f, got, sent, early) /\ Spoke(e, f)
  BY <1>1, <1>2, <1>4, <1>5 DEF Heard, Spoke
<1> QED
  BY <1>6, <1>7 DEF t, f

LEMMA HeardCCS ==
  ASSUME NEW e, NEW got, NEW sent, NEW early, Heard(e, got, sent, early)
  PROVE  Heard(PushCCS(e), got, sent, early) /\ Spoke(e, PushCCS(e))
<1> DEFINE f == PushCCS(e)
<1>1. Mute(f, got, sent)
  BY MuteCCS DEF Heard
<1>2. Same(e, f, {"out", "ccs"}) /\ HeardFields \subseteq DOMAIN e
  BY DEF PushCCS, Same, Heard
<1> HIDE DEF f
<1>3. /\ DOMAIN f = DOMAIN e /\ f.expEarly = e.expEarly /\ f.skipped = e.skipped /\ f.pend = e.pend
      /\ f.st = e.st /\ f.ret = e.ret /\ f.cs = e.cs /\ f.exp = e.exp /\ f.pendApp = e.pendApp
      /\ f.tickets = e.tickets
  BY <1>2 DEF Same, HeardFields
<1>4. Heard(f, got, sent, early) /\ Spoke(e, f)
  BY <1>1, <1>2, <1>3 DEF Heard, Spoke
<1> QED
  BY <1>4 DEF f

LEMMA SoberFail ==
  ASSUME NEW e, NEW got, NEW sent, NEW early, Heard(e, got, sent, early),
         e.st # "POST_HANDSHAKE", NEW alert,
         alert \notin {"IN_PROGRESS", "OK", "ASYNC_OPERATION", "STATELESS_RETRY"}
  PROVE  Sober(Fail(e, alert), got, sent, early)
<1> DEFINE f == Fail(e, alert)
<1>1. Same(e, f, {"ret"}) /\ f.ret = alert /\ f.st = e.st
  BY DEF Fail, Same, Heard, HeardFields
<1> HIDE DEF f
<1>2. Heard(f, got, sent, early)
  BY <1>1, HeardSame
<1>3. Sober(f, got, sent, early)
  BY <1>1, <1>2 DEF Sober, Open
<1> QED
  BY <1>3 DEF f

\* The rest of the server's flight, from its Finished on.
LEMMA FlightSober ==
  ASSUME NEW e, NEW got, NEW sent, NEW early, Heard(e, got, sent, early), NEW cfg, NEW now0
  PROVE  Sober(FinishFlight(cfg, e, now0), got, sent, early)
<1> DEFINE fin == [mt |-> "FIN", mac |-> VerifyData(e.sched, e.enc.secret)]
           e1 == SendFinished(e)
           k == Extract(e1.sched, Zero)
           e2 == ApplicationKeys(e1)
           e3 == AwaitClient(cfg, e2)
           nst == SessionTicket(cfg, e3, ResumptionAhead(cfg, e3), now0)
           copies == [i \in 1..e3.tickets |-> Sealed([e3.enc EXCEPT !.seq = @ + i - 1], nst)]
           e4 == EmitCopies(e3, nst, e3.tickets)
           e5 == SendTickets(cfg, e3, now0)
<1>1. FinishFlight(cfg, e, now0) = e5
  BY DEF FinishFlight
<1>2. Heard(e1, got, sent, early)
  <2>1. fin.mt # "DATA"
    OBVIOUS
  <2> HIDE DEF fin
  <2>2. Heard(Push(e, fin), got, sent, early)
    BY <2>1, HeardPush
  <2> QED
    BY <2>2 DEF SendFinished, fin
<1> HIDE DEF e1
<1>3. Heard(e2, got, sent, early) /\ e2.pendApp = <<AppSecret(e2.exp)>>
  <2> DEFINE mine == SetupTraffic(e1.cs[1], Derive(k, "s_ap_traffic"), 3)
             read == Derive(k, "c_ap_traffic")
             exp  == Derive(k, "exp_master")
  <2>1. AppSecret(exp) = read
    BY AppSecretIs
  <2>2. /\ Same(e1, e2, {"sched", "enc", "pendApp", "exp", "asserts"})
        /\ e2.pendApp = <<read>> /\ e2.exp = exp
    BY <1>2 DEF ApplicationKeys, Same, Heard, HeardFields
  <2> HIDE DEF e2, read, exp
  <2>3. Heard(e2, got, sent, early)
    BY <1>2, <2>2, HeardSame
  <2> QED
    BY <2>1, <2>2, <2>3
<1> HIDE DEF e2
<1>4. /\ Heard(e3, got, sent, early) /\ e3.pendApp = <<AppSecret(e3.exp)>>
      /\ e3.st \in {"EXPECT_FINISHED", "EXPECT_END_OF_EARLY_DATA", "EXPECT_CERTIFICATE"}
  <2>1. /\ Same(e2, e3, {"dec", "pend", "st"}) /\ e3.pend \in {e2.pend, <<>>}
        /\ e3.st \in {"EXPECT_FINISHED", "EXPECT_END_OF_EARLY_DATA", "EXPECT_CERTIFICATE"}
    BY <1>3 DEF AwaitClient, Same, Heard, HeardFields
  <2> HIDE DEF e3
  <2>2. /\ DOMAIN e3 = DOMAIN e2 /\ e3.expEarly = e2.expEarly /\ e3.skipped = e2.skipped
        /\ e3.pendApp = e2.pendApp /\ e3.exp = e2.exp /\ e3.tickets = e2.tickets
    BY <1>3, <2>1 DEF Same, Heard, HeardFields
  <2>3. Mute(e3, got, sent)
    BY <1>3, <2>1, MuteSame DEF Heard
  <2> QED
    BY <1>3, <2>1, <2>2, <2>3 DEF Heard
<1> HIDE DEF e3
<1>5. nst.mt = "NST"
  BY DEF SessionTicket
<1>5a. /\ Same(e4, e5, {"issued", "asserts", "ret"})
       /\ "ret" \in DOMAIN e4 => e5.ret \in {"IN_PROGRESS", "OK"}
  BY DEF SendTickets, Same
<1> HIDE DEF nst
<1>6. Heard(e4, got, sent, early) /\ Same(e3, e4, {"enc", "out"})
  <2>1. Same(e3, e4, {"enc", "out"}) /\ e4.out = e3.out \o copies
    BY <1>4 DEF EmitCopies, Same, Heard, Mute
  <2> HIDE DEF e4
  <2>2. NoData(copies)
    <3>1. PICK n \in Nat : n = e3.tickets
      BY <1>4 DEF Heard
    <3>2. \A i \in 1..n : Sealed([e3.enc EXCEPT !.seq = @ + i - 1], nst).msg = nst
      BY SealedIs
    <3>3. copies = [i \in 1..n |-> Sealed([e3.enc EXCEPT !.seq = @ + i - 1], nst)]
      BY <3>1
    <3>4. \A i \in 1..n : ~IsData(copies[i])
      BY <1>5, <3>2, <3>3 DEF IsData
    <3>5. IsSeq(copies) /\ Len(copies) = n
      <4> HIDE DEF copies
      <4> DEFINE g(i) == Sealed([e3.enc EXCEPT !.seq = @ + i - 1], nst)
      <4>1. copies = [i \in 1..n |-> g(i)]
        BY <3>3
      <4> HIDE DEF g
      <4>2. copies \in Seq({g(i) : i \in 1..n})
        BY <4>1
      <4>3. Len(copies) = n
        BY <4>1
      <4> QED
        BY <4>2, <4>3 DEF IsSeq
    <3> HIDE DEF copies
    <3> QED
      BY <3>4, <3>5 DEF NoData
  <2> HIDE DEF copies
  <2>3. NoData(e3.out \o copies)
    BY <1>4, <2>2, NoDataJoin DEF Heard, Mute
  <2>4. /\ DOMAIN e4 = DOMAIN e3 /\ e4.got = e3.got /\ e4.sent = e3.sent
        /\ e4.expEarly = e3.expEarly /\ e4.skipped = e3.skipped /\ e4.pend = e3.pend
        /\ e4.tickets = e3.tickets
    BY <1>4, <2>1 DEF Same, Heard, HeardFields, Mute
  <2>5. Mute(e4, got, sent)
    BY <1>4, <2>1, <2>3, <2>4 DEF Heard, Mute
  <2> QED
    BY <1>4, <2>1, <2>4, <2>5 DEF Heard
<1>7. Same(e4, e5, {"issued", "asserts", "ret"}) /\ e5.ret \in {"IN_PROGRESS", "OK"}
  BY <1>5a, <1>6 DEF Heard, HeardFields
<1> HIDE DEF e4, e5
<1>8. Heard(e5, got, sent, early)
  BY <1>6, <1>7, HeardSame
<1>9. e5.st = e3.st /\ e5.pendApp = e3.pendApp /\ e5.exp = e3.exp
  BY <1>4, <1>6, <1>7 DEF Same, Heard, HeardFields
<1>10. Sober(e5, got, sent, early)
  BY <1>4, <1>7, <1>8, <1>9 DEF Sober
<1> QED
  BY <1>1, <1>10

LEMMA SignedSober ==
  ASSUME NEW e, NEW got, NEW sent, NEW early, Heard(e, got, sent, early),
         e.st # "POST_HANDSHAKE", NEW cfg, NEW signs, NEW now0
  PROVE  Sober(SignAndFinish(cfg, e, signs, now0), got, sent, early)
<1> DEFINE m == [mt |-> "CV", mac |-> SignData(e.sched, "server")]
           cv == Push(e, m)
           later == [e EXCEPT !.st = "GENERATING_CERTIFICATE_VERIFY", !.ret = "ASYNC_OPERATION"]
<1>1. Sober(FinishFlight(cfg, cv, now0), got, sent, early)
  <2>1. m.mt # "DATA"
    OBVIOUS
  <2> HIDE DEF m
  <2>2. Heard(cv, got, sent, early)
    BY <2>1, HeardPush
  <2> HIDE DEF cv
  <2> QED
    BY <2>2, FlightSober
<1>2. Sober(later, got, sent, early)
  <2>1. /\ Same(e, later, {"st", "ret"}) /\ later.st = "GENERATING_CERTIFICATE_VERIFY"
        /\ later.ret = "ASYNC_OPERATION"
    BY DEF Same, Heard, HeardFields
  <2> HIDE DEF later
  <2>2. Heard(later, got, sent, early)
    BY <2>1, HeardSame
  <2> QED
    BY <2>1, <2>2 DEF Sober, EndStates
<1>3. Sober(Fail(e, "INTERNAL_ERROR"), got, sent, early)
  BY SoberFail
<1> HIDE DEF cv, later
<1> QED
  BY <1>1, <1>2, <1>3 DEF SignAndFinish, cv, later, m

LEMMA AnswerSober ==
  ASSUME NEW e, NEW got, NEW sent, NEW early, Heard(e, got, sent, early),
         e.st # "POST_HANDSHAKE", NEW cfg, NEW ch, NEW signs, NEW now0
  PROVE  Sober(SendServerFlight(cfg, e, ch, signs, now0), got, sent, early)
<1> DEFINE ee == [mt |-> "EE", name |-> e.name # "none", alpn |-> e.alpn,
                  early |-> e.pend # <<>>,
                  retryConfigs |-> e.ech.offered /\ ~e.ech.accepted /\ cfg.opener # "none"]
           cr == [mt |-> "CR"]
           cert == [mt |-> "CERT", has |-> TRUE]
           s1 == Push(e, ee)
           x  == Push(s1, cr)
           s2 == IF cfg.clientAuth THEN Push(s1, cr) ELSE s1
           s3 == Push(s2, cert)
<1>1. SendServerFlight(cfg, e, ch, signs, now0) =
         IF e.isPsk THEN FinishFlight(cfg, s1, now0) ELSE SignAndFinish(cfg, s3, signs, now0)
  BY DEF SendServerFlight
<1>2. ee.mt # "DATA" /\ cr.mt # "DATA" /\ cert.mt # "DATA"
  OBVIOUS
<1> HIDE DEF ee, cr, cert
<1>3. Heard(s1, got, sent, early) /\ s1.st = e.st
  <2>1. ee.mt # "DATA"
    BY <1>2
  <2>2. Heard(s1, got, sent, early) /\ Spoke(e, s1)
    BY <2>1, HeardPush
  <2> QED
    BY <2>2 DEF Spoke
<1> HIDE DEF s1
<1>4. Heard(x, got, sent, early) /\ x.st = s1.st
  BY <1>2, <1>3, HeardPush DEF Spoke
<1>5. s2 = IF cfg.clientAuth THEN x ELSE s1
  OBVIOUS
<1> HIDE DEF x, s2
<1>6. Heard(s2, got, sent, early) /\ s2.st = e.st
  BY <1>3, <1>4, <1>5
<1>7. Heard(s3, got, sent, early) /\ s3.st = s2.st
  BY <1>2, <1>6, HeardPush DEF Spoke
<1> HIDE DEF s3
<1>8. Sober(FinishFlight(cfg, s1, now0), got, sent, early)
  BY <1>3, FlightSober
<1>9. Sober(SignAndFinish(cfg, s3, signs, now0), got, sent, early)
  BY <1>6, <1>7, SignedSober
<1> QED
  BY <1>1, <1>8, <1>9

\* Early data that was offered and not accepted will be skipped.
LEMMA HelloSober ==
  ASSUME NEW e, NEW got, NEW sent, NEW early, Heard(e, got, sent, early),
         e.pend = <<>> => early = <<>>,
         e.st # "POST_HANDSHAKE", NEW cfg, NEW ch, NEW ks, NEW signs, NEW now0
  PROVE  Sober(SendHello(cfg, e, ch, ks, signs, now0), got, sent, early)
<1> DEFINE bare  == ServerHelloMessage(e, FALSE, ks, e.isPsk, <<>>, ch)
           hello == Confirmed(e, bare, "sh")
           e0    == Push(e, hello)
           e1    == PushCCS(e0)
           f     == HandshakeKeys(e1, ch, ks)
           refused == ch.early /\ ~(e1.pend # <<>>)
<1>1. SendHello(cfg, e, ch, ks, signs, now0) = SendServerFlight(cfg, f, ch, signs, now0)
  BY DEF SendHello
<1>2. hello.mt # "DATA"
  <2>1. "mt" \in DOMAIN bare /\ bare.mt = "SH"
    BY DEF ServerHelloMessage
  <2> HIDE DEF bare
  <2>2. hello.mt = "SH"
    BY <2>1 DEF Confirmed
  <2> HIDE DEF hello
  <2> QED
    BY <2>2
<1> HIDE DEF hello
<1>3. Heard(e0, got, sent, early) /\ e0.st = e.st /\ e0.pend = e.pend
  BY <1>2, HeardPush DEF Spoke
<1> HIDE DEF e0
<1>4. Heard(e1, got, sent, early) /\ e1.st = e.st /\ e1.pend = e.pend
  BY <1>3, HeardCCS DEF Spoke
<1> HIDE DEF e1
<1>5. /\ Same(e1, f, {"sched", "enc", "asserts", "ech", "pend", "dec", "skipped"})
      /\ f.pend # <<>> => e1.pend # <<>>
      /\ f.skipped = IF refused THEN <<0>> ELSE e1.skipped
  <2>1. {"sched", "enc", "asserts", "ech", "pend", "dec", "skipped"} \subseteq DOMAIN e1
    BY <1>4 DEF Heard, HeardFields
  <2> QED
    BY <2>1 DEF HandshakeKeys, Same
<1> HIDE DEF f
<1>6. /\ DOMAIN f = DOMAIN e1 /\ f.expEarly = e1.expEarly /\ f.st = e1.st /\ f.tickets = e1.tickets
      /\ HeardFields \subseteq DOMAIN f
  BY <1>4, <1>5 DEF Same, Heard, HeardFields
<1>7. Mute(f, got, sent)
  BY <1>4, <1>5, MuteSame DEF Heard
<1>8. f.skipped # <<>> => early = <<>>
  <2>1. CASE refused
    BY <1>4, <2>1
  <2>2. CASE ~refused
    <3>1. f.skipped = e1.skipped
      BY <1>5, <2>2
    <3> QED
      BY <1>4, <3>1 DEF Heard
  <2> QED
    BY <2>1, <2>2
<1>9. f.pend # <<>> => early # <<>>
  BY <1>4, <1>5 DEF Heard
<1>10. Heard(f, got, sent, early) /\ f.st # "POST_HANDSHAKE"
  <2> HIDE DEF refused
  <2> QED
    BY <1>4, <1>6, <1>7, <1>8, <1>9 DEF Heard
<1>11. Sober(SendServerFlight(cfg, f, ch, signs, now0), got, sent, early)
  BY <1>10, AnswerSober
<1> QED
  BY <1>1, <1>11

\* A server that has a ClientHello to handle.
Hails(e, got, sent) ==
    /\ Heard(e, got, sent, <<>>) /\ e.pend = <<>> /\ e.st \in ServerHelloStates
    /\ e.ret # "STATELESS_RETRY"
    /\ e.st = "EXPECT_CLIENT_HELLO" => e.skipped = <<>>

\* What it makes of it: early data is accepted with the first one only.
Begun(e, f, got, sent) ==
    \E early : Sober(f, got, sent, early) /\ (early # <<>> => e.st = "EXPECT_CLIENT_HELLO")

\* A stateless retry keeps nothing.
Forgets(e, f, got, sent) ==
    /\ Heard(f, got, sent, <<>>) /\ f.ret = "STATELESS_RETRY" /\ f.st = e.st
    /\ e.st = "EXPECT_CLIENT_HELLO"

LEMMA HailsFail ==
  ASSUME NEW e, NEW got, NEW sent, Hails(e, got, sent), NEW alert,
         alert \notin {"IN_PROGRESS", "OK", "ASYNC_OPERATION", "STATELESS_RETRY"}
  PROVE  Begun(e, Fail(e, alert), got, sent)
<1>1. Sober(Fail(e, alert), got, sent, <<>>)
  BY SoberFail DEF Hails, ServerHelloStates
<1> QED
  BY <1>1 DEF Begun

LEMMA HailsSame ==
  ASSUME NEW e, NEW got, NEW sent, Hails(e, got, sent), NEW f, NEW changed, Same(e, f, changed),
         {"got", "sent", "out", "expEarly", "skipped", "pend", "tickets", "st", "ret"}
            \intersect changed = {}
  PROVE  Hails(f, got, sent) /\ f.st = e.st
<1>1. Heard(f, got, sent, <<>>)
  BY HeardSame DEF Hails
<1>2. f.st = e.st /\ f.pend = e.pend /\ f.ret = e.ret /\ f.skipped = e.skipped
  BY DEF Same, Hails, Heard, HeardFields
<1> QED
  BY <1>1, <1>2 DEF Hails

LEMMA AcceptSober ==
  ASSUME NEW cfg, cfg.maxTickets \in Nat, NEW e, NEW got, NEW sent, Hails(e, got, sent),
         NEW ch, ch.tickets \in Nat \X Nat, NEW psk, psk.early => e.st = "EXPECT_CLIENT_HELLO",
         NEW ks, NEW modes, NEW dhe, NEW signs, NEW now0
  PROVE  Begun(e, AcceptWith(cfg, e, ch, ks, psk, modes, dhe, signs, now0), got, sent)
<1> DEFINE alert == AcceptAlert(cfg, e, ch, ks, psk, dhe)
           tests == <<
             <<BinderAlert(cfg, e, ch, psk) # "none", "DECRYPT_ERROR">>,
             <<cfg.psk # <<>> /\ ~psk.found, "UNKNOWN_PSK_IDENTITY">>,
             <<dhe /\ ks = <<>>, "HANDSHAKE_FAILURE">> >>
           count == TicketCount(cfg, ch, psk.found, modes)
           share == IF dhe THEN ks ELSE <<>>
           x1 == [e EXCEPT !.sched = Update(@, ch), !.isPsk = psk.found,
                           !.share = IF dhe THEN ks ELSE psk.kx, !.tickets = count]
           x2 == OpenEarly(cfg, x1, psk)
           key == SetupTraffic(x1.cs[1], Derive(x1.sched, "c_e_traffic"), 1)
           exp == Derive(x1.sched, "e_exp_master")
           keyed == [x1 EXCEPT !.pend = <<<<>>>>, !.expEarly = exp, !.dec = key]
<1>1. AcceptWith(cfg, e, ch, ks, psk, modes, dhe, signs, now0) =
         IF alert # "none" THEN Fail(e, alert)
         ELSE SendHello(cfg, x2, ch, share, signs, now0)
  BY DEF AcceptWith
<1>2. alert = FirstAlert(tests)
  BY DEF AcceptAlert
<1>3. DOMAIN tests = 1..3
      /\ \A i \in 1..3 : tests[i][2] \notin {"IN_PROGRESS", "OK", "ASYNC_OPERATION", "STATELESS_RETRY"}
  OBVIOUS
<1> HIDE DEF tests, alert, share
<1>4. alert # "none" => Begun(e, Fail(e, alert), got, sent)
  <2>1. \/ alert \notin {"IN_PROGRESS", "OK", "ASYNC_OPERATION", "STATELESS_RETRY"}
        \/ alert = "none"
    BY <1>2, <1>3, AlertIs
  <2> QED
    BY <2>1, HailsFail
<1>5. count \in Nat
  BY TicketsAreCounted
<1> HIDE DEF count
<1>6. Same(e, x1, {"sched", "isPsk", "share", "tickets"}) /\ x1.tickets = count
  BY DEF Same, Hails, Heard, HeardFields
<1>7. exp # <<>> /\ <<<<>>>> # <<>>
  BY DEF Derive, DeriveFrom
<1> HIDE DEF x1, key, exp
<1>8. /\ Heard(x1, got, sent, <<>>) /\ x1.st = e.st /\ x1.pend = <<>> /\ x1.skipped = e.skipped
  <2>1. Mute(x1, got, sent)
    BY <1>6, MuteSame DEF Hails, Heard
  <2>2. /\ DOMAIN x1 = DOMAIN e /\ x1.expEarly = e.expEarly /\ x1.skipped = e.skipped
        /\ x1.pend = e.pend /\ x1.st = e.st
    BY <1>6 DEF Same, Hails, Heard, HeardFields
  <2> QED
    BY <1>5, <1>6, <2>1, <2>2 DEF Hails, Heard
<1>9. x2 = IF ~(psk.early /\ cfg.maxEarly # 0) THEN x1 ELSE keyed
  BY DEF OpenEarly, key, exp
<1>10. /\ Same(x1, keyed, {"pend", "expEarly", "dec"}) /\ keyed.pend = <<<<>>>>
       /\ keyed.expEarly = exp
  BY <1>8 DEF Same, Heard, HeardFields
<1> HIDE DEF x2, keyed
<1>11. CASE psk.early /\ cfg.maxEarly # 0
  <2>1. x2 = keyed /\ e.st = "EXPECT_CLIENT_HELLO" /\ e.skipped = <<>>
    BY <1>9, <1>11 DEF Hails
  <2>2. Mute(keyed, got, sent)
    BY <1>8, <1>10, MuteSame DEF Heard
  <2>3. /\ DOMAIN keyed = DOMAIN x1 /\ keyed.skipped = x1.skipped /\ keyed.st = x1.st
        /\ keyed.tickets = x1.tickets
    BY <1>8, <1>10 DEF Same, Heard, HeardFields
  <2>4. Heard(keyed, got, sent, exp)
    BY <1>7, <1>8, <1>10, <2>1, <2>2, <2>3 DEF Heard
  <2>5. keyed.pend # <<>> /\ keyed.st # "POST_HANDSHAKE"
    BY <1>7, <1>8, <1>10, <2>1, <2>3
  <2>6. Sober(SendHello(cfg, keyed, ch, share, signs, now0), got, sent, exp)
    BY <2>4, <2>5, HelloSober
  <2>7. Begun(e, SendHello(cfg, x2, ch, share, signs, now0), got, sent)
    BY <2>1, <2>6 DEF Begun
  <2> QED
    BY <1>1, <1>4, <2>7
<1>12. CASE ~(psk.early /\ cfg.maxEarly # 0)
  <2>1. x2 = x1
    BY <1>9, <1>12
  <2>2. x1.st # "POST_HANDSHAKE"
    BY <1>8 DEF Hails, ServerHelloStates
  <2>3. Sober(SendHello(cfg, x1, ch, share, signs, now0), got, sent, <<>>)
    BY <1>8, <2>2, HelloSober
  <2>4. Begun(e, SendHello(cfg, x2, ch, share, signs, now0), got, sent)
    BY <2>1, <2>3 DEF Begun
  <2> QED
    BY <1>1, <1>4, <2>4
<1> QED
  BY <1>11, <1>12

LEMMA ChoiceSober ==
  ASSUME NEW cfg, cfg.maxTickets \in Nat, NEW e, NEW got, NEW sent, Hails(e, got, sent),
         NEW ch, ch.tickets \in Nat \X Nat, ch.early => e.st = "EXPECT_CLIENT_HELLO",
         NEW ks, NEW resumed, NEW signs, NEW now0
  PROVE  Begun(e, Accept(cfg, e, ch, ks, resumed, signs, now0), got, sent)
<1> DEFINE modes == ch.modes \ (IF cfg.dheOnly THEN {"psk"} ELSE {})
           psk == TriedPsk(cfg, e, ch, modes, resumed, now0)
           ikm == IF psk.found THEN Psk(psk.secret) ELSE Zero
           extracted == [e EXCEPT !.sched = Extract(@, ikm)]
           x == IF resumed THEN e ELSE extracted
           dhe == ~psk.found \/ "psk" \notin modes
<1>1. Accept(cfg, e, ch, ks, resumed, signs, now0) =
         AcceptWith(cfg, x, ch, ks, psk, modes, dhe, signs, now0)
  BY DEF Accept
<1>2. psk.early => ch.early
  <2> HIDE DEF modes
  <2>1. psk = TriedPsk(cfg, e, ch, modes, resumed, now0)
    OBVIOUS
  <2> HIDE DEF psk
  <2> QED
    BY <2>1, PskIsKnown
<1> HIDE DEF ikm, psk, modes, dhe
<1>3. Same(e, extracted, {"sched"})
  BY DEF Same, Hails, Heard, HeardFields
<1> HIDE DEF extracted
<1>4. Hails(extracted, got, sent) /\ extracted.st = e.st
  BY <1>3, HailsSame
<1>5. x \in {e, extracted}
  OBVIOUS
<1> HIDE DEF x
<1>6. Hails(x, got, sent) /\ x.st = e.st
  BY <1>4, <1>5
<1>7. psk.early => x.st = "EXPECT_CLIENT_HELLO"
  BY <1>2, <1>6
<1>8. Begun(x, AcceptWith(cfg, x, ch, ks, psk, modes, dhe, signs, now0), got, sent)
  BY <1>6, <1>7, AcceptSober
<1> QED
  BY <1>1, <1>6, <1>8 DEF Begun

Hailed(e, f, got, sent) == Begun(e, f, got, sent) \/ Forgets(e, f, got, sent)

LEMMA RetrySober ==
  ASSUME NEW cfg, NEW e, NEW got, NEW sent, Hails(e, got, sent), e.st = "EXPECT_CLIENT_HELLO",
         NEW ch, NEW ks
  PROVE  Hailed(e, SendRetry(cfg, e, ch, ks), got, sent)
<1> DEFINE group  == FirstOf(ch.groups, ToSet(cfg.groups))
           k      == Extract(TransformPostCh1(Update(e.sched, ch)), ExternalIkm(cfg))
           s1     == [e EXCEPT !.sched = k]
           bare   == RetryRequest(e, ks, group, <<>>, ch)
           hrr    == Confirmed(s1, bare, "hrr")
           kept   == Push(s1, hrr)
           cookie == Cookie(e, group, e.sched.algos[1], ch, ks = <<>>)
           ask    == RetryRequest(e, ks, group, cookie, ch)
           emitted == Emit(e, ask)
           asked  == PushCCS(emitted)
           tests  == <<<<ch.groups = <<>>, "MISSING_EXTENSION">>,
                       <<group = <<>>, "HANDSHAKE_FAILURE">>>>
           stateless == [asked EXCEPT !.ret = "STATELESS_RETRY"]
           waiting == [kept EXCEPT !.st = "EXPECT_SECOND_CLIENT_HELLO",
                                   !.skipped = IF ch.early THEN <<0>> ELSE @]
<1>1. \/ SendRetry(cfg, e, ch, ks) = Fail(e, FirstAlert(tests)) /\ FirstAlert(tests) # "none"
      \/ SendRetry(cfg, e, ch, ks) \in {stateless, waiting}
  BY DEF SendRetry
<1>2. DOMAIN tests = 1..2
      /\ \A i \in 1..2 : tests[i][2] \notin {"IN_PROGRESS", "OK", "ASYNC_OPERATION", "STATELESS_RETRY"}
  OBVIOUS
<1> HIDE DEF tests
<1>3. FirstAlert(tests) # "none" => Begun(e, Fail(e, FirstAlert(tests)), got, sent)
  <2>1. \/ FirstAlert(tests) \notin {"IN_PROGRESS", "OK", "ASYNC_OPERATION", "STATELESS_RETRY"}
        \/ FirstAlert(tests) = "none"
    BY <1>2, AlertIs
  <2> QED
    BY <2>1, HailsFail
<1>4. hrr.mt # "DATA" /\ ask.mt # "DATA"
  <2>1. "mt" \in DOMAIN bare /\ bare.mt = "SH" /\ ask.mt = "SH"
    BY DEF RetryRequest, ServerHelloMessage
  <2> HIDE DEF bare, ask, s1
  <2>2. hrr.mt = "SH"
    BY <2>1 DEF Confirmed
  <2> HIDE DEF hrr
  <2> QED
    BY <2>1, <2>2
<1> HIDE DEF hrr, ask, k
<1>5. Forgets(e, stateless, got, sent)
  <2>1. Heard(emitted, got, sent, <<>>) /\ Spoke(e, emitted)
    BY <1>4, HeardPush DEF Hails
  <2> HIDE DEF emitted
  <2>2. Heard(asked, got, sent, <<>>) /\ Spoke(emitted, asked)
    BY <2>1, HeardCCS
  <2> HIDE DEF asked
  <2>3. /\ Same(asked, stateless, {"ret"}) /\ stateless.ret = "STATELESS_RETRY"
        /\ stateless.st = asked.st
    BY <2>2 DEF Same, Heard, HeardFields
  <2> HIDE DEF stateless
  <2>4. Heard(stateless, got, sent, <<>>)
    BY <2>2, <2>3, HeardSame
  <2> QED
    BY <2>1, <2>2, <2>3, <2>4 DEF Forgets, Spoke
<1>6. Begun(e, waiting, got, sent)
  <2>1. Same(e, s1, {"sched"})
    BY DEF Same, Hails, Heard, HeardFields
  <2> HIDE DEF s1
  <2>2. Hails(s1, got, sent) /\ s1.st = e.st
    BY <2>1, HailsSame
  <2>3. Heard(kept, got, sent, <<>>) /\ Spoke(s1, kept)
    BY <1>4, <2>2, HeardPush DEF Hails
  <2> HIDE DEF kept
  <2>4. Same(kept, waiting, {"st", "skipped"}) /\ waiting.st = "EXPECT_SECOND_CLIENT_HELLO"
    BY <2>3 DEF Same, Heard, HeardFields
  <2> HIDE DEF waiting
  <2>5. /\ DOMAIN waiting = DOMAIN kept /\ waiting.expEarly = kept.expEarly
        /\ waiting.pend = kept.pend /\ waiting.tickets = kept.tickets /\ waiting.ret = kept.ret
    BY <2>3, <2>4 DEF Same, Heard, HeardFields
  <2>6. Mute(waiting, got, sent)
    BY <2>3, <2>4, MuteSame DEF Heard
  <2>7. Heard(waiting, got, sent, <<>>)
    BY <2>3, <2>5, <2>6 DEF Heard
  <2>8. waiting.ret # "STATELESS_RETRY"
    BY <2>2, <2>3, <2>5 DEF Hails, Spoke
  <2>9. Sober(waiting, got, sent, <<>>)
    BY <2>4, <2>7, <2>8 DEF Sober, EndStates
  <2> QED
    BY <2>9 DEF Begun
<1> HIDE DEF stateless, waiting
<1> QED
  BY <1>1, <1>3, <1>5, <1>6 DEF Hailed

LEMMA ReplySober ==
  ASSUME NEW cfg, cfg.maxTickets \in Nat, NEW e, NEW got, NEW sent, Hails(e, got, sent),
         NEW ch, ch.tickets \in Nat \X Nat, ch.early => e.st = "EXPECT_CLIENT_HELLO",
         NEW ks, NEW second, ~second => e.st = "EXPECT_CLIENT_HELLO", NEW signs, NEW now0
  PROVE  Hailed(e, AnswerHello(cfg, e, ch, ks, second, signs, now0), got, sent)
<1> DEFINE restored == RestoreFromCookie(cfg, e, ch, ks)
           yes == TRUE
<1>1. \/ AnswerHello(cfg, e, ch, ks, second, signs, now0) = Fail(e, "HANDSHAKE_FAILURE")
      \/ AnswerHello(cfg, e, ch, ks, second, signs, now0) =
            Accept(cfg, restored, ch, ks, yes, signs, now0)
      \/ /\ AnswerHello(cfg, e, ch, ks, second, signs, now0) = SendRetry(cfg, e, ch, ks)
         /\ ~second
      \/ AnswerHello(cfg, e, ch, ks, second, signs, now0) =
               Accept(cfg, e, ch, ks, second, signs, now0)
  BY DEF AnswerHello
<1> HIDE DEF yes
<1>2. Same(e, restored, {"sched"})
  BY DEF RestoreFromCookie, Same, Hails, Heard, HeardFields
<1> HIDE DEF restored
<1>3. Begun(e, Accept(cfg, restored, ch, ks, yes, signs, now0), got, sent)
  <2>1. Hails(restored, got, sent) /\ restored.st = e.st
    BY <1>2, HailsSame
  <2>2. Begun(restored, Accept(cfg, restored, ch, ks, yes, signs, now0), got, sent)
    BY <2>1, ChoiceSober
  <2> QED
    BY <2>1, <2>2 DEF Begun
<1>4. Begun(e, Accept(cfg, e, ch, ks, second, signs, now0), got, sent)
  BY ChoiceSober
<1>5. Begun(e, Fail(e, "HANDSHAKE_FAILURE"), got, sent)
  BY HailsFail
<1>6. ~second => Hailed(e, SendRetry(cfg, e, ch, ks), got, sent)
  BY RetrySober
<1> QED
  BY <1>1, <1>3, <1>4, <1>5, <1>6 DEF Hailed

LEMMA ReadSober ==
  ASSUME NEW cfg, cfg.maxTickets \in Nat, NEW e, NEW got, NEW sent, Hails(e, got, sent),
         NEW ch, ch.tickets \in Nat \X Nat, NEW cs, NEW second,
         second <=> e.st = "EXPECT_SECOND_CLIENT_HELLO", NEW signs, NEW now0
  PROVE  Hailed(e, ReadHello(cfg, e, ch, cs, second, signs, now0), got, sent)
<1> DEFINE alert == HelloAlert(cfg, e, ch, cs, second)
           b1 == ch.psk = <<>> /\ ch.early
           b2 == second /\ ch.early
           b3 == second /\ e.name # "none" /\ ch.sni # e.name
           b4 == cs = <<>>
           b5 == second /\ cs # e.cs
           tests == << <<b1, "ILLEGAL_PARAMETER">>, <<b2, "DECODE_ERROR">>,
                       <<b3, "HANDSHAKE_FAILURE">>, <<b4, "HANDSHAKE_FAILURE">>,
                       <<b5, "HANDSHAKE_FAILURE">> >>
           chosen == [e EXCEPT !.cs = cs, !.sched = NewSchedule(cs, <<>>, FALSE)]
           e1 == IF second THEN e ELSE chosen
           ks == FirstOf(ch.share, ToSet(cfg.groups))
<1>1. ReadHello(cfg, e, ch, cs, second, signs, now0) =
         IF alert # "none" THEN Fail(e, alert)
         ELSE AnswerHello(cfg, e1, ch, ks, second, signs, now0)
  BY DEF ReadHello
<1>2. alert = FirstAlert(tests)
  BY DEF HelloAlert
<1>3. DOMAIN tests = 1..5
      /\ \A i \in 1..5 : tests[i][2] \notin {"IN_PROGRESS", "OK", "ASYNC_OPERATION",
                                             "STATELESS_RETRY", "none"}
  OBVIOUS
<1>4. tests[2] = <<b2, "DECODE_ERROR">>
  OBVIOUS
<1> HIDE DEF tests, alert, ks, b2
<1>5. tests[2][1] = b2
  BY <1>4
<1>6. ASSUME alert # "none" PROVE Begun(e, Fail(e, alert), got, sent)
  <2>1. PICK i \in 1..5 : alert = tests[i][2]
    BY <1>2, <1>3, <1>6, AlertIs
  <2>2. alert \notin {"IN_PROGRESS", "OK", "ASYNC_OPERATION", "STATELESS_RETRY"}
    BY <1>3, <2>1
  <2> QED
    BY <2>2, HailsFail
<1>7. ASSUME alert = "none" PROVE ch.early => e.st = "EXPECT_CLIENT_HELLO"
  <2>1. \A i \in 1..5 : ~tests[i][1]
    <3>1. 5 \in Nat /\ DOMAIN tests = 1..5
      BY <1>3
    <3>2. \/ FirstAlert(tests) = "none" /\ \A i \in 1..5 : ~tests[i][1]
          \/ \E i \in 1..5 : tests[i][1] /\ FirstAlert(tests) = tests[i][2]
      BY <3>1, AlertIs
    <3>3. \A i \in 1..5 : FirstAlert(tests) # tests[i][2]
      BY <1>2, <1>3, <1>7
    <3> QED
      BY <3>2, <3>3, Zenon
  <2>2. 2 \in 1..5
    OBVIOUS
  <2>3. ~b2
    BY <1>5, <2>1, <2>2, Zenon
  <2>4. e.st \in ServerHelloStates
    BY DEF Hails
  <2>5. ~second => e.st = "EXPECT_CLIENT_HELLO"
    BY <2>4 DEF ServerHelloStates
  <2> QED
    BY <2>3, <2>5 DEF b2
<1>8. Same(e, chosen, {"cs", "sched"})
  BY DEF Same, Hails, Heard, HeardFields
<1> HIDE DEF chosen
<1>9. Hails(chosen, got, sent) /\ chosen.st = e.st
  BY <1>8, HailsSame
<1>10. e1 \in {e, chosen}
  OBVIOUS
<1> HIDE DEF e1
<1>11. Hails(e1, got, sent) /\ e1.st = e.st
  BY <1>9, <1>10
<1>12. ASSUME alert = "none"
       PROVE  Hailed(e, AnswerHello(cfg, e1, ch, ks, second, signs, now0), got, sent)
  <2>1. ch.early => e1.st = "EXPECT_CLIENT_HELLO"
    BY <1>7, <1>11, <1>12
  <2>2. ~second => e1.st = "EXPECT_CLIENT_HELLO"
    BY <1>11 DEF Hails, ServerHelloStates
  <2>3. Hailed(e1, AnswerHello(cfg, e1, ch, ks, second, signs, now0), got, sent)
    BY <1>11, <2>1, <2>2, ReplySober
  <2> QED
    BY <1>11, <2>3 DEF Hailed, Begun, Forgets
<1> QED
  BY <1>1, <1>6, <1>12 DEF Hailed

LEMMA ClientHelloSober ==
  ASSUME NEW cfg, cfg.maxTickets \in Nat, NEW e, NEW got, NEW sent, Hails(e, got, sent),
         NEW m, MessageTyped(m), m.mt = "CH", NEW signs, NEW now0
  PROVE  Hailed(e, HandleClientHello(cfg, e, m, signs, now0), got, sent)
<1> DEFINE second == e.st = "EXPECT_SECOND_CLIENT_HELLO"
           open   == Opens(cfg, m) /\ (second => e.ech.on)
           ech    == OpenEch(cfg, e, m, second)
           inner  == m.ech[1].inner[1]
           ch     == IF ech.accepted THEN inner ELSE m
           opened == [e EXCEPT !.ech = ech]
           alert  == EchAlert(cfg, e, m, second)
           called == OnClientHello(cfg, opened, ch)
           e1     == IF second THEN opened ELSE called
           cs     == ChooseCipher(cfg, ch.ciphers)
           tests  == <<
             <<second /\ e.ech.on /\ m.ech = <<>>, "MISSING_EXTENSION">>,
             <<m.ech # <<>> /\ m.ech[1].typ # "outer", "ILLEGAL_PARAMETER">>,
             <<second /\ e.ech.on /\ ~(Opens(cfg, m) /\ m.ech[1].second), "DECRYPT_ERROR">>,
             <<m.ech = <<>> /\ e.ech.offered, "ILLEGAL_PARAMETER">> >>
<1>1. HandleClientHello(cfg, e, m, signs, now0) =
         IF alert # "none" THEN Fail(opened, alert)
         ELSE ReadHello(cfg, e1, ch, cs, second, signs, now0)
  BY DEF HandleClientHello
<1>2. alert = FirstAlert(tests)
  BY DEF EchAlert
<1>3. DOMAIN tests = 1..4
      /\ \A i \in 1..4 : tests[i][2] \notin {"IN_PROGRESS", "OK", "ASYNC_OPERATION",
                                             "STATELESS_RETRY", "none"}
  OBVIOUS
<1> HIDE DEF tests, alert
<1>4. \/ alert \notin {"IN_PROGRESS", "OK", "ASYNC_OPERATION", "STATELESS_RETRY"}
      \/ alert = "none"
  BY <1>2, <1>3, AlertIs
<1>5. HelloTyped(m) /\ EchTyped(m.ech)
  BY DEF MessageTyped
<1>6. (ech.accepted = TRUE /\ open) \/ (ech.accepted = FALSE /\ ~open)
  BY DEF OpenEch, NoEch
<1>7. open => m.ech # <<>> /\ m.ech[1].typ = "outer"
  BY DEF Opens
<1> HIDE DEF ech, open
<1>8. ch.tickets \in Nat \X Nat
  <2>1. CASE ech.accepted = TRUE
    <3>1. ch = inner /\ open
      BY <1>6, <2>1
    <3>2. HelloTyped(inner)
      BY <1>5, <1>7, <3>1 DEF EchTyped
    <3> HIDE DEF inner, ch
    <3> QED
      BY <3>1, <3>2 DEF HelloTyped
  <2>2. CASE ech.accepted = FALSE
    <3>1. ch = m
      BY <2>2
    <3> HIDE DEF ch
    <3> QED
      BY <1>5, <3>1 DEF HelloTyped
  <2> QED
    BY <1>6, <2>1, <2>2
<1> HIDE DEF ch
<1>9. Same(e, opened, {"ech"})
  BY DEF Same, Hails, Heard, HeardFields
<1> HIDE DEF opened
<1>10. Hails(opened, got, sent) /\ opened.st = e.st
  BY <1>9, HailsSame
<1>11. Same(opened, called, {"name", "alpn", "ccs"})
  BY DEF OnClientHello, Same
<1> HIDE DEF called
<1>12. Hails(called, got, sent) /\ called.st = opened.st
  BY <1>10, <1>11, HailsSame
<1>13. e1 \in {opened, called}
  OBVIOUS
<1> HIDE DEF e1
<1>14. Hails(e1, got, sent) /\ e1.st = e.st
  BY <1>10, <1>12, <1>13
<1>15. second <=> e1.st = "EXPECT_SECOND_CLIENT_HELLO"
  BY <1>14
<1> HIDE DEF second, cs
<1>16. Hailed(e1, ReadHello(cfg, e1, ch, cs, second, signs, now0), got, sent)
  BY <1>8, <1>14, <1>15, ReadSober
<1>17. Hailed(e, ReadHello(cfg, e1, ch, cs, second, signs, now0), got, sent)
  BY <1>14, <1>16 DEF Hailed, Begun, Forgets
<1>18. alert # "none" => Begun(opened, Fail(opened, alert), got, sent)
  BY <1>4, <1>10, HailsFail
<1> QED
  BY <1>1, <1>10, <1>17, <1>18 DEF Hailed, Begun

-----------------------------------------------------------------------------
(* What the server makes of a record. *)

\* What holds of every one that it takes from its stream and becomes f.
Keeps(s, f) ==
    /\ {"got", "sent", "out"} \subseteq DOMAIN f /\ HeardFields \subseteq DOMAIN f
    /\ f.sent = s.sent /\ NoData(f.out)
    /\ s.st # "EXPECT_CLIENT_HELLO" =>
          f.expEarly = s.expEarly /\ (Open(f) => f.st # "EXPECT_CLIENT_HELLO")
    /\ f.ret = "STATELESS_RETRY" => s.st = "EXPECT_CLIENT_HELLO"
    /\ Open(f) => Tale(f)

Stopped(s, f) == ~GoesOn(f) /\ f.got = s.got /\ f.st = s.st /\ f.expEarly = s.expEarly

TakesData(s, r, f) ==
    /\ IsData(r) /\ s.st \in {"POST_HANDSHAKE", "EXPECT_END_OF_EARLY_DATA"}
    /\ f.got = Append(s.got, r.msg) /\ f.st = s.st /\ f.expEarly = s.expEarly
    /\ s.st = "POST_HANDSHAKE" => f.dec = After(r, s.dec)

DropsRecord(s, f) ==
    /\ s.skipped # <<>> /\ s.st # "POST_HANDSHAKE" /\ f.st = s.st
    /\ f.got = s.got /\ f.expEarly = s.expEarly

PassesOn(s, r, f) ==
    /\ ~IsData(r) /\ f.got = s.got /\ s.st # "POST_HANDSHAKE" /\ f.st # "POST_HANDSHAKE"

TakesFin(s, r, f) ==
    /\ IsFin(r) /\ s.st = "EXPECT_FINISHED" /\ f.st = "POST_HANDSHAKE" /\ f.got = s.got
    /\ f.expEarly = s.expEarly /\ f.cs = s.cs /\ f.exp = s.exp
    /\ f.dec = SetupTraffic(s.cs[1], s.pendApp[1], 3)

TurnsKey(s, r, f) ==
    /\ ~IsData(r) /\ s.st = "POST_HANDSHAKE" /\ f.st = s.st /\ f.got = s.got
    /\ f.expEarly = s.expEarly /\ f.dec = After(r, s.dec)

ServerPlays(s, r, f) ==
    /\ Keeps(s, f)
    /\ \/ Stopped(s, f) \/ TakesData(s, r, f) \/ DropsRecord(s, f)
       \/ PassesOn(s, r, f) \/ TakesFin(s, r, f) \/ TurnsKey(s, r, f)

\* A server that goes on.
Hosting(s) == /\ {"got", "sent", "out"} \subseteq DOMAIN s /\ HeardFields \subseteq DOMAIN s
              /\ NoData(s.out) /\ Open(s) /\ s.tickets \in Nat /\ s.st \in ServerStates
              /\ Tale(s) /\ ServerStory(s)

\* The server s once record r is open: only its key has changed.
Unsealed(s, e) ==
    /\ Same(s, e, {"dec"})
    /\ s.st = "POST_HANDSHAKE" => e.dec = [s.dec EXCEPT !.seq = @ + 1]

LEMMA HostHeard ==
  ASSUME NEW s, Hosting(s), NEW e, Same(s, e, {"dec"})
  PROVE  /\ Heard(e, s.got, s.sent, s.expEarly) /\ e.st = s.st /\ e.ret = s.ret /\ e.cs = s.cs
         /\ e.pend = s.pend /\ e.pendApp = s.pendApp /\ e.exp = s.exp /\ e.skipped = s.skipped
         /\ e.sent = s.sent /\ e.got = s.got /\ e.expEarly = s.expEarly
<1>1. /\ DOMAIN e = DOMAIN s /\ e.st = s.st /\ e.ret = s.ret /\ e.cs = s.cs
      /\ e.pend = s.pend /\ e.pendApp = s.pendApp /\ e.exp = s.exp /\ e.skipped = s.skipped
      /\ e.sent = s.sent /\ e.got = s.got /\ e.expEarly = s.expEarly /\ e.out = s.out
      /\ e.tickets = s.tickets
  BY DEF Same, Hosting, HeardFields
<1>2. Mute(e, s.got, s.sent)
  BY <1>1 DEF Mute, Hosting
<1>3. /\ e.skipped # <<>> => s.expEarly = <<>>
      /\ e.pend # <<>> => s.expEarly # <<>>
  BY <1>1 DEF Hosting, Tale
<1> QED
  BY <1>1, <1>2, <1>3 DEF Heard, Hosting

LEMMA PlaysFail ==
  ASSUME NEW s, Open(s), NEW x, Heard(x, s.got, s.sent, s.expEarly), x.st = s.st, NEW alert,
         alert \notin {"IN_PROGRESS", "OK", "ASYNC_OPERATION", "STATELESS_RETRY"}, NEW r
  PROVE  ServerPlays(s, r, Fail(x, alert))
<1> DEFINE f == Fail(x, alert)
<1>1. Same(x, f, {"ret"}) /\ f.ret = alert /\ f.st = x.st
  BY DEF Fail, Same, Heard, HeardFields
<1> HIDE DEF f
<1>2. Heard(f, s.got, s.sent, s.expEarly)
  BY <1>1, HeardSame
<1>3. ~Open(f) /\ ~GoesOn(f)
  BY <1>1 DEF Open, GoesOn
<1>4. Keeps(s, f)
  BY <1>1, <1>2, <1>3 DEF Keeps, Heard, Mute, GoesOn
<1>5. Stopped(s, f)
  BY <1>1, <1>2, <1>3 DEF Stopped, Heard, Mute
<1> QED
  BY <1>4, <1>5 DEF ServerPlays, f

LEMMA PlaysHello ==
  ASSUME NEW cfg, cfg.maxTickets \in Nat, NEW s, Hosting(s), s.st \in ServerHelloStates,
         NEW e, Unsealed(s, e), NEW r, MessageTyped(r.msg), r.msg.mt = "CH", NEW signs, NEW now0
  PROVE  ServerPlays(s, r, HandleClientHello(cfg, e, r.msg, signs, now0))
<1> DEFINE f == HandleClientHello(cfg, e, r.msg, signs, now0)
<1>1. /\ Heard(e, s.got, s.sent, s.expEarly) /\ e.st = s.st /\ e.ret = s.ret
      /\ e.pend = s.pend /\ e.skipped = s.skipped
  BY HostHeard DEF Unsealed
<1>2. s.pend = <<>> /\ s.expEarly = <<>> /\ s.ret # "STATELESS_RETRY" /\ s.st # "POST_HANDSHAKE"
      /\ (s.st = "EXPECT_CLIENT_HELLO" => s.skipped = <<>>)
  BY DEF Hosting, ServerStory, Open, Tale, ServerHelloStates
<1>3. Hails(e, s.got, s.sent)
  BY <1>1, <1>2 DEF Hails
<1> DEFINE m == r.msg
           got == s.got
           sent == s.sent
<1>4. Hailed(e, f, got, sent)
  <2>1. MessageTyped(m) /\ m.mt = "CH" /\ Hails(e, got, sent)
    BY <1>3
  <2> HIDE DEF m, got, sent
  <2>2. Hailed(e, HandleClientHello(cfg, e, m, signs, now0), got, sent)
    BY <2>1, ClientHelloSober
  <2> QED
    BY <2>2 DEF m
<1> HIDE DEF f
<1>5. ~IsData(r)
  BY DEF IsData
<1>6. CASE Begun(e, f, got, sent)
  <2>1. PICK early : Sober(f, got, sent, early) /\ (early # <<>> => e.st = "EXPECT_CLIENT_HELLO")
    BY <1>6 DEF Begun
  <2>2. /\ {"got", "sent", "out"} \subseteq DOMAIN f /\ HeardFields \subseteq DOMAIN f
        /\ f.sent = s.sent /\ f.got = s.got /\ NoData(f.out) /\ f.expEarly = early
        /\ f.skipped # <<>> => early = <<>>
        /\ f.pend # <<>> => early # <<>>
    BY <2>1 DEF Sober, Heard, Mute
  <2>3. s.st # "EXPECT_CLIENT_HELLO" => f.expEarly = s.expEarly
    BY <1>1, <1>2, <2>1, <2>2
  <2>4. Open(f) => Tale(f) /\ f.st # "EXPECT_CLIENT_HELLO"
    BY <2>1, <2>2 DEF Sober, Tale
  <2>5. Keeps(s, f)
    BY <2>1, <2>2, <2>3, <2>4 DEF Keeps, Sober
  <2>6. PassesOn(s, r, f)
    BY <1>2, <1>5, <2>1, <2>2 DEF PassesOn, Sober
  <2> QED
    BY <2>5, <2>6 DEF ServerPlays, f
<1>7. CASE Forgets(e, f, got, sent)
  <2>1. /\ {"got", "sent", "out"} \subseteq DOMAIN f /\ HeardFields \subseteq DOMAIN f
        /\ f.sent = s.sent /\ f.got = s.got /\ NoData(f.out)
        /\ f.ret = "STATELESS_RETRY" /\ s.st = "EXPECT_CLIENT_HELLO" /\ f.st = s.st
    BY <1>1, <1>7 DEF Forgets, Heard, Mute
  <2>2. Keeps(s, f)
    BY <2>1 DEF Keeps, Open
  <2>3. PassesOn(s, r, f)
    BY <1>2, <1>5, <2>1 DEF PassesOn
  <2> QED
    BY <2>2, <2>3 DEF ServerPlays, f
<1> QED
  BY <1>4, <1>6, <1>7 DEF Hailed

\* A message of the client's second flight but Finished.
LEMMA PlaysAbsorbed ==
  ASSUME NEW s, Hosting(s), s.st \in EndStates, NEW r, ~IsData(r), NEW f, NEW changed,
         Same(s, f, changed), changed \subseteq {"dec", "pend", "sched", "st"},
         f.pend = s.pend \/ f.pend = <<>>, f.st \in EndStates
  PROVE  ServerPlays(s, r, f)
<1>1. /\ DOMAIN f = DOMAIN s /\ f.ret = s.ret /\ f.pendApp = s.pendApp /\ f.exp = s.exp
      /\ f.skipped = s.skipped /\ f.sent = s.sent /\ f.got = s.got /\ f.expEarly = s.expEarly
      /\ f.out = s.out
  BY DEF Same, Hosting, HeardFields
<1>2. f.st # "EXPECT_CLIENT_HELLO" /\ f.st # "POST_HANDSHAKE" /\ s.st # "POST_HANDSHAKE"
  BY DEF EndStates
<1>3. Tale(f)
  BY <1>1, <1>2 DEF Tale, Hosting
<1>4. Keeps(s, f)
  BY <1>1, <1>2, <1>3 DEF Keeps, Hosting, Open
<1>5. PassesOn(s, r, f)
  BY <1>1, <1>2 DEF PassesOn
<1> QED
  BY <1>4, <1>5 DEF ServerPlays

\* No message but the client's Finished ends its flight, and none of the
\* handshake is data.
LEMMA ServerHandlePlays ==
  ASSUME NEW cfg, cfg.maxTickets \in Nat, NEW s, Hosting(s), NEW e, Unsealed(s, e),
         NEW r, ~IsData(r), MessageTyped(r.msg), NEW signs, NEW now0
  PROVE  ServerPlays(s, r, ServerHandle(cfg, e, r.msg, signs, now0))
<1> DEFINE m == r.msg
           f == ServerHandle(cfg, e, m, signs, now0)
<1>1. /\ Heard(e, s.got, s.sent, s.expEarly) /\ e.st = s.st /\ e.ret = s.ret /\ e.cs = s.cs
      /\ e.pend = s.pend /\ e.pendApp = s.pendApp /\ e.exp = s.exp /\ e.skipped = s.skipped
      /\ e.sent = s.sent /\ e.got = s.got /\ e.expEarly = s.expEarly
  BY HostHeard DEF Unsealed
<1>2. Open(s) /\ HeardFields \subseteq DOMAIN e /\ DOMAIN e = DOMAIN s
  BY <1>1 DEF Hosting, Heard, Unsealed, Same
<1>3. ASSUME NEW alert,
             alert \notin {"IN_PROGRESS", "OK", "ASYNC_OPERATION", "STATELESS_RETRY"}
      PROVE  ServerPlays(s, r, Fail(e, alert))
  BY <1>1, <1>2, <1>3, PlaysFail
<1>4. /\ ServerPlays(s, r, Fail(e, "HANDSHAKE_FAILURE"))
      /\ ServerPlays(s, r, Fail(e, "UNEXPECTED_MESSAGE"))
      /\ ServerPlays(s, r, Fail(e, "CERTIFICATE_REQUIRED"))
      /\ ServerPlays(s, r, Fail(e, "DECRYPT_ERROR"))
  BY <1>3
<1>5. ASSUME s.st \in EndStates, NEW st \in EndStates
      PROVE  ServerPlays(s, r, Absorb(e, m, st))
  <2> DEFINE g == Absorb(e, m, st)
  <2>1. Same(e, g, {"sched", "st"}) /\ g.st = st
    BY <1>2 DEF Absorb, Same, HeardFields
  <2> HIDE DEF g
  <2>2. Same(s, g, {"dec", "pend", "sched", "st"}) /\ g.pend = s.pend
    BY <1>1, <1>2, <2>1 DEF Same, Unsealed, HeardFields
  <2> QED
    BY <1>5, <2>1, <2>2, PlaysAbsorbed DEF g
<1>6. CASE s.st \in ServerHelloStates
  <2>1. f = IF m.mt = "CH" THEN HandleClientHello(cfg, e, m, signs, now0)
            ELSE Fail(e, "HANDSHAKE_FAILURE")
    BY <1>1, <1>6 DEF ServerHandle, ServerHelloStates
  <2> HIDE DEF f
  <2>2. m.mt = "CH" => ServerPlays(s, r, HandleClientHello(cfg, e, m, signs, now0))
    BY <1>6, PlaysHello
  <2> QED
    BY <1>4, <2>1, <2>2 DEF f
<1>7. CASE s.st = "EXPECT_END_OF_EARLY_DATA"
  <2>1. f = IF m.mt = "EOED" THEN HandleEndOfEarlyData(e, m) ELSE Fail(e, "UNEXPECTED_MESSAGE")
    BY <1>1, <1>7 DEF ServerHandle
  <2> DEFINE g == HandleEndOfEarlyData(e, m)
  <2>2. Same(e, g, {"sched", "st", "dec", "pend"}) /\ g.st = "EXPECT_FINISHED" /\ g.pend = <<>>
    BY <1>2 DEF HandleEndOfEarlyData, Absorb, Same, HeardFields
  <2> HIDE DEF f, g
  <2>3. Same(s, g, {"dec", "pend", "sched", "st"})
    BY <1>1, <1>2, <2>2 DEF Same, Unsealed, HeardFields
  <2>4. s.st \in EndStates /\ g.st \in EndStates
    BY <1>7, <2>2 DEF EndStates
  <2>5. ServerPlays(s, r, g)
    BY <2>2, <2>3, <2>4, PlaysAbsorbed
  <2> QED
    BY <1>4, <2>1, <2>5 DEF f, g
<1>8. CASE s.st = "EXPECT_CERTIFICATE"
  <2>1. f \in {HandleClientCertificate(cfg, e, m), Fail(e, "UNEXPECTED_MESSAGE")}
    BY <1>1, <1>8 DEF ServerHandle
  <2>2. HandleClientCertificate(cfg, e, m) \in
           {Fail(e, "CERTIFICATE_REQUIRED"), Absorb(e, m, "EXPECT_CERTIFICATE_VERIFY"),
            Absorb(e, m, "EXPECT_FINISHED")}
    BY DEF HandleClientCertificate
  <2>3. /\ ServerPlays(s, r, Absorb(e, m, "EXPECT_CERTIFICATE_VERIFY"))
        /\ ServerPlays(s, r, Absorb(e, m, "EXPECT_FINISHED"))
    BY <1>5, <1>8 DEF EndStates
  <2> HIDE DEF f, m
  <2> QED
    BY <1>4, <2>1, <2>2, <2>3 DEF f, m
<1>9. CASE s.st = "EXPECT_CERTIFICATE_VERIFY"
  <2>1. f \in {HandleClientCertificateVerify(e, m), Fail(e, "UNEXPECTED_MESSAGE")}
    BY <1>1, <1>9 DEF ServerHandle
  <2>2. HandleClientCertificateVerify(e, m) \in
           {Fail(e, "DECRYPT_ERROR"), Absorb(e, m, "EXPECT_FINISHED")}
    BY DEF HandleClientCertificateVerify
  <2>3. ServerPlays(s, r, Absorb(e, m, "EXPECT_FINISHED"))
    BY <1>5, <1>9 DEF EndStates
  <2> HIDE DEF f, m
  <2> QED
    BY <1>4, <2>1, <2>2, <2>3 DEF f, m
<1>10. CASE s.st = "EXPECT_FINISHED"
  <2> DEFINE g == [Absorb(e, m, "POST_HANDSHAKE") EXCEPT
                      !.dec = SetupTraffic(e.cs[1], e.pendApp[1], 3), !.pendApp = <<>>, !.ret = "OK"]
  <2>1. f = IF m.mt = "FIN" THEN IF m.mac # VerifyData(e.sched, e.dec.secret)
                                 THEN Fail(e, "HANDSHAKE_FAILURE") ELSE g
            ELSE Fail(e, "HANDSHAKE_FAILURE")
    BY <1>1, <1>10 DEF ServerHandle, HandleClientFinished
  <2>2. /\ Same(e, g, {"sched", "st", "dec", "pendApp", "ret"}) /\ g.st = "POST_HANDSHAKE"
        /\ g.dec = SetupTraffic(s.cs[1], s.pendApp[1], 3) /\ g.ret = "OK"
    BY <1>1, <1>2 DEF Absorb, Same, HeardFields
  <2> HIDE DEF g
  <2>3. /\ DOMAIN g = DOMAIN e /\ g.pend = s.pend /\ g.expEarly = s.expEarly
        /\ g.skipped = s.skipped /\ g.out = e.out /\ g.sent = s.sent /\ g.got = s.got
        /\ g.cs = s.cs /\ g.exp = s.exp
    BY <1>1, <1>2, <2>2 DEF Same, Heard, Mute, HeardFields
  <2>4. Tale(g)
    BY <1>10, <2>2, <2>3 DEF Tale, Hosting, EndStates
  <2>5. Keeps(s, g)
    BY <1>1, <1>2, <2>2, <2>3, <2>4 DEF Keeps, Heard, Mute
  <2>6. m.mt = "FIN" => TakesFin(s, r, g)
    BY <1>10, <2>2, <2>3 DEF TakesFin, IsFin
  <2>7. m.mt = "FIN" => ServerPlays(s, r, g)
    BY <2>5, <2>6 DEF ServerPlays
  <2> HIDE DEF f, m
  <2> QED
    BY <1>4, <2>1, <2>7 DEF f, m
<1>11. CASE s.st = "POST_HANDSHAKE"
  <2> DEFINE g == HandleKeyUpdate(e, m)
  <2>1. f = IF m.mt = "KU" THEN g ELSE Fail(e, "UNEXPECTED_MESSAGE")
    BY <1>1, <1>11 DEF ServerHandle
  <2>2. Same(e, g, {"dec", "ret", "needsKU"}) /\ g.dec = UpdateKey(e.dec) /\ g.ret = "OK"
    BY <1>2 DEF HandleKeyUpdate, Same, HeardFields
  <2> HIDE DEF g
  <2>3. /\ DOMAIN g = DOMAIN e /\ g.pend = s.pend /\ g.expEarly = s.expEarly
        /\ g.skipped = s.skipped /\ g.out = e.out /\ g.sent = s.sent /\ g.got = s.got
        /\ g.st = s.st
    BY <1>1, <1>2, <2>2 DEF Same, Heard, Mute, HeardFields
  <2>4. Tale(g)
    BY <1>11, <2>2, <2>3 DEF Tale, Hosting, EndStates
  <2>5. Keeps(s, g)
    BY <1>1, <1>2, <1>11, <2>2, <2>3, <2>4 DEF Keeps, Heard, Mute
  <2>6. m.mt = "KU" => g.dec = After(r, s.dec)
    BY <1>11, <2>2 DEF After, Unsealed
  <2>7. m.mt = "KU" => TurnsKey(s, r, g)
    BY <1>11, <2>3, <2>6 DEF TurnsKey
  <2>8. m.mt = "KU" => ServerPlays(s, r, g)
    BY <2>5, <2>7 DEF ServerPlays
  <2> HIDE DEF f, m
  <2> QED
    BY <1>4, <2>1, <2>8 DEF f, m
<1>12. CASE s.st = "GENERATING_CERTIFICATE_VERIFY"
  <2>1. f = Fail(e, "UNEXPECTED_MESSAGE")
    BY <1>1, <1>12 DEF ServerHandle
  <2> QED
    BY <1>4, <2>1
<1>13. s.st \in ServerStates
  BY DEF Hosting
<1> QED
  BY <1>6, <1>7, <1>8, <1>9, <1>10, <1>11, <1>12, <1>13
     DEF ServerStates, ServerHelloStates, ServerLateStates

\* After the handshake a record comes under the key that the server is at.
LEMMA ServerRecordPlays ==
  ASSUME S.maxTickets \in Nat, NEW s, Hosting(s), NEW r, MessageTyped(r.msg),
         s.st = "POST_HANDSHAKE" => s.dec.aead # <<>> /\ r.key = s.dec.aead /\ r.seq = s.dec.seq,
         NEW signs
  PROVE  ServerPlays(s, r, Input(s, TRUE, r, signs))
<1> DEFINE f == Input(s, TRUE, r, signs)
           opened == Opened(s)
           skipped == [s EXCEPT !.skipped = <<s.skipped[1] + 1>>]
           m == r.msg
<1>1. /\ {"got", "sent", "out"} \subseteq DOMAIN s /\ HeardFields \subseteq DOMAIN s
      /\ NoData(s.out) /\ Open(s) /\ Tale(s)
  BY DEF Hosting
<1>2. ASSUME NEW alert, NEW x, Heard(x, s.got, s.sent, s.expEarly), x.st = s.st,
             alert \notin {"IN_PROGRESS", "OK", "ASYNC_OPERATION", "STATELESS_RETRY"}
      PROVE  ServerPlays(s, r, Fail(x, alert))
  BY <1>1, <1>2, PlaysFail
\* The content of a record.
<1>3. ASSUME NEW x, Unsealed(s, x)
      PROVE  ServerPlays(s, r, Content(x, TRUE, m, signs))
  <2>1. /\ Heard(x, s.got, s.sent, s.expEarly) /\ x.st = s.st /\ x.ret = s.ret
        /\ x.pend = s.pend /\ x.pendApp = s.pendApp /\ x.exp = s.exp /\ x.skipped = s.skipped
        /\ x.sent = s.sent /\ x.got = s.got /\ x.expEarly = s.expEarly
    BY <1>3, HostHeard DEF Unsealed
  <2>2. ServerPlays(s, r, Fail(x, "PEER_ALERT")) /\ ServerPlays(s, r, Fail(x, "UNEXPECTED_MESSAGE"))
    BY <1>2, <2>1
  <2>3. CASE m.mt = "ALERT"
    BY <2>2, <2>3 DEF Content
  <2>4. CASE m.mt = "DATA"
    <3> DEFINE g == [x EXCEPT !.got = Append(@, m), !.ret = "OK"]
    <3>1. Content(x, TRUE, m, signs) = IF s.st \in {"POST_HANDSHAKE", "EXPECT_END_OF_EARLY_DATA"}
                                       THEN g ELSE Fail(x, "UNEXPECTED_MESSAGE")
      BY <2>1, <2>4 DEF Content, Deliver
    <3>2. /\ Same(x, g, {"got", "ret"}) /\ g.ret = "OK" /\ g.got = Append(s.got, m)
      BY <2>1 DEF Same, Heard, HeardFields, Mute
    <3> HIDE DEF g
    <3>3. /\ DOMAIN g = DOMAIN x /\ g.pend = s.pend /\ g.expEarly = s.expEarly /\ g.st = s.st
          /\ g.skipped = s.skipped /\ g.out = x.out /\ g.sent = s.sent /\ g.dec = x.dec
          /\ g.pendApp = s.pendApp /\ g.exp = s.exp
      BY <2>1, <3>2 DEF Same, Heard, Mute, HeardFields
    <3>4. ASSUME s.st \in {"POST_HANDSHAKE", "EXPECT_END_OF_EARLY_DATA"}
          PROVE  ServerPlays(s, r, g)
      <4>1. Tale(g)
        BY <1>1, <3>3, <3>4 DEF Tale
      <4>2. Keeps(s, g)
        BY <2>1, <3>2, <3>3, <3>4, <4>1 DEF Keeps, Heard, Mute
      <4>3. s.st = "POST_HANDSHAKE" => g.dec = After(r, s.dec)
        BY <1>3, <2>4, <3>3 DEF After, Unsealed
      <4>4. TakesData(s, r, g)
        BY <2>4, <3>2, <3>3, <3>4, <4>3 DEF TakesData, IsData
      <4> QED
        BY <4>2, <4>4 DEF ServerPlays
    <3> QED
      BY <2>2, <3>1, <3>4
  <2>5. CASE m.mt \notin {"ALERT", "DATA"}
    <3>1. Content(x, TRUE, m, signs) = ServerHandle(S, x, m, signs, ServerNow)
      BY <2>5 DEF Content
    <3>2. ~IsData(r)
      BY <2>5 DEF IsData
    <3>3. ServerPlays(s, r, ServerHandle(S, x, r.msg, signs, ServerNow))
      BY <1>3, <3>2, ServerHandlePlays
    <3> QED
      BY <3>1, <3>3
  <2> QED
    BY <2>3, <2>4, <2>5
<1>4. Skip(s) \in {skipped, Fail(skipped, "HANDSHAKE_FAILURE")}
  BY DEF Skip
<1>5. \/ f \in {Fail(s, "HANDSHAKE_FAILURE"), Fail(s, "PEER_ALERT"), Fail(s, "BAD_RECORD_MAC"),
                Fail(s, "UNEXPECTED_MESSAGE"), Content(opened, TRUE, m, signs)}
      \/ /\ s.st # "POST_HANDSHAKE"
         /\ \/ m.mt = "CCS" /\ f = s
            \/ f = Content(s, TRUE, m, signs)
            \/ s.skipped # <<>> /\ f = Skip(s)
  <2>1. CASE s.st = "POST_HANDSHAKE"
    <3>1. f \in {Fail(s, "HANDSHAKE_FAILURE"), Fail(s, "PEER_ALERT"),
                 Content(opened, TRUE, m, signs)}
      BY <2>1 DEF Input
    <3> HIDE DEF f, opened
    <3> QED
      BY <3>1
  <2>2. CASE s.st # "POST_HANDSHAKE"
    <3> DEFINE rest == {Fail(s, "HANDSHAKE_FAILURE"), Fail(s, "PEER_ALERT"),
                        Fail(s, "BAD_RECORD_MAC"), Fail(s, "UNEXPECTED_MESSAGE"),
                        Content(opened, TRUE, m, signs), Content(s, TRUE, m, signs)}
    <3>1. f \in rest \cup {Skip(s), s}
      BY DEF Input
    <3>2. s.skipped = <<>> => f \in rest \cup {s}
      BY DEF Input, Skipping
    <3>3. m.mt # "CCS" => f \in rest \cup {Skip(s)}
      BY DEF Input
    <3>4. m.mt # "CCS" /\ s.skipped = <<>> => f \in rest
      BY DEF Input, Skipping
    <3>5. \/ f \in rest
          \/ s.skipped # <<>> /\ f = Skip(s)
          \/ m.mt = "CCS" /\ f = s
      <4> HIDE DEF f, rest, m
      <4> QED
        BY <3>1, <3>2, <3>3, <3>4
    <3> HIDE DEF f, opened
    <3> QED
      BY <2>2, <3>5
  <2> QED
    BY <2>1, <2>2
<1>6. Same(s, opened, {"dec"}) /\ opened.dec = [s.dec EXCEPT !.seq = @ + 1]
  BY <1>1 DEF Opened, Same, HeardFields
<1>7. Same(s, skipped, {"skipped"})
  BY DEF Same
<1> HIDE DEF f, m, opened, skipped
<1>8. ServerPlays(s, r, Content(opened, TRUE, m, signs))
  BY <1>3, <1>6 DEF Unsealed
<1>9. ASSUME s.st # "POST_HANDSHAKE" PROVE ServerPlays(s, r, Content(s, TRUE, m, signs))
  BY <1>3, <1>9 DEF Unsealed, Same
<1>10. Heard(s, s.got, s.sent, s.expEarly)
  BY HostHeard DEF Same
<1>11. /\ ServerPlays(s, r, Fail(s, "HANDSHAKE_FAILURE")) /\ ServerPlays(s, r, Fail(s, "PEER_ALERT"))
       /\ ServerPlays(s, r, Fail(s, "BAD_RECORD_MAC"))
       /\ ServerPlays(s, r, Fail(s, "UNEXPECTED_MESSAGE"))
  BY <1>2, <1>10
<1>12. ASSUME s.st # "POST_HANDSHAKE", m.mt = "CCS" PROVE ServerPlays(s, r, s)
  <2>1. Keeps(s, s)
    BY <1>1 DEF Keeps, Open
  <2>2. PassesOn(s, r, s)
    BY <1>12 DEF PassesOn, IsData, m
  <2> QED
    BY <2>1, <2>2 DEF ServerPlays
<1>13. ASSUME s.st # "POST_HANDSHAKE", s.skipped # <<>> PROVE ServerPlays(s, r, Skip(s))
  <2>1. /\ DOMAIN skipped = DOMAIN s /\ skipped.pend = s.pend /\ skipped.expEarly = s.expEarly
        /\ skipped.st = s.st /\ skipped.out = s.out /\ skipped.sent = s.sent
        /\ skipped.got = s.got /\ skipped.pendApp = s.pendApp /\ skipped.exp = s.exp
        /\ skipped.ret = s.ret /\ skipped.tickets = s.tickets
    BY <1>1, <1>7 DEF Same, HeardFields
  <2>2. s.expEarly = <<>> /\ s.pend = <<>> /\ s.st # "EXPECT_CLIENT_HELLO"
    BY <1>1, <1>13 DEF Tale
  <2>3. Tale(skipped)
    BY <1>1, <2>1, <2>2 DEF Tale
  <2>4. Keeps(s, skipped)
    BY <1>1, <2>1, <2>2, <2>3 DEF Keeps, Open
  <2>5. ServerPlays(s, r, skipped)
    BY <1>13, <2>1, <2>4 DEF ServerPlays, DropsRecord
  <2>6. Heard(skipped, s.got, s.sent, s.expEarly)
    BY <1>10, <2>1, <2>2 DEF Heard, Mute
  <2>7. ServerPlays(s, r, Fail(skipped, "HANDSHAKE_FAILURE"))
    BY <1>2, <2>1, <2>6
  <2> QED
    BY <1>4, <2>5, <2>7
<1> QED
  BY <1>5, <1>8, <1>9, <1>11, <1>12, <1>13 DEF f

\* What it writes meanwhile is left out of that.
LEMMA PlaysAlike ==
  ASSUME NEW s, NEW r, NEW x, ServerPlays(s, r, x), NEW f, Same(x, f, {"out"}), NoData(f.out)
  PROVE  ServerPlays(s, r, f)
<1>1. /\ DOMAIN f = DOMAIN x /\ f.got = x.got /\ f.sent = x.sent /\ f.st = x.st /\ f.ret = x.ret
      /\ f.expEarly = x.expEarly /\ f.dec = x.dec /\ f.cs = x.cs /\ f.exp = x.exp
      /\ f.skipped = x.skipped /\ f.pend = x.pend /\ f.pendApp = x.pendApp
  BY DEF Same, ServerPlays, Keeps, HeardFields
<1>2. Keeps(s, f)
  BY <1>1 DEF ServerPlays, Keeps, Tale, Open
<1>3. \/ Stopped(s, f) \/ TakesData(s, r, f) \/ DropsRecord(s, f)
      \/ PassesOn(s, r, f) \/ TakesFin(s, r, f) \/ TurnsKey(s, r, f)
  <2>1. /\ Stopped(s, x) => Stopped(s, f)
        /\ TakesData(s, r, x) => TakesData(s, r, f)
        /\ DropsRecord(s, x) => DropsRecord(s, f)
        /\ PassesOn(s, r, x) => PassesOn(s, r, f)
        /\ TakesFin(s, r, x) => TakesFin(s, r, f)
        /\ TurnsKey(s, r, x) => TurnsKey(s, r, f)
    BY <1>1 DEF Stopped, TakesData, DropsRecord, PassesOn, TakesFin, TurnsKey, GoesOn, Open
  <2> QED
    BY <2>1 DEF ServerPlays
<1> QED
  BY <1>2, <1>3 DEF ServerPlays

\* The end of ptls_handshake or ptls_receive.
LEMMA ServerConcludes ==
  ASSUME NEW x, {"enc", "out", "ret", "st"} \subseteq DOMAIN x, NoData(x.out), NEW before,
         NEW f, f = Finish(before, x, TRUE)
  PROVE  Same(x, f, {"out"}) /\ NoData(f.out)
<1> DEFINE yes == TRUE
<1>1. yes \in BOOLEAN /\ f = Finish(before, x, yes)
  OBVIOUS
<1> HIDE DEF yes
<1>2. PICK o : Concluded(x, o, f, yes)
  BY <1>1, FinishedAs
<1> QED
  BY <1>2, ConcludedMute DEF Concluded

-----------------------------------------------------------------------------
(* A step of the server, seen from the stream that it reads. *)



\* Of a client that has finished, the server has the key of the next record.
LEMMA ForthKeyed ==
  ASSUME NEW q, q # <<>>, NEW c, NEW s, Forth(q, c, s), Open(s), s.st = "POST_HANDSHAKE"
  PROVE  s.dec.aead # <<>> /\ Head(q).key = s.dec.aead /\ Head(q).seq = s.dec.seq
<1>1. Unlocks(q, 0, s.dec, c)
  BY DEF Forth, Flow
<1> QED
  BY <1>1, UnlocksHead

LEMMA ForthRead ==
  ASSUME NEW q, q # <<>>, NEW c, IsSeq(c.sent), NEW s, Open(s), Tale(s), ServerStory(s),
         Forth(q, c, s), NEW f, ServerPlays(s, Head(q), f),
         s.st # "POST_HANDSHAKE" /\ f.st = "POST_HANDSHAKE" => Agrees(c, f)
  PROVE  Forth(Tail(q), c, f)
<1> DEFINE r == Head(q)
           t == Tail(q)
           sent == c.sent
           b(a) == IF IsData(r) THEN a + 1 ELSE a
<1>1. PICK k, a \in 0..Len(sent) :
         /\ Split(sent, k) /\ (c.st # "POST_HANDSHAKE" => k = Len(sent))
         /\ Taken(s, sent, k, a) /\ Flow(q, c, s, k, a)
  BY DEF Forth
<1>2. Carries(q, a, sent, {k}) /\ IsSeq(q)
  BY <1>1 DEF Flow, Carries
<1>3. /\ IsData(r) => /\ a + 1 \in 1..Len(sent) /\ r.msg = sent[a + 1]
                      /\ Carries(t, a + 1, sent, {k})
      /\ ~IsData(r) => Carries(t, a, sent, {k})
      /\ IsFin(r) => a = k
  <2> DEFINE at == {k}
  <2>1. Carries(q, a, sent, at)
    BY <1>2
  <2> HIDE DEF at
  <2>2. /\ IsData(r) => /\ a + 1 \in 1..Len(sent) /\ r.msg = sent[a + 1]
                        /\ Carries(t, a + 1, sent, at)
        /\ ~IsData(r) => Carries(t, a, sent, at)
        /\ IsFin(r) => a \in at
    BY <2>1, CarriesHead
  <2> QED
    BY <2>2 DEF at
<1>4. Len(sent) \in Nat /\ IsSeq(sent) /\ (IsFin(r) => ~IsData(r))
  BY LenOfSeq DEF IsFin, IsData
<1>5. Carries(t, b(a), sent, {k}) /\ b(a) \in 0..Len(sent)
  BY <1>3, <1>4
<1>6. ASSUME NEW j \in 1..Len(t), IsFin(t[j]) PROVE Unlocks(t, j, AppTraffic(c), c)
  <2>1. Len(t) = Len(q) - 1 /\ Len(q) \in Nat /\ t[j] = q[j + 1]
    BY <1>2, SeqTail, LenOfSeq
  <2>2. PICK i \in 1..Len(q) : i = j + 1
    BY <2>1
  <2>3. j = i - 1 /\ t[j] = q[i]
    BY <2>1, <2>2
  <2>4. Unlocks(q, i, AppTraffic(c), c)
    BY <1>1, <1>6, <2>3 DEF Flow, IsFin
  <2>5. Unlocks(t, i - 1, AppTraffic(c), c)
    BY <2>4, UnlocksTail
  <2> QED
    BY <2>3, <2>5
<1>7. s.st = "POST_HANDSHAKE" => Unlocks(t, 0, After(r, s.dec), c)
  BY <1>1, UnlocksHead DEF Flow
<1>8. IsFin(r) => Unlocks(t, 0, AppTraffic(c), c)
  <2>1. Len(q) \in Nat \ {0} /\ r = q[1]
    BY <1>2, SeqTail, LenOfSeq
  <2>2. PICK i \in 1..Len(q) : i = 1
    BY <2>1
  <2>3. i - 1 = 0 /\ r = q[i]
    BY <2>1, <2>2
  <2>4. IsFin(r) => Unlocks(q, i, AppTraffic(c), c)
    BY <1>1, <2>3 DEF Flow, IsFin
  <2>5. IsFin(r) => Unlocks(t, i - 1, AppTraffic(c), c)
    BY <2>4, UnlocksTail
  <2> QED
    BY <2>3, <2>5
\* What has gone by after the step.
<1>9. ASSUME NEW n \in 0..Len(sent), Taken(f, sent, k, n),
             Open(f) => /\ n = b(a) /\ (f.st = "EXPECT_CLIENT_HELLO" => n = 0)
                        /\ f.st = "POST_HANDSHAKE" => Unlocks(t, 0, f.dec, c)
      PROVE  Forth(t, c, f)
  <2> HIDE DEF b, r, t
  <2>1. Open(f) => Flow(t, c, f, k, n)
    BY <1>5, <1>6, <1>9 DEF Flow
  <2> QED
    BY <1>1, <1>9, <2>1 DEF Forth
<1>10. Keeps(s, f)
  BY DEF ServerPlays
<1>11. SubSeq(sent, 1, 0) = <<>> /\ SubSeq(sent, k + 1, k) = <<>>
  <2>1. 0 \in 0..Len(sent) /\ 0 + 1 = 1
    BY <1>4
  <2>2. SubSeq(sent, 0 + 1, 0) = <<>> /\ SubSeq(sent, k + 1, k) = <<>>
    BY <1>4, <2>1, PartNone
  <2> QED
    BY <2>1, <2>2
<1> HIDE DEF r, t
<1>12. CASE Stopped(s, f)
  <2>1. Taken(f, sent, k, a) /\ ~Open(f)
    BY <1>1, <1>12 DEF Taken, Stopped, GoesOn
  <2> QED
    BY <1>9, <2>1 DEF t
<1>13. CASE TakesData(s, r, f)
  <2>1. /\ IsData(r) /\ s.st \in {"POST_HANDSHAKE", "EXPECT_END_OF_EARLY_DATA"}
        /\ f.got = Append(s.got, sent[a + 1]) /\ f.st = s.st /\ f.expEarly = s.expEarly
        /\ s.st = "POST_HANDSHAKE" => f.dec = After(r, s.dec)
        /\ a + 1 \in 1..Len(sent) /\ a + 1 \in 0..Len(sent)
    BY <1>3, <1>13 DEF TakesData
  <2>2. s.st = "EXPECT_END_OF_EARLY_DATA" => s.expEarly # <<>>
    BY DEF ServerStory, Tale, EndStates
  <2>3. ASSUME NEW j \in 0..a
        PROVE  SubSeq(sent, j + 1, a + 1) = Append(SubSeq(sent, j + 1, a), sent[a + 1])
    BY <1>4, <2>1, PartNext
  <2>4. Taken(f, sent, k, a + 1)
    <3>1. CASE s.expEarly # <<>>
      <4>1. s.got = SubSeq(sent, 1, a) /\ 0 \in 0..a /\ 0 + 1 = 1
        BY <1>1, <3>1 DEF Taken
      <4>2. SubSeq(sent, 0 + 1, a + 1) = Append(SubSeq(sent, 0 + 1, a), sent[a + 1])
        BY <2>3, <4>1
      <4>3. f.got = SubSeq(sent, 1, a + 1)
        BY <2>1, <4>1, <4>2
      <4>4. k <= a => k <= a + 1
        BY <1>4
      <4> QED
        BY <1>1, <2>1, <3>1, <4>3, <4>4 DEF Taken
    <3>2. CASE s.expEarly = <<>>
      <4>1. s.st = "POST_HANDSHAKE" /\ k <= a /\ s.got = SubSeq(sent, k + 1, a)
        BY <1>1, <2>1, <2>2, <3>2 DEF Taken
      <4>2. k \in 0..a
        BY <4>1
      <4>3. f.got = SubSeq(sent, k + 1, a + 1)
        BY <2>1, <2>3, <4>1, <4>2
      <4>4. k <= a + 1
        BY <4>1
      <4> QED
        BY <2>1, <3>2, <4>1, <4>3, <4>4 DEF Taken
    <3> QED
      BY <3>1, <3>2
  <2>5. a + 1 = b(a)
    BY <2>1
  <2>6. f.st # "EXPECT_CLIENT_HELLO"
    BY <2>1
  <2> HIDE DEF b
  <2> QED
    BY <1>7, <1>9, <2>1, <2>4, <2>5, <2>6 DEF t
<1>14. CASE DropsRecord(s, f)
  <2>1. /\ s.expEarly = <<>> /\ s.st # "EXPECT_CLIENT_HELLO" /\ s.st # "POST_HANDSHAKE"
        /\ f.st = s.st /\ f.got = s.got /\ f.expEarly = s.expEarly
    BY <1>14 DEF DropsRecord, Tale
  <2>2. \A n : Taken(f, sent, k, n)
    BY <1>1, <2>1 DEF Taken
  <2> HIDE DEF b
  <2> QED
    BY <1>5, <1>9, <2>1, <2>2 DEF t
<1>15. CASE PassesOn(s, r, f)
  <2>1. ~IsData(r) /\ f.got = s.got /\ s.st # "POST_HANDSHAKE" /\ f.st # "POST_HANDSHAKE" /\ a = b(a)
    BY <1>15 DEF PassesOn
  <2>2. s.st = "EXPECT_CLIENT_HELLO" => a = 0 /\ s.expEarly = <<>> /\ s.got = <<>>
    BY <1>1, <2>1 DEF Flow, ServerStory, ServerHelloStates, Taken
  <2>3. s.st # "EXPECT_CLIENT_HELLO" =>
           f.expEarly = s.expEarly /\ (Open(f) => f.st # "EXPECT_CLIENT_HELLO")
    BY <1>10 DEF Keeps
  <2>4. Taken(f, sent, k, a)
    BY <1>1, <1>11, <2>1, <2>2, <2>3 DEF Taken
  <2> HIDE DEF b
  <2> QED
    BY <1>9, <2>1, <2>2, <2>3, <2>4 DEF t
<1>16. CASE TakesFin(s, r, f)
  <2>1. /\ a = k /\ s.st = "EXPECT_FINISHED" /\ f.st = "POST_HANDSHAKE" /\ f.got = s.got
        /\ f.expEarly = s.expEarly /\ f.cs = s.cs /\ f.exp = s.exp /\ IsFin(r)
        /\ f.dec = SetupTraffic(s.cs[1], s.pendApp[1], 3)
    BY <1>3, <1>16 DEF TakesFin
  <2>2. s.pendApp = <<AppSecret(s.exp)>>
    BY <2>1 DEF Tale, EndStates
  <2>3. c.cs = s.cs /\ c.exp = s.exp
    BY <2>1 DEF Agrees
  <2>4. f.dec = AppTraffic(c)
    BY <2>1, <2>2, <2>3 DEF AppTraffic
  <2>5. Taken(f, sent, k, a)
    <3>1. k <= a /\ SubSeq(sent, k + 1, a) = <<>>
      BY <1>4, <1>11, <2>1
    <3>2. s.expEarly = <<>> => s.got = <<>>
      BY <1>1, <2>1 DEF Taken
    <3>3. s.expEarly # <<>> => s.got = SubSeq(sent, 1, a)
      BY <1>1 DEF Taken
    <3> QED
      BY <2>1, <3>1, <3>2, <3>3 DEF Taken
  <2>6. a = b(a)
    BY <1>4, <2>1
  <2> HIDE DEF b
  <2> QED
    BY <1>8, <1>9, <2>1, <2>4, <2>5, <2>6 DEF t
<1>17. CASE TurnsKey(s, r, f)
  <2>1. /\ ~IsData(r) /\ s.st = "POST_HANDSHAKE" /\ f.st = s.st /\ f.got = s.got
        /\ f.expEarly = s.expEarly /\ f.dec = After(r, s.dec) /\ a = b(a)
    BY <1>17 DEF TurnsKey
  <2>2. Taken(f, sent, k, a)
    BY <1>1, <2>1 DEF Taken
  <2> HIDE DEF b
  <2> QED
    BY <1>7, <1>9, <2>1, <2>2 DEF t
<1> QED
  BY <1>12, <1>13, <1>14, <1>15, <1>16, <1>17 DEF ServerPlays, r

\* The server takes no record, and none of its fields that tell what it has taken changes.
LEMMA ForthStill ==
  ASSUME NEW q, NEW c, NEW s, Open(s), Forth(q, c, s), NEW f, f.got = s.got,
         f.expEarly = s.expEarly, f.st = "POST_HANDSHAKE" <=> s.st = "POST_HANDSHAKE",
         f.st = "POST_HANDSHAKE" => f.dec = s.dec,
         Open(f) => f.st # "EXPECT_CLIENT_HELLO"
  PROVE  Forth(q, c, f)
<1>1. PICK k, a \in 0..Len(c.sent) :
         /\ Split(c.sent, k) /\ (c.st # "POST_HANDSHAKE" => k = Len(c.sent))
         /\ Taken(s, c.sent, k, a) /\ Flow(q, c, s, k, a)
  BY DEF Forth
<1>2. Taken(f, c.sent, k, a)
  BY <1>1 DEF Taken
<1>3. Open(f) => Flow(q, c, f, k, a)
  BY <1>1 DEF Flow
<1> QED
  BY <1>1, <1>2, <1>3 DEF Forth

LEMMA NewServerTold ==
  ASSUME NEW cfg, NEW b, NEW e, e = [NewServer(cfg) EXCEPT !.asserts = b]
  PROVE  /\ {"got", "sent", "out"} \subseteq DOMAIN e /\ HeardFields \subseteq DOMAIN e
         /\ e.st = "EXPECT_CLIENT_HELLO" /\ e.got = <<>> /\ e.sent = <<>> /\ e.expEarly = <<>>
         /\ e.out = <<>> /\ e.ret = "IN_PROGRESS" /\ Tale(e) /\ Open(e)
<1>1. /\ {"got", "sent", "out"} \subseteq DOMAIN e /\ HeardFields \subseteq DOMAIN e
      /\ e.st = "EXPECT_CLIENT_HELLO" /\ e.got = <<>> /\ e.sent = <<>> /\ e.expEarly = <<>>
      /\ e.out = <<>> /\ e.ret = "IN_PROGRESS" /\ e.skipped = <<>> /\ e.pend = <<>>
  BY DEF NewServer, HeardFields
<1>2. Tale(e) /\ Open(e)
  BY <1>1 DEF Tale, Open, EndStates
<1> QED
  BY <1>1, <1>2

\* The stateless retry of the server that only saw a ClientHello.
LEMMA RetryPlays ==
  ASSUME NEW q, NEW c, NEW s, Open(s), Tale(s), ServerStory(s), Forth(q, c, s), NEW r, NEW f,
         ServerPlays(s, r, f), f.ret = "STATELESS_RETRY", NEW b, NEW e,
         e = [NewServer(S) EXCEPT !.asserts = b]
  PROVE  ServerPlays(s, r, e)
<1>1. /\ {"got", "sent", "out"} \subseteq DOMAIN e /\ HeardFields \subseteq DOMAIN e
      /\ e.st = "EXPECT_CLIENT_HELLO" /\ e.got = <<>> /\ e.sent = <<>> /\ e.out = <<>>
      /\ e.ret = "IN_PROGRESS" /\ Tale(e)
  <2> DEFINE cfg == S
  <2>1. e = [NewServer(cfg) EXCEPT !.asserts = b]
    OBVIOUS
  <2> HIDE DEF cfg
  <2> QED
    BY <2>1, NewServerTold
<1>2. s.st = "EXPECT_CLIENT_HELLO"
  BY DEF ServerPlays, Keeps
<1>3. s.sent = <<>> /\ s.skipped = <<>> /\ s.expEarly = <<>> /\ s.got = <<>>
  BY <1>2 DEF Tale, ServerStory, ServerHelloStates, Forth, Taken
<1>4. ~IsData(r)
  <2>1. ~Stopped(s, f) /\ ~TakesData(s, r, f) /\ ~DropsRecord(s, f) /\ ~TakesFin(s, r, f)
        /\ ~TurnsKey(s, r, f)
    BY <1>2, <1>3 DEF Stopped, TakesData, DropsRecord, TakesFin, TurnsKey, GoesOn
  <2> QED
    BY <2>1 DEF ServerPlays, PassesOn
<1>5. Keeps(s, e)
  BY <1>1, <1>2, <1>3, NoDataEmpty DEF Keeps
<1>6. PassesOn(s, r, e)
  BY <1>1, <1>2, <1>3, <1>4 DEF PassesOn
<1> QED
  BY <1>5, <1>6 DEF ServerPlays

\* The client takes nothing, and no data is added to its stream.
LEMMA BackKept ==
  ASSUME NEW q, NEW s, IsSeq(s.sent), NEW c, Back(q, s, c), NEW out, NoData(out),
         NEW f, f.sent = s.sent
  PROVE  Back(q \o out, f, c)
<1>1. PICK a \in 0..Len(s.sent) : /\ c.got = SubSeq(s.sent, 1, a)
                                  /\ Open(c) => Carries(q, a, s.sent, Nat)
  BY DEF Back
<1>2. Len(s.sent) \in Nat /\ IsSeq(out) /\ \A i \in 1..Len(out) : ~IsData(out[i])
  BY LenOfSeq DEF NoData
<1>3. Open(c) => Carries(q \o out, a, s.sent, Nat)
  BY <1>1, <1>2, CarriesMore
<1> QED
  BY <1>1, <1>3 DEF Back

-----------------------------------------------------------------------------
(* The steps of the server. *)

LEMMA ServerStepDelivers ==
  ASSUME AInv, Server, Delivers
  PROVE  Delivers'
<1>0. IInv /\ ClientMarks(toSrv, cli) /\ ServerMarks(srv)
  BY DEF AInv
<1>1. PICK U, V : Wire(toSrv, toCli, cli, srv, U, V)
  BY <1>0 DEF IInv, Between
<1>2. S.maxTickets \in Nat
  BY <1>0, SettingsAre DEF IInv
<1>3. cli' = cli /\ Open(srv) /\ ServerStays(cli, srv, srv')
  BY <1>0, ServerStepMarks
<1>4. /\ ServerHolds(toCli, srv, V, U) /\ ServerShape(srv) /\ ServerStage(srv, V)
      /\ ServerEnd(srv) /\ ServerStory(srv) /\ srv.out = <<>>
  BY <1>0, <1>1, <1>3 DEF Wire, ServerRests, ServerHolds, GoesOn, ServerMarks
<1>5. /\ Forth(toSrv, cli, srv) /\ Back(toCli, srv, cli) /\ FinishedFirst(cli, srv)
      /\ Clear(cli) /\ ServerTold(srv) /\ Tale(srv) /\ IsSeq(srv.sent) /\ IsSeq(cli.sent)
      /\ {"got", "sent"} \subseteq DOMAIN srv
  BY <1>3 DEF Delivers, ServerTold, Clear
<1>6. /\ {"got", "sent", "out"} \subseteq DOMAIN srv
      /\ HeardFields \subseteq DOMAIN srv
  BY <1>4, <1>5 DEF ServerEnd, ServerEndFields, HeardFields
<1>7. Hosting(srv)
  BY <1>3, <1>4, <1>5, <1>6, NoDataEmpty DEF Hosting, ServerShape
<1>8. FinishedFirst(cli, srv')
  BY <1>3, <1>5 DEF ServerStays, FinishedFirst, Agrees, SameOutcome
\* The server after a step that sends no data.
<1>9. ASSUME NEW out, NoData(out), toCli' = toCli \o out, NEW f, srv' = f, f.sent = srv.sent,
             {"got", "sent"} \subseteq DOMAIN f, Open(f) => Tale(f), Forth(toSrv', cli, f)
      PROVE  Delivers'
  <2>1. Back(toCli \o out, f, cli)
    BY <1>5, <1>9, BackKept
  <2>2. ServerTold(f)
    BY <1>5, <1>9 DEF ServerTold
  <2> QED
    BY <1>3, <1>5, <1>8, <1>9, <2>1, <2>2 DEF Delivers
<1>10. CASE ServerReceive
  <2>1. PICK signs \in S.signs :
           ServerGoes(Finish(srv, Input(srv, TRUE, Head(toSrv), signs), TRUE))
    BY <1>10 DEF ServerReceive
  <2> DEFINE r == Head(toSrv)
             x == Input(srv, TRUE, r, signs)
             f == Finish(srv, x, TRUE)
             h == Renewed(f)
  <2>2. /\ toSrv # <<>> /\ srv' = h /\ toCli' = toCli \o f.out /\ toSrv' = Tail(toSrv)
    BY <1>10, <2>1 DEF ServerReceive, ServerGoes
  <2>3. MessageTyped(r.msg)
    BY <1>1, <2>2, NumberedTail DEF Wire
  <2>4. srv.st = "POST_HANDSHAKE" =>
           srv.dec.aead # <<>> /\ r.key = srv.dec.aead /\ r.seq = srv.dec.seq
    BY <1>3, <1>5, <2>2, ForthKeyed
  <2>4a. r = Head(toSrv)
    OBVIOUS
  <2> HIDE DEF r
  <2>5. ServerPlays(srv, r, x)
    BY <1>2, <1>7, <2>3, <2>4, ServerRecordPlays
  <2> HIDE DEF x
  <2>5a. f = Finish(srv, x, TRUE)
    OBVIOUS
  <2> HIDE DEF f
  <2>6. Same(x, f, {"out"}) /\ NoData(f.out)
    <3>1. {"enc", "out", "ret", "st"} \subseteq DOMAIN x /\ NoData(x.out)
      BY <2>5 DEF ServerPlays, Keeps, HeardFields
    <3> QED
      BY <2>5a, <3>1, ServerConcludes
  <2>7. ServerPlays(srv, r, f)
    BY <2>5, <2>6, PlaysAlike
  <2>8. ServerPlays(srv, r, h)
    <3>1. CASE f.ret = "STATELESS_RETRY"
      <4>1. h = [NewServer(S) EXCEPT !.asserts = f.asserts]
        BY <3>1 DEF Renewed
      <4> HIDE DEF h
      <4> QED
        BY <1>3, <1>4, <1>5, <2>7, <3>1, <4>1, RetryPlays
    <3>2. CASE f.ret # "STATELESS_RETRY"
      <4>1. h = [f EXCEPT !.out = <<>>]
        BY <3>2 DEF Renewed, Sent
      <4>2. "out" \in DOMAIN f
        BY <2>7 DEF ServerPlays, Keeps
      <4> HIDE DEF h
      <4>3. Same(f, h, {"out"}) /\ h.out = <<>>
        BY <4>1, <4>2 DEF Same
      <4> QED
        BY <2>7, <4>3, NoDataEmpty, PlaysAlike
    <3> QED
      BY <3>1, <3>2
  <2> HIDE DEF h
  <2>9. Forth(Tail(toSrv), cli, h)
    <3>1. srv.st # "POST_HANDSHAKE" /\ h.st = "POST_HANDSHAKE" => Agrees(cli, h)
      BY <1>3, <2>2 DEF ServerStays
    <3> QED
      BY <1>3, <1>4, <1>5, <2>2, <2>4a, <2>8, <3>1, ForthRead
  <2>10. h.sent = srv.sent /\ {"got", "sent"} \subseteq DOMAIN h /\ (Open(h) => Tale(h))
    BY <2>8 DEF ServerPlays, Keeps
  <2> QED
    BY <1>9, <2>2, <2>6, <2>9, <2>10
<1>11. CASE ServerResume
  <2>1. PICK signs \in S.signs \ {"later"}, rest \in {<<>>, <<Unfinished>>} :
           ServerGoes(Resumed(SignAndFinish(S, srv, signs, ServerNow), signs, rest))
    BY <1>11 DEF ServerResume
  <2> DEFINE x == SignAndFinish(S, srv, signs, ServerNow)
             f == Resumed(x, signs, rest)
             h == Renewed(f)
             got == srv.got
             sent == srv.sent
             early == srv.expEarly
  <2>2. srv.ret = "ASYNC_OPERATION" /\ srv' = h /\ toCli' = toCli \o f.out /\ toSrv' = toSrv
    BY <1>11, <2>1 DEF ServerResume, ServerGoes
  <2>3. srv.st = "GENERATING_CERTIFICATE_VERIFY"
    BY <1>4, <2>2 DEF ServerStage
  <2>4. Sober(x, got, sent, early)
    <3>1. Heard(srv, got, sent, early)
      BY <1>7, HostHeard DEF Same
    <3> HIDE DEF got, sent, early
    <3> QED
      BY <2>3, <3>1, SignedSober
  <2> HIDE DEF x
  <2>5. f = Resumed(x, signs, rest)
    OBVIOUS
  <2> HIDE DEF f
  <2>6. /\ {"enc", "out", "ret", "st", "got", "sent"} \subseteq DOMAIN x /\ NoData(x.out)
        /\ HeardFields \subseteq DOMAIN x
        /\ x.got = srv.got /\ x.sent = srv.sent /\ x.expEarly = srv.expEarly
        /\ x.skipped # <<>> => x.expEarly = <<>>
        /\ x.pend # <<>> => x.expEarly # <<>>
    BY <2>4 DEF Sober, Heard, Mute, HeardFields
  <2>7. Same(x, f, {"out"}) /\ NoData(f.out)
    <3>1. f = x \/ f = [x EXCEPT !.out = rest]
      BY <2>5 DEF Resumed
    <3>2. NoData(rest)
      <4>1. Unfinished.msg.mt # "DATA"
        BY DEF Unfinished, Record
      <4>2. NoData(Append(<<>>, Unfinished))
        BY <4>1, NoDataEmpty, NoDataMore DEF IsData
      <4>3. Append(<<>>, Unfinished) = <<Unfinished>>
        OBVIOUS
      <4> QED
        BY <4>2, <4>3, NoDataEmpty
    <3> QED
      BY <2>6, <3>1, <3>2 DEF Same
  <2>8. DOMAIN f = DOMAIN x /\ f.ret = x.ret
    BY <2>6, <2>7 DEF Same
  <2>9. f.ret # "STATELESS_RETRY"
    BY <2>4, <2>8 DEF Sober
  <2>10. h = [f EXCEPT !.out = <<>>]
    BY <2>9 DEF Renewed, Sent
  <2> HIDE DEF h
  <2>11. Same(x, h, {"out"})
    BY <2>6, <2>7, <2>8, <2>10 DEF Same
  <2>12. /\ DOMAIN h = DOMAIN x /\ h.got = srv.got /\ h.sent = srv.sent
         /\ h.expEarly = srv.expEarly /\ h.st = x.st /\ h.ret = x.ret /\ h.skipped = x.skipped
         /\ h.pend = x.pend /\ h.pendApp = x.pendApp /\ h.exp = x.exp
    BY <2>6, <2>11 DEF Same, HeardFields
  <2>13. /\ h.st # "POST_HANDSHAKE" /\ srv.st # "POST_HANDSHAKE"
         /\ Open(h) => h.st # "EXPECT_CLIENT_HELLO"
    BY <2>3, <2>4, <2>12 DEF Sober, Open
  <2>14. Open(h) => Tale(h)
    BY <2>4, <2>6, <2>12, <2>13 DEF Sober, Tale, Open
  <2>15. Forth(toSrv, cli, h)
    BY <1>3, <1>5, <2>12, <2>13, ForthStill
  <2>16. {"got", "sent"} \subseteq DOMAIN h
    BY <2>6, <2>12
  <2> QED
    BY <1>9, <2>2, <2>7, <2>12, <2>14, <2>15, <2>16
<1>12. CASE ServerSend
  <2> DEFINE m == Data(FALSE, Len(srv.sent) + 1)
             f == PtlsSend(srv, m)
             h == Renewed(f)
  <2>1. m.mt = "DATA"
    BY DEF Data
  <2>2. srv.ret = "OK" /\ srv' = h /\ toCli' = toCli \o f.out /\ toSrv' = toSrv
    BY <1>12 DEF ServerSend, ServerGoes
  <2> HIDE DEF m
  <2>3. Traffic(srv.enc) /\ srv.enc.aead # <<>> /\ srv.st \in ServerLateStates
    BY <1>4, <2>2 DEF ServerHolds, Sending, ServerStage
  <2>4. {"enc", "out", "sent", "ret"} \subseteq DOMAIN srv
    BY <1>6 DEF HeardFields
  <2>5. f = PtlsSend(srv, m)
    OBVIOUS
  <2> HIDE DEF f
  <2>6. /\ Same(srv, f, {"enc", "out", "needsKU", "reqKU", "sent"})
        /\ f.sent = Append(srv.sent, m) /\ Silent(f.out)
        /\ \A q, a, sent, at : Carries(q, a, sent, at) =>
              Carries(q \o f.out, a, Append(sent, m), at)
    BY <1>3, <1>4, <2>1, <2>3, <2>4, <2>5, SendIs
  <2>7. DOMAIN f = DOMAIN srv /\ f.ret = srv.ret
    BY <2>4, <2>6 DEF Same
  <2>8. h = [f EXCEPT !.out = <<>>]
    BY <2>2, <2>7 DEF Renewed, Sent
  <2> HIDE DEF h
  <2>9. Same(srv, h, {"enc", "out", "needsKU", "reqKU", "sent"}) /\ h.sent = Append(srv.sent, m)
    BY <2>4, <2>6, <2>7, <2>8 DEF Same
  <2>10. /\ DOMAIN h = DOMAIN srv /\ h.got = srv.got /\ h.expEarly = srv.expEarly
         /\ h.st = srv.st /\ h.ret = srv.ret /\ h.skipped = srv.skipped /\ h.dec = srv.dec
         /\ h.pend = srv.pend /\ h.pendApp = srv.pendApp /\ h.exp = srv.exp
    BY <1>5, <1>6, <2>9 DEF Same, HeardFields
  <2>11. h.st # "EXPECT_CLIENT_HELLO"
    BY <2>3, <2>10 DEF ServerLateStates
  <2>12. Forth(toSrv, cli, h)
    BY <1>3, <1>5, <2>10, <2>11, ForthStill
  <2>13. Tale(h)
    BY <1>5, <2>10, <2>11 DEF Tale
  <2>14. Begins(srv.sent, h.sent) /\ IsSeq(h.sent) /\ Len(srv.sent) \in Nat
         /\ Len(h.sent) = Len(srv.sent) + 1
    BY <1>5, <2>9, AppendIs
  <2>15. Back(toCli \o f.out, h, cli)
    <3>1. PICK a \in 0..Len(srv.sent) : /\ cli.got = SubSeq(srv.sent, 1, a)
                                        /\ Open(cli) => Carries(toCli, a, srv.sent, Nat)
      BY <1>5 DEF Back
    <3>2. a \in 0..Len(h.sent)
      BY <2>14, <3>1
    <3>3. cli.got = SubSeq(h.sent, 1, a)
      BY <2>14, <3>1, FrontKept
    <3>4. Open(cli) => Carries(toCli \o f.out, a, h.sent, Nat)
      BY <2>6, <2>9, <3>1
    <3> QED
      BY <3>2, <3>3, <3>4 DEF Back
  <2>16. ServerTold(h)
    BY <1>5, <2>10, <2>13, <2>14 DEF ServerTold
  <2> QED
    BY <1>3, <1>5, <1>8, <2>2, <2>12, <2>15, <2>16 DEF Delivers
<1> QED
  BY <1>10, <1>11, <1>12 DEF Server

-----------------------------------------------------------------------------
(* Every connection. *)

\* Two new ends, with nothing under way.
LEMMA NewEndsDeliver ==
  ASSUME NEW p, NEW q, NEW c, c = NewClient(p), NEW s, s = NewServer(q)
  PROVE  Forth(<<>>, c, s) /\ Back(<<>>, s, c) /\ FinishedFirst(c, s) /\ Clear(c) /\ ServerTold(s)
<1>1. /\ {"got", "sent"} \subseteq DOMAIN c /\ c.got = <<>> /\ c.sent = <<>>
      /\ c.st = "HANDSHAKE_START"
  BY DEF NewClient
<1>2. /\ {"got", "sent"} \subseteq DOMAIN s /\ s.got = <<>> /\ s.sent = <<>> /\ s.expEarly = <<>>
      /\ s.st = "EXPECT_CLIENT_HELLO" /\ Tale(s)
  <2>1. s = [NewServer(q) EXCEPT !.asserts = s.asserts]
    BY DEF NewServer
  <2> QED
    BY <2>1, NewServerTold
<1>3. IsSeq(<<>>) /\ Len(<<>>) = 0 /\ SubSeq(<<>>, 1, 0) = <<>>
  <2>1. IsSeq(<<>>) /\ Len(<<>>) = 0
    BY EmptyIsSeq
  <2>2. SubSeq(<<>>, 1, Len(<<>>)) = <<>>
    BY <2>1, WholeFront
  <2> QED
    BY <2>1, <2>2
<1>4. \A at : Carries(<<>>, 0, <<>>, at)
  BY <1>3, CarriesNone
<1>5. Flow(<<>>, c, s, 0, 0)
  BY <1>1, <1>2, <1>3, <1>4 DEF Flow
<1>6. Taken(s, <<>>, 0, 0) /\ Split(<<>>, 0)
  BY <1>2, <1>3 DEF Taken, Split
<1>7. 0 \in 0..Len(<<>>)
  BY <1>3
<1>8. Forth(<<>>, c, s)
  BY <1>1, <1>3, <1>5, <1>6, <1>7 DEF Forth
<1>9. Back(<<>>, s, c)
  BY <1>1, <1>2, <1>3, <1>4, <1>7 DEF Back
<1> QED
  BY <1>1, <1>2, <1>3, <1>8, <1>9 DEF FinishedFirst, Clear, ServerTold

LEMMA DeliveryBegins == Init => Delivers
<1> SUFFICES ASSUME Init PROVE Delivers
  OBVIOUS
<1>1. cli = NewClient(plan[1].c) /\ srv = NewServer(plan[1].s) /\ toSrv = <<>> /\ toCli = <<>>
  BY DEF Init
<1>2. /\ Forth(<<>>, cli, srv) /\ Back(<<>>, srv, cli) /\ FinishedFirst(cli, srv)
      /\ Clear(cli) /\ ServerTold(srv)
  BY <1>1, NewEndsDeliver
<1> QED
  BY <1>1, <1>2 DEF Delivers

LEMMA DeliverySteps == AInv /\ Delivers /\ [Next]_vars => AInv' /\ Delivers'
<1> SUFFICES ASSUME AInv, Delivers, [Next]_vars PROVE AInv' /\ Delivers'
  OBVIOUS
<1>1. AInv'
  BY AgreementSteps
<1>2. CASE Client
  BY <1>1, <1>2, ClientStepDelivers
<1>3. CASE Server
  BY <1>1, <1>3, ServerStepDelivers
<1>4. CASE Reconnect
  <2>1. /\ cli' = NewClient(plan[conn + 1].c) /\ srv' = NewServer(plan[conn + 1].s)
        /\ toSrv' = <<>> /\ toCli' = <<>>
    BY <1>4 DEF Reconnect, Quiet
  <2>2. /\ Forth(<<>>, cli', srv') /\ Back(<<>>, srv', cli') /\ FinishedFirst(cli', srv')
        /\ Clear(cli') /\ ServerTold(srv')
    BY <2>1, NewEndsDeliver
  <2> QED
    BY <1>1, <2>1, <2>2 DEF Delivers
<1>5. CASE UNCHANGED vars
  BY <1>1, <1>5 DEF Delivers, vars
<1> QED
  BY <1>2, <1>3, <1>4, <1>5 DEF Next

LEMMA PrefixIs == ASSUME NEW p, NEW q, Begins(p, q) PROVE IsPrefix(p, q)
<1>1. Len(p) \in 0..Len(p)
  BY LenOfSeq DEF Begins
<1>2. SubSeq(q, 1, Len(p)) = SubSeq(p, 1, Len(p))
  BY <1>1, FrontKept
<1> QED
  BY <1>2 DEF Begins, IsPrefix

\* What is not early is what stands behind the early data.
LEMMA NotEarlyIs ==
  ASSUME NEW sent, IsSeq(sent), NEW k \in 0..Len(sent), Split(sent, k)
  PROVE  NotEarly(sent) = SubSeq(sent, k + 1, Len(sent))
<1> DEFINE n == Cardinality({i \in DOMAIN sent : sent[i].early})
<1>1. Len(sent) \in Nat /\ DOMAIN sent = 1..Len(sent)
  BY LenOfSeq, LenProperties DEF IsSeq
<1>2. {i \in DOMAIN sent : sent[i].early} = 1..k
  <2>1. \A i \in 1..Len(sent) : sent[i].early <=> i <= k
    BY DEF Split
  <2>2. k \in Nat /\ k <= Len(sent)
    BY <1>1
  <2> DEFINE first == {i \in DOMAIN sent : sent[i].early}
  <2>3. \A i : i \in first <=> i \in 1..Len(sent) /\ i <= k
    BY <1>1, <2>1
  <2>4. \A i : i \in first <=> i \in 1..k
    <3> HIDE DEF first
    <3> QED
      BY <1>1, <2>2, <2>3
  <2> QED
    BY <2>4
<1>3. Cardinality(1..k) = k
  <2>1. k \in Int /\ 1 \in Int /\ k >= 0
    BY <1>1
  <2>2. Cardinality(1..k) = IF 1 > k THEN 0 ELSE k - 1 + 1
    BY <2>1, FS_Interval
  <2> QED
    BY <2>1, <2>2
<1>4. n = k
  BY <1>2, <1>3
<1> QED
  BY <1>4 DEF NotEarly

LEMMA ForthInOrder ==
  ASSUME NEW q, NEW c, IsSeq(c.sent), NEW s, Forth(q, c, s), NEW due,
         due = (IF s.expEarly # <<>> THEN c.sent ELSE NotEarly(c.sent))
  PROVE  /\ IsPrefix(s.got, due)
         /\ Open(s) /\ q = <<>> /\ s.st = "POST_HANDSHAKE" => s.got = due
<1> DEFINE sent == c.sent
           n == Len(sent)
<1>1. PICK k, a \in 0..n :
         Split(sent, k) /\ Taken(s, sent, k, a) /\ (Open(s) => Flow(q, c, s, k, a))
  BY DEF Forth
<1>2. IsSeq(sent) /\ n \in Nat
  BY LenOfSeq
<1>3. Open(s) /\ q = <<>> => a = n
  <2>1. Open(s) => Carries(q, a, sent, {k})
    BY <1>1 DEF Flow
  <2> QED
    BY <2>1, CarriesFrom
<1>4. NotEarly(sent) = SubSeq(sent, k + 1, n)
  BY <1>1, <1>2, NotEarlyIs
\* From the j-th message on.
<1>5. ASSUME NEW j \in 0..a
      PROVE  Begins(SubSeq(sent, j + 1, a), SubSeq(sent, j + 1, n))
  <2>1. n \in 0..n /\ j \in 0..n /\ a <= n /\ j <= a /\ a \in Nat /\ j \in Nat
    BY <1>2, <1>5
  <2>2. /\ IsSeq(SubSeq(sent, j + 1, a)) /\ Len(SubSeq(sent, j + 1, a)) = a - j
        /\ \A i \in 1..(a - j) : SubSeq(sent, j + 1, a)[i] = sent[j + i]
    BY <1>2, <1>5, <2>1, PartIs
  <2>3. /\ IsSeq(SubSeq(sent, j + 1, n)) /\ Len(SubSeq(sent, j + 1, n)) = n - j
        /\ \A i \in 1..(n - j) : SubSeq(sent, j + 1, n)[i] = sent[j + i]
    BY <1>2, <2>1, PartIs
  <2>4. a - j <= n - j /\ 1..(a - j) \subseteq 1..(n - j)
    BY <1>2, <2>1
  <2> HIDE DEF n, sent
  <2> QED
    BY <2>2, <2>3, <2>4 DEF Begins
<1>6. CASE s.expEarly # <<>>
  <2>1. s.got = SubSeq(sent, 1, a) /\ due = sent
    BY <1>1, <1>6 DEF Taken
  <2>2. 0 \in 0..a /\ 0 + 1 = 1
    BY <1>2
  <2>3. Begins(SubSeq(sent, 0 + 1, a), SubSeq(sent, 0 + 1, n))
    BY <1>5, <2>2
  <2>4. SubSeq(sent, 1, n) = sent
    BY <1>2, WholeFront
  <2>5. Begins(s.got, due)
    BY <2>1, <2>2, <2>3, <2>4
  <2> QED
    BY <1>3, <2>1, <2>4, <2>5, PrefixIs
<1>7. CASE s.expEarly = <<>> /\ s.st = "POST_HANDSHAKE"
  <2>1. s.got = SubSeq(sent, k + 1, a) /\ k <= a /\ due = SubSeq(sent, k + 1, n)
    BY <1>1, <1>4, <1>7 DEF Taken
  <2>2. k \in 0..a
    BY <1>2, <2>1
  <2>3. Begins(s.got, due)
    BY <1>5, <2>1, <2>2
  <2> QED
    BY <1>3, <2>1, <2>3, PrefixIs
<1>8. CASE s.expEarly = <<>> /\ s.st # "POST_HANDSHAKE"
  <2>1. s.got = <<>> /\ due = SubSeq(sent, k + 1, n)
    BY <1>1, <1>4, <1>8 DEF Taken
  <2>2. n \in 0..n /\ k \in 0..n
    BY <1>2
  <2>3. IsSeq(due) /\ Len(due) \in Nat
    BY <1>2, <2>1, <2>2, PartIs, LenOfSeq
  <2>4. Begins(s.got, due)
    BY <2>1, <2>3, EmptyIsSeq DEF Begins
  <2> QED
    BY <1>8, <2>4, PrefixIs
<1> QED
  BY <1>6, <1>7, <1>8

LEMMA BackInOrder ==
  ASSUME NEW q, NEW s, IsSeq(s.sent), NEW c, Back(q, s, c)
  PROVE  IsPrefix(c.got, s.sent) /\ (Open(c) /\ q = <<>> => c.got = s.sent)
<1>1. PICK a \in 0..Len(s.sent) : /\ c.got = SubSeq(s.sent, 1, a)
                                  /\ Open(c) => Carries(q, a, s.sent, Nat)
  BY DEF Back
<1>2. /\ IsSeq(c.got) /\ Len(c.got) = a /\ \A i \in 1..a : c.got[i] = s.sent[i]
  BY <1>1, FrontIs
<1>3. Len(s.sent) \in Nat
  BY LenOfSeq
<1>4. Begins(c.got, s.sent)
  BY <1>1, <1>2, <1>3 DEF Begins
<1>5. Open(c) /\ q = <<>> => a = Len(s.sent)
  BY <1>1, CarriesFrom
<1>6. SubSeq(s.sent, 1, Len(s.sent)) = s.sent
  BY WholeFront
<1> QED
  BY <1>1, <1>4, <1>5, <1>6, PrefixIs

\* What is early in a sequence, by the numbers of its messages.
LEMMA EarlyIs ==
  ASSUME NEW seq, IsSeq(seq)
  PROVE  \A m : m \in Early(seq) <=> \E i \in 1..Len(seq) : m = seq[i] /\ m.early
<1>1. DOMAIN seq = 1..Len(seq)
  BY LenProperties DEF IsSeq
<1> QED
  BY <1>1 DEF Early, ToSet

\* A server that accepts early data has all of it once the client's Finished has
\* come, any other has none.
LEMMA ForthEarly ==
  ASSUME NEW q, NEW c, IsSeq(c.sent), NEW s, Forth(q, c, s)
  PROVE  /\ s.expEarly = <<>> => Early(s.got) = {}
         /\ s.st = "POST_HANDSHAKE" /\ s.expEarly # <<>> => Early(s.got) = Early(c.sent)
<1> DEFINE sent == c.sent
           n == Len(sent)
<1>1. PICK k, a \in 0..n : Split(sent, k) /\ Taken(s, sent, k, a)
  BY DEF Forth
<1>2. IsSeq(sent) /\ n \in Nat /\ k \in Nat /\ a \in Nat /\ a <= n
  BY LenOfSeq
<1>3. \A i \in 1..n : sent[i].early <=> i <= k
  BY <1>1 DEF Split
<1>4. \A m : m \in Early(sent) <=> \E i \in 1..n : m = sent[i] /\ m.early
  BY <1>2, EarlyIs
<1> HIDE DEF n, sent
<1>5. CASE s.expEarly = <<>> /\ s.st = "POST_HANDSHAKE"
  <2>1. s.got = SubSeq(sent, k + 1, a) /\ k \in 0..a
    BY <1>1, <1>2, <1>5 DEF Taken
  <2>2. IsSeq(s.got) /\ Len(s.got) = a - k /\ \A i \in 1..(a - k) : s.got[i] = sent[k + i]
    BY <1>1, <1>2, <2>1, PartIs DEF n
  <2>3. ASSUME NEW i \in 1..(a - k) PROVE ~s.got[i].early
    <3>1. k + i \in 1..n /\ ~(k + i <= k) /\ s.got[i] = sent[k + i]
      BY <1>2, <2>1, <2>2
    <3> QED
      BY <1>3, <3>1
  <2>4. \A m : m \notin Early(s.got)
    BY <2>2, <2>3, EarlyIs
  <2> QED
    BY <1>5, <2>4
<1>6. CASE s.expEarly = <<>> /\ s.st # "POST_HANDSHAKE"
  <2>1. s.got = <<>>
    BY <1>1, <1>6 DEF Taken
  <2>2. \A m : m \notin Early(s.got)
    BY <2>1, EmptyIsSeq, EarlyIs
  <2> QED
    BY <1>6, <2>2
<1>7. CASE s.expEarly # <<>> /\ s.st = "POST_HANDSHAKE"
  <2>1. s.got = SubSeq(sent, 1, a) /\ k <= a
    BY <1>1, <1>7 DEF Taken
  <2>2. IsSeq(s.got) /\ Len(s.got) = a /\ \A i \in 1..a : s.got[i] = sent[i]
    BY <1>1, <1>2, <2>1, FrontIs DEF n
  <2>3. \A m : m \in Early(s.got) <=> \E i \in 1..a : m = sent[i] /\ m.early
    BY <2>2, EarlyIs
  <2>4. \A i \in 1..n : sent[i].early => i \in 1..a
    BY <1>2, <1>3, <2>1
  <2>5. \A i \in 1..a : i \in 1..n
    BY <1>2
  <2>6. \A m : m \in Early(s.got) <=> m \in Early(sent)
    BY <1>4, <2>3, <2>4, <2>5
  <2> QED
    BY <1>7, <2>6 DEF sent
<1>8. CASE s.expEarly # <<>> /\ s.st # "POST_HANDSHAKE"
  BY <1>8
<1> QED
  BY <1>5, <1>6, <1>7, <1>8

LEMMA DeliversEarly == Delivers => EarlyDataAllOrNothing
<1> SUFFICES ASSUME Delivers PROVE EarlyDataAllOrNothing
  OBVIOUS
<1>1. /\ srv.expEarly = <<>> => Early(srv.got) = {}
      /\ srv.st = "POST_HANDSHAKE" /\ srv.expEarly # <<>> => Early(srv.got) = Early(cli.sent)
  BY ForthEarly DEF Delivers, Clear
<1>2. srv.st = "POST_HANDSHAKE" => (cli.acceptance = "ACCEPTED" <=> srv.expEarly # <<>>)
  BY DEF Delivers, FinishedFirst, EarlyTaken, ClientEarly
<1> QED
  BY <1>1, <1>2 DEF EarlyDataAllOrNothing

LEMMA DeliversInOrder == Delivers => DeliveredInOrder
<1> SUFFICES ASSUME Delivers PROVE DeliveredInOrder
  OBVIOUS
<1> DEFINE due == IF srv.expEarly # <<>> THEN cli.sent ELSE NotEarly(cli.sent)
<1>1. /\ IsPrefix(srv.got, due)
      /\ Open(srv) /\ toSrv = <<>> /\ srv.st = "POST_HANDSHAKE" => srv.got = due
  BY ForthInOrder DEF Delivers, Clear
<1>2. /\ IsPrefix(cli.got, srv.sent) /\ (Open(cli) /\ toCli = <<>> => cli.got = srv.sent)
  BY BackInOrder DEF Delivers, ServerTold
<1>3. Quiet => /\ Open(cli) /\ Open(srv) /\ srv.st = "POST_HANDSHAKE"
               /\ toSrv = <<>> /\ toCli = <<>>
  BY DEF Quiet, Complete, Open
<1> HIDE DEF due
<1>4. IsPrefix(srv.got, due) /\ IsPrefix(cli.got, srv.sent)
      /\ (Quiet => srv.got = due /\ cli.got = srv.sent)
  BY <1>1, <1>2, <1>3
<1> QED
  BY <1>4 DEF DeliveredInOrder, due

\* What an application reads is a prefix of what the other one has sent, of the
\* client's data without the early data if that was refused, and once both
\* ends are at rest it is all of it: through the handshake, early data that is
\* accepted or skipped, changes of the key, retries and later connections.
THEOREM DataInOrder == Spec => []DeliveredInOrder
<1>1. Init => AInv /\ Delivers
  BY AgreementBegins, DeliveryBegins
<1>2. AInv /\ Delivers /\ [Next]_vars => (AInv /\ Delivers)'
  BY DeliverySteps
<1>3. AInv /\ Delivers => DeliveredInOrder
  BY DeliversInOrder
<1> QED
  BY <1>1, <1>2, <1>3, PTL DEF Spec

\* Early data that the server has not accepted never reaches its application;
\* when its handshake ends, the application has been given all of the early data
\* or none, and the client's application has been told which.
THEOREM EarlyDataWhole == Spec => []EarlyDataAllOrNothing
<1>1. Init => AInv /\ Delivers
  BY AgreementBegins, DeliveryBegins
<1>2. AInv /\ Delivers /\ [Next]_vars => (AInv /\ Delivers)'
  BY DeliverySteps
<1>3. AInv /\ Delivers => EarlyDataAllOrNothing
  BY DeliversEarly
<1> QED
  BY <1>1, <1>2, <1>3, PTL DEF Spec

=============================================================================

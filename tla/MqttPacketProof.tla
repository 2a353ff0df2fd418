-------------------------- MODULE MqttPacketProof --------------------------
(***************************************************************************)
(* Proofs about MqttPacket, for every Base, every size of the buffers and  *)
(* every packet whose length has four digits: recv_mqtt_packet_tls cuts    *)
(* whole packets out of the stream, the parsers find in them what the      *)
(* broker put there, and the builders make what the parsers understand.    *)
(***************************************************************************)
EXTENDS MqttPacket, SequenceTheorems, TLAPS

\* The items of two sequences put together.
LEMMA Joined ==
    ASSUME NEW s \in Seq(Nat), NEW t \in Seq(Nat)
    PROVE  /\ s \o t \in Seq(Nat) /\ Len(s \o t) = Len(s) + Len(t)
           /\ \A i \in 1..Len(s) : (s \o t)[i] = s[i]
           /\ \A i \in 1..Len(t) : (s \o t)[Len(s) + i] = t[i]
<1>1. Len(s) \in Nat /\ Len(t) \in Nat
  BY LenProperties
<1>2. \A i \in 1..Len(s) : i \in 1..Len(s) + Len(t) /\ i <= Len(s)
  BY <1>1
<1>3. \A i \in 1..Len(t) :
          Len(s) + i \in 1..Len(s) + Len(t) /\ ~(Len(s) + i <= Len(s)) /\ (Len(s) + i) - Len(s) = i
  BY <1>1
<1>4. /\ s \o t \in Seq(Nat) /\ Len(s \o t) = Len(s) + Len(t)
      /\ \A i \in 1..Len(s) + Len(t) :
            (s \o t)[i] = IF i <= Len(s) THEN s[i] ELSE t[i - Len(s)]
  BY ConcatProperties
<1>5. ASSUME NEW i \in 1..Len(s) PROVE (s \o t)[i] = s[i]
  BY <1>2, <1>4
<1>6. ASSUME NEW i \in 1..Len(t) PROVE (s \o t)[Len(s) + i] = t[i]
  BY <1>3, <1>4
<1> QED BY <1>4, <1>5, <1>6

LEMMA Items ==
    ASSUME NEW s \in Seq(Nat)
    PROVE  Len(s) \in Nat /\ \A i \in 1..Len(s) : s[i] \in Nat
BY ElementOfSeq, LenProperties

LEMMA Associative ==
    ASSUME NEW s \in Seq(Nat), NEW t \in Seq(Nat), NEW u \in Seq(Nat)
    PROVE  (s \o t) \o u = s \o (t \o u)
BY ConcatAssociative

\* Division by Base.
LEMMA DivBase ==
    ASSUME NEW v \in Nat
    PROVE  /\ v \div Base \in Nat
           /\ v % Base \in Nat
           /\ v % Base < Base
           /\ v = Base * (v \div Base) + (v % Base)
           /\ v \div Base = 0 <=> v < Base
           /\ v < Base => v % Base = v
           /\ v < Base => (Base + v) % Base = v
BY BaseAssumption

\* Two bytes, whatever the value.
LEMMA TwoBytesSeq ==
    ASSUME NEW v \in Nat
    PROVE  TwoBytes(v) \in Seq(Nat) /\ Len(TwoBytes(v)) = 2
<1> DEFINE W == 2 * Base
           x == (v \div W) % W
           y == v % W
<1>1. W \in Nat /\ W > 0
  BY BaseAssumption
<1> HIDE DEF W
<1>2. v \div W \in Nat /\ y \in Nat
  BY <1>1
<1>3. x \in Nat
  BY <1>1, <1>2
<1>4. TwoBytes(v) = <<x, y>>
  BY DEF TwoBytes, W
<1> HIDE DEF x, y
<1> QED BY <1>2, <1>3, <1>4

\* Division by the number of values of a byte.
LEMMA DivByte ==
    ASSUME NEW v \in Id
    PROVE  /\ TwoBytes(v) \in Seq(Nat) /\ Len(TwoBytes(v)) = 2
           /\ TwoBytes(v)[1] * 2 * Base + TwoBytes(v)[2] = v
<1> DEFINE W == 2 * Base
<1>1. W \in Nat /\ W > 1 /\ v \in Nat /\ v < W * W
  BY BaseAssumption DEF Id
<1> HIDE DEF W
<1>2. v \div W \in Nat /\ v % W \in Nat /\ v = W * (v \div W) + (v % W)
  BY <1>1
<1>3. v \div W < W
  BY <1>1, <1>2
<1>4. (v \div W) % W = v \div W
  BY <1>1, <1>2, <1>3
<1>5. TwoBytes(v) = <<v \div W, v % W>>
  BY <1>4 DEF TwoBytes, W
<1>6. (v \div W) * 2 * Base = W * (v \div W)
  BY <1>2, BaseAssumption DEF W
<1> QED BY <1>1, <1>2, <1>5, <1>6

\* A variable byte integer is up to four bytes, whatever its value.
LEMMA VarIntSeq ==
    ASSUME NEW v \in Nat
    PROVE  encode_variable_byte_integer(v) \in Seq(Nat)
           /\ Len(encode_variable_byte_integer(v)) \in 1..4
<1> DEFINE q1 == v \div Base
           q2 == q1 \div Base
           q3 == q2 \div Base
           more(x) == Base + (x % Base)
           L == encode_variable_byte_integer(v)
<1>1. q1 \in Nat
  BY DivBase
<1>2. q2 \in Nat
  BY <1>1, DivBase
<1>3. q3 \in Nat
  BY <1>2, DivBase
<1>4. \A x \in Nat : more(x) \in Nat
  BY DivBase, BaseAssumption
<1>5. more(v) \in Nat /\ more(q1) \in Nat /\ more(q2) \in Nat
  BY <1>1, <1>2, <1>4
<1>6. L \in {<<v>>, <<more(v), q1>>, <<more(v), more(q1), q2>>, <<more(v), more(q1), more(q2), q3>>}
  <2>1. Quotients(v) = <<v, q1, q2, q3>>
    BY DEF Quotients
  <2>2. Quotients(v)[1] = v /\ Quotients(v)[2] = q1 /\ Quotients(v)[3] = q2 /\ Quotients(v)[4] = q3
    BY <2>1
  <2> HIDE DEF q1, q2, q3
  <2> QED BY <2>2, <1>1, <1>2, <1>3 DEF encode_variable_byte_integer
<1> HIDE DEF q1, q2, q3, more, L
<1>7. CASE L = <<v>>
  <2>1. L \in Seq(Nat) /\ Len(L) \in 1..4
    BY <1>7
  <2> QED BY <2>1 DEF L
<1>8. CASE L = <<more(v), q1>>
  <2>1. L \in Seq(Nat) /\ Len(L) \in 1..4
    BY <1>1, <1>5, <1>8
  <2> QED BY <2>1 DEF L
<1>9. CASE L = <<more(v), more(q1), q2>>
  <2>1. L \in Seq(Nat) /\ Len(L) \in 1..4
    BY <1>2, <1>5, <1>9
  <2> QED BY <2>1 DEF L
<1>10. CASE L = <<more(v), more(q1), more(q2), q3>>
  <2>1. L \in Seq(Nat) /\ Len(L) \in 1..4
    BY <1>3, <1>5, <1>10
  <2> QED BY <2>1 DEF L
<1> QED BY <1>6, <1>7, <1>8, <1>9, <1>10

\* The bytes of a variable byte integer: all but the last continue, and each
\* gives the rest of a quotient.
LEMMA VarInt ==
    ASSUME NEW v \in Nat, v < Base * Base * Base * Base
    PROVE  LET L == encode_variable_byte_integer(v)
               Q == Quotients(v) IN
           /\ L \in Seq(Nat) /\ Len(L) \in 1..4
           /\ Q[1] = v /\ \A i \in 1..4 : Q[i] \in Nat
           /\ \A i \in 1..Len(L) - 1 :
                 L[i] >= Base /\ L[i] % Base \in Nat /\ Q[i] = (L[i] % Base) + Base * Q[i + 1]
           /\ L[Len(L)] = Q[Len(L)] /\ Q[Len(L)] < Base
           /\ Len(L) > 1 => Q[Len(L)] > 0
<1> DEFINE q1 == v \div Base
           q2 == q1 \div Base
           q3 == q2 \div Base
           L == encode_variable_byte_integer(v)
           Q == Quotients(v)
           more(x) == Base + (x % Base)
<1>1. /\ q1 \in Nat /\ v = Base * q1 + (v % Base) /\ v % Base \in Nat /\ v % Base < Base
      /\ q1 = 0 <=> v < Base
  BY DivBase
<1>2. /\ q2 \in Nat /\ q1 = Base * q2 + (q1 % Base) /\ q1 % Base \in Nat /\ q1 % Base < Base
      /\ q2 = 0 <=> q1 < Base
  BY <1>1, DivBase
<1>3. /\ q3 \in Nat /\ q2 = Base * q3 + (q2 % Base) /\ q2 % Base \in Nat /\ q2 % Base < Base
      /\ q3 = 0 <=> q2 < Base
  BY <1>2, DivBase
<1>4. q3 < Base
  <2>1. q1 < Base * Base * Base
    <3> SUFFICES ASSUME q1 >= Base * Base * Base PROVE FALSE
      BY <1>1, BaseAssumption
    <3>1. Base * q1 >= Base * (Base * Base * Base)
      BY <1>1, BaseAssumption
    <3> QED BY <3>1, <1>1, BaseAssumption
  <2>2. q2 < Base * Base
    <3> SUFFICES ASSUME q2 >= Base * Base PROVE FALSE
      BY <1>2, BaseAssumption
    <3>1. Base * q2 >= Base * (Base * Base)
      BY <1>2, BaseAssumption
    <3> QED BY <3>1, <1>2, <2>1, BaseAssumption
  <2> SUFFICES ASSUME q3 >= Base PROVE FALSE
    BY <1>3, BaseAssumption
  <2>3. Base * q3 >= Base * Base
    BY <1>3, BaseAssumption
  <2> QED BY <2>3, <1>3, <2>2, BaseAssumption
<1>5. ASSUME NEW x \in Nat
      PROVE  more(x) \in Nat /\ more(x) >= Base /\ more(x) % Base = x % Base
  BY DivBase, BaseAssumption
<1>6. Q = <<v, q1, q2, q3>>
  BY DEF Quotients
<1>7. Q[1] = v /\ Q[2] = q1 /\ Q[3] = q2 /\ Q[4] = q3
  BY <1>6
<1>8. /\ more(v) \in Nat /\ more(v) >= Base /\ more(v) % Base \in Nat
      /\ v = (more(v) % Base) + Base * q1
      /\ more(q1) \in Nat /\ more(q1) >= Base /\ more(q1) % Base \in Nat
      /\ q1 = (more(q1) % Base) + Base * q2
      /\ more(q2) \in Nat /\ more(q2) >= Base /\ more(q2) % Base \in Nat
      /\ q2 = (more(q2) % Base) + Base * q3
  <2>1. ASSUME NEW x \in Nat, NEW y \in Nat, x % Base \in Nat, x = Base * y + (x % Base)
        PROVE  x = (x % Base) + Base * y
    BY <2>1, BaseAssumption
  <2> HIDE DEF q1, q2, q3, Q, more
  <2> QED BY <2>1, <1>1, <1>2, <1>3, <1>5
<1>9. SUFFICES
        /\ L \in Seq(Nat) /\ Len(L) \in 1..4
        /\ \A i \in 1..Len(L) - 1 :
              L[i] >= Base /\ L[i] % Base \in Nat /\ Q[i] = (L[i] % Base) + Base * Q[i + 1]
        /\ L[Len(L)] = Q[Len(L)] /\ Q[Len(L)] < Base
        /\ Len(L) > 1 => Q[Len(L)] > 0
  BY <1>1, <1>2, <1>3, <1>7
<1> HIDE DEF q1, q2, q3, Q, more
<1>10. CASE q1 = 0
  <2>1. q2 = 0
    BY <1>1, <1>2, <1>10, BaseAssumption
  <2>2. L = <<v>>
    BY <1>7, <1>10, <2>1 DEF encode_variable_byte_integer, Q
  <2>3. L \in Seq(Nat) /\ Len(L) = 1 /\ L[1] = v
    BY <2>2
  <2> HIDE DEF L
  <2> QED BY <2>3, <1>1, <1>7, <1>10
<1>11. CASE q1 > 0 /\ q2 = 0
  <2>1. L = <<more(v), q1>>
    BY <1>7, <1>11 DEF encode_variable_byte_integer, Q, more
  <2>2. L \in Seq(Nat) /\ Len(L) = 2 /\ L[1] = more(v) /\ L[2] = q1
    BY <2>1, <1>8, <1>2, <1>1
  <2> HIDE DEF L
  <2>3. L[1] >= Base /\ L[1] % Base \in Nat /\ Q[1] = (L[1] % Base) + Base * Q[2]
    BY <2>2, <1>7, <1>8
  <2>4. \A i \in 1..Len(L) - 1 : i = 1
    BY <2>2
  <2>5. L[Len(L)] = Q[Len(L)] /\ Q[Len(L)] < Base /\ Q[Len(L)] > 0
    BY <2>2, <1>7, <1>2, <1>11
  <2> QED BY <2>2, <2>3, <2>4, <2>5
<1>12. CASE q2 > 0 /\ q3 = 0
  <2>1. q1 > 0
    BY <1>1, <1>2, <1>12, BaseAssumption
  <2>2. L = <<more(v), more(q1), q2>>
    BY <1>7, <1>12, <2>1 DEF encode_variable_byte_integer, Q, more
  <2>3. /\ L \in Seq(Nat) /\ Len(L) = 3
        /\ L[1] = more(v) /\ L[2] = more(q1) /\ L[3] = q2
    BY <2>2, <1>8, <1>3, <1>2
  <2> HIDE DEF L
  <2>4. /\ L[1] >= Base /\ L[1] % Base \in Nat /\ Q[1] = (L[1] % Base) + Base * Q[2]
        /\ L[2] >= Base /\ L[2] % Base \in Nat /\ Q[2] = (L[2] % Base) + Base * Q[3]
    BY <2>3, <1>7, <1>8
  <2>5. \A i \in 1..Len(L) - 1 : i = 1 \/ i = 2
    BY <2>3
  <2>6. L[Len(L)] = Q[Len(L)] /\ Q[Len(L)] < Base /\ Q[Len(L)] > 0
    BY <2>3, <1>7, <1>3, <1>12
  <2> QED BY <2>3, <2>4, <2>5, <2>6
<1>13. CASE q3 > 0
  <2>1. q2 > 0
    BY <1>2, <1>3, <1>13, BaseAssumption
  <2>2. q1 > 0
    BY <1>1, <1>2, <2>1, BaseAssumption
  <2>3. L = <<more(v), more(q1), more(q2), q3>>
    BY <1>7, <1>13, <2>1, <2>2 DEF encode_variable_byte_integer, Q, more
  <2>4. /\ L \in Seq(Nat) /\ Len(L) = 4
        /\ L[1] = more(v) /\ L[2] = more(q1) /\ L[3] = more(q2) /\ L[4] = q3
    BY <2>3, <1>8, <1>3
  <2> HIDE DEF L
  <2>5. /\ L[1] >= Base /\ L[1] % Base \in Nat /\ Q[1] = (L[1] % Base) + Base * Q[2]
        /\ L[2] >= Base /\ L[2] % Base \in Nat /\ Q[2] = (L[2] % Base) + Base * Q[3]
        /\ L[3] >= Base /\ L[3] % Base \in Nat /\ Q[3] = (L[3] % Base) + Base * Q[4]
    BY <2>4, <1>7, <1>8
  <2>6. \A i \in 1..Len(L) - 1 : i = 1 \/ i = 2 \/ i = 3
    BY <2>4
  <2>7. L[Len(L)] = Q[Len(L)] /\ Q[Len(L)] < Base /\ Q[Len(L)] > 0
    BY <2>4, <1>7, <1>4, <1>13
  <2> QED BY <2>4, <2>5, <2>6, <2>7
<1> QED BY <1>1, <1>2, <1>3, <1>10, <1>11, <1>12, <1>13

\* A value below the third power of Base takes at most three bytes.
LEMMA VarIntShort ==
    ASSUME NEW v \in Nat, v < Base * Base * Base
    PROVE  v < Base * Base * Base * Base /\ Len(encode_variable_byte_integer(v)) \in 1..3
<1> DEFINE L == encode_variable_byte_integer(v)
           Q == Quotients(v)
<1>1. v < Base * Base * Base * Base
  <2>1. \A x \in Nat : x <= x * Base
    BY BaseAssumption
  <2>2. Base * Base * Base \in Nat
    BY BaseAssumption
  <2> QED BY <2>1, <2>2, BaseAssumption
<1>2. SUFFICES ASSUME Len(L) = 4 PROVE FALSE
  BY <1>1, VarInt
<1>3. /\ Q[1] = v /\ \A i \in 1..4 : Q[i] \in Nat
      /\ \A i \in 1..3 : L[i] % Base \in Nat /\ Q[i] = (L[i] % Base) + Base * Q[i + 1]
      /\ Q[4] > 0
  <2>1. /\ Q[1] = v /\ \A i \in 1..4 : Q[i] \in Nat
        /\ \A i \in 1..Len(L) - 1 :
              L[i] >= Base /\ L[i] % Base \in Nat /\ Q[i] = (L[i] % Base) + Base * Q[i + 1]
        /\ Len(L) > 1 => Q[Len(L)] > 0
    BY <1>1, VarInt
  <2> HIDE DEF L, Q
  <2> QED BY <1>2, <2>1
<1> HIDE DEF L, Q
<1>4. Q[3] >= Base
  <2>1. Base * Q[4] >= Base
    BY <1>3, BaseAssumption
  <2>2. Q[3] = (L[3] % Base) + Base * Q[4] /\ L[3] % Base \in Nat
    BY <1>3
  <2> QED BY <1>3, <2>1, <2>2, BaseAssumption
<1>5. Q[2] >= Base * Base
  <2>1. Base * Q[3] >= Base * Base
    BY <1>3, <1>4, BaseAssumption
  <2>2. Q[2] = (L[2] % Base) + Base * Q[3] /\ L[2] % Base \in Nat
    BY <1>3
  <2> QED BY <1>3, <2>1, <2>2, BaseAssumption
<1>6. Q[1] >= Base * Base * Base
  <2>1. Base * Q[2] >= Base * (Base * Base)
    BY <1>3, <1>5, BaseAssumption
  <2>2. Q[1] = (L[1] % Base) + Base * Q[2] /\ L[1] % Base \in Nat
    BY <1>3
  <2> QED BY <1>3, <2>1, <2>2, BaseAssumption
<1> QED BY <1>3, <1>6, BaseAssumption

\* Where a decoder finds the bytes of a value, it finds the value.
LEMMA DecodeAt ==
    ASSUME NEW data \in Seq(Nat), NEW offset \in Nat \ {0}, NEW v \in Nat,
           v < Base * Base * Base,
           offset + Len(encode_variable_byte_integer(v)) - 1 <= Len(data),
           \A i \in 1..Len(encode_variable_byte_integer(v)) :
               data[offset + i - 1] = encode_variable_byte_integer(v)[i]
    PROVE  decode_variable_byte_integer(data, offset) =
               [ok |-> TRUE, val |-> v, next |-> offset + Len(encode_variable_byte_integer(v))]
<1> DEFINE L == encode_variable_byte_integer(v)
           Q == Quotients(v)
           byte(i) == data[offset + i - 1]
<1>1. Len(L) \in 1..3 /\ \A i \in 1..Len(L) : L[i] \in Nat
  <2>1. L \in Seq(Nat) /\ Len(L) \in 1..3
    BY VarIntShort, VarInt
  <2> QED BY <2>1, ElementOfSeq
<1>2. /\ Q[1] = v /\ \A i \in 1..4 : Q[i] \in Nat
      /\ \A i \in 1..Len(L) - 1 :
            L[i] >= Base /\ L[i] % Base \in Nat /\ Q[i] = (L[i] % Base) + Base * Q[i + 1]
      /\ L[Len(L)] = Q[Len(L)] /\ Q[Len(L)] < Base
  BY VarIntShort, VarInt
<1>3. \A i \in 1..Len(L) : offset + i - 1 <= Len(data) /\ byte(i) = L[i]
  BY <1>1
<1> HIDE DEF L, Q, byte
<1>4. CASE Len(L) = 1
  <2>1. offset + 1 - 1 <= Len(data) /\ byte(1) < Base /\ byte(1) = v /\ ~(byte(1) >= Base)
    BY <1>2, <1>3, <1>4, BaseAssumption
  <2>2. decode_variable_byte_integer(data, offset) = [ok |-> TRUE, val |-> byte(1), next |-> offset + 1]
    BY <2>1 DEF decode_variable_byte_integer, byte
  <2> QED BY <2>1, <2>2, <1>4 DEF L
<1>5. CASE Len(L) = 2
  <2>1. byte(1) = L[1] /\ byte(2) = L[2] /\ offset + 1 - 1 <= Len(data) /\ offset + 2 - 1 <= Len(data)
    BY <1>3, <1>5
  <2>2. L[1] \in Nat /\ L[2] \in Nat
    BY <1>1, <1>5
  <2>3. 1 \in 1..Len(L) - 1 /\ 1 + 1 = 2
    BY <1>5
  <2>8. L[1] >= Base
    BY <1>2, <2>3, Zenon
  <2>9. L[1] % Base \in Nat /\ Q[1] = (L[1] % Base) + Base * Q[2]
    BY <1>2, <2>3, Zenon
  <2>4. L[2] = Q[2] /\ L[2] < Base
    BY <1>2, <1>5
  <2>5. ~(L[1] < Base) /\ ~(L[2] >= Base) /\ L[1] >= Base
    BY <2>2, <2>8, <2>4, BaseAssumption
  <2>6. (L[1] % Base) + L[2] * Base = v
    BY <1>2, <2>2, <2>9, <2>4, BaseAssumption
  <2>7. decode_variable_byte_integer(data, offset) =
            [ok |-> TRUE, val |-> (byte(1) % Base) + byte(2) * Base, next |-> offset + 2]
    BY <2>1, <2>4, <2>5 DEF decode_variable_byte_integer, byte
  <2> QED BY <2>1, <2>6, <2>7, <1>5 DEF L
<1>6. CASE Len(L) = 3
  <2>1. /\ byte(1) = L[1] /\ byte(2) = L[2] /\ byte(3) = L[3] /\ offset + 1 - 1 <= Len(data)
        /\ offset + 2 - 1 <= Len(data) /\ offset + 3 - 1 <= Len(data)
    BY <1>3, <1>6
  <2>2. L[1] \in Nat /\ L[2] \in Nat /\ L[3] \in Nat
    BY <1>1, <1>6
  <2>3. 1 \in 1..Len(L) - 1 /\ 2 \in 1..Len(L) - 1 /\ 1 + 1 = 2 /\ 2 + 1 = 3
    BY <1>6
  <2>4. /\ L[1] % Base \in Nat /\ Q[1] = (L[1] % Base) + Base * Q[2]
        /\ L[2] % Base \in Nat /\ Q[2] = (L[2] % Base) + Base * Q[3]
    BY <1>2, <2>3, Zenon
  <2>9. L[1] >= Base /\ L[2] >= Base
    BY <1>2, <2>3, Zenon
  <2>5. L[3] = Q[3] /\ L[3] < Base
    BY <1>2, <1>6
  <2>6. ~(L[1] < Base) /\ ~(L[2] < Base) /\ ~(L[3] >= Base) /\ L[1] >= Base /\ L[2] >= Base
    BY <2>2, <2>9, <2>5, BaseAssumption
  <2>7. (L[1] % Base) + (L[2] % Base) * Base + L[3] * (Base * Base) = v
    <3>1. ASSUME NEW x \in Nat, NEW y \in Nat, NEW z \in Nat
          PROVE  x + Base * (y + Base * z) = x + y * Base + z * (Base * Base)
      BY BaseAssumption
    <3>2. v = (L[1] % Base) + Base * ((L[2] % Base) + Base * L[3])
      BY <1>2, <2>4, <2>5, Zenon
    <3> QED BY <2>2, <2>4, <3>1, <3>2
  <2>8. decode_variable_byte_integer(data, offset) =
            [ok |-> TRUE, val |-> (byte(1) % Base) + (byte(2) % Base) * Base + byte(3) * (Base * Base),
             next |-> offset + 3]
    BY <2>1, <2>5, <2>6 DEF decode_variable_byte_integer, byte
  <2> QED BY <2>1, <2>7, <2>8, <1>6 DEF L
<1> QED BY <1>1, <1>4, <1>5, <1>6

\* The parts of a packet.
LEMMA FramedParts ==
    ASSUME NEW h \in Nat, NEW body \in Seq(Nat)
    PROVE  LET L == encode_variable_byte_integer(Len(body))
               F == Framed(h, body) IN
           /\ F \in Seq(Nat) /\ Len(F) = 1 + Len(L) + Len(body)
           /\ F[1] = h
           /\ \A i \in 1..Len(L) : F[1 + i] = L[i]
           /\ \A i \in 1..Len(body) : F[1 + Len(L) + i] = body[i]
<1> DEFINE L == encode_variable_byte_integer(Len(body))
           H == <<h>> \o L
<1>1. L \in Seq(Nat) /\ Len(L) \in Nat /\ Len(body) \in Nat
  BY VarIntSeq, LenProperties
<1> HIDE DEF L
<1>2. /\ H \in Seq(Nat) /\ Len(H) = 1 + Len(L) /\ H[1] = h
      /\ \A i \in 1..Len(L) : H[1 + i] = L[i]
  BY <1>1, Joined
<1>3. Framed(h, body) = H \o body
  BY DEF Framed, L
<1> HIDE DEF H
<1>4. /\ H \o body \in Seq(Nat) /\ Len(H \o body) = Len(H) + Len(body)
      /\ \A i \in 1..Len(H) : (H \o body)[i] = H[i]
      /\ \A i \in 1..Len(body) : (H \o body)[Len(H) + i] = body[i]
  BY <1>1, <1>2, Joined
<1>5. Len(H) = 1 + Len(L) /\ Len(L) \in Nat /\ Len(body) \in Nat
  BY <1>1, <1>2
<1> DEFINE G == H \o body
<1>6. /\ G \in Seq(Nat) /\ Len(G) = 1 + Len(L) + Len(body)
      /\ \A i \in 1..Len(body) : G[1 + Len(L) + i] = body[i]
  BY <1>4, <1>5
<1>7. G[1] = h /\ \A i \in 1..Len(L) : G[1 + i] = L[i]
  <2>1. 1 \in 1..Len(H) /\ \A i \in 1..Len(L) : 1 + i \in 1..Len(H)
    BY <1>5
  <2>2. \A i \in 1..Len(H) : G[i] = H[i]
    BY <1>4
  <2> HIDE DEF G
  <2>3. G[1] = H[1] /\ \A i \in 1..Len(L) : G[1 + i] = H[1 + i]
    BY <2>1, <2>2
  <2> QED BY <1>2, <2>3
<1>8. Framed(h, body) = G
  BY <1>3
<1> HIDE DEF G
<1> QED BY <1>6, <1>7, <1>8 DEF L

\* A length and the text behind it.
LEMMA Prefixed ==
    ASSUME NEW text \in Seq(Nat)
    PROVE  LET L == encode_variable_byte_integer(Len(text))
               P == L \o text IN
           /\ P \in Seq(Nat) /\ Len(P) = Len(L) + Len(text) /\ Len(L) \in 1..4
           /\ \A i \in 1..Len(L) : P[i] = L[i]
           /\ \A i \in 1..Len(text) : P[Len(L) + i] = text[i]
<1> DEFINE L == encode_variable_byte_integer(Len(text))
<1>1. L \in Seq(Nat) /\ Len(L) \in 1..4
  BY VarIntSeq, LenProperties
<1> HIDE DEF L
<1>2. /\ L \o text \in Seq(Nat) /\ Len(L \o text) = Len(L) + Len(text)
      /\ \A i \in 1..Len(L) : (L \o text)[i] = L[i]
      /\ \A i \in 1..Len(text) : (L \o text)[Len(L) + i] = text[i]
  BY <1>1, Joined
<1> QED BY <1>1, <1>2 DEF L

\* Bodies are sequences of bytes.
LEMMA InputTyped ==
    ASSUME NEW p \in Inputs
    PROVE  /\ FirstByte(p) \in Nat
           /\ Body(p) \in Seq(Nat) /\ Len(Body(p)) \in Nat
           /\ Len(Body(p)) < Base * Base * Base * Base
<1>1. /\ p \in Packet
      /\ Len(Body(p)) < Base * Base * Base * Base
      /\ p.type = "PUBLISH" => Len(p.topic) \in Id
  BY InputAssumption
<1>2. SUFFICES FirstByte(p) \in Nat /\ Body(p) \in Seq(Nat)
  BY <1>1, LenProperties
<1>3. CASE p.type = "CONNACK"
  <2>1. /\ p.session \in Nat /\ p.reason \in Nat /\ p.props \in Seq(Nat)
    BY <1>1, <1>3 DEF Packet
  <2>2. Properties(p) \in Seq(Nat) /\ <<p.session, p.reason>> \in Seq(Nat)
    BY <2>1, Prefixed DEF Properties
  <2>3. <<p.session, p.reason>> \o Properties(p) \in Seq(Nat)
    BY <2>2, Joined
  <2> QED BY <1>3, <2>3 DEF FirstByte, Body
<1>4. CASE p.type = "SUBACK"
  <2>1. /\ p.id \in Id /\ p.reason \in Nat /\ p.props \in Seq(Nat)
    BY <1>1, <1>4 DEF Packet
  <2>2. Properties(p) \in Seq(Nat) /\ TwoBytes(p.id) \in Seq(Nat) /\ <<p.reason>> \in Seq(Nat)
    BY <2>1, Prefixed, DivByte DEF Properties
  <2>3. TwoBytes(p.id) \o Properties(p) \in Seq(Nat)
    BY <2>2, Joined
  <2>4. TwoBytes(p.id) \o Properties(p) \o <<p.reason>> \in Seq(Nat)
    BY <2>2, <2>3, Joined
  <2> QED BY <1>4, <2>4 DEF FirstByte, Body
<1>5. CASE p.type = "PUBLISH"
  <2> DEFINE I == IF p.qos > 0 THEN TwoBytes(p.id) ELSE <<>>
             T == TwoBytes(Len(p.topic))
  <2>1. /\ p.id \in Id /\ p.qos \in 0..2 /\ p.topic \in Seq(Nat) /\ p.payload \in Seq(Nat)
        /\ p.props \in Seq(Nat)
        /\ Len(p.topic) \in Id
    BY <1>1, <1>5 DEF Packet
  <2>2. Properties(p) \in Seq(Nat) /\ I \in Seq(Nat) /\ T \in Seq(Nat)
    <3>1. Properties(p) \in Seq(Nat)
      BY <2>1, Prefixed DEF Properties
    <3>2. TwoBytes(p.id) \in Seq(Nat) /\ T \in Seq(Nat) /\ <<>> \in Seq(Nat)
      BY <2>1, DivByte
    <3> QED BY <3>1, <3>2
  <2>3. Body(p) = T \o p.topic \o I \o Properties(p) \o p.payload
    BY <1>5 DEF Body
  <2> HIDE DEF I, T
  <2>4. T \o p.topic \in Seq(Nat)
    BY <2>1, <2>2, Joined
  <2>5. T \o p.topic \o I \in Seq(Nat)
    BY <2>2, <2>4, Joined
  <2>6. T \o p.topic \o I \o Properties(p) \in Seq(Nat)
    BY <2>2, <2>5, Joined
  <2>7. T \o p.topic \o I \o Properties(p) \o p.payload \in Seq(Nat)
    BY <2>1, <2>6, Joined
  <2> QED BY <1>5, <2>1, <2>3, <2>7 DEF FirstByte
<1>6. CASE p.type = "PINGRESP"
  BY <1>6 DEF FirstByte, Body
<1> QED BY <1>1, <1>3, <1>4, <1>5, <1>6 DEF Packet

-----------------------------------------------------------------------------
(* recv_mqtt_packet_tls *)

Digits(p) == Len(encode_variable_byte_integer(Len(Body(p))))

\* What has been read and what is still under way make up the packet and the
\* byte behind it; the length is known as far as its bytes have been read.
IInv ==
    /\ in \in Inputs /\ buf \in Seq(Nat) /\ wire \in Seq(Nat) /\ remaining \in Nat
    /\ buf \o wire = Encoding(in) \o <<Next1>>
    /\ at \in {"header", "length", "body", "done", "error"}
    /\ at = "header" => buf = <<>> /\ remaining = 0
    /\ at = "length" =>
          /\ Len(buf) \in 1..Digits(in)
          /\ Len(Body(in)) = remaining + multiplier[Len(buf)] * Quotients(Len(Body(in)))[Len(buf)]
    /\ at = "body" =>
          /\ Len(buf) = 1 + Digits(in) /\ remaining = Len(Body(in))
          /\ Len(buf) + remaining <= BufSize
    /\ at = "done" => Len(buf) = Len(Encoding(in)) /\ Len(buf) <= BufSize
    /\ at = "error" => Len(buf) = 1 + Digits(in) /\ Len(Encoding(in)) > BufSize

\* One byte read.
LEMMA MoveOne ==
    ASSUME NEW s \in Seq(Nat), NEW t \in Seq(Nat), Len(t) > 0
    PROVE  /\ Append(s, Head(t)) \in Seq(Nat) /\ Tail(t) \in Seq(Nat) /\ Head(t) \in Nat
           /\ Append(s, Head(t)) \o Tail(t) = s \o t
           /\ Len(Append(s, Head(t))) = Len(s) + 1
           /\ Head(t) = (s \o t)[Len(s) + 1]
<1>1. t # <<>> /\ Head(t) \in Nat /\ Tail(t) \in Seq(Nat) /\ Len(t) \in Nat /\ Head(t) = t[1]
  BY HeadTailProperties, LenProperties, ElementOfSeq
<1>2. <<Head(t)>> \in Seq(Nat) /\ Append(s, Head(t)) = s \o <<Head(t)>>
  BY <1>1, AppendIsConcat
<1>3. (s \o <<Head(t)>>) \o Tail(t) = s \o (<<Head(t)>> \o Tail(t))
  BY <1>1, <1>2, Associative
<1>4. <<Head(t)>> \o Tail(t) = t
  BY <1>1, HeadTailProperties
<1>5. /\ Append(s, Head(t)) \in Seq(Nat) /\ Len(Append(s, Head(t))) = Len(s) + 1
  BY <1>1, AppendProperties
<1>6. (s \o t)[Len(s) + 1] = t[1]
  BY <1>1, Joined
<1> QED BY <1>1, <1>2, <1>3, <1>4, <1>5, <1>6

\* Several bytes read.
LEMMA MoveMany ==
    ASSUME NEW s \in Seq(Nat), NEW t \in Seq(Nat), NEW n \in 0..Len(t)
    PROVE  /\ s \o SubSeq(t, 1, n) \in Seq(Nat) /\ SubSeq(t, n + 1, Len(t)) \in Seq(Nat)
           /\ (s \o SubSeq(t, 1, n)) \o SubSeq(t, n + 1, Len(t)) = s \o t
           /\ Len(s \o SubSeq(t, 1, n)) = Len(s) + n
<1> DEFINE a == SubSeq(t, 1, n)
           b == SubSeq(t, n + 1, Len(t))
<1>1. a \in Seq(Nat) /\ Len(a) = n /\ b \in Seq(Nat)
  BY SubSeqProperties, LenProperties
<1>2. a \o b = t
  <2>1. a \o b = SubSeq(t, 1, Len(t))
    <3>1. Len(t) \in Nat /\ 1 \in 1..Len(t) + 1 /\ n \in 1 - 1..Len(t) /\ Len(t) \in n..Len(t)
      BY LenProperties
    <3> QED BY <3>1, ConcatAdjacentSubSeq
  <2> QED BY <2>1, SubSeqFull
<1> HIDE DEF a, b
<1>3. (s \o a) \o b = s \o (a \o b)
  BY <1>1, Associative
<1>4. s \o a \in Seq(Nat) /\ Len(s \o a) = Len(s) + n
  BY <1>1, Joined
<1> QED BY <1>1, <1>2, <1>3, <1>4 DEF a, b

\* The stream that the reader works on.
LEMMA Stream ==
    ASSUME NEW p \in Inputs
    PROVE  LET E == Encoding(p)
               S == E \o <<Next1>> IN
           /\ E \in Seq(Nat) /\ Len(E) = 1 + Digits(p) + Len(Body(p)) /\ Digits(p) \in 1..4
           /\ S \in Seq(Nat) /\ Len(S) = Len(E) + 1
           /\ \A i \in 1..Digits(p) :
                  S[1 + i] = encode_variable_byte_integer(Len(Body(p)))[i]
<1> DEFINE E == Encoding(p)
<1>1. /\ E \in Seq(Nat) /\ Len(E) = 1 + Digits(p) + Len(Body(p))
      /\ \A i \in 1..Digits(p) : E[1 + i] = encode_variable_byte_integer(Len(Body(p)))[i]
  BY InputTyped, FramedParts DEF Encoding, Digits
<1>2. Digits(p) \in 1..4 /\ Len(Body(p)) \in Nat
  BY InputTyped, VarInt DEF Digits
<1> HIDE DEF E
<1>3. <<Next1>> \in Seq(Nat) /\ Len(<<Next1>>) = 1
  BY DEF Next1
<1>4. /\ E \o <<Next1>> \in Seq(Nat) /\ Len(E \o <<Next1>>) = Len(E) + 1
      /\ \A i \in 1..Len(E) : (E \o <<Next1>>)[i] = E[i]
  BY <1>1, <1>3, Joined
<1>5. \A i \in 1..Digits(p) : 1 + i \in 1..Len(E)
  BY <1>1, <1>2
<1> QED BY <1>1, <1>2, <1>4, <1>5 DEF E

LEMMA InitEstablishes == Init => IInv
<1> SUFFICES ASSUME Init PROVE IInv
  OBVIOUS
<1>1. in \in Inputs /\ wire = Encoding(in) \o <<Next1>> /\ buf = <<>> /\ at = "header" /\ remaining = 0
  BY DEF Init
<1>2. wire \in Seq(Nat)
  BY <1>1, Stream
<1>3. buf \in Seq(Nat) /\ buf \o wire = wire
  BY <1>1, <1>2, ConcatEmptySeq
<1> QED BY <1>1, <1>2, <1>3 DEF IInv

\* What is read and what is not add up to the stream.
LEMMA Lengths ==
    ASSUME IInv
    PROVE  /\ Len(buf) \in Nat /\ Len(wire) \in Nat
           /\ Len(buf) + Len(wire) = 2 + Digits(in) + Len(Body(in))
           /\ Digits(in) \in 1..4 /\ Len(Body(in)) \in Nat
<1>1. in \in Inputs /\ buf \in Seq(Nat) /\ wire \in Seq(Nat) /\ buf \o wire = Encoding(in) \o <<Next1>>
  BY DEF IInv
<1>2. Len(buf \o wire) = Len(buf) + Len(wire) /\ Len(buf) \in Nat /\ Len(wire) \in Nat
  BY <1>1, Joined, LenProperties
<1>3. /\ Len(Encoding(in) \o <<Next1>>) = Len(Encoding(in)) + 1
      /\ Len(Encoding(in)) = 1 + Digits(in) + Len(Body(in)) /\ Digits(in) \in 1..4
  BY <1>1, Stream
<1>4. Len(Body(in)) \in Nat
  BY <1>1, InputTyped
<1> QED BY <1>1, <1>2, <1>3, <1>4

LEMMA ReadHeaderKeeps == IInv /\ ReadHeader => IInv'
<1> SUFFICES ASSUME IInv, ReadHeader PROVE IInv'
  OBVIOUS
<1>1. /\ in \in Inputs /\ buf = <<>> /\ buf \in Seq(Nat) /\ wire \in Seq(Nat) /\ remaining = 0
      /\ buf \o wire = Encoding(in) \o <<Next1>>
      /\ buf' = <<Head(wire)>> /\ wire' = Tail(wire) /\ at' = "length"
      /\ in' = in /\ remaining' = remaining
  BY DEF IInv, ReadHeader
<1>2. Len(wire) > 0 /\ Digits(in) \in 1..4 /\ Len(Body(in)) \in Nat
  BY <1>1, Lengths
<1>3. Append(buf, Head(wire)) = <<Head(wire)>>
  BY <1>1
<1>4. buf' \in Seq(Nat) /\ wire' \in Seq(Nat) /\ buf' \o wire' = buf \o wire /\ Len(buf') = 1
  BY <1>1, <1>2, <1>3, MoveOne
<1>5. Quotients(Len(Body(in)))[1] = Len(Body(in)) /\ multiplier[1] = 1
  BY DEF Quotients, multiplier
<1>6. Len(Body(in)) = 0 + 1 * Len(Body(in))
  BY <1>2
<1>7. 1 \in 1..Digits(in)
  BY <1>2
<1> QED BY <1>1, <1>4, <1>5, <1>6, <1>7, Zenon DEF IInv, Digits

\* One more digit is known.
LEMMA Weighted ==
    ASSUME NEW k \in 1..3, NEW r \in Nat, NEW x \in Nat, NEW y \in Nat
    PROVE  r + multiplier[k] * (x + Base * y) = (r + x * multiplier[k]) + multiplier[k + 1] * y
<1>1. CASE k = 1
  BY <1>1, BaseAssumption DEF multiplier
<1>2. CASE k = 2
  <2>1. r + Base * (x + Base * y) = (r + x * Base) + (Base * Base) * y
    BY BaseAssumption
  <2> QED BY <1>2, <2>1 DEF multiplier
<1>3. CASE k = 3
  <2> DEFINE BB == Base * Base
  <2>1. BB \in Nat
    BY BaseAssumption
  <2> HIDE DEF BB
  <2>2. r + BB * (x + Base * y) = (r + x * BB) + (BB * Base) * y
    BY <2>1, BaseAssumption
  <2> QED BY <1>3, <2>2 DEF multiplier, BB
<1> QED BY <1>1, <1>2, <1>3

LEMMA ReadLengthKeeps == IInv /\ ReadLength => IInv'
<1> SUFFICES ASSUME IInv, ReadLength PROVE IInv'
  OBVIOUS
<1> DEFINE n == Len(Body(in))
           k == Len(buf)
           d == Digits(in)
           L == encode_variable_byte_integer(n)
           Q == Quotients(n)
           b == Head(wire)
           r == remaining + (b % Base) * multiplier[k]
<1>1. /\ in \in Inputs /\ buf \in Seq(Nat) /\ wire \in Seq(Nat) /\ remaining \in Nat
      /\ buf \o wire = Encoding(in) \o <<Next1>>
      /\ k \in 1..d
  BY DEF IInv, ReadLength
<1>12. n = remaining + multiplier[k] * Q[k]
  BY DEF IInv, ReadLength
<1>2. /\ remaining' = r /\ buf' = Append(buf, b) /\ wire' = Tail(wire) /\ in' = in
      /\ at' = IF b < Base \/ k = 4 THEN Sized(k + 1, r) ELSE "length"
  BY DEF ReadLength
<1>3. Len(wire) > 0 /\ d \in 1..4 /\ n \in Nat /\ n < Base * Base * Base * Base
  <2>1. n \in Nat /\ n < Base * Base * Base * Base
    BY <1>1, InputTyped
  <2> HIDE DEF n
  <2>2. /\ k \in Nat /\ Len(wire) \in Nat /\ d \in 1..4
        /\ k + Len(wire) = 2 + d + n
    BY Lengths DEF n
  <2> HIDE DEF k, d
  <2>3. Len(wire) > 0
    BY <1>1, <2>1, <2>2
  <2> QED BY <2>1, <2>2, <2>3
<1>4. /\ buf' \in Seq(Nat) /\ wire' \in Seq(Nat) /\ buf' \o wire' = Encoding(in) \o <<Next1>>
      /\ Len(buf') = k + 1 /\ b = (Encoding(in) \o <<Next1>>)[k + 1]
  BY <1>1, <1>2, <1>3, MoveOne
<1>5. b = L[k]
  <2>1. (Encoding(in) \o <<Next1>>)[1 + k] = L[k]
    BY <1>1, Stream
  <2>2. 1 + k = k + 1
    BY <1>1, <1>3
  <2> QED BY <1>4, <2>1, <2>2
<1>6. /\ L \in Seq(Nat) /\ Len(L) = d /\ \A i \in 1..4 : Q[i] \in Nat
      /\ \A i \in 1..d - 1 :
            L[i] >= Base /\ L[i] % Base \in Nat /\ Q[i] = (L[i] % Base) + Base * Q[i + 1]
      /\ L[d] = Q[d] /\ Q[d] < Base
  BY <1>3, VarInt DEF Digits
<1>7. Len(Encoding(in)) = 1 + d + n
  BY <1>1, Stream
<1>8. L[k] \in Nat
  BY <1>1, <1>6, ElementOfSeq
<1> HIDE DEF n, k, d, L, Q, b
<1>9. \A i \in 1..4 : multiplier[i] \in Nat
  <2>1. 1 \in Nat /\ Base \in Nat /\ Base * Base \in Nat /\ Base * Base * Base \in Nat
    BY BaseAssumption
  <2> QED BY <2>1 DEF multiplier
<1>10. CASE k # d
  <2>1. k \in 1..d - 1 /\ k \in 1..3 /\ k + 1 \in 1..d /\ k + 1 \in 1..4 /\ k # 4
    BY <1>1, <1>3, <1>10
  <2>2. b >= Base /\ b % Base \in Nat /\ b \in Nat
    BY <1>5, <1>6, <1>8, <2>1
  <2>3. Q[k] = (b % Base) + Base * Q[k + 1] /\ Q[k + 1] \in Nat
    BY <1>5, <1>6, <2>1
  <2>4. n = r + multiplier[k + 1] * Q[k + 1]
    <3>1. remaining + multiplier[k] * ((b % Base) + Base * Q[k + 1])
              = (remaining + (b % Base) * multiplier[k]) + multiplier[k + 1] * Q[k + 1]
      BY <1>1, <2>1, <2>2, <2>3, Weighted
    <3>2. n = remaining + multiplier[k] * ((b % Base) + Base * Q[k + 1])
      BY <1>12, <2>3, Zenon
    <3> QED BY <3>1, <3>2, Zenon
  <2>5. r \in Nat
    <3>1. multiplier[k] \in Nat
      BY <1>9, <2>1
    <3>2. (b % Base) * multiplier[k] \in Nat
      BY <2>2, <3>1
    <3> HIDE DEF b
    <3> QED BY <1>1, <3>2
  <2>6. ~(b < Base)
    BY <2>2, BaseAssumption
  <2>7. at' = "length"
    BY <1>2, <2>1, <2>6
  <2> QED BY <1>1, <1>2, <1>4, <2>1, <2>4, <2>5, <2>7 DEF IInv, n, d, Q, Digits
<1>11. CASE k = d
  <2>1. b < Base /\ b \in Nat /\ b = Q[k]
    BY <1>5, <1>6, <1>8, <1>11
  <2>2. b % Base = b
    BY <2>1, DivBase
  <2>3. r = n
    <3>1. k \in 1..4
      BY <1>1, <1>3
    <3>2. multiplier[k] \in Nat
      BY <1>9, <3>1
    <3>3. b * multiplier[k] = multiplier[k] * b
      BY <2>1, <3>2
    <3> QED BY <1>12, <2>1, <2>2, <3>3, Zenon
  <2>4. at' = Sized(k + 1, n)
    BY <1>2, <2>1, <2>3
  <2>5. Len(buf') = 1 + d /\ 1 + d <= 5 /\ 5 <= BufSize /\ BufSize \in Nat
    BY <1>3, <1>4, <1>11, SizeAssumption
  <2>6. CASE n = 0
    <3>1. at' = "done"
      BY <2>4, <2>6 DEF Sized
    <3>2. Len(buf') = Len(Encoding(in)) /\ Len(buf') <= BufSize
      BY <1>3, <1>7, <2>5, <2>6
    <3> QED BY <1>1, <1>2, <1>3, <1>4, <2>3, <3>1, <3>2 DEF IInv, n, d
  <2>7. CASE n > 0 /\ k + 1 + n > BufSize
    <3>1. at' = "error"
      BY <2>4, <2>7 DEF Sized
    <3>2. Len(Encoding(in)) > BufSize
      BY <1>3, <1>7, <1>11, <2>5, <2>7
    <3> QED BY <1>1, <1>2, <1>3, <1>4, <2>3, <2>5, <3>1, <3>2 DEF IInv, n, d, Digits
  <2>8. CASE n > 0 /\ ~(k + 1 + n > BufSize)
    <3>1. at' = "body"
      BY <1>3, <2>4, <2>8 DEF Sized
    <3>2. Len(buf') + n <= BufSize
      BY <1>3, <1>4, <1>11, <2>5, <2>8
    <3> QED BY <1>1, <1>2, <1>3, <1>4, <2>3, <2>5, <3>1, <3>2 DEF IInv, n, d, Digits
  <2> QED BY <1>3, <2>6, <2>7, <2>8
<1> QED BY <1>10, <1>11

LEMMA ReadBodyKeeps == IInv /\ ReadBody => IInv'
<1> SUFFICES ASSUME IInv, ReadBody PROVE IInv'
  OBVIOUS
<1>1. /\ in \in Inputs /\ buf \in Seq(Nat) /\ wire \in Seq(Nat) /\ remaining \in Nat
      /\ buf \o wire = Encoding(in) \o <<Next1>>
      /\ Len(buf) = 1 + Digits(in) /\ remaining = Len(Body(in)) /\ Len(buf) + remaining <= BufSize
  BY DEF IInv, ReadBody
<1>2. /\ at' = "done" /\ buf' = buf \o SubSeq(wire, 1, remaining)
      /\ wire' = SubSeq(wire, remaining + 1, Len(wire)) /\ in' = in /\ remaining' = remaining
  BY DEF ReadBody
<1>3. remaining \in 0..Len(wire)
  BY <1>1, Lengths
<1>4. /\ buf' \in Seq(Nat) /\ wire' \in Seq(Nat) /\ buf' \o wire' = buf \o wire
      /\ Len(buf') = Len(buf) + remaining
  BY <1>1, <1>2, <1>3, MoveMany
<1>5. Len(Encoding(in)) = 1 + Digits(in) + Len(Body(in))
  BY <1>1, Stream
<1>6. Len(buf') = Len(Encoding(in)) /\ Len(buf') <= BufSize
  BY <1>1, <1>4, <1>5
<1> QED BY <1>1, <1>2, <1>4, <1>6 DEF IInv

LEMMA Inductive == IInv /\ [Next]_vars => IInv'
<1>1. IInv /\ UNCHANGED vars => IInv'
  BY DEF IInv, vars
<1> QED BY <1>1, ReadHeaderKeeps, ReadLengthKeeps, ReadBodyKeeps DEF Next

LEMMA Always == Spec => []IInv
BY InitEstablishes, Inductive, PTL DEF Spec

\* Two ways to cut a sequence at the same place.
LEMMA CutAlike ==
    ASSUME NEW s \in Seq(Nat), NEW t \in Seq(Nat), NEW u \in Seq(Nat), NEW v \in Seq(Nat),
           s \o t = u \o v, Len(s) = Len(u)
    PROVE  s = u /\ t = v
<1>1. /\ Len(s) \in Nat /\ Len(t) \in Nat /\ Len(v) \in Nat
      /\ Len(s \o t) = Len(s) + Len(t) /\ Len(u \o v) = Len(u) + Len(v)
  BY LenProperties, Joined
<1>2. Len(t) = Len(v)
  BY <1>1
<1>3. ASSUME NEW i \in 1..Len(s) PROVE s[i] = u[i]
  <2>1. (s \o t)[i] = s[i] /\ (u \o v)[i] = u[i]
    BY Joined
  <2> QED BY <2>1
<1>4. ASSUME NEW i \in 1..Len(t) PROVE t[i] = v[i]
  <2>1. (s \o t)[Len(s) + i] = t[i]
    BY Joined
  <2>2. i \in 1..Len(v)
    BY <1>2
  <2>3. (u \o v)[Len(u) + i] = v[i]
    BY <2>2, Joined
  <2> QED BY <2>1, <2>3
<1> QED BY <1>2, <1>3, <1>4, SeqEqual

\* recv_mqtt_packet_tls keeps to its buffer, whatever the sizes.
THEOREM PacketTypes == Spec => []TypeOK
<1>1. IInv => TypeOK
  <2> SUFFICES ASSUME IInv PROVE TypeOK
    OBVIOUS
  <2>1. /\ at \in {"header", "length", "body", "done", "error"} /\ remaining \in Nat
        /\ in \in Inputs
    BY DEF IInv
  <2>2. /\ Len(buf) \in Nat /\ Len(wire) \in Nat /\ Len(Body(in)) \in Nat
        /\ Len(buf) + Len(wire) = 2 + Digits(in) + Len(Body(in)) /\ Digits(in) \in 1..4
    BY Lengths
  <2>3. Len(Encoding(in)) = 1 + Digits(in) + Len(Body(in))
    BY <2>1, Stream
  <2>4. 5 <= BufSize /\ BufSize \in Nat
    BY BaseAssumption, SizeAssumption
  <2>5. Len(buf) <= BufSize
    <3>1. CASE at = "header"
      BY <2>4, <3>1 DEF IInv
    <3>2. CASE at \in {"length", "error"}
      <4>1. Len(buf) \in 1..Digits(in) \/ Len(buf) = 1 + Digits(in)
        BY <3>2 DEF IInv
      <4> QED BY <2>2, <2>4, <4>1
    <3>3. CASE at \in {"body", "done"}
      BY <2>1, <2>2, <2>4, <3>3 DEF IInv
    <3> QED BY <2>1, <3>1, <3>2, <3>3
  <2>6. Len(wire) \in 0..Len(Encoding(in)) + 1
    BY <2>2, <2>3
  <2> QED BY <2>1, <2>2, <2>4, <2>5, <2>6 DEF TypeOK
<1> QED BY <1>1, Always, PTL

\* recv_mqtt_packet_tls cuts exactly one packet out of the stream.
THEOREM Framing == Spec => []ExactFraming
<1>1. IInv => ExactFraming
  <2> SUFFICES ASSUME IInv PROVE ExactFraming
    OBVIOUS
  <2>1. /\ in \in Inputs /\ buf \in Seq(Nat) /\ wire \in Seq(Nat)
        /\ buf \o wire = Encoding(in) \o <<Next1>>
        /\ at = "done" => Len(buf) = Len(Encoding(in))
        /\ at = "error" => Len(Encoding(in)) > BufSize
    BY DEF IInv
  <2>2. Encoding(in) \in Seq(Nat) /\ <<Next1>> \in Seq(Nat)
    BY <2>1, Stream DEF Next1
  <2>3. at = "done" => buf = Encoding(in) /\ wire = <<Next1>>
    BY <2>1, <2>2, CutAlike
  <2> QED BY <2>1, <2>3 DEF ExactFraming
<1> QED BY <1>1, Always, PTL

-----------------------------------------------------------------------------
(* The parsers, on what the broker's encoder makes *)

\* A body below the third power of Base has a length that the decoder reads.
LEMMA DecodeFramed ==
    ASSUME NEW h \in Nat, NEW body \in Seq(Nat), Len(body) < Base * Base * Base
    PROVE  LET F == Framed(h, body)
               d == Len(encode_variable_byte_integer(Len(body))) IN
           /\ F \in Seq(Nat) /\ Len(F) = 1 + d + Len(body) /\ F[1] = h
           /\ d \in 1..3 /\ Len(body) \in Nat
           /\ decode_variable_byte_integer(F, 2) = [ok |-> TRUE, val |-> Len(body), next |-> 2 + d]
           /\ \A i \in 1..Len(body) : F[1 + d + i] = body[i]
<1> DEFINE F == Framed(h, body)
           L == encode_variable_byte_integer(Len(body))
           d == Len(L)
<1>1. Len(body) \in Nat /\ Len(body) < Base * Base * Base * Base /\ d \in 1..3
  BY VarIntShort, LenProperties
<1>2. /\ F \in Seq(Nat) /\ Len(F) = 1 + d + Len(body) /\ F[1] = h
      /\ \A i \in 1..d : F[1 + i] = L[i]
      /\ \A i \in 1..Len(body) : F[1 + d + i] = body[i]
  BY <1>1, FramedParts
<1>3. 2 + d - 1 <= Len(F)
  BY <1>1, <1>2
<1>4. ASSUME NEW i \in 1..d PROVE F[2 + i - 1] = L[i]
  <2>1. 2 + i - 1 = 1 + i
    BY <1>1
  <2> QED BY <1>2, <2>1
<1>5. decode_variable_byte_integer(F, 2) = [ok |-> TRUE, val |-> Len(body), next |-> 2 + d]
  <2>1. F \in Seq(Nat) /\ 2 \in Nat \ {0} /\ Len(body) \in Nat /\ Len(body) < Base * Base * Base
    BY <1>1, <1>2
  <2> HIDE DEF F
  <2> QED BY <2>1, <1>3, <1>4, DecodeAt
<1> QED BY <1>1, <1>2, <1>5

\* A part of a sequence that has the items of another one.
LEMMA SameItems ==
    ASSUME NEW data \in Seq(Nat), NEW s \in Seq(Nat), NEW a \in Nat \ {0}, NEW n \in 0..Len(s),
           a + n - 1 <= Len(data), \A i \in 1..n : data[a + i - 1] = s[i]
    PROVE  SubSeq(data, a, a + n - 1) = SubSeq(s, 1, n)
<1>1. Len(data) \in Nat /\ Len(s) \in Nat /\ n \in Nat /\ a \in Int /\ a + n - 1 \in Int
  BY LenProperties
<1>2. \A i \in a..a + n - 1 : data[i] \in Nat
  BY <1>1, Items
<1>3. \A i \in 1..n : s[i] \in Nat
  BY <1>1, Items
<1>4. /\ SubSeq(data, a, a + n - 1) \in Seq(Nat)
      /\ Len(SubSeq(data, a, a + n - 1)) = IF a <= a + n - 1 THEN (a + n - 1) - a + 1 ELSE 0
      /\ \A i \in 1..(a + n - 1) - a + 1 : SubSeq(data, a, a + n - 1)[i] = data[a + i - 1]
  BY <1>1, <1>2, SubSeqProperties
<1>5. /\ SubSeq(s, 1, n) \in Seq(Nat)
      /\ Len(SubSeq(s, 1, n)) = IF 1 <= n THEN n - 1 + 1 ELSE 0
      /\ \A i \in 1..n - 1 + 1 : SubSeq(s, 1, n)[i] = s[1 + i - 1]
  BY <1>1, <1>3, SubSeqProperties
<1>6. (a + n - 1) - a + 1 = n /\ n - 1 + 1 = n /\ \A i \in 1..n : 1 + i - 1 = i
  BY <1>1
<1>7. Len(SubSeq(data, a, a + n - 1)) = n /\ Len(SubSeq(s, 1, n)) = n
  BY <1>1, <1>4, <1>5
<1>8. ASSUME NEW i \in 1..n PROVE SubSeq(data, a, a + n - 1)[i] = SubSeq(s, 1, n)[i]
  <2>1. SubSeq(data, a, a + n - 1)[i] = data[a + i - 1]
    BY <1>4, <1>6
  <2>2. SubSeq(s, 1, n)[i] = s[i]
    BY <1>5, <1>6
  <2> QED BY <2>1, <2>2
<1> QED BY <1>4, <1>5, <1>7, <1>8, SeqEqual

LEMMA ConnackParsed ==
    ASSUME NEW session \in {0, 1}, NEW reason \in Nat, NEW P \in Seq(Nat), Len(P) > 0,
           Len(<<session, reason>> \o P) < Base * Base * Base
    PROVE  mqtt_parse_connack(Framed(32, <<session, reason>> \o P)) =
               [ok |-> TRUE, session |-> session, reason |-> reason]
<1> DEFINE S == <<session, reason>>
           body == S \o P
           F == Framed(32, body)
           d == Len(encode_variable_byte_integer(Len(body)))
<1>1. S \in Seq(Nat) /\ Len(S) = 2 /\ S[1] = session /\ S[2] = reason /\ Len(P) \in Nat
  BY LenProperties
<1> HIDE DEF S
<1>2. body \in Seq(Nat) /\ Len(body) = Len(S) + Len(P) /\ \A i \in 1..Len(S) : body[i] = S[i]
  BY <1>1, Joined
<1>3. body[1] = session /\ body[2] = reason
  BY <1>1, <1>2
<1>10. body \in Seq(Nat) /\ 32 \in Nat
  BY <1>2
<1>4. Len(body) < Base * Base * Base
  BY DEF S
<1> HIDE DEF body
<1>5. /\ F \in Seq(Nat) /\ Len(F) = 1 + d + Len(body) /\ F[1] = 32
      /\ d \in 1..3 /\ Len(body) \in Nat
      /\ decode_variable_byte_integer(F, 2) = [ok |-> TRUE, val |-> Len(body), next |-> 2 + d]
      /\ \A i \in 1..Len(body) : F[1 + d + i] = body[i]
  BY <1>10, <1>4, DecodeFramed
<1> HIDE DEF F, d
<1>6. Len(F) = 1 + d + Len(body) /\ Len(body) = 2 + Len(P) /\ d \in 1..3 /\ Len(P) \in Nat
  BY <1>1, <1>2, <1>5
<1>7. F[2 + d] = session /\ F[2 + d + 1] = reason
  <2>1. 1 \in 1..Len(body) /\ 2 \in 1..Len(body) /\ 1 + d + 1 = 2 + d /\ 1 + d + 2 = 2 + d + 1
    BY <1>6
  <2> QED BY <1>3, <1>5, <2>1
<1>8. ~(Len(F) < 4) /\ ~((2 + d) - 1 + Len(body) > Len(F)) /\ session % 2 = session
  BY <1>6
<1>9. mqtt_parse_connack(F) = [ok |-> TRUE, session |-> F[2 + d] % 2, reason |-> F[2 + d + 1]]
  <2> DEFINE r == decode_variable_byte_integer(F, 2)
  <2>1. r.ok /\ r.next = 2 + d /\ r.val = Len(body)
    BY <1>5
  <2>2. mqtt_parse_connack(F) =
            IF Len(F) < 4 \/ F[1] # 32 \/ ~r.ok \/ r.next - 1 + r.val > Len(F) THEN Failed
            ELSE [ok |-> TRUE, session |-> F[r.next] % 2, reason |-> F[r.next + 1]]
    BY DEF mqtt_parse_connack
  <2> HIDE DEF r
  <2> QED BY <1>5, <1>8, <2>1, <2>2
<1> QED BY <1>7, <1>8, <1>9 DEF F, body, S

LEMMA SubackParsed ==
    ASSUME NEW id \in Id, NEW reason \in Nat, NEW props \in Seq(Nat),
           Len(TwoBytes(id) \o (encode_variable_byte_integer(Len(props)) \o props) \o <<reason>>)
               < Base * Base * Base
    PROVE  mqtt_parse_suback(Framed(144,
               TwoBytes(id) \o (encode_variable_byte_integer(Len(props)) \o props) \o <<reason>>)) =
                   [ok |-> TRUE, id |-> id, reason |-> reason]
<1> DEFINE T == TwoBytes(id)
           E == encode_variable_byte_integer(Len(props))
           P == E \o props
           X == T \o P
           body == X \o <<reason>>
           F == Framed(144, body)
           d == Len(encode_variable_byte_integer(Len(body)))
           e == Len(E)
           m == Len(props)
<1>1. T \in Seq(Nat) /\ Len(T) = 2 /\ T[1] * 2 * Base + T[2] = id
  BY DivByte
<1>2. /\ P \in Seq(Nat) /\ Len(P) = e + m /\ e \in 1..4 /\ m \in Nat
  BY Prefixed, LenProperties
<1>16. \A i \in 1..e : P[i] = E[i]
  BY Prefixed
<1>17. E = encode_variable_byte_integer(m) /\ Len(E) = e
  OBVIOUS
<1> HIDE DEF T, P, E, m, e
<1>18. X \in Seq(Nat) /\ Len(X) = 2 + (e + m)
  <2>1. X \in Seq(Nat) /\ Len(X) = Len(T) + Len(P)
    BY <1>1, <1>2, Joined
  <2> QED BY <1>1, <1>2, <2>1
<1>3. /\ \A i \in 1..2 : X[i] = T[i]
      /\ \A i \in 1..e + m : X[2 + i] = P[i]
  <2>1. /\ \A i \in 1..Len(T) : X[i] = T[i]
        /\ \A i \in 1..Len(P) : X[Len(T) + i] = P[i]
    BY <1>1, <1>2, Joined
  <2> HIDE DEF X
  <2> QED BY <1>1, <1>2, <2>1
<1> HIDE DEF X
<1>4. <<reason>> \in Seq(Nat) /\ Len(<<reason>>) = 1 /\ <<reason>>[1] = reason
  OBVIOUS
<1>5. /\ body \in Seq(Nat) /\ Len(body) = Len(X) + 1
      /\ \A i \in 1..Len(X) : body[i] = X[i]
      /\ body[Len(X) + 1] = reason
  BY <1>18, <1>4, Joined
<1>6. Len(body) < Base * Base * Base
  BY DEF T, P, E, X
<1> HIDE DEF body
<1>19. Len(X) + 1 = e + m + 3 /\ 1 \in 1..Len(X) /\ 2 \in 1..Len(X)
  BY <1>2, <1>18
<1>7. /\ body[1] = T[1] /\ body[2] = T[2] /\ body[e + m + 3] = reason
      /\ \A i \in 1..e : body[2 + i] = E[i]
  <2>1. ASSUME NEW i \in 1..e PROVE body[2 + i] = E[i]
    <3>1. i \in 1..e + m /\ 2 + i \in 1..Len(X)
      BY <1>2, <1>18
    <3>2. body[2 + i] = X[2 + i]
      BY <1>5, <3>1
    <3>3. X[2 + i] = P[i]
      BY <1>3, <3>1
    <3> QED BY <1>16, <3>2, <3>3
  <2>2. body[1] = X[1] /\ body[2] = X[2] /\ X[1] = T[1] /\ X[2] = T[2]
    BY <1>3, <1>5, <1>19
  <2> QED BY <1>5, <1>19, <2>1, <2>2
<1>20. body \in Seq(Nat) /\ 144 \in Nat
  BY <1>5
<1>8. /\ F \in Seq(Nat) /\ Len(F) = 1 + d + Len(body) /\ F[1] = 144
      /\ d \in 1..3 /\ Len(body) \in Nat
      /\ decode_variable_byte_integer(F, 2) = [ok |-> TRUE, val |-> Len(body), next |-> 2 + d]
      /\ \A i \in 1..Len(body) : F[1 + d + i] = body[i]
  BY <1>20, <1>6, DecodeFramed
<1> HIDE DEF F, d
<1>9. Len(F) = d + e + m + 4 /\ Len(body) = e + m + 3 /\ d \in 1..3 /\ e \in 1..4 /\ m \in Nat
  <2>1. Len(F) = 1 + d + Len(body) /\ d \in 1..3
    BY <1>8
  <2>2. Len(body) = e + m + 3
    BY <1>5, <1>19
  <2> QED BY <1>2, <2>1, <2>2
<1>10. F[2 + d] = T[1] /\ F[2 + d + 1] = T[2]
  <2>1. 1 \in 1..Len(body) /\ 2 \in 1..Len(body) /\ 1 + d + 1 = 2 + d /\ 1 + d + 2 = 2 + d + 1
    BY <1>9
  <2> QED BY <1>7, <1>8, <2>1
<1>11. F[2 + d + 2 + e + m] = reason
  <2>1. e + m + 3 \in 1..Len(body) /\ 1 + d + (e + m + 3) = 2 + d + 2 + e + m
    BY <1>9
  <2> QED BY <1>7, <1>8, <2>1
<1>12. decode_variable_byte_integer(F, 2 + d + 2) = [ok |-> TRUE, val |-> m, next |-> 2 + d + 2 + e]
  <2>1. m < Base * Base * Base
    <3>1. Base * Base * Base \in Nat
      BY BaseAssumption
    <3> QED BY <1>6, <1>9, <3>1
  <2>2. 2 + d + 2 \in Nat \ {0} /\ 2 + d + 2 + e - 1 <= Len(F)
    BY <1>9
  <2>3. ASSUME NEW i \in 1..e PROVE F[2 + d + 2 + i - 1] = E[i]
    <3>1. 2 + d + 2 + i - 1 = 1 + d + (2 + i) /\ 2 + i \in 1..Len(body)
      BY <1>9
    <3> QED BY <1>7, <1>8, <3>1
  <2> DEFINE c == 2 + d + 2
  <2>4. /\ c \in Nat \ {0} /\ c + Len(encode_variable_byte_integer(m)) - 1 <= Len(F)
        /\ \A i \in 1..Len(encode_variable_byte_integer(m)) :
              F[c + i - 1] = encode_variable_byte_integer(m)[i]
    BY <1>17, <2>2, <2>3
  <2>5. F \in Seq(Nat) /\ m \in Nat
    BY <1>8, <1>9
  <2> HIDE DEF c
  <2>6. decode_variable_byte_integer(F, c) =
            [ok |-> TRUE, val |-> m, next |-> c + Len(encode_variable_byte_integer(m))]
    BY <2>1, <2>4, <2>5, DecodeAt
  <2> QED BY <2>6, <1>17 DEF c
<1>13. /\ ~(Len(F) < 5) /\ ~((2 + d) - 1 + Len(body) > Len(F))
       /\ ~((2 + d + 2 + e) + m > Len(F))
  BY <1>9
<1>14. Number(F, 2 + d) = id
  BY <1>1, <1>10 DEF Number
<1>15. mqtt_parse_suback(F) = [ok |-> TRUE, id |-> Number(F, 2 + d), reason |-> F[2 + d + 2 + e + m]]
  <2> DEFINE r == decode_variable_byte_integer(F, 2)
             p == decode_variable_byte_integer(F, r.next + 2)
  <2>1. r.ok /\ r.next = 2 + d /\ r.val = Len(body)
    BY <1>8
  <2>2. p.ok /\ p.next = 2 + d + 2 + e /\ p.val = m
    <3> HIDE DEF r
    <3> QED BY <1>12, <2>1
  <2>3. mqtt_parse_suback(F) =
            IF \/ Len(F) < 5 \/ F[1] # 144 \/ ~r.ok \/ r.next - 1 + r.val > Len(F)
               \/ ~p.ok \/ p.next + p.val > Len(F) THEN Failed
            ELSE [ok |-> TRUE, id |-> Number(F, r.next), reason |-> F[p.next + p.val]]
    BY DEF mqtt_parse_suback
  <2> HIDE DEF r, p
  <2> QED BY <1>8, <1>13, <2>1, <2>2, <2>3
<1> QED BY <1>11, <1>14, <1>15 DEF F, body, X, P, T, E

\* Where the parts of a PUBLISH are in its body.
Parts(T, topic, I, E, props, payload) == T \o topic \o I \o (E \o props) \o payload

LaidOut(T, topic, I, E, props, payload) ==
    LET body == Parts(T, topic, I, E, props, payload)
        a == 2 + Len(topic)
        b == a + Len(I)
        c == b + Len(E) + Len(props) IN
    /\ body \in Seq(Nat) /\ Len(body) = c + Len(payload)
    /\ body[1] = T[1] /\ body[2] = T[2]
    /\ \A i \in 1..Len(topic) : body[2 + i] = topic[i]
    /\ \A i \in 1..Len(I) : body[a + i] = I[i]
    /\ \A i \in 1..Len(E) : body[b + i] = E[i]
    /\ \A i \in 1..Len(payload) : body[c + i] = payload[i]

LEMMA PublishParts ==
    ASSUME NEW T \in Seq(Nat), NEW topic \in Seq(Nat), NEW I \in Seq(Nat), NEW E \in Seq(Nat),
           NEW props \in Seq(Nat), NEW payload \in Seq(Nat), Len(T) = 2
    PROVE  LaidOut(T, topic, I, E, props, payload)
<1> DEFINE P == E \o props
           X1 == T \o topic
           X2 == X1 \o I
           X3 == X2 \o P
           X4 == X3 \o payload
           a == 2 + Len(topic)
           b == a + Len(I)
           c == b + Len(E) + Len(props)
<1>1. /\ Len(topic) \in Nat /\ Len(I) \in Nat /\ Len(E) \in Nat /\ Len(props) \in Nat
      /\ Len(payload) \in Nat
  BY LenProperties
<1>2. /\ P \in Seq(Nat) /\ Len(P) = Len(E) + Len(props)
      /\ \A i \in 1..Len(E) : P[i] = E[i]
  BY Joined
<1> HIDE DEF P
<1>3. /\ X1 \in Seq(Nat) /\ Len(X1) = Len(T) + Len(topic)
      /\ \A i \in 1..Len(T) : X1[i] = T[i]
      /\ \A i \in 1..Len(topic) : X1[Len(T) + i] = topic[i]
  BY Joined
<1> HIDE DEF X1
<1>4. /\ X2 \in Seq(Nat) /\ Len(X2) = Len(X1) + Len(I)
      /\ \A i \in 1..Len(X1) : X2[i] = X1[i]
      /\ \A i \in 1..Len(I) : X2[Len(X1) + i] = I[i]
  BY <1>3, Joined
<1> HIDE DEF X2
<1>5. /\ X3 \in Seq(Nat) /\ Len(X3) = Len(X2) + Len(P)
      /\ \A i \in 1..Len(X2) : X3[i] = X2[i]
      /\ \A i \in 1..Len(P) : X3[Len(X2) + i] = P[i]
  BY <1>2, <1>4, Joined
<1> HIDE DEF X3
<1>6. /\ X4 \in Seq(Nat) /\ Len(X4) = Len(X3) + Len(payload)
      /\ \A i \in 1..Len(X3) : X4[i] = X3[i]
      /\ \A i \in 1..Len(payload) : X4[Len(X3) + i] = payload[i]
  BY <1>5, Joined
<1> HIDE DEF X4
<1>7. /\ Len(X1) = a /\ Len(X2) = b /\ Len(X3) = c /\ Len(P) = Len(E) + Len(props)
      /\ a \in Nat /\ b \in Nat /\ c \in Nat
  BY <1>1, <1>2, <1>3, <1>4, <1>5
<1>8. Len(X4) = c + Len(payload)
  BY <1>6, <1>7
<1>9. ASSUME NEW i \in 1..a PROVE X4[i] = X1[i]
  <2>1. i \in 1..Len(X1) /\ i \in 1..Len(X2) /\ i \in 1..Len(X3)
    BY <1>1, <1>7
  <2> QED BY <1>4, <1>5, <1>6, <2>1
<1>10. X4[1] = T[1] /\ X4[2] = T[2]
  <2>1. 1 \in 1..a /\ 2 \in 1..a /\ 1 \in 1..Len(T) /\ 2 \in 1..Len(T)
    BY <1>1
  <2> QED BY <1>3, <1>9, <2>1
<1>11. ASSUME NEW i \in 1..Len(topic) PROVE X4[2 + i] = topic[i]
  <2>1. 2 + i \in 1..a /\ Len(T) + i = 2 + i
    BY <1>1
  <2>2. X1[2 + i] = topic[i]
    BY <1>3, <2>1
  <2> QED BY <1>9, <2>1, <2>2
<1>12. ASSUME NEW i \in 1..Len(I) PROVE X4[a + i] = I[i]
  <2>1. a + i \in 1..Len(X2) /\ a + i \in 1..Len(X3)
    BY <1>1, <1>7
  <2>2. X2[a + i] = I[i]
    BY <1>4, <1>7
  <2> QED BY <1>5, <1>6, <2>1, <2>2
<1>13. ASSUME NEW i \in 1..Len(E) PROVE X4[b + i] = E[i]
  <2>1. b + i \in 1..Len(X3) /\ i \in 1..Len(P)
    BY <1>1, <1>7
  <2>2. X3[b + i] = P[i]
    BY <1>5, <1>7, <2>1
  <2>3. P[i] = E[i]
    BY <1>2
  <2> QED BY <1>6, <2>1, <2>2, <2>3
<1>14. ASSUME NEW i \in 1..Len(payload) PROVE X4[c + i] = payload[i]
  BY <1>6, <1>7
<1>15. X4 = Parts(T, topic, I, E, props, payload)
  BY DEF X4, X3, X2, X1, P, Parts
<1> QED BY <1>6, <1>8, <1>10, <1>11, <1>12, <1>13, <1>14, <1>15 DEF LaidOut

\* The body of a PUBLISH, as the broker and the client make it.
PublishBody(q, id, topic, props, payload) ==
    Parts(TwoBytes(Len(topic)), topic, IF q > 0 THEN TwoBytes(id) ELSE <<>>,
          encode_variable_byte_integer(Len(props)), props, payload)

LEMMA PublishParsed ==
    ASSUME NEW q \in 0..2, NEW id \in Id, NEW topic \in Seq(Nat), NEW props \in Seq(Nat),
           NEW payload \in Seq(Nat), Len(topic) \in Id,
           Len(PublishBody(q, id, topic, props, payload)) < Base * Base * Base
    PROVE  mqtt_parse_publish(Framed(48 + 2 * q, PublishBody(q, id, topic, props, payload))) =
               [ok |-> TRUE, qos |-> q, id |-> IF q > 0 THEN id ELSE 0,
                topic |-> SubSeq(topic, 1, Kept(Len(topic))), payload |-> payload]
<1> DEFINE T == TwoBytes(Len(topic))
           I == IF q > 0 THEN TwoBytes(id) ELSE <<>>
           E == encode_variable_byte_integer(Len(props))
           body == PublishBody(q, id, topic, props, payload)
           F == Framed(48 + 2 * q, body)
           d == Len(encode_variable_byte_integer(Len(body)))
           t == Len(topic)
           w == Len(I)
           e == Len(E)
           m == Len(props)
           l == Len(payload)
<1>1. T \in Seq(Nat) /\ Len(T) = 2 /\ T[1] * 2 * Base + T[2] = t
  BY DivByte
<1>2. /\ I \in Seq(Nat)
      /\ q > 0 => w = 2 /\ I[1] * 2 * Base + I[2] = id
      /\ ~(q > 0) => w = 0
  <2>1. TwoBytes(id) \in Seq(Nat) /\ Len(TwoBytes(id)) = 2
        /\ TwoBytes(id)[1] * 2 * Base + TwoBytes(id)[2] = id
    BY DivByte
  <2>2. <<>> \in Seq(Nat) /\ Len(<<>>) = 0
    OBVIOUS
  <2> QED BY <2>1, <2>2
<1>3. t \in Nat /\ m \in Nat /\ l \in Nat /\ e \in 1..4 /\ E \in Seq(Nat)
  BY VarIntSeq, LenProperties
<1>4. w \in {0, 2}
  BY <1>2
<1>5. E = encode_variable_byte_integer(m) /\ e = Len(E)
  OBVIOUS
<1>6. body = Parts(T, topic, I, E, props, payload)
  BY DEF PublishBody
<1>7. Len(body) < Base * Base * Base
  OBVIOUS
<1> HIDE DEF T, I, E, body, m, e
<1> DEFINE a == 2 + Len(topic)
           b == a + Len(I)
           c == b + Len(E) + Len(props)
<1>8. /\ body \in Seq(Nat) /\ Len(body) = c + Len(payload)
      /\ body[1] = T[1] /\ body[2] = T[2]
      /\ \A i \in 1..Len(topic) : body[2 + i] = topic[i]
      /\ \A i \in 1..Len(I) : body[a + i] = I[i]
      /\ \A i \in 1..Len(E) : body[b + i] = E[i]
      /\ \A i \in 1..Len(payload) : body[c + i] = payload[i]
  <2>1. T \in Seq(Nat) /\ I \in Seq(Nat) /\ E \in Seq(Nat) /\ Len(T) = 2
    BY <1>1, <1>2, <1>3
  <2>2. /\ body \in Seq(Nat) /\ Len(body) = c + Len(payload)
        /\ body[1] = T[1] /\ body[2] = T[2]
        /\ \A i \in 1..Len(topic) : body[2 + i] = topic[i]
        /\ \A i \in 1..Len(I) : body[a + i] = I[i]
        /\ \A i \in 1..Len(E) : body[b + i] = E[i]
        /\ \A i \in 1..Len(payload) : body[c + i] = payload[i]
    <3>1. LaidOut(T, topic, I, E, props, payload)
      BY <2>1, PublishParts
    <3> QED BY <1>6, <3>1 DEF LaidOut
  <2> QED BY <2>2
<1>9. a = 2 + t /\ b = 2 + t + w /\ c = 2 + t + w + e + m
  BY <1>3, <1>4, <1>5 DEF m
<1>10. body \in Seq(Nat) /\ 48 + 2 * q \in Nat
  BY <1>8
<1>11. /\ F \in Seq(Nat) /\ Len(F) = 1 + d + Len(body) /\ F[1] = 48 + 2 * q
       /\ d \in 1..3 /\ Len(body) \in Nat
       /\ decode_variable_byte_integer(F, 2) = [ok |-> TRUE, val |-> Len(body), next |-> 2 + d]
       /\ \A i \in 1..Len(body) : F[1 + d + i] = body[i]
  BY <1>10, <1>7, DecodeFramed
<1> HIDE DEF F, d, a, b, c, w, t, l
<1>12. /\ Len(body) = 2 + t + w + e + m + l /\ Len(F) = 1 + d + Len(body) /\ d \in 1..3
       /\ t \in Nat /\ w \in {0, 2} /\ e \in 1..4 /\ m \in Nat /\ l \in Nat
  BY <1>3, <1>4, <1>8, <1>9, <1>11 DEF l
<1>13. F[2 + d] = T[1] /\ F[2 + d + 1] = T[2]
  <2>1. 1 \in 1..Len(body) /\ 2 \in 1..Len(body) /\ 1 + d + 1 = 2 + d /\ 1 + d + 2 = 2 + d + 1
    BY <1>12
  <2> QED BY <1>8, <1>11, <2>1
<1>14. ASSUME NEW i \in 1..t PROVE F[4 + d + i - 1] = topic[i]
  <2>1. 4 + d + i - 1 = 1 + d + (2 + i) /\ 2 + i \in 1..Len(body)
    BY <1>12
  <2> QED BY <1>8, <1>11, <2>1 DEF t
<1>15. ASSUME q > 0 PROVE F[4 + d + t] = I[1] /\ F[4 + d + t + 1] = I[2]
  <2>1. w = 2
    BY <1>2, <1>15
  <2>2. /\ a + 1 \in 1..Len(body) /\ 1 + d + (a + 1) = 4 + d + t
        /\ a + 2 \in 1..Len(body) /\ 1 + d + (a + 2) = 4 + d + t + 1
    BY <1>9, <1>12, <2>1
  <2>3. 1 \in 1..Len(I) /\ 2 \in 1..Len(I)
    BY <2>1 DEF w
  <2> QED BY <1>8, <1>11, <2>2, <2>3
<1>16. ASSUME NEW i \in 1..e PROVE F[4 + d + t + w + i - 1] = E[i]
  <2>1. 4 + d + t + w + i - 1 = 1 + d + (b + i) /\ b + i \in 1..Len(body)
    BY <1>9, <1>12
  <2> QED BY <1>5, <1>8, <1>11, <2>1
<1>17. ASSUME NEW i \in 1..l PROVE F[4 + d + t + w + e + m + i - 1] = payload[i]
  <2>1. 4 + d + t + w + e + m + i - 1 = 1 + d + (c + i) /\ c + i \in 1..Len(body)
    BY <1>9, <1>12
  <2> QED BY <1>8, <1>11, <2>1 DEF l
<1>18. decode_variable_byte_integer(F, 4 + d + t + w) =
           [ok |-> TRUE, val |-> m, next |-> 4 + d + t + w + e]
  <2> DEFINE x == 4 + d + t + w
  <2>1. m < Base * Base * Base
    <3>1. Base * Base * Base \in Nat
      BY BaseAssumption
    <3> QED BY <1>7, <1>12, <3>1
  <2>2. x \in Nat \ {0} /\ x + e - 1 <= Len(F)
    BY <1>12
  <2>3. F \in Seq(Nat) /\ m \in Nat
    BY <1>11, <1>12
  <2>4. \A i \in 1..e : F[x + i - 1] = E[i]
    BY <1>16
  <2> HIDE DEF x
  <2>5. decode_variable_byte_integer(F, x) =
            [ok |-> TRUE, val |-> m, next |-> x + Len(encode_variable_byte_integer(m))]
    BY <1>5, <2>1, <2>2, <2>3, <2>4, DecodeAt
  <2> QED BY <1>5, <2>5 DEF x
<1>19. Kept(t) \in 0..t
  BY <1>12, SizeAssumption DEF Kept
<1>20. SubSeq(F, 4 + d, 4 + d + Kept(t) - 1) = SubSeq(topic, 1, Kept(t))
  <2> DEFINE x == 4 + d
             n == Kept(t)
  <2>1. x \in Nat \ {0} /\ n \in 0..Len(topic) /\ x + n - 1 <= Len(F) /\ F \in Seq(Nat)
    <3>1. n \in 0..t
      BY <1>19
    <3>2. x \in Nat \ {0} /\ x + n - 1 <= Len(F)
      <4> HIDE DEF n
      <4> QED BY <1>12, <3>1
    <3> QED BY <1>11, <3>1, <3>2 DEF t
  <2>2. \A i \in 1..n : F[x + i - 1] = topic[i]
    BY <1>12, <1>14, <1>19
  <2> HIDE DEF x, n
  <2>3. SubSeq(F, x, x + n - 1) = SubSeq(topic, 1, n)
    BY <2>1, <2>2, SameItems
  <2> QED BY <2>3 DEF x, n
<1>21. SubSeq(F, 4 + d + t + w + e + m, 2 + d + Len(body) - 1) = payload
  <2> DEFINE x == 4 + d + t + w + e + m
  <2>1. x \in Nat \ {0} /\ l \in 0..Len(payload) /\ x + l - 1 <= Len(F) /\ F \in Seq(Nat)
    <3>1. x \in Nat \ {0} /\ l \in 0..l /\ x + l - 1 <= Len(F)
      BY <1>12
    <3> QED BY <1>11, <3>1 DEF l
  <2>2. \A i \in 1..l : F[x + i - 1] = payload[i]
    BY <1>17
  <2>3. x + l - 1 = 2 + d + Len(body) - 1
    BY <1>12
  <2> HIDE DEF x
  <2>4. SubSeq(F, x, x + l - 1) = SubSeq(payload, 1, l)
    BY <2>1, <2>2, SameItems
  <2>5. SubSeq(payload, 1, l) = payload
    BY SubSeqFull DEF l
  <2> QED BY <2>3, <2>4, <2>5 DEF x
<1>22. Number(F, 2 + d) = t /\ (q > 0 => Number(F, 4 + d + t) = id)
  BY <1>1, <1>2, <1>13, <1>15 DEF Number
<1>23. ((48 + 2 * q) \div 2) % 4 = q /\ (48 + 2 * q) \div 16 = 3
  <2>1. /\ (48 \div 2) % 4 = 0 /\ (50 \div 2) % 4 = 1 /\ (52 \div 2) % 4 = 2
        /\ 48 \div 16 = 3 /\ 50 \div 16 = 3 /\ 52 \div 16 = 3
    OBVIOUS
  <2>2. CASE q = 0
    BY <2>1, <2>2
  <2>3. CASE q = 1
    BY <2>1, <2>3
  <2>4. CASE q = 2
    BY <2>1, <2>4
  <2> QED BY <2>2, <2>3, <2>4
<1>24. /\ ~(Len(F) < 3) /\ ~((2 + d + Len(body)) - 1 > Len(F)) /\ ~(4 + d > 2 + d + Len(body))
       /\ ~(4 + d + t > 2 + d + Len(body))
       /\ q > 0 => w = 2
       /\ ~(q > 0) => w = 0
       /\ ~(4 + d + t + w > 2 + d + Len(body))
       /\ ~(4 + d + t + w + e + m > 2 + d + Len(body))
  BY <1>2, <1>12
<1>25. mqtt_parse_publish(F) =
           [ok |-> TRUE, qos |-> q, id |-> IF q > 0 THEN Number(F, 4 + d + t) ELSE 0,
            topic |-> SubSeq(F, 4 + d, 4 + d + Kept(t) - 1),
            payload |-> SubSeq(F, 4 + d + t + w + e + m, 2 + d + Len(body) - 1)]
  <2> DEFINE r == decode_variable_byte_integer(F, 2)
             end == r.next + r.val
             qos == (F[1] \div 2) % 4
             topicLen == Number(F, r.next)
             at0 == r.next + 2
             id0 == at0 + topicLen
             p == decode_variable_byte_integer(F, IF qos > 0 THEN id0 + 2 ELSE id0)
  <2>1. r.ok /\ r.next = 2 + d /\ r.val = Len(body)
    BY <1>11
  <2> HIDE DEF r
  <2>2. end = 2 + d + Len(body) /\ qos = q /\ topicLen = t /\ at0 = 4 + d
    BY <1>11, <1>12, <1>22, <1>23, <2>1
  <2>3. id0 = 4 + d + t /\ (IF qos > 0 THEN id0 + 2 ELSE id0) = 4 + d + t + w
    <3> HIDE DEF at0, topicLen, qos
    <3> QED BY <1>12, <1>24, <2>2
  <2>4. p.ok /\ p.next = 4 + d + t + w + e /\ p.val = m
    <3> HIDE DEF id0, qos
    <3> QED BY <1>18, <2>3
  <2>5. mqtt_parse_publish(F) =
            IF \/ Len(F) < 3 \/ F[1] \div 16 # 3 \/ ~r.ok \/ end - 1 > Len(F)
               \/ at0 > end \/ id0 > end \/ (qos > 0 /\ id0 + 2 > end)
               \/ ~p.ok \/ p.next + p.val > end THEN Failed
            ELSE [ok |-> TRUE, qos |-> qos, id |-> IF qos > 0 THEN Number(F, id0) ELSE 0,
                  topic |-> SubSeq(F, at0, at0 + Kept(topicLen) - 1),
                  payload |-> SubSeq(F, p.next + p.val, end - 1)]
    BY DEF mqtt_parse_publish, r
  <2> HIDE DEF end, qos, topicLen, at0, id0, p
  <2>6. /\ ~(Len(F) < 3) /\ F[1] \div 16 = 3 /\ ~(end - 1 > Len(F)) /\ ~(at0 > end) /\ ~(id0 > end)
        /\ ~(qos > 0 /\ id0 + 2 > end) /\ ~(p.next + p.val > end)
    BY <1>11, <1>23, <1>24, <2>2, <2>3, <2>4
  <2>7. mqtt_parse_publish(F) =
            [ok |-> TRUE, qos |-> qos, id |-> IF qos > 0 THEN Number(F, id0) ELSE 0,
             topic |-> SubSeq(F, at0, at0 + Kept(topicLen) - 1),
             payload |-> SubSeq(F, p.next + p.val, end - 1)]
    BY <2>1, <2>4, <2>5, <2>6
  <2>8. (IF qos > 0 THEN Number(F, id0) ELSE 0) = IF q > 0 THEN Number(F, 4 + d + t) ELSE 0
    BY <2>2, <2>3
  <2>9. SubSeq(F, at0, at0 + Kept(topicLen) - 1) = SubSeq(F, 4 + d, 4 + d + Kept(t) - 1)
    BY <2>2
  <2>12. p.next + p.val = 4 + d + t + w + e + m
    BY <2>4
  <2>13. end - 1 = 2 + d + Len(body) - 1
    BY <1>12, <2>2
  <2>10. SubSeq(F, p.next + p.val, end - 1) =
             SubSeq(F, 4 + d + t + w + e + m, 2 + d + Len(body) - 1)
    BY <2>12, <2>13, Zenon
  <2>11. qos = q
    BY <2>2
  <2> QED BY <2>7, <2>8, <2>9, <2>10, <2>11, Zenon
<1>26. (IF q > 0 THEN Number(F, 4 + d + t) ELSE 0) = IF q > 0 THEN id ELSE 0
  BY <1>22
<1>27. mqtt_parse_publish(F) =
           [ok |-> TRUE, qos |-> q, id |-> IF q > 0 THEN id ELSE 0,
            topic |-> SubSeq(topic, 1, Kept(t)), payload |-> payload]
  BY <1>20, <1>21, <1>25, <1>26, Zenon
<1> QED BY <1>27, Zenon DEF F, t, body

\* What the reader hands over is a whole packet, short enough for the parsers.
LEMMA Handed ==
    ASSUME IInv, at = "done"
    PROVE  /\ in \in Inputs /\ in \in Packet
           /\ in.type = "PUBLISH" => Len(in.topic) \in Id
           /\ buf = Framed(FirstByte(in), Body(in))
           /\ Body(in) \in Seq(Nat) /\ Len(Body(in)) < Base * Base * Base
<1>1. /\ in \in Inputs /\ buf \in Seq(Nat) /\ wire \in Seq(Nat)
      /\ buf \o wire = Encoding(in) \o <<Next1>>
      /\ Len(buf) = Len(Encoding(in)) /\ Len(buf) <= BufSize
  BY DEF IInv
<1>2. /\ Encoding(in) \in Seq(Nat) /\ <<Next1>> \in Seq(Nat)
      /\ Len(Encoding(in)) = 1 + Digits(in) + Len(Body(in)) /\ Digits(in) \in 1..4
  BY <1>1, Stream DEF Next1
<1>3. buf = Encoding(in)
  BY <1>1, <1>2, CutAlike
<1>4. /\ in \in Packet
      /\ in.type = "PUBLISH" => Len(in.topic) \in Id
  BY <1>1, InputAssumption
<1>6. Body(in) \in Seq(Nat) /\ Len(Body(in)) \in Nat
  BY <1>1, InputTyped
<1>5. Len(Body(in)) < Base * Base * Base
  <2> DEFINE C == Base * Base * Base
             n == Len(Body(in))
  <2>1. BufSize \in Nat /\ BufSize <= C /\ C \in Nat
    BY BaseAssumption, SizeAssumption
  <2>2. 1 + Digits(in) + n <= BufSize
    BY <1>1, <1>2
  <2>3. n \in Nat /\ Digits(in) \in 1..4
    BY <1>2, <1>6
  <2> HIDE DEF C, n
  <2>4. n < C
    BY <2>1, <2>2, <2>3
  <2> QED BY <2>4 DEF C, n
<1>7. buf = Framed(FirstByte(in), Body(in))
  BY <1>3 DEF Encoding
<1> QED BY <1>1, <1>4, <1>5, <1>6, <1>7, Zenon

\* The parsers find in a packet what the broker put there, for every Base and
\* every size of the buffer.
THEOREM Parsed == Spec => []ParsedAsSent
<1>1. IInv => ParsedAsSent
  <2> SUFFICES ASSUME IInv, at = "done" PROVE ParsedAsSent
    BY DEF ParsedAsSent
  <2>1. /\ in \in Packet
        /\ in.type = "PUBLISH" => Len(in.topic) \in Id
        /\ buf = Framed(FirstByte(in), Body(in))
        /\ Body(in) \in Seq(Nat) /\ Len(Body(in)) < Base * Base * Base
    BY Handed
  <2>2. CASE in.type = "CONNACK"
    <3>1. in.session \in {0, 1} /\ in.reason \in Nat /\ in.props \in Seq(Nat)
      BY <2>1, <2>2 DEF Packet
    <3>2. Properties(in) \in Seq(Nat) /\ Len(Properties(in)) > 0
      <4> DEFINE P == in.props
                 L == encode_variable_byte_integer(Len(P))
      <4>1. P \in Seq(Nat) /\ Len(P) \in Nat
        BY <3>1, LenProperties
      <4>2. Properties(in) = L \o P
        BY DEF Properties
      <4> HIDE DEF P
      <4>3. L \o P \in Seq(Nat) /\ Len(L \o P) = Len(L) + Len(P) /\ Len(L) \in 1..4
        BY <4>1, Prefixed
      <4> HIDE DEF L
      <4> DEFINE x == Len(L)
                 y == Len(P)
      <4>4. x \in 1..4 /\ y \in Nat /\ Len(L \o P) = x + y
        BY <4>1, <4>3, Zenon
      <4> HIDE DEF x, y
      <4>5. x + y > 0
        BY <4>4
      <4>6. Len(L \o P) > 0
        BY <4>4, <4>5
      <4> QED BY <4>2, <4>3, <4>6, Zenon
    <3>3. Body(in) = <<in.session, in.reason>> \o Properties(in) /\ FirstByte(in) = 32
      BY <2>2 DEF Body, FirstByte
    <3>4. mqtt_parse_connack(buf) = [ok |-> TRUE, session |-> in.session, reason |-> in.reason]
      <4> DEFINE P == Properties(in)
                 B == <<in.session, in.reason>> \o P
      <4>1. Len(B) < Base * Base * Base /\ buf = Framed(32, B)
        BY <2>1, <3>3
      <4>2. P \in Seq(Nat) /\ Len(P) > 0
        BY <3>2
      <4> HIDE DEF P
      <4>3. mqtt_parse_connack(Framed(32, B)) =
                [ok |-> TRUE, session |-> in.session, reason |-> in.reason]
        BY <3>1, <4>1, <4>2, ConnackParsed
      <4> QED BY <4>1, <4>3, Zenon
    <3> QED BY <2>2, <3>4 DEF ParsedAsSent
  <2>3. CASE in.type = "SUBACK"
    <3>1. in.id \in Id /\ in.reason \in Nat /\ in.props \in Seq(Nat)
      BY <2>1, <2>3 DEF Packet
    <3>2. /\ FirstByte(in) = 144
          /\ Body(in) = TwoBytes(in.id)
                \o (encode_variable_byte_integer(Len(in.props)) \o in.props) \o <<in.reason>>
      BY <2>3 DEF Body, FirstByte, Properties
    <3>3. mqtt_parse_suback(buf) = [ok |-> TRUE, id |-> in.id, reason |-> in.reason]
      <4> DEFINE S == in.props
                 B == TwoBytes(in.id) \o (encode_variable_byte_integer(Len(S)) \o S) \o <<in.reason>>
      <4>1. Len(B) < Base * Base * Base /\ buf = Framed(144, B)
        BY <2>1, <3>2
      <4>2. S \in Seq(Nat)
        BY <3>1
      <4> HIDE DEF S
      <4>3. mqtt_parse_suback(Framed(144, B)) = [ok |-> TRUE, id |-> in.id, reason |-> in.reason]
        BY <3>1, <4>1, <4>2, SubackParsed
      <4> QED BY <4>1, <4>3, Zenon
    <3> QED BY <2>3, <3>3 DEF ParsedAsSent
  <2>4. CASE in.type = "PUBLISH"
    <3>1. /\ in.qos \in 0..2 /\ in.id \in Id /\ in.topic \in Seq(Nat) /\ in.props \in Seq(Nat)
          /\ in.payload \in Seq(Nat) /\ Len(in.topic) \in Id
      BY <2>1, <2>4 DEF Packet
    <3>2. /\ FirstByte(in) = 48 + 2 * in.qos
          /\ Body(in) = PublishBody(in.qos, in.id, in.topic, in.props, in.payload)
      BY <2>4 DEF Body, FirstByte, Properties, PublishBody, Parts
    <3>3. mqtt_parse_publish(buf) =
              [ok |-> TRUE, qos |-> in.qos, id |-> IF in.qos > 0 THEN in.id ELSE 0,
               topic |-> SubSeq(in.topic, 1, Kept(Len(in.topic))), payload |-> in.payload]
      <4>1. /\ Len(PublishBody(in.qos, in.id, in.topic, in.props, in.payload)) < Base * Base * Base
            /\ buf = Framed(48 + 2 * in.qos,
                            PublishBody(in.qos, in.id, in.topic, in.props, in.payload))
        BY <2>1, <3>2, Zenon
      <4> DEFINE q == in.qos
                 id == in.id
                 topic == in.topic
                 props == in.props
                 payload == in.payload
      <4>2. /\ q \in 0..2 /\ id \in Id /\ topic \in Seq(Nat) /\ props \in Seq(Nat)
            /\ payload \in Seq(Nat) /\ Len(topic) \in Id
            /\ Len(PublishBody(q, id, topic, props, payload)) < Base * Base * Base
        BY <3>1, <4>1, Zenon
      <4> HIDE DEF q, id, topic, props, payload
      <4>3. mqtt_parse_publish(Framed(48 + 2 * q, PublishBody(q, id, topic, props, payload))) =
                [ok |-> TRUE, qos |-> q, id |-> IF q > 0 THEN id ELSE 0,
                 topic |-> SubSeq(topic, 1, Kept(Len(topic))), payload |-> payload]
        BY <4>2, PublishParsed, ZenonT(60)
      <4> QED BY <4>1, <4>3, Zenon DEF q, id, topic, props, payload
    <3> QED BY <2>4, <3>3 DEF ParsedAsSent
  <2>5. CASE in.type = "PINGRESP"
    <3>1. buf[1] = 208
      <4>1. FirstByte(in) = 208
        BY <2>5 DEF FirstByte
      <4>2. 208 \in Nat
        OBVIOUS
      <4>3. Framed(208, Body(in))[1] = 208
        BY <2>1, <4>2, FramedParts
      <4> QED BY <2>1, <4>1, <4>3
    <3>2. ~mqtt_parse_connack(buf).ok /\ ~mqtt_parse_suback(buf).ok
      BY <3>1 DEF mqtt_parse_connack, mqtt_parse_suback, Failed
    <3> QED BY <2>5, <3>2 DEF ParsedAsSent
  <2> QED BY <2>1, <2>2, <2>3, <2>4, <2>5 DEF Packet
<1> QED BY <1>1, Always, PTL

-----------------------------------------------------------------------------
(* The builders *)

\* A packet that fits says its own length.
LEMMA FitsWhole ==
    ASSUME NEW h \in Nat, NEW body \in Seq(Nat)
    PROVE  Whole(Fits(Framed(h, body)))
<1> DEFINE F == Framed(h, body)
           L == encode_variable_byte_integer(Len(body))
<1>1. CASE Len(F) > MaxPacket
  BY <1>1 DEF Fits, Whole
<1>2. CASE ~(Len(F) > MaxPacket)
  <2>1. /\ Len(F) = 1 + Len(L) + Len(body) /\ Len(L) \in 1..4 /\ Len(body) \in Nat
        /\ F \in Seq(Nat)
    BY FramedParts, VarIntSeq, LenProperties
  <2>2. MaxPacket \in Nat /\ MaxPacket <= Base * Base * Base /\ Base * Base * Base \in Nat
    BY BaseAssumption, SizeAssumption
  <2>3. Len(F) <= MaxPacket /\ Len(body) < Base * Base * Base
    <3> HIDE DEF F, L
    <3> QED BY <1>2, <2>1, <2>2
  <2>4. decode_variable_byte_integer(F, 2) = [ok |-> TRUE, val |-> Len(body), next |-> 2 + Len(L)]
    BY <2>3, DecodeFramed
  <2>5. (2 + Len(L)) - 1 + Len(body) = Len(F)
    BY <2>1
  <2>6. Fits(F) = F
    BY <1>2 DEF Fits
  <2> HIDE DEF F, L
  <2>7. Whole(F)
    BY <2>3, <2>4, <2>5 DEF Whole
  <2> QED BY <2>6, <2>7 DEF F
<1> QED BY <1>1, <1>2

\* What Fits returns is the packet or nothing, and never looks like an overrun.
LEMMA FitsIs ==
    ASSUME NEW h \in Nat, NEW body \in Seq(Nat)
    PROVE  LET packet == Framed(h, body) IN
           /\ Refused # Overrun /\ Fits(packet) # Overrun
           /\ Fits(packet) = Refused <=> Len(packet) > MaxPacket
           /\ Fits(packet) # Refused => Fits(packet) = packet
<1> DEFINE F == Framed(h, body)
<1> DEFINE L == encode_variable_byte_integer(Len(body))
<1>1. Len(F) >= 2 /\ F[1] = h
  <2>1. Len(body) \in Nat
    BY LenProperties
  <2>2. Len(L) \in 1..4
    BY <2>1, VarIntSeq
  <2>3. Len(F) = 1 + Len(L) + Len(body) /\ F[1] = h
    BY FramedParts
  <2> HIDE DEF F, L
  <2> QED BY <2>1, <2>2, <2>3
<1>2. Len(Refused) = 0 /\ Len(Overrun) = 1
  BY DEF Refused, Overrun
<1> HIDE DEF F
<1>3. Refused # Overrun
  BY <1>2
<1>4. F # Refused /\ F # Overrun
  <2>1. ASSUME F = Refused PROVE FALSE
    <3>1. Len(F) = 0
      BY <1>2, <2>1
    <3> QED BY <1>1, <3>1
  <2>2. ASSUME F = Overrun PROVE FALSE
    <3>1. Len(F) = 1
      BY <1>2, <2>2
    <3> QED BY <1>1, <3>1
  <2> QED BY <2>1, <2>2
<1>5. CASE Len(F) > MaxPacket
  <2>1. Fits(F) = Refused
    BY <1>5 DEF Fits
  <2> QED BY <1>3, <1>5, <2>1 DEF F
<1>6. CASE ~(Len(F) > MaxPacket)
  <2>1. Fits(F) = F
    BY <1>6 DEF Fits
  <2> QED BY <1>3, <1>4, <1>6, <2>1 DEF F
<1> QED BY <1>5, <1>6

LEMMA ConnectWhole ==
    ASSUME NEW id \in Seq(Nat)
    PROVE  LET connect == mqtt_connect_message(id, 60, TRUE) IN
           /\ Whole(connect)
           /\ connect = Overrun <=> id # <<>> /\ Len(id) + 13 > MaxPacket
<1> DEFINE A1 == TwoBytes(4) \o <<77, 81, 84, 84>>
           A2 == A1 \o <<5, 2>>
           A3 == A2 \o TwoBytes(60)
           A4 == A3 \o <<0>>
           A5 == A4 \o TwoBytes(Len(id))
           A6 == A5 \o id
<1>1. /\ TwoBytes(4) \in Seq(Nat) /\ TwoBytes(60) \in Seq(Nat) /\ TwoBytes(Len(id)) \in Seq(Nat)
  BY TwoBytesSeq, LenProperties
<1>2. <<77, 81, 84, 84>> \in Seq(Nat) /\ <<5, 2>> \in Seq(Nat) /\ <<0>> \in Seq(Nat)
  OBVIOUS
<1>3. A1 \in Seq(Nat)
  BY <1>1, <1>2, Joined
<1>4. A2 \in Seq(Nat)
  BY <1>2, <1>3, Joined
<1>5. A3 \in Seq(Nat)
  BY <1>1, <1>4, Joined
<1>6. A4 \in Seq(Nat)
  BY <1>2, <1>5, Joined
<1>7. A5 \in Seq(Nat)
  BY <1>1, <1>6, Joined
<1>8. A6 \in Seq(Nat)
  BY <1>7, Joined
<1>9. mqtt_connect_message(id, 60, TRUE) =
          CASE id = <<>> -> Refused
            [] id # <<>> /\ Len(A6) > MaxPacket -> Overrun
            [] OTHER -> Fits(Framed(16, A6))
  BY DEF mqtt_connect_message
<1>10. Len(A6) = Len(id) + 13
  <2>1. Len(TwoBytes(4)) = 2 /\ Len(TwoBytes(60)) = 2 /\ Len(TwoBytes(Len(id))) = 2
    BY TwoBytesSeq, LenProperties
  <2>2. Len(<<77, 81, 84, 84>>) = 4 /\ Len(<<5, 2>>) = 2 /\ Len(<<0>>) = 1
    OBVIOUS
  <2>3. Len(A1) = 6
    <3> DEFINE a == TwoBytes(4)
               b == <<77, 81, 84, 84>>
    <3>1. a \in Seq(Nat) /\ b \in Seq(Nat) /\ Len(a) = 2 /\ Len(b) = 4
      BY <1>1, <1>2, <2>1
    <3> HIDE DEF a, b
    <3>2. Len(a \o b) = Len(a) + Len(b)
      BY <3>1, Joined
    <3>3. Len(a \o b) = 6
      BY <3>1, <3>2
    <3> QED BY <3>3 DEF a, b
  <2>4. Len(A2) = Len(A1) + 2
    <3> HIDE DEF A1
    <3> QED BY <1>2, <1>3, <2>2, Joined
  <2>5. Len(A3) = Len(A2) + 2
    <3> DEFINE a == TwoBytes(60)
    <3>1. a \in Seq(Nat) /\ Len(a) = 2
      BY <1>1, <2>1
    <3> HIDE DEF A2, a
    <3>2. Len(A2 \o a) = Len(A2) + Len(a)
      BY <1>4, <3>1, Joined
    <3>3. Len(A2 \o a) = Len(A2) + 2
      BY <3>1, <3>2
    <3> QED BY <3>3 DEF a
  <2>6. Len(A4) = Len(A3) + 1
    <3> HIDE DEF A3
    <3> QED BY <1>2, <1>5, <2>2, Joined
  <2>7. Len(A5) = Len(A4) + 2
    <3> DEFINE a == TwoBytes(Len(id))
    <3>1. a \in Seq(Nat) /\ Len(a) = 2
      BY <1>1, <2>1
    <3> HIDE DEF A4, a
    <3>2. Len(A4 \o a) = Len(A4) + Len(a)
      BY <1>6, <3>1, Joined
    <3>3. Len(A4 \o a) = Len(A4) + 2
      BY <3>1, <3>2
    <3> QED BY <3>3 DEF a
  <2>8. Len(A6) = Len(A5) + Len(id)
    <3> HIDE DEF A5
    <3> QED BY <1>7, Joined
  <2>9. Len(id) \in Nat
    BY LenProperties
  <2> HIDE DEF A1, A2, A3, A4, A5, A6
  <2> QED BY <2>3, <2>4, <2>5, <2>6, <2>7, <2>8, <2>9
<1> HIDE DEF A6
<1>11. Whole(Refused) /\ Whole(Overrun)
  BY DEF Whole
<1>12. Whole(Fits(Framed(16, A6))) /\ Fits(Framed(16, A6)) # Overrun
  BY <1>8, FitsWhole, FitsIs
<1>13. Refused # Overrun
  BY FitsIs
<1> QED BY <1>9, <1>10, <1>11, <1>12, <1>13

LEMMA SubscribeWhole ==
    ASSUME NEW topic \in Seq(Nat), NEW q \in 0..2, NEW id \in Id
    PROVE  Whole(mqtt_subscribe_message(topic, q, id))
<1> DEFINE N == IF id = 0 THEN 1 ELSE id
           A1 == TwoBytes(N) \o <<0>>
           A2 == A1 \o TwoBytes(Len(topic))
           A3 == A2 \o topic
           A4 == A3 \o <<q>>
<1>1. /\ TwoBytes(N) \in Seq(Nat) /\ TwoBytes(Len(topic)) \in Seq(Nat)
      /\ <<0>> \in Seq(Nat) /\ <<q>> \in Seq(Nat)
  <2>1. N \in Nat /\ Len(topic) \in Nat
    BY LenProperties DEF Id
  <2> QED BY <2>1, TwoBytesSeq
<1> HIDE DEF N
<1>2. A1 \in Seq(Nat)
  BY <1>1, Joined
<1>3. A2 \in Seq(Nat)
  BY <1>1, <1>2, Joined
<1>4. A3 \in Seq(Nat)
  BY <1>3, Joined
<1>5. A4 \in Seq(Nat)
  BY <1>1, <1>4, Joined
<1>6. mqtt_subscribe_message(topic, q, id) \in {Refused, Fits(Framed(130, A4))}
  BY DEF mqtt_subscribe_message, ClampQos, PacketId, N
<1> HIDE DEF A4
<1>7. Whole(Refused)
  BY DEF Whole
<1> QED BY <1>5, <1>6, <1>7, FitsWhole

LEMMA DisconnectWhole == Whole(mqtt_disconnect_message)
<1> DEFINE D == <<224, 2, 0, 0>>
<1>1. Len(D) = 4 /\ D[2] = 2 /\ 2 < Base /\ 4 <= MaxPacket
  BY BaseAssumption, SizeAssumption
<1>2. decode_variable_byte_integer(D, 2) = [ok |-> TRUE, val |-> 2, next |-> 3]
  <2> HIDE DEF D
  <2>1. 2 + 1 - 1 = 2 /\ 2 <= Len(D) /\ D[2 + 1 - 1] < Base /\ D[2 + 1 - 1] = 2
    BY <1>1
  <2>2. ~(2 >= Base)
    BY <1>1, BaseAssumption
  <2> QED BY <2>1, <2>2 DEF decode_variable_byte_integer
<1> QED BY <1>1, <1>2 DEF Whole, mqtt_disconnect_message

\* The client's PUBLISH has no properties; its length is that of the broker's.
FirstId(id) == IF id = 0 THEN 1 ELSE id

\* The checks of mqtt_publish_message, told by the lengths; it ends in packet.
Outcome(n, q, m, packet) ==
    CASE 2 + n > MaxPacket -> Refused
      [] 2 + n <= MaxPacket /\ 2 + n + Between(q) > MaxPacket -> Overrun
      [] 2 + n + Between(q) <= MaxPacket /\ 2 + n + Between(q) + m > MaxPacket -> Refused
      [] OTHER -> packet

LEMMA PublishBuilt ==
    ASSUME NEW q \in 0..2, NEW id \in Id, NEW topic \in Seq(Nat), NEW payload \in Seq(Nat)
    PROVE  LET B == PublishBody(q, FirstId(id), topic, <<>>, payload)
               C == PublishBody(q, id, topic, <<>>, payload) IN
           /\ FirstId(id) \in Id
           /\ B \in Seq(Nat) /\ C \in Seq(Nat) /\ Len(B) = Len(C)
           /\ Len(B) = 2 + Len(topic) + Between(q) + Len(payload)
           /\ mqtt_publish_message(topic, payload, q, 0, id) =
                 Outcome(Len(topic), q, Len(payload), Fits(Framed(48 + 2 * q, B)))
<1> DEFINE N == FirstId(id)
           B == PublishBody(q, N, topic, <<>>, payload)
           C == PublishBody(q, id, topic, <<>>, payload)
           T == TwoBytes(Len(topic))
           E == encode_variable_byte_integer(Len(<<>>))
           I == IF q > 0 THEN TwoBytes(N) ELSE <<>>
           J == IF q > 0 THEN TwoBytes(id) ELSE <<>>
<1>1. N \in Id
  <2>1. 1 \in Id
    BY BaseAssumption DEF Id
  <2> QED BY <2>1 DEF FirstId
<1>2. N \in Nat /\ id \in Nat /\ <<>> \in Seq(Nat) /\ Len(<<>>) = 0 /\ Len(topic) \in Nat
  BY <1>1, LenProperties DEF Id
<1>3. T \in Seq(Nat) /\ Len(T) = 2
  BY <1>2, TwoBytesSeq
<1>4. I \in Seq(Nat) /\ J \in Seq(Nat) /\ Len(I) = Len(J)
  <2>1. /\ TwoBytes(N) \in Seq(Nat) /\ Len(TwoBytes(N)) = 2
        /\ TwoBytes(id) \in Seq(Nat) /\ Len(TwoBytes(id)) = 2
    BY <1>2, TwoBytesSeq
  <2> QED BY <1>2, <2>1
<1>5. E = <<0>>
  <2>1. 0 \div Base = 0
    BY BaseAssumption
  <2> QED BY <1>2, <2>1 DEF encode_variable_byte_integer, Quotients
<1>6. E \in Seq(Nat) /\ E \o <<>> = <<0>>
  <2>1. <<0>> \in Seq(Nat) /\ <<0>> \o <<>> = <<0>>
    OBVIOUS
  <2> QED BY <1>5, <2>1
<1>7. B = Parts(T, topic, I, E, <<>>, payload) /\ C = Parts(T, topic, J, E, <<>>, payload)
  BY DEF PublishBody
<1>8. LaidOut(T, topic, I, E, <<>>, payload) /\ LaidOut(T, topic, J, E, <<>>, payload)
  <2> HIDE DEF T, I, J, E
  <2> QED BY <1>2, <1>3, <1>4, <1>6, PublishParts
<1>9. /\ B \in Seq(Nat) /\ C \in Seq(Nat) /\ Len(B) = Len(C)
      /\ Len(B) = 2 + Len(topic) + Between(q) + Len(payload)
      /\ Len(I) + Len(E) = Between(q)
  <2>0. Len(I) + Len(E) = Between(q)
    <3>1. Len(E) = 1
      BY <1>5
    <3>2. Len(I) = IF q > 0 THEN 2 ELSE 0
      <4>1. Len(TwoBytes(N)) = 2
        BY <1>2, TwoBytesSeq
      <4>2. CASE q > 0
        BY <4>1, <4>2
      <4>3. CASE ~(q > 0)
        BY <1>2, <4>3
      <4> QED BY <4>2, <4>3
    <3> HIDE DEF E, I
    <3> QED BY <3>1, <3>2 DEF Between
  <2>1. Len(I) \in Nat /\ Len(E) \in Nat /\ Len(payload) \in Nat
    BY <1>4, <1>6, LenProperties
  <2> HIDE DEF T, I, J, E, B, C
  <2>2. /\ B \in Seq(Nat) /\ Len(B) = 2 + Len(topic) + Len(I) + Len(E) + Len(<<>>) + Len(payload)
        /\ C \in Seq(Nat) /\ Len(C) = 2 + Len(topic) + Len(J) + Len(E) + Len(<<>>) + Len(payload)
    BY <1>7, <1>8 DEF LaidOut
  <2> QED BY <1>2, <1>4, <2>0, <2>1, <2>2
<1>10. mqtt_publish_message(topic, payload, q, 0, id) =
          Outcome(Len(topic), q, Len(payload), Fits(Framed(48 + 2 * q, B)))
  <2> DEFINE named == T \o topic
             begun == named \o I \o <<0>>
             body == begun \o payload
  <2>1. ClampQos(q) = q /\ 48 + 2 * q + 0 = 48 + 2 * q
    BY DEF ClampQos
  <2>2. (IF q > 0 THEN PacketId(id) ELSE <<>>) = I
    BY DEF PacketId, FirstId
  <2>3. mqtt_publish_message(topic, payload, q, 0, id) =
            CASE Len(named) > MaxPacket -> Refused
              [] Len(named) <= MaxPacket /\ Len(begun) > MaxPacket -> Overrun
              [] Len(begun) <= MaxPacket /\ Len(body) > MaxPacket -> Refused
              [] OTHER -> Fits(Framed(48 + 2 * q, body))
    <3> HIDE DEF T, I
    <3> QED BY <2>1, <2>2 DEF mqtt_publish_message, T
  <2>4. B = body
    <3> HIDE DEF T, I, E, B
    <3> QED BY <1>6, <1>7 DEF Parts
  <2>5. named \in Seq(Nat) /\ Len(named) = 2 + Len(topic)
    <3> HIDE DEF T
    <3>1. T \o topic \in Seq(Nat) /\ Len(T \o topic) = Len(T) + Len(topic)
      BY <1>3, Joined
    <3> QED BY <1>2, <1>3, <3>1
  <2>6. begun \in Seq(Nat) /\ Len(begun) = 2 + Len(topic) + Between(q)
    <3> DEFINE some == named \o I
    <3>1. Len(I) + 1 = Between(q) /\ Len(I) \in Nat
      <4>1. Len(I) + Len(E) = Between(q) /\ Len(E) = 1
        BY <1>5, <1>9
      <4>2. Len(I) \in Nat
        BY <1>4, LenProperties
      <4> HIDE DEF I, E
      <4> QED BY <4>1, <4>2
    <3> HIDE DEF named, I
    <3>2. some \in Seq(Nat) /\ Len(some) = Len(named) + Len(I)
      BY <1>4, <2>5, Joined
    <3>3. <<0>> \in Seq(Nat) /\ Len(<<0>>) = 1
      OBVIOUS
    <3> HIDE DEF some
    <3>4. some \o <<0>> \in Seq(Nat) /\ Len(some \o <<0>>) = Len(some) + 1
      BY <3>2, <3>3, Joined
    <3>5. begun = some \o <<0>>
      BY DEF some
    <3> HIDE DEF begun
    <3> QED BY <1>2, <2>5, <3>1, <3>2, <3>4, <3>5
  <2> HIDE DEF named, begun
  <2>7. Len(body) = 2 + Len(topic) + Between(q) + Len(payload)
    <3>1. Len(begun \o payload) = Len(begun) + Len(payload)
      BY <2>6, Joined
    <3> QED BY <2>6, <3>1
  <2> HIDE DEF body, B
  <2> QED BY <2>3, <2>4, <2>5, <2>6, <2>7 DEF Outcome
<1> HIDE DEF B, C
<1> QED BY <1>1, <1>9, <1>10 DEF B, C

\* What the client publishes is built, refused or overruns the body, each exactly
\* when the lengths say so, and is read back as it was given when it is built; the
\* client's other packets are whole.
THEOREM Built == Spec => []BuiltAsGiven
<1>1. IInv => BuiltAsGiven
  <2> DEFINE q == in.qos
             id == in.id
             topic == in.topic
             payload == in.payload
             B == PublishBody(q, FirstId(id), topic, <<>>, payload)
             C == PublishBody(q, id, topic, <<>>, payload)
             F == Framed(48 + 2 * q, B)
             built == mqtt_publish_message(topic, payload, q, 0, id)
             parsed == mqtt_parse_publish(built)
             connect == mqtt_connect_message(payload, 60, TRUE)
             room == MaxPacket - 2 - Len(topic)
             AsGiven == /\ parsed.ok /\ parsed.payload = payload /\ parsed.qos = q
                        /\ parsed.topic = SubSeq(topic, 1, Kept(Len(topic)))
  <2> SUFFICES ASSUME IInv, in.type = "PUBLISH", in.props = <<>>
               PROVE  /\ built = Overrun <=> room >= 0 /\ room < Between(q)
                      /\ built = Refused <=> built # Overrun /\ Len(Encoding(in)) > MaxPacket
                      /\ built \notin {Refused, Overrun} => AsGiven
                      /\ connect = Overrun <=> payload # <<>> /\ Len(payload) + 13 > MaxPacket
                      /\ Whole(connect) /\ Whole(mqtt_subscribe_message(payload, q, id))
                      /\ Whole(mqtt_disconnect_message)
    BY DEF BuiltAsGiven
  <2>1. in \in Packet /\ Len(topic) \in Id
    <3>1. in \in Inputs
      BY DEF IInv
    <3> QED BY <3>1, InputAssumption
  <2>2. q \in 0..2 /\ id \in Id /\ topic \in Seq(Nat) /\ payload \in Seq(Nat)
    BY <2>1 DEF Packet
  <2>3. Encoding(in) = Framed(48 + 2 * q, C)
    BY DEF Encoding, Body, FirstByte, Properties, PublishBody, Parts
  <2> HIDE DEF q, id, topic, payload
  <2>4. /\ FirstId(id) \in Id /\ B \in Seq(Nat) /\ C \in Seq(Nat) /\ Len(B) = Len(C)
        /\ Len(B) = 2 + Len(topic) + Between(q) + Len(payload)
        /\ built = Outcome(Len(topic), q, Len(payload), Fits(F))
    BY <2>2, PublishBuilt
  <2>5. 48 + 2 * q \in Nat /\ <<>> \in Seq(Nat)
    BY <2>2
  <2> HIDE DEF B, C, built
  <2>6. Len(Encoding(in)) = Len(F) /\ Len(F) >= Len(B) + 2
    <3>1. /\ Len(F) = 1 + Len(encode_variable_byte_integer(Len(B))) + Len(B)
          /\ Len(Framed(48 + 2 * q, C)) = 1 + Len(encode_variable_byte_integer(Len(C))) + Len(C)
          /\ Len(encode_variable_byte_integer(Len(B))) \in 1..4 /\ Len(B) \in Nat
      BY <2>4, <2>5, FramedParts, VarIntSeq, LenProperties
    <3> DEFINE D == Framed(48 + 2 * q, C)
               v(s) == Len(encode_variable_byte_integer(Len(s)))
    <3>2. v(C) = v(B)
      BY <2>4
    <3>3. Len(F) = 1 + v(B) + Len(B) /\ Len(D) = 1 + v(C) + Len(C) /\ v(B) \in 1..4
      BY <3>1
    <3>4. Len(Encoding(in)) = Len(D)
      BY <2>3
    <3> DEFINE b == Len(B)
               w == v(B)
               f == Len(F)
    <3>5. f = 1 + w + b /\ w \in 1..4 /\ b \in Nat
      BY <3>1, <3>3
    <3>6. Len(Encoding(in)) = f
      BY <2>4, <3>2, <3>3, <3>4
    <3> HIDE DEF b, w, f
    <3>7. f >= b + 2
      BY <3>5
    <3> QED BY <3>6, <3>7 DEF b, f
  <2>7. /\ Refused # Overrun /\ Fits(F) # Overrun /\ (Fits(F) = Refused <=> Len(F) > MaxPacket)
        /\ Fits(F) # Refused => Fits(F) = F
    BY <2>4, <2>5, FitsIs
  <2>8. /\ Len(topic) \in Nat /\ Len(payload) \in Nat /\ Between(q) \in 1..3 /\ MaxPacket \in Nat
        /\ Len(F) \in Nat
    BY <2>2, <2>4, <2>5, FramedParts, LenProperties, SizeAssumption DEF Between
  <2> HIDE DEF F
  <2>9. /\ built = Overrun <=> room >= 0 /\ room < Between(q)
        /\ built = Refused <=> built # Overrun /\ Len(Encoding(in)) > MaxPacket
        /\ built \notin {Refused, Overrun} => built = F /\ ~(Len(F) > MaxPacket)
    <3> DEFINE n == 2 + Len(topic)
               m == n + Between(q)
    <3>1. n \in Nat /\ m \in Nat /\ n < m /\ m + Len(payload) = Len(B) /\ Len(B) < Len(F)
      <4> DEFINE t == Len(topic)
                 k == Between(q)
                 p == Len(payload)
                 b == Len(B)
                 f == Len(F)
      <4>1. /\ t \in Nat /\ k \in 1..3 /\ p \in Nat /\ b = 2 + t + k + p
            /\ f \in Nat /\ f >= b + 2
        BY <2>4, <2>6, <2>8
      <4> HIDE DEF t, k, p, b, f
      <4>2. /\ 2 + t \in Nat /\ 2 + t + k \in Nat /\ 2 + t < 2 + t + k
            /\ 2 + t + k + p = b /\ b < f
        BY <4>1
      <4> QED BY <4>2 DEF t, k, p, b, f
    <3>2. (room >= 0 <=> n <= MaxPacket) /\ (room < Between(q) <=> m > MaxPacket)
      BY <2>8
    <3>3. built = CASE n > MaxPacket -> Refused
                    [] n <= MaxPacket /\ m > MaxPacket -> Overrun
                    [] m <= MaxPacket /\ m + Len(payload) > MaxPacket -> Refused
                    [] OTHER -> Fits(F)
      BY <2>4 DEF Outcome
    <3> HIDE DEF n, m, room
    <3>4. CASE n > MaxPacket
      BY <2>6, <2>7, <2>8, <3>1, <3>2, <3>3, <3>4
    <3>5. CASE n <= MaxPacket /\ m > MaxPacket
      BY <2>7, <2>8, <3>1, <3>2, <3>3, <3>5
    <3>6. CASE n <= MaxPacket /\ m <= MaxPacket /\ m + Len(payload) > MaxPacket
      BY <2>6, <2>7, <2>8, <3>1, <3>2, <3>3, <3>6
    <3>7. CASE n <= MaxPacket /\ m <= MaxPacket /\ m + Len(payload) <= MaxPacket
      <4>1. built = Fits(F)
        BY <2>8, <3>1, <3>3, <3>7
      <4> QED BY <2>6, <2>7, <2>8, <3>1, <3>2, <3>7, <4>1
    <3> QED BY <2>8, <3>1, <3>4, <3>5, <3>6, <3>7
  <2>10. ASSUME built = F, ~(Len(F) > MaxPacket) PROVE AsGiven
    <3>1. Len(B) < Base * Base * Base
      <4> DEFINE M == Base * Base * Base
      <4>1. MaxPacket \in Nat /\ MaxPacket <= M /\ M \in Nat
        BY BaseAssumption, SizeAssumption
      <4>2. Len(B) \in Nat
        BY <2>4, LenProperties
      <4> HIDE DEF M
      <4>3. Len(B) < M
        BY <2>6, <2>8, <2>10, <4>1, <4>2
      <4> QED BY <4>3 DEF M
    <3>2. mqtt_parse_publish(F) =
              [ok |-> TRUE, qos |-> q, id |-> IF q > 0 THEN FirstId(id) ELSE 0,
               topic |-> SubSeq(topic, 1, Kept(Len(topic))), payload |-> payload]
      <4> DEFINE N == FirstId(id)
                 none == <<>>
      <4>1. /\ N \in Id /\ none \in Seq(Nat) /\ Len(topic) \in Id
            /\ Len(PublishBody(q, N, topic, none, payload)) < Base * Base * Base
        BY <2>1, <2>4, <2>5, <3>1 DEF B, topic
      <4> HIDE DEF N, none
      <4>2. mqtt_parse_publish(Framed(48 + 2 * q, PublishBody(q, N, topic, none, payload))) =
                [ok |-> TRUE, qos |-> q, id |-> IF q > 0 THEN N ELSE 0,
                 topic |-> SubSeq(topic, 1, Kept(Len(topic))), payload |-> payload]
        BY <2>2, <4>1, PublishParsed, ZenonT(60)
      <4> QED BY <4>2, Zenon DEF B, F, N, none
    <3> DEFINE g == mqtt_parse_publish(F)
    <3>3. g.ok /\ g.payload = payload /\ g.qos = q /\ g.topic = SubSeq(topic, 1, Kept(Len(topic)))
      <4> HIDE DEF g
      <4>1. g = [ok |-> TRUE, qos |-> q, id |-> IF q > 0 THEN FirstId(id) ELSE 0,
                 topic |-> SubSeq(topic, 1, Kept(Len(topic))), payload |-> payload]
        BY <3>2 DEF g
      <4> QED BY <4>1
    <3>4. parsed = g
      BY <2>10
    <3> HIDE DEF g, parsed
    <3> QED BY <3>3, <3>4
  <2>11. Whole(connect) /\ (connect = Overrun <=> payload # <<>> /\ Len(payload) + 13 > MaxPacket)
    BY <2>2, ConnectWhole
  <2>12. Whole(mqtt_subscribe_message(payload, q, id))
    BY <2>2, SubscribeWhole
  <2> HIDE DEF AsGiven, connect, room
  <2> QED BY <2>9, <2>10, <2>11, <2>12, DisconnectWhole
<1> QED BY <1>1, Always, PTL
=============================================================================

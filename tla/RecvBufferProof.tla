-------------------------- MODULE RecvBufferProof --------------------------
(***************************************************************************)
(* Proofs about tls_rbuf_t for every buffer size, byte alphabet and chunk  *)
(* length: the cursors keep their order, and the array implements the      *)
(* FIFO.  Then about several sessions over that one buffer, for any number *)
(* of sessions and every size of buffer, record and read: each is given    *)
(* its own bytes.                                                          *)
(***************************************************************************)
EXTENDS SharedBuffer, SequenceTheorems, TLAPS

\* A function on 1..n is a sequence of length n.
LEMMA FunctionIsSeq ==
    ASSUME NEW S, NEW n \in Nat, NEW f \in [1..n -> S]
    PROVE  f \in Seq(S) /\ Len(f) = n
  OBVIOUS

\* A chunk is a non-empty sequence of bytes no longer than MaxLen.
LEMMA ChunkShape ==
    ASSUME NEW src \in Chunk
    PROVE  /\ src \in Seq(Byte)
           /\ Len(src) \in 1..MaxLen
           /\ src \in [1..Len(src) -> Byte]
<1>1. PICK n \in 1..MaxLen : src \in [1..n -> Byte]
  BY DEF Chunk
<1>2. n \in Nat
  BY MaxLenAssumption
<1>3. src \in Seq(Byte) /\ Len(src) = n
  BY <1>1, <1>2
<1> QED
  BY <1>1, <1>3

\* Moving the unread bytes to a place where they and the chunk fit leaves an
\* array of bytes: no cell beyond the chunk or the unread bytes is read.
LEMMA StoreType ==
    ASSUME TypeOK, NEW to \in 0..BufSize, NEW src \in Chunk,
           to + rbuf_avail + Len(src) <= BufSize
    PROVE  Store(head, to, src) \in [Index -> Byte]
<1>1. src \in [1..Len(src) -> Byte] /\ Len(src) \in 1..MaxLen
  BY ChunkShape
<1>2. BufSize \in Nat /\ MaxLen \in Nat
  BY BufSizeAssumption, MaxLenAssumption
<1>3. rbuf_avail \in 0..BufSize
  BY <1>2 DEF TypeOK, rbuf_avail
<1> DEFINE used == rbuf_avail
           cell(j) == IF j \in to..to + used - 1 THEN data[head + (j - to)]
                      ELSE IF j \in to + used..to + used + Len(src) - 1
                           THEN src[j - (to + used) + 1]
                           ELSE data[j]
<1>4. ASSUME NEW j \in Index PROVE cell(j) \in Byte
  <2>1. CASE j \in to..to + used - 1
    <3>1. head + (j - to) \in Index
      BY <1>2, <2>1 DEF TypeOK, rbuf_avail, Index
    <3> QED
      BY <2>1, <3>1 DEF TypeOK
  <2>2. CASE /\ j \notin to..to + used - 1
             /\ j \in to + used..to + used + Len(src) - 1
    <3>1. j - (to + used) + 1 \in 1..Len(src)
      BY <1>1, <1>2, <1>3, <2>2
    <3> QED
      BY <1>1, <2>2, <3>1
  <2>3. CASE /\ j \notin to..to + used - 1
             /\ j \notin to + used..to + used + Len(src) - 1
    BY <2>3 DEF TypeOK
  <2> QED
    BY <2>1, <2>2, <2>3
<1> QED
  BY <1>4 DEF Store

\* The initial state is well-typed.
LEMMA InitType == Init => TypeOK
  BY ByteAssumption, BufSizeAssumption DEF Init, TypeOK, Index

\* Every call keeps the cursors in order and inside the array.
LEMMA StepType == TypeOK /\ [Next]_vars => TypeOK'
<1> SUFFICES ASSUME TypeOK, [Next]_vars PROVE TypeOK'
  OBVIOUS
<1>0. BufSize \in Nat \ {0} /\ MaxLen \in Nat \ {0}
  BY BufSizeAssumption, MaxLenAssumption
<1>1. CASE rbuf_reset
  BY <1>0, <1>1 DEF rbuf_reset, TypeOK, Index
<1>2. ASSUME NEW src \in Chunk, PushInPlace(src) PROVE TypeOK'
  <2>1. Len(src) \in 1..MaxLen
    BY ChunkShape
  <2>2. head + rbuf_avail + Len(src) <= BufSize
    BY <1>0, <1>2, <2>1 DEF PushInPlace, TypeOK, rbuf_avail
  <2>3. data' \in [Index -> Byte]
    BY <1>2, <2>2, StoreType DEF PushInPlace, TypeOK
  <2>4. tail' \in 0..BufSize /\ head' <= tail'
    BY <1>0, <1>2, <2>1 DEF PushInPlace, TypeOK
  <2> QED
    BY <1>0, <1>2, <2>3, <2>4 DEF PushInPlace, TypeOK, Index
<1>3. ASSUME NEW src \in Chunk, PushCompacting(src) PROVE TypeOK'
  <2>1. Len(src) \in 1..MaxLen
    BY ChunkShape
  <2>2. 0 + rbuf_avail + Len(src) <= BufSize
    BY <1>0, <1>3, <2>1 DEF PushCompacting, TypeOK, rbuf_avail
  <2>3. data' \in [Index -> Byte]
    BY <1>0, <1>3, <2>2, StoreType DEF PushCompacting
  <2>4. tail' \in 0..BufSize
    BY <1>0, <1>3, <2>1 DEF PushCompacting, TypeOK, rbuf_avail
  <2> QED
    BY <1>0, <1>3, <2>3, <2>4 DEF PushCompacting, TypeOK, Index
<1>4. ASSUME NEW src \in Chunk, PushRefused(src) PROVE TypeOK'
  BY <1>0, <1>4 DEF PushRefused, TypeOK, Index
<1>5. ASSUME NEW want \in 1..MaxLen, rbuf_pop(want) PROVE TypeOK'
  <2> DEFINE take == IF rbuf_avail < want THEN rbuf_avail ELSE want
  <2>1. take \in 0..rbuf_avail /\ rbuf_avail \in 0..BufSize
    BY <1>0 DEF TypeOK, rbuf_avail
  <2>2. head' \in 0..BufSize /\ head' <= tail'
    BY <1>0, <1>5, <2>1 DEF rbuf_pop, TypeOK, rbuf_avail
  <2>3. \A i \in 1..take : head + i - 1 \in Index
    BY <1>0, <2>1 DEF TypeOK, rbuf_avail, Index
  <2>a. take \in Nat
    BY <1>0, <2>1
  <2>b. \A i \in 1..take : data[head + i - 1] \in Byte
    BY <2>3 DEF TypeOK
  <2> HIDE DEF take
  <2>c. [i \in 1..take |-> data[head + i - 1]] \in [1..take -> Byte]
    BY <2>b
  <2>4. [i \in 1..take |-> data[head + i - 1]] \in Seq(Byte)
    BY <2>a, <2>c, FunctionIsSeq
  <2>5. ret' \in -1..BufSize
    BY <1>0, <1>5, <2>1 DEF rbuf_pop, take
  <2>6. out' \in Seq(Byte)
    BY <1>5, <2>4 DEF rbuf_pop, take
  <2> QED
    BY <1>5, <2>2, <2>5, <2>6 DEF rbuf_pop, TypeOK, Index
<1>6. CASE UNCHANGED vars
  BY <1>6 DEF vars, TypeOK, Index
<1> QED
  BY <1>1, <1>2, <1>3, <1>4, <1>5, <1>6 DEF Next, rbuf_push

\* In every behaviour of tls_rbuf_t the cursors are ordered, inside the array,
\* and every cell holds a byte.
THEOREM TypeCorrect == Spec => []TypeOK
  BY InitType, StepType, PTL DEF Spec

-----------------------------------------------------------------------------

\* The unread bytes are a sequence of bytes as long as the cursors are apart.
LEMMA UnreadShape ==
    ASSUME TypeOK
    PROVE  /\ rbuf_avail \in Nat
           /\ Unread \in Seq(Byte)
           /\ Len(Unread) = rbuf_avail
           /\ \A i \in 1..rbuf_avail : Unread[i] = data[head + i - 1]
<1>1. rbuf_avail \in Nat
  BY BufSizeAssumption DEF TypeOK, rbuf_avail
<1>2. \A i \in 1..rbuf_avail : head + i - 1 \in Index
  BY BufSizeAssumption DEF TypeOK, rbuf_avail, Index
<1>3. Unread \in [1..rbuf_avail -> Byte]
  BY <1>2 DEF Unread, TypeOK
<1> QED
  BY <1>1, <1>3, FunctionIsSeq DEF Unread

\* What lies between the cursors after the unread bytes moved to `to` and src
\* was copied behind them: the unread bytes, then src.
LEMMA StoreAppends ==
    ASSUME TypeOK, NEW to \in 0..BufSize, NEW src \in Chunk,
           to + rbuf_avail + Len(src) <= BufSize
    PROVE  [i \in 1..rbuf_avail + Len(src) |-> Store(head, to, src)[to + i - 1]]
             = Unread \o src
<1> DEFINE n == rbuf_avail + Len(src)
           moved == [i \in 1..n |-> Store(head, to, src)[to + i - 1]]
<1>1. /\ BufSize \in Nat /\ to \in Nat /\ rbuf_avail \in Nat
      /\ Len(src) \in Nat /\ src \in Seq(Byte)
  BY BufSizeAssumption, MaxLenAssumption, ChunkShape, UnreadShape
<1>2. /\ Unread \in Seq(Byte) /\ Len(Unread) = rbuf_avail
      /\ \A i \in 1..rbuf_avail : Unread[i] = data[head + i - 1]
  BY UnreadShape
<1>3. /\ Unread \o src \in Seq(Byte)
      /\ Len(Unread \o src) = n
      /\ \A i \in 1..n : (Unread \o src)[i] =
            IF i <= rbuf_avail THEN Unread[i] ELSE src[i - rbuf_avail]
  BY <1>1, <1>2, ConcatProperties
<1>4. \A i \in 1..n : to + i - 1 \in Index
  BY <1>1 DEF Index
<1>5. ASSUME NEW i \in 1..n PROVE moved[i] = (Unread \o src)[i]
  <2>1. moved[i] = Store(head, to, src)[to + i - 1] /\ to + i - 1 \in Index
    BY <1>4
  <2>2. CASE i <= rbuf_avail
    <3>1. to + i - 1 \in to..to + rbuf_avail - 1
      BY <1>1, <2>2
    <3>2. head + ((to + i - 1) - to) = head + i - 1
      BY <1>1 DEF TypeOK
    <3>3. Store(head, to, src)[to + i - 1] = data[head + i - 1]
      BY <2>1, <3>1, <3>2 DEF Store
    <3> QED
      BY <1>1, <1>2, <1>3, <2>1, <2>2, <3>3
  <2>3. CASE ~(i <= rbuf_avail)
    <3>1. /\ to + i - 1 \notin to..to + rbuf_avail - 1
          /\ to + i - 1 \in to + rbuf_avail..to + rbuf_avail + Len(src) - 1
          /\ (to + i - 1) - (to + rbuf_avail) + 1 = i - rbuf_avail
      BY <1>1, <2>3
    <3>2. Store(head, to, src)[to + i - 1] = src[i - rbuf_avail]
      BY <2>1, <3>1 DEF Store
    <3> QED
      BY <1>3, <2>1, <2>3, <3>2
  <2> QED
    BY <2>2, <2>3
<1>6. n \in Nat /\ \A i \in 1..n : moved[i] \in Byte
  <2>1. n \in Nat
    BY <1>1
  <2> DEFINE all == Unread \o src
  <2>2. ASSUME NEW i \in 1..n PROVE moved[i] \in Byte
    <3>1. all \in Seq(Byte) /\ i \in 1..Len(all)
      BY <1>3
    <3>2. moved[i] = all[i]
      BY <1>5
    <3> HIDE DEF all, moved
    <3>3. all[i] \in Byte
      BY <3>1, ElementOfSeq
    <3> QED
      BY <3>2, <3>3
  <2> HIDE DEF moved
  <2> QED
    BY <2>1, <2>2
<1> HIDE DEF n
<1>7. moved \in [1..n -> Byte]
  BY <1>6
<1>8. moved \in Seq(Byte) /\ Len(moved) = n
  BY <1>6, <1>7, FunctionIsSeq
<1> QED
  BY <1>3, <1>5, <1>8, SeqEqual DEF n

\* The initial array is an empty FIFO.
LEMMA InitFifo == Init => Fifo!Init
  BY DEF Init, Fifo!Init, Unread, rbuf_avail

\* What the proofs below need of the sizes and of the unread bytes.
LEMMA Shapes ==
    ASSUME TypeOK
    PROVE  /\ BufSize \in Nat /\ MaxLen \in Nat /\ rbuf_avail \in Nat
           /\ Unread \in Seq(Byte) /\ Len(Unread) = rbuf_avail
           /\ \A i \in 1..rbuf_avail : Unread[i] = data[head + i - 1]
  BY BufSizeAssumption, MaxLenAssumption, UnreadShape

\* A push behind the tail puts the chunk behind the unread bytes.
LEMMA InPlacePuts ==
    ASSUME TypeOK, NEW src \in Chunk, PushInPlace(src)
    PROVE  Fifo!Put(src)
<1>0. BufSize \in Nat /\ rbuf_avail \in Nat /\ Len(Unread) = rbuf_avail /\ Len(src) \in Nat
  BY Shapes, ChunkShape
<1>1. head + rbuf_avail + Len(src) <= BufSize /\ head \in 0..BufSize
  BY <1>0 DEF PushInPlace, TypeOK, rbuf_avail
<1>2. rbuf_avail' = rbuf_avail + Len(src)
  BY <1>0 DEF PushInPlace, TypeOK, rbuf_avail
<1>3. Unread' = [i \in 1..rbuf_avail + Len(src)
                   |-> Store(head, head, src)[head + i - 1]]
  BY <1>2 DEF PushInPlace, Unread
<1>4. Unread' = Unread \o src
  BY <1>1, <1>3, StoreAppends
<1> QED
  BY <1>0, <1>1, <1>4 DEF PushInPlace, Fifo!Put, TypeOK

\* So does one that moves the unread bytes to the front.
LEMMA CompactingPuts ==
    ASSUME TypeOK, NEW src \in Chunk, PushCompacting(src)
    PROVE  Fifo!Put(src)
<1>0. BufSize \in Nat /\ rbuf_avail \in Nat /\ Len(Unread) = rbuf_avail /\ Len(src) \in Nat
  BY Shapes, ChunkShape
<1>1. 0 + rbuf_avail + Len(src) <= BufSize /\ 0 \in 0..BufSize
  BY <1>0 DEF PushCompacting
<1>2. rbuf_avail' = rbuf_avail + Len(src)
  BY <1>0 DEF PushCompacting, rbuf_avail
<1>3. Unread' = [i \in 1..rbuf_avail + Len(src)
                   |-> Store(head, 0, src)[0 + i - 1]]
  BY <1>2 DEF PushCompacting, Unread
<1>4. Unread' = Unread \o src
  BY <1>1, <1>3, StoreAppends
<1> QED
  BY <1>0, <1>1, <1>4 DEF PushCompacting, Fifo!Put

\* A pop takes the oldest of the unread bytes.
LEMMA PopTakes ==
    ASSUME TypeOK, NEW want \in 1..MaxLen, rbuf_pop(want)
    PROVE  Fifo!Take(want)
<1>0. /\ BufSize \in Nat /\ MaxLen \in Nat /\ rbuf_avail \in Nat
      /\ Unread \in Seq(Byte) /\ Len(Unread) = rbuf_avail
      /\ \A i \in 1..rbuf_avail : Unread[i] = data[head + i - 1]
  BY Shapes
<1> DEFINE take == IF rbuf_avail < want THEN rbuf_avail ELSE want
<1>1. take \in 0..rbuf_avail /\ want \in Nat
  BY <1>0
<1>2. Fifo!Min2(Len(Unread), want) = take
  BY <1>0 DEF Fifo!Min2
<1>3. /\ out' = [i \in 1..take |-> data[head + i - 1]]
      /\ head' = head + take /\ ret' = take /\ data' = data /\ tail' = tail
  BY DEF rbuf_pop
<1> HIDE DEF take
<1>4. out' = SubSeq(Unread, 1, take)
  <2>1. SubSeq(Unread, 1, take) = [i \in 1..take |-> Unread[i]]
    BY <1>0, <1>1
  <2>2. \A i \in 1..take : Unread[i] = data[head + i - 1]
    BY <1>0, <1>1
  <2> QED
    BY <1>3, <2>1, <2>2
<1>5. Unread' = SubSeq(Unread, take + 1, Len(Unread))
  <2>1. rbuf_avail' = rbuf_avail - take
    BY <1>0, <1>1, <1>3 DEF rbuf_avail, TypeOK
  <2>2. Unread' = [i \in 1..rbuf_avail - take |-> data[head + take + i - 1]]
    BY <1>3, <2>1 DEF Unread
  <2>3. SubSeq(Unread, take + 1, Len(Unread))
          = [i \in 1..rbuf_avail - take |-> Unread[take + i]]
    BY <1>0, <1>1
  <2>4. \A i \in 1..rbuf_avail - take :
           Unread[take + i] = data[head + take + i - 1]
    BY <1>0, <1>1 DEF TypeOK
  <2> QED
    BY <2>2, <2>3, <2>4
<1> QED
  BY <1>2, <1>3, <1>4, <1>5 DEF Fifo!Take

\* Every call on the array is the corresponding call on the FIFO.
LEMMA StepFifo == TypeOK /\ [Next]_vars => [Fifo!Next]_Fifo!vars
<1> SUFFICES ASSUME TypeOK, [Next]_vars PROVE [Fifo!Next]_Fifo!vars
  OBVIOUS
<1>0. rbuf_avail \in Nat /\ Len(Unread) = rbuf_avail
  BY Shapes
<1>1. Chunk = Fifo!Chunk
  BY DEF Chunk, Fifo!Chunk
<1>2. CASE rbuf_reset
  <2>1. Fifo!Clear
    BY <1>2 DEF rbuf_reset, Fifo!Clear, Unread, rbuf_avail
  <2> QED
    BY <2>1 DEF Fifo!Next
<1>3. ASSUME NEW src \in Chunk, PushInPlace(src) PROVE Fifo!Put(src)
  BY <1>3, InPlacePuts
<1>4. ASSUME NEW src \in Chunk, PushCompacting(src) PROVE Fifo!Put(src)
  BY <1>4, CompactingPuts
<1>5. ASSUME NEW src \in Chunk, PushRefused(src) PROVE Fifo!Refuse(src)
  BY <1>0, <1>5 DEF PushRefused, Fifo!Refuse, Unread, rbuf_avail
<1>6. ASSUME NEW want \in 1..MaxLen, rbuf_pop(want) PROVE Fifo!Take(want)
  BY <1>6, PopTakes
<1>7. CASE UNCHANGED vars
  BY <1>7 DEF vars, Fifo!vars, Unread, rbuf_avail
<1> QED
  BY <1>1, <1>2, <1>3, <1>4, <1>5, <1>6, <1>7 DEF Next, rbuf_push, Fifo!Next

\* The array with its two cursors implements the bounded FIFO: no call of
\* rbuf_push, rbuf_pop or rbuf_reset loses, invents or reorders a byte, and a
\* chunk is refused only when it does not fit.
THEOREM ArrayImplementsFifo == Spec => ImplementsFifo
<1>1. Spec => []TypeOK
  BY TypeCorrect
<1>2. Init => Fifo!Init
  BY InitFifo
<1>3. TypeOK /\ [Next]_vars => [Fifo!Next]_Fifo!vars
  BY StepFifo
<1> QED
  BY <1>1, <1>2, <1>3, PTL DEF Spec, ImplementsFifo, Fifo!Spec

-----------------------------------------------------------------------------
(* Several sessions over the buffer. *)

Streams == [Session -> Seq(Byte)]

\* The types of the sessions' part of the state.
SharedTypeOK ==
    /\ up \subseteq Session /\ owner \in Session
    /\ stream \in Streams /\ got \in Streams
    /\ mixed \in BOOLEAN

\* Other users of the buffer have no sessions.
AnyHasNone == user = "any" => up = {}

\* OwnBytes is inductive with the types.
SharedInv == TypeOK /\ SharedTypeOK /\ AnyHasNone /\ OwnBytes

\* The bytes that wait for session s.
Waiting(s) == IF owner = s THEN Unread ELSE <<>>

\* Cursors that meet enclose nothing.
LEMMA EmptyIsEmpty ==
    ASSUME TypeOK, rbuf_avail = 0
    PROVE  Unread = <<>>
  BY Shapes

\* Taking the first n elements of a sequence and then the others loses nothing.
LEMMA SplitSeq ==
    ASSUME NEW S, NEW q \in Seq(S), NEW n \in 0..Len(q)
    PROVE  /\ SubSeq(q, 1, n) \in Seq(S) /\ SubSeq(q, n + 1, Len(q)) \in Seq(S)
           /\ SubSeq(q, 1, n) \o SubSeq(q, n + 1, Len(q)) = q
<1> DEFINE a == SubSeq(q, 1, n)
           b == SubSeq(q, n + 1, Len(q))
<1>1. /\ a \in Seq(S) /\ Len(a) = n /\ \A i \in 1..n : a[i] = q[i]
      /\ b \in Seq(S) /\ Len(b) = Len(q) - n
      /\ \A i \in 1..Len(q) - n : b[i] = q[n + i]
  OBVIOUS
<1> HIDE DEF a, b
<1>2. /\ a \o b \in Seq(S) /\ Len(a \o b) = Len(q)
      /\ \A i \in 1..Len(q) : (a \o b)[i] = IF i <= n THEN a[i] ELSE b[i - n]
  BY <1>1, ConcatProperties
<1>3. \A i \in 1..Len(q) : (a \o b)[i] = q[i]
  BY <1>1, <1>2
<1>4. a \o b = q
  BY <1>2, <1>3, SeqEqual
<1> QED
  BY <1>1, <1>4 DEF a, b

\* Concatenation of sequences of bytes is associative.
LEMMA JoinBytes ==
    ASSUME NEW a \in Seq(Byte), NEW b \in Seq(Byte), NEW c \in Seq(Byte)
    PROVE  (a \o b) \o c = a \o (b \o c)
  BY ConcatAssociative

\* No session is up at the start.
LEMMA InitInv == SharedInit => SharedInv
<1> SUFFICES ASSUME SharedInit PROVE SharedInv
  OBVIOUS
<1>1. TypeOK
  BY InitType DEF SharedInit
<1>2. SharedTypeOK /\ AnyHasNone
  <2>1. <<>> \in Seq(Byte)
    OBVIOUS
  <2> QED
    BY <2>1 DEF SharedInit, SharedTypeOK, AnyHasNone, Streams
<1>3. OwnBytes
  BY DEF SharedInit, OwnBytes
<1> QED
  BY <1>1, <1>2, <1>3 DEF SharedInv

\* A record of which the first n bytes are handed out: the rest goes to the
\* buffer.
Rest(plain, n) == [i \in 1..Len(plain) - n |-> plain[n + i]]
Front(plain, n) == [i \in 1..n |-> plain[i]]

\* The two parts of a record are subsequences of it.
LEMMA RecordParts ==
    ASSUME NEW plain \in Chunk, NEW n \in 0..Len(plain)
    PROVE  /\ plain \in Seq(Byte) /\ Len(plain) \in Nat
           /\ Front(plain, n) = SubSeq(plain, 1, n)
           /\ Rest(plain, n) = SubSeq(plain, n + 1, Len(plain))
           /\ n < Len(plain) => Rest(plain, n) \in Chunk
           /\ n = Len(plain) => Front(plain, n) = plain
<1>1. plain \in Seq(Byte) /\ Len(plain) \in 1..MaxLen /\ MaxLen \in Nat
  BY ChunkShape, MaxLenAssumption
<1>2. Front(plain, n) = SubSeq(plain, 1, n) /\ Rest(plain, n) = SubSeq(plain, n + 1, Len(plain))
  BY <1>1 DEF Front, Rest
<1>3. ASSUME n < Len(plain) PROVE Rest(plain, n) \in Chunk
  <2>1. Len(plain) - n \in 1..MaxLen
    BY <1>1, <1>3
  <2>2. Rest(plain, n) \in [1..Len(plain) - n -> Byte]
    BY <1>1 DEF Rest
  <2> QED
    BY <2>1, <2>2 DEF Chunk
<1>4. ASSUME n = Len(plain) PROVE Front(plain, n) = plain
  BY <1>1, <1>4 DEF Front
<1> QED
  BY <1>1, <1>2, <1>3, <1>4

\* The two parts of a record make up the record.
LEMMA FrontAndRest ==
    ASSUME NEW plain \in Chunk, NEW n \in 0..Len(plain)
    PROVE  /\ plain \in Seq(Byte)
           /\ Front(plain, n) \in Seq(Byte) /\ Rest(plain, n) \in Seq(Byte)
           /\ Front(plain, n) \o Rest(plain, n) = plain
<1>1. /\ plain \in Seq(Byte)
      /\ Front(plain, n) = SubSeq(plain, 1, n)
      /\ Rest(plain, n) = SubSeq(plain, n + 1, Len(plain))
  BY RecordParts
<1>2. /\ SubSeq(plain, 1, n) \in Seq(Byte) /\ SubSeq(plain, n + 1, Len(plain)) \in Seq(Byte)
      /\ SubSeq(plain, 1, n) \o SubSeq(plain, n + 1, Len(plain)) = plain
  BY <1>1, SplitSeq
<1> QED
  BY <1>1, <1>2

\* A read that yields a record, with its two parts by name.
LEMMA RecordRead ==
    ASSUME NEW s \in Session, NEW want \in 1..MaxLen, NEW plain \in Chunk,
           ReceiveRecord(s, want, plain)
    PROVE  \E n \in 0..Len(plain) :
             /\ Acts(s)
             /\ s \in up /\ rbuf_avail = 0
             /\ stream' = [stream EXCEPT ![s] = @ \o plain]
             /\ got' = [got EXCEPT ![s] = @ \o Front(plain, n)]
             /\ IF n < Len(plain) THEN rbuf_push(Rest(plain, n)) /\ owner' = s
                ELSE UNCHANGED <<vars, owner>>
             /\ UNCHANGED up
<1> DEFINE n == IF Len(plain) < want THEN Len(plain) ELSE want
<1>1. n \in 0..Len(plain)
  BY ChunkShape, MaxLenAssumption
<1>2. n < Len(plain) <=> Len(plain) > n
  OBVIOUS
<1> WITNESS n \in 0..Len(plain)
<1> QED
  BY <1>1, <1>2 DEF ReceiveRecord, Front, Rest

\* To the buffer every step is one of RecvBuffer's, or nothing.
LEMMA StepsOfBuffer == [SharedNext]_<<vars, sharedVars>> => [Next]_vars
<1> SUFFICES ASSUME SharedNext PROVE [Next]_vars
  BY DEF vars
<1>1. ASSUME NEW s \in Session, Connect(s) \/ Close(s) PROVE Next
  BY <1>1 DEF Connect, Close, Next
<1>2. ASSUME NEW s \in Session, NEW want \in 1..MaxLen, ReceiveBuffered(s, want) PROVE Next
  BY <1>2 DEF ReceiveBuffered, Next
<1>3. ASSUME NEW s \in Session, NEW want \in 1..MaxLen, NEW plain \in Chunk,
             ReceiveRecord(s, want, plain)
      PROVE  [Next]_vars
  <2>1. PICK n \in 0..Len(plain) :
           IF n < Len(plain) THEN rbuf_push(Rest(plain, n)) /\ owner' = s
           ELSE UNCHANGED <<vars, owner>>
    BY <1>3, RecordRead
  <2>2. n < Len(plain) => Rest(plain, n) \in Chunk
    BY RecordParts
  <2> QED
    BY <2>1, <2>2 DEF Next
<1>4. ASSUME AnyUse PROVE Next
  BY <1>4 DEF AnyUse
<1>5. ASSUME NEW s \in Session, ConnectFails(s) PROVE UNCHANGED vars
  BY <1>5 DEF ConnectFails
<1> QED
  BY <1>1, <1>2, <1>3, <1>4, <1>5 DEF SharedNext

\* A session that is the only one with bytes waiting: what the others wait for
\* is nothing.
LEMMA OthersHaveNone ==
    ASSUME SharedInv, NEW s \in Session, Acts(s), ~mixed',
           NEW t \in up, t # s
    PROVE  stream[t] = got[t]
<1>1. stream[t] = got[t] \o Waiting(t)
  BY DEF SharedInv, OwnBytes, Waiting, Acts
<1>2. Waiting(t) = <<>>
  <2>1. CASE owner = t
    <3>1. rbuf_avail = 0
      <4>1. rbuf_avail \in Nat /\ ~(rbuf_avail > 0)
        BY <2>1, Shapes DEF Acts, SharedInv
      <4> QED
        BY <4>1
    <3> QED
      BY <2>1, <3>1, EmptyIsEmpty DEF Waiting, SharedInv
  <2>2. CASE owner # t
    BY <2>2 DEF Waiting
  <2> QED
    BY <2>1, <2>2
<1>3. got[t] \in Seq(Byte)
  BY DEF SharedInv, SharedTypeOK, Streams
<1> QED
  BY <1>1, <1>2, <1>3

\* After a reset nothing waits for anyone.
LEMMA ResetEmpties ==
    ASSUME rbuf_reset
    PROVE  Unread' = <<>>
  BY DEF rbuf_reset, Unread, rbuf_avail

\* tls_connect keeps OwnBytes: the new connection has no bytes, the others none
\* waiting.
LEMMA ConnectKeeps ==
    ASSUME SharedInv, NEW s \in Session, Connect(s), ~mixed'
    PROVE  \A t \in up' : stream'[t] = got'[t] \o Waiting(t)'
<1> SUFFICES ASSUME NEW t \in up' PROVE stream'[t] = got'[t] \o Waiting(t)'
  OBVIOUS
<1>1. t \in Session /\ (t # s => t \in up) /\ stream \in Streams /\ got \in Streams
  BY DEF Connect, SharedInv, SharedTypeOK
<1>2. Waiting(t)' = <<>>
  BY ResetEmpties DEF Connect, Waiting
<1>3. CASE t = s
  <2>1. stream'[t] = <<>> /\ got'[t] = <<>>
    BY <1>1, <1>3 DEF Connect, NewConnection, Streams
  <2> QED
    BY <1>2, <2>1
<1>4. CASE t # s
  <2>1. stream'[t] = stream[t] /\ got'[t] = got[t] /\ got[t] \in Seq(Byte)
    BY <1>1, <1>4 DEF Connect, NewConnection, Streams
  <2>2. stream[t] = got[t]
    BY <1>1, <1>4, OthersHaveNone DEF Connect
  <2> QED
    BY <1>2, <2>1, <2>2
<1> QED
  BY <1>3, <1>4

\* tls_close keeps OwnBytes.
LEMMA CloseKeeps ==
    ASSUME SharedInv, NEW s \in Session, Close(s), ~mixed'
    PROVE  \A t \in up' : stream'[t] = got'[t] \o Waiting(t)'
<1> SUFFICES ASSUME NEW t \in up' PROVE stream'[t] = got'[t] \o Waiting(t)'
  OBVIOUS
<1>1. t \in up /\ t # s
  BY DEF Close
<1>2. stream'[t] = stream[t] /\ got'[t] = got[t] /\ got[t] \in Seq(Byte)
  BY <1>1 DEF Close, SharedInv, SharedTypeOK, Streams
<1>3. Waiting(t)' = <<>>
  BY ResetEmpties DEF Close, Waiting
<1>4. stream[t] = got[t]
  BY <1>1, OthersHaveNone DEF Close
<1> QED
  BY <1>2, <1>3, <1>4

\* tls_recv from the buffer keeps OwnBytes: what moves to the caller is the front
\* of what waited for it.
LEMMA BufferedKeeps ==
    ASSUME SharedInv, NEW s \in Session, NEW want \in 1..MaxLen,
           ReceiveBuffered(s, want), ~mixed'
    PROVE  \A t \in up' : stream'[t] = got'[t] \o Waiting(t)'
<1> SUFFICES ASSUME NEW t \in up' PROVE stream'[t] = got'[t] \o Waiting(t)'
  OBVIOUS
<1>0. /\ TypeOK /\ t \in up /\ t \in Session /\ s \in up
      /\ stream \in Streams /\ got \in Streams
      /\ owner = s /\ owner' = s /\ stream' = stream
      /\ got' = [got EXCEPT ![s] = @ \o out']
  BY DEF ReceiveBuffered, Acts, SharedInv, SharedTypeOK
<1>1. CASE t = s
  <2>1. /\ Unread \in Seq(Byte) /\ MaxLen \in Nat
        /\ stream[s] = got[s] \o Unread /\ got[s] \in Seq(Byte)
    BY <1>0, <1>1, Shapes DEF ReceiveBuffered, Acts, SharedInv, OwnBytes, Streams
  <2>2. Fifo!Take(want)
    BY <1>0, PopTakes DEF ReceiveBuffered
  <2> DEFINE n == Fifo!Min2(Len(Unread), want)
  <2>3. /\ out' = SubSeq(Unread, 1, n)
        /\ Unread' = SubSeq(Unread, n + 1, Len(Unread))
        /\ n \in 0..Len(Unread)
    BY <2>1, <2>2 DEF Fifo!Take, Fifo!Min2
  <2> HIDE DEF n
  <2>4. out' \in Seq(Byte) /\ Unread' \in Seq(Byte) /\ out' \o Unread' = Unread
    <3>1. /\ SubSeq(Unread, 1, n) \in Seq(Byte) /\ SubSeq(Unread, n + 1, Len(Unread)) \in Seq(Byte)
          /\ SubSeq(Unread, 1, n) \o SubSeq(Unread, n + 1, Len(Unread)) = Unread
      BY <2>1, <2>3, SplitSeq
    <3> QED
      BY <2>3, <3>1
  <2>5. got'[t] = got[s] \o out' /\ Waiting(t)' = Unread'
    BY <1>0, <1>1 DEF Streams, Waiting
  <2>6. (got[s] \o out') \o Unread' = got[s] \o (out' \o Unread')
    BY <2>1, <2>4, JoinBytes
  <2> QED
    BY <1>0, <1>1, <2>1, <2>4, <2>5, <2>6
<1>2. CASE t # s
  <2>1. stream[t] = got[t] /\ got[t] \in Seq(Byte)
    BY <1>0, <1>2, OthersHaveNone DEF ReceiveBuffered, Streams
  <2>2. got'[t] = got[t] /\ Waiting(t)' = <<>>
    BY <1>0, <1>2 DEF Streams, Waiting
  <2> QED
    BY <1>0, <2>1, <2>2
<1> QED
  BY <1>1, <1>2

\* tls_recv with a record keeps OwnBytes: the buffer is empty and takes the rest.
LEMMA RecordKeeps ==
    ASSUME SharedInv, NEW s \in Session, NEW want \in 1..MaxLen, NEW plain \in Chunk,
           ReceiveRecord(s, want, plain), ~mixed'
    PROVE  \A t \in up' : stream'[t] = got'[t] \o Waiting(t)'
<1> SUFFICES ASSUME NEW t \in up' PROVE stream'[t] = got'[t] \o Waiting(t)'
  OBVIOUS
<1>1. PICK n \in 0..Len(plain) :
         /\ Acts(s)
         /\ s \in up /\ rbuf_avail = 0
         /\ stream' = [stream EXCEPT ![s] = @ \o plain]
         /\ got' = [got EXCEPT ![s] = @ \o Front(plain, n)]
         /\ IF n < Len(plain) THEN rbuf_push(Rest(plain, n)) /\ owner' = s
            ELSE UNCHANGED <<vars, owner>>
         /\ UNCHANGED up
  BY RecordRead
<1>2. /\ TypeOK /\ t \in up /\ t \in Session
      /\ stream \in Streams /\ got \in Streams /\ Unread = <<>>
  BY <1>1, EmptyIsEmpty DEF SharedInv, SharedTypeOK
<1>3. stream[t] = got[t] /\ got[t] \in Seq(Byte)
  <2>1. got[t] \in Seq(Byte) /\ stream[t] = got[t] \o <<>>
    BY <1>1, <1>2 DEF Acts, SharedInv, OwnBytes, Streams
  <2> QED
    BY <2>1
<1>4. /\ plain \in Seq(Byte)
      /\ Front(plain, n) \in Seq(Byte) /\ Rest(plain, n) \in Seq(Byte)
      /\ Front(plain, n) \o Rest(plain, n) = plain
  BY FrontAndRest
<1>5. CASE n < Len(plain)
  <2>1. Rest(plain, n) \in Chunk /\ Len(Rest(plain, n)) \in 1..MaxLen
    BY <1>5, RecordParts, ChunkShape
  <2>2. ~PushRefused(Rest(plain, n))
    BY <1>1, <2>1, MaxLenAssumption, BufSizeAssumption, RecordAssumption DEF PushRefused
  <2>3. Fifo!Put(Rest(plain, n))
    BY <1>1, <1>2, <1>5, <2>1, <2>2, InPlacePuts, CompactingPuts DEF rbuf_push
  <2>4. Unread' = Rest(plain, n)
    BY <1>2, <1>4, <2>3 DEF Fifo!Put
  <2>5. CASE t = s
    <3>1. /\ stream'[t] = got[t] \o plain
          /\ got'[t] = got[t] \o Front(plain, n)
          /\ Waiting(t)' = Rest(plain, n)
      BY <1>1, <1>2, <1>3, <1>5, <2>4, <2>5 DEF Streams, Waiting
    <3>2. (got[t] \o Front(plain, n)) \o Rest(plain, n)
            = got[t] \o (Front(plain, n) \o Rest(plain, n))
      BY <1>3, <1>4, JoinBytes
    <3> QED
      BY <1>4, <3>1, <3>2
  <2>6. CASE t # s
    BY <1>1, <1>2, <1>3, <1>5, <2>6 DEF Streams, Waiting
  <2> QED
    BY <2>5, <2>6
<1>6. CASE ~(n < Len(plain))
  <2>1. n = Len(plain) /\ Front(plain, n) = plain
    BY <1>6, RecordParts
  <2>2. Waiting(t)' = <<>>
    <3>1. Unread' = Unread
      BY <1>1, <1>6 DEF vars, Unread, rbuf_avail
    <3> QED
      BY <1>2, <3>1 DEF Waiting
  <2>3. got'[t] = stream'[t] /\ got'[t] \in Seq(Byte)
    <3>1. CASE t = s
      <4>1. got'[t] = got[t] \o plain /\ stream'[t] = got[t] \o plain
        BY <1>1, <1>2, <1>3, <2>1, <3>1 DEF Streams
      <4> QED
        BY <1>3, <1>4, <4>1, ConcatProperties
    <3>2. CASE t # s
      BY <1>1, <1>2, <1>3, <3>2 DEF Streams
    <3> QED
      BY <3>1, <3>2
  <2> QED
    BY <2>2, <2>3
<1> QED
  BY <1>5, <1>6

\* Every step keeps the types of the sessions' part.
LEMMA StepSharedType ==
    ASSUME SharedInv, [SharedNext]_<<vars, sharedVars>>
    PROVE  SharedTypeOK' /\ AnyHasNone'
<1>0. /\ TypeOK /\ up \subseteq Session /\ owner \in Session
      /\ stream \in Streams /\ got \in Streams /\ mixed \in BOOLEAN
      /\ (user = "any" => up = {})
  BY DEF SharedInv, SharedTypeOK, AnyHasNone
<1>1. ASSUME NEW s \in Session, Connect(s) PROVE SharedTypeOK' /\ AnyHasNone'
  <2>1. stream' \in Streams /\ got' \in Streams
    BY <1>0, <1>1 DEF Connect, NewConnection, Streams
  <2> QED
    BY <1>0, <1>1, <2>1 DEF Connect, Acts, SharedTypeOK, AnyHasNone
<1>2. ASSUME NEW s \in Session, Close(s) PROVE SharedTypeOK' /\ AnyHasNone'
  BY <1>0, <1>2 DEF Close, Acts, SharedTypeOK, AnyHasNone
<1>3. ASSUME NEW s \in Session, NEW want \in 1..MaxLen, ReceiveBuffered(s, want)
      PROVE  SharedTypeOK' /\ AnyHasNone'
  <2>1. out' \in Seq(Byte)
    <3>1. Fifo!Take(want) /\ Unread \in Seq(Byte) /\ MaxLen \in Nat
      BY <1>0, <1>3, PopTakes, Shapes DEF ReceiveBuffered
    <3> DEFINE n == Fifo!Min2(Len(Unread), want)
    <3>2. out' = SubSeq(Unread, 1, n) /\ n \in 0..Len(Unread)
      BY <3>1 DEF Fifo!Take, Fifo!Min2
    <3> QED
      BY <3>1, <3>2, SplitSeq
  <2>2. got[s] \o out' \in Seq(Byte)
    BY <1>0, <2>1, ConcatProperties DEF Streams
  <2>3. got' \in Streams
    BY <1>0, <1>3, <2>2 DEF ReceiveBuffered, Streams
  <2> QED
    BY <1>0, <1>3, <2>3 DEF ReceiveBuffered, Acts, SharedTypeOK, AnyHasNone
<1>4. ASSUME NEW s \in Session, NEW want \in 1..MaxLen, NEW plain \in Chunk,
             ReceiveRecord(s, want, plain)
      PROVE  SharedTypeOK' /\ AnyHasNone'
  <2>1. PICK n \in 0..Len(plain) :
           /\ Acts(s)
           /\ stream' = [stream EXCEPT ![s] = @ \o plain]
           /\ got' = [got EXCEPT ![s] = @ \o Front(plain, n)]
           /\ IF n < Len(plain) THEN rbuf_push(Rest(plain, n)) /\ owner' = s
              ELSE UNCHANGED <<vars, owner>>
           /\ UNCHANGED up
    BY <1>4, RecordRead
  <2>2. plain \in Seq(Byte) /\ Front(plain, n) \in Seq(Byte)
    BY FrontAndRest
  <2>3. stream[s] \o plain \in Seq(Byte) /\ got[s] \o Front(plain, n) \in Seq(Byte)
    BY <1>0, <2>2, ConcatProperties DEF Streams
  <2>4. stream' \in Streams /\ got' \in Streams
    BY <1>0, <2>1, <2>3 DEF Streams
  <2>5. owner' \in Session
    BY <1>0, <2>1
  <2> QED
    BY <1>0, <2>1, <2>4, <2>5 DEF Acts, SharedTypeOK, AnyHasNone
<1>5. CASE AnyUse \/ UNCHANGED <<vars, sharedVars>>
  BY <1>0, <1>5 DEF AnyUse, sharedVars, SharedTypeOK, AnyHasNone
<1>6. ASSUME NEW s \in Session, ConnectFails(s) PROVE SharedTypeOK' /\ AnyHasNone'
  BY <1>0, <1>6 DEF ConnectFails, SharedTypeOK, AnyHasNone
<1> QED
  BY <1>1, <1>2, <1>3, <1>4, <1>5, <1>6 DEF SharedNext

\* Every step keeps the invariant.
LEMMA StepInv == SharedInv /\ [SharedNext]_<<vars, sharedVars>> => SharedInv'
<1> SUFFICES ASSUME SharedInv, [SharedNext]_<<vars, sharedVars>> PROVE SharedInv'
  OBVIOUS
<1>1. TypeOK'
  BY StepsOfBuffer, StepType DEF SharedInv
<1>2. SharedTypeOK' /\ AnyHasNone'
  BY StepSharedType
<1>3. ASSUME ~mixed' PROVE \A t \in up' : stream'[t] = got'[t] \o Waiting(t)'
  <2>1. ASSUME NEW s \in Session, Connect(s)
        PROVE  \A t \in up' : stream'[t] = got'[t] \o Waiting(t)'
    BY <1>3, <2>1, ConnectKeeps
  <2>2. ASSUME NEW s \in Session, Close(s)
        PROVE  \A t \in up' : stream'[t] = got'[t] \o Waiting(t)'
    BY <1>3, <2>2, CloseKeeps
  <2>3. ASSUME NEW s \in Session, NEW want \in 1..MaxLen, ReceiveBuffered(s, want)
        PROVE  \A t \in up' : stream'[t] = got'[t] \o Waiting(t)'
    BY <1>3, <2>3, BufferedKeeps
  <2>4. ASSUME NEW s \in Session, NEW want \in 1..MaxLen, NEW plain \in Chunk,
               ReceiveRecord(s, want, plain)
        PROVE  \A t \in up' : stream'[t] = got'[t] \o Waiting(t)'
    BY <1>3, <2>4, RecordKeeps
  <2>5. CASE AnyUse
    BY <2>5 DEF AnyUse, sharedVars, SharedInv, AnyHasNone
  <2>7. ASSUME NEW s \in Session, ConnectFails(s)
        PROVE  \A t \in up' : stream'[t] = got'[t] \o Waiting(t)'
    <3>1. Unread' = Unread
      BY <2>7 DEF ConnectFails, vars, Unread, rbuf_avail
    <3> QED
      BY <1>3, <2>7, <3>1 DEF ConnectFails, SharedInv, OwnBytes, Waiting
  <2>6. CASE UNCHANGED <<vars, sharedVars>>
    <3>1. Unread' = Unread
      BY <2>6 DEF vars, Unread, rbuf_avail
    <3> QED
      BY <1>3, <2>6, <3>1 DEF sharedVars, SharedInv, OwnBytes, Waiting
  <2> QED
    BY <2>1, <2>2, <2>3, <2>4, <2>5, <2>6, <2>7 DEF SharedNext
<1>4. OwnBytes'
  BY <1>3 DEF OwnBytes, Waiting
<1> QED
  BY <1>1, <1>2, <1>4 DEF SharedInv

\* However many sessions share g_rbuf, whatever the sizes: as long as none acts
\* while another has bytes waiting, each gets its own bytes, all and in order.
THEOREM SessionsGetTheirOwn == SharedSpec => []OwnBytes
<1>1. SharedInv => OwnBytes
  BY DEF SharedInv
<1> QED
  BY <1>1, InitInv, StepInv, PTL DEF SharedSpec
=============================================================================

--------------------------- MODULE TcpConnectProof ---------------------------
(***************************************************************************)
(* Proofs about TcpConnect, for every number of addresses and every fate   *)
(* of each: no descriptor leaks, and the first address that answers wins.  *)
(***************************************************************************)
EXTENDS TcpConnect, TLAPS

Trying == {"fcntl", "connect", "poll"}

\* Which descriptors are open at each step of the loop.
Held ==
    /\ pc \in Trying => fds = {p}
    /\ pc \notin Trying => fds = {sock} \ {0}
    /\ pc \in {"getaddrinfo", "done"} => ~list

\* What is known of the address in hand: the earlier calls on it succeeded.
InHand ==
    /\ pc \in {"socket"} \cup Trying => p \in 1..n /\ sock = 0
    /\ pc \in Trying => fate[p] # "nosocket"
    /\ pc = "fcntl" => timed
    /\ (pc \in {"connect", "poll"} /\ timed) => fate[p] # "nofcntl"
    /\ pc = "poll" => timed /\ fate[p] \notin {"refuses", "at_once"}

\* What the loop has found among the addresses behind it.
SoFar ==
    /\ sock # 0 => Answers(sock) /\ sock < p
    /\ \A i \in 1..n : (i < p /\ Answers(i)) => sock # 0 /\ sock <= i
    /\ pc = "done" => sock # 0 \/ p > n

IInv == TypeOK /\ Held /\ InHand /\ SoFar

\* The invariant holds before the first address.
LEMMA InitIInv == Init => IInv
<1> SUFFICES ASSUME Init PROVE IInv
  OBVIOUS
<1>1. TypeOK
  <2>1. n \in Nat
    BY MaxAddrAssumption DEF Init
  <2>2. fate \in [1..n -> AllFates]
    BY FatesAssumption DEF Init
  <2>3. p \in 1..n + 1 /\ sock \in 0..n
    BY <2>1 DEF Init
  <2>4. fds \subseteq 1..n /\ nonblock \subseteq fds
    BY DEF Init
  <2> QED
    BY <2>1, <2>2, <2>3, <2>4 DEF Init, TypeOK
<1>2. Held /\ InHand /\ SoFar
  BY <1>1 DEF Init, TypeOK, Held, InHand, SoFar, Trying
<1> QED
  BY <1>1, <1>2 DEF IInv

\* A try that fails leaves nothing behind, and the address in hand does not
\* answer.
LEMMA FailsKeepsIInv ==
  ASSUME IInv, pc \in {"socket"} \cup Trying, Fails, ~Answers(p)
  PROVE  IInv'
<1>1. /\ p \in 1..n /\ sock = 0 /\ fds \subseteq {p} /\ n \in Nat
      /\ p' = p + 1 /\ pc' = "for" /\ sock' = sock /\ n' = n /\ fate' = fate
      /\ timed' = timed /\ list' = list
  BY DEF IInv, TypeOK, Held, InHand, Fails, host, Trying
<1>2. fds' = {} /\ nonblock' = {}
  BY <1>1 DEF IInv, TypeOK, Fails
<1>3. TypeOK'
  BY <1>1, <1>2 DEF IInv, TypeOK
<1>4. Held' /\ InHand'
  BY <1>1, <1>2 DEF Held, InHand, Trying
<1>5. SoFar'
  <2>1. ASSUME NEW i \in 1..n, i < p + 1, Answers(i)
        PROVE  sock # 0 /\ sock <= i
    <3>1. i # p
      BY <2>1
    <3> QED
      BY <1>1, <2>1, <3>1 DEF IInv, SoFar
  <2> QED
    BY <1>1, <2>1 DEF SoFar, Answers
<1> QED
  BY <1>3, <1>4, <1>5 DEF IInv

\* A try that succeeds keeps its descriptor and ends the search.
LEMMA SucceedsKeepsIInv ==
  ASSUME IInv, pc \in {"connect", "poll"}, Succeeds, Answers(p)
  PROVE  IInv'
<1>1. /\ p \in 1..n /\ sock = 0 /\ fds = {p} /\ n \in Nat
      /\ p' = p + 1 /\ pc' = "for" /\ sock' = p /\ n' = n /\ fate' = fate
      /\ timed' = timed /\ list' = list /\ fds' = fds
  BY DEF IInv, TypeOK, Held, InHand, Succeeds, host, Trying
<1>2. nonblock' \subseteq fds'
  BY <1>1 DEF IInv, TypeOK, Succeeds
<1>3. TypeOK'
  BY <1>1, <1>2 DEF IInv, TypeOK
<1>4. Held' /\ InHand'
  BY <1>1 DEF Held, InHand, Trying
<1>5. SoFar'
  <2>1. ASSUME NEW i \in 1..n, i < p + 1, Answers(i)
        PROVE  p <= i
    <3>1. CASE i < p
      BY <1>1, <2>1, <3>1 DEF IInv, SoFar
    <3> QED
      BY <1>1, <2>1, <3>1
  <2> QED
    BY <1>1, <2>1 DEF SoFar, Answers
<1> QED
  BY <1>3, <1>4, <1>5 DEF IInv

\* Every step of tcp_connect keeps it.
LEMMA StepKeepsIInv == IInv /\ [Next]_vars => IInv'
<1> SUFFICES ASSUME IInv, [Next]_vars PROVE IInv'
  OBVIOUS
<1> USE DEF Trying
<1>1. CASE getaddrinfo
  <2>1. /\ p' = p /\ sock' = sock /\ fds' = fds /\ nonblock' = nonblock
        /\ n' = n /\ fate' = fate /\ timed' = timed /\ list' \in BOOLEAN
        /\ (pc' = "done" /\ n = 0 /\ ~list') \/ pc' = "for"
    BY <1>1 DEF getaddrinfo, host
  <2>2. TypeOK' /\ Held'
    BY <1>1, <2>1 DEF IInv, TypeOK, Held, getaddrinfo
  <2>3. InHand' /\ SoFar'
    BY <1>1, <2>1 DEF IInv, TypeOK, InHand, SoFar, Answers
  <2> QED
    BY <2>2, <2>3 DEF IInv
<1>2. CASE NextAddress
  <2>1. TypeOK' /\ Held' /\ InHand'
    BY <1>2 DEF IInv, TypeOK, Held, InHand, NextAddress, host
  <2>2. SoFar'
    BY <1>2 DEF IInv, SoFar, Answers, NextAddress, host
  <2> QED
    BY <2>1, <2>2 DEF IInv
<1>3. CASE freeaddrinfo
  <2>1. TypeOK' /\ Held' /\ InHand'
    BY <1>3 DEF IInv, TypeOK, Held, InHand, freeaddrinfo, host
  <2>2. SoFar'
    BY <1>3 DEF IInv, SoFar, Answers, freeaddrinfo, host
  <2> QED
    BY <2>1, <2>2 DEF IInv
<1>4. CASE socket
  <2>1. CASE fate[p] = "nosocket" /\ Fails
    BY <1>4, <2>1, FailsKeepsIInv DEF socket, Answers
  <2>2. CASE /\ fate[p] # "nosocket"
             /\ fds' = fds \cup {p} /\ pc' = IF timed THEN "fcntl" ELSE "connect"
             /\ UNCHANGED <<host, p, list, nonblock, sock>>
    <3>1. TypeOK'
      BY <1>4, <2>2 DEF IInv, TypeOK, InHand, socket, host
    <3>2. Held' /\ InHand'
      BY <1>4, <2>2 DEF IInv, TypeOK, Held, InHand, socket, host
    <3>3. SoFar'
      BY <1>4, <2>2 DEF IInv, SoFar, Answers, socket, host
    <3> QED
      BY <3>1, <3>2, <3>3 DEF IInv
  <2> QED
    BY <1>4, <2>1, <2>2 DEF socket
<1>5. CASE sock_set_nonblocking
  <2>1. CASE fate[p] = "nofcntl" /\ Fails
    <3>1. ~Answers(p)
      BY <1>5, <2>1 DEF Answers, sock_set_nonblocking, IInv, InHand
    <3> QED
      BY <1>5, <2>1, <3>1, FailsKeepsIInv DEF sock_set_nonblocking
  <2>2. CASE fate[p] # "nofcntl" /\ pc' = "connect"
    <3>1. TypeOK' /\ Held' /\ InHand'
      BY <1>5, <2>2 DEF IInv, TypeOK, Held, InHand, sock_set_nonblocking, host
    <3>2. SoFar'
      BY <1>5, <2>2 DEF IInv, SoFar, Answers, sock_set_nonblocking, host
    <3> QED
      BY <3>1, <3>2 DEF IInv
  <2> QED
    BY <1>5, <2>1, <2>2 DEF sock_set_nonblocking
<1>6. CASE connect
  <2>1. CASE ~Answers(p) /\ Fails
    BY <1>6, <2>1, FailsKeepsIInv DEF connect
  <2>2. CASE Answers(p) /\ Succeeds
    BY <1>6, <2>2, SucceedsKeepsIInv DEF connect
  <2>3. CASE /\ timed /\ fate[p] \notin {"refuses", "at_once"} /\ pc' = "poll"
             /\ UNCHANGED <<host, p, list, fds, nonblock, sock>>
    <3>1. TypeOK' /\ Held' /\ InHand'
      BY <1>6, <2>3 DEF IInv, TypeOK, Held, InHand, connect, host
    <3>2. SoFar'
      BY <1>6, <2>3 DEF IInv, SoFar, Answers, connect, host
    <3> QED
      BY <3>1, <3>2 DEF IInv
  <2> QED
    BY <1>6, <2>1, <2>2, <2>3 DEF connect, Answers
<1>7. CASE sock_wait_writable
  <2>1. CASE fate[p] \in {"resets", "silent"} /\ Fails
    BY <1>7, <2>1, FailsKeepsIInv DEF sock_wait_writable, Answers
  <2>2. CASE fate[p] \notin {"resets", "silent"} /\ Succeeds
    <3>1. p \in 1..n /\ fate[p] \in AllFates
      BY <1>7 DEF IInv, TypeOK, InHand, sock_wait_writable
    <3>2. Answers(p)
      BY <1>7, <2>2, <3>1 DEF IInv, InHand, sock_wait_writable, Answers, AllFates
    <3> QED
      BY <1>7, <2>2, <3>2, SucceedsKeepsIInv DEF sock_wait_writable
  <2> QED
    BY <1>7, <2>1, <2>2 DEF sock_wait_writable
<1>8. CASE UNCHANGED vars
  BY <1>8 DEF IInv, TypeOK, Held, InHand, SoFar, Answers, vars
<1> QED
  BY <1>1, <1>2, <1>3, <1>4, <1>5, <1>6, <1>7, <1>8 DEF Next

\* It holds throughout: the cursor, the result and the descriptors held agree in
\* every state of the loop over the addresses.
THEOREM Invariance == Spec => []IInv
<1> QED
  BY InitIInv, StepKeepsIInv, PTL DEF Spec

\* tcp_connect's state stays within its types, for any number of addresses.
THEOREM TypeCorrect == Spec => []TypeOK
<1>1. IInv => TypeOK
  BY DEF IInv
<1> QED
  BY <1>1, Invariance, PTL

\* No path through the loop leaks a descriptor or the address list.
THEOREM NoDescriptorLeaks == Spec => []OnlyTheResultIsOpen
<1>1. IInv => OnlyTheResultIsOpen
  BY DEF IInv, Held, Trying, OnlyTheResultIsOpen
<1> QED
  BY <1>1, Invariance, PTL

\* The socket returned is that of the first address that answers.
THEOREM FirstAnswerWins == Spec => []FirstThatAnswers
<1>1. IInv => FirstThatAnswers
  BY DEF IInv, TypeOK, SoFar, FirstThatAnswers
<1> QED
  BY <1>1, Invariance, PTL
=============================================================================

------------------------------ MODULE TcpConnect ------------------------------
(***************************************************************************)
(* tcp_connect of tls/tlslib.c: the addresses that getaddrinfo found are   *)
(* tried one after the other until one answers.  With a time-out each try  *)
(* is tcp_try_connect: a non-blocking connect, a poll, and the socket back *)
(* in blocking mode; without one it is a blocking connect (tls_connect     *)
(* always has a time-out).                                                 *)
(*                                                                         *)
(* One step is one system call with the branch on its result, and every    *)
(* path that fails closes the socket it opened.                            *)
(***************************************************************************)
EXTENDS Integers

CONSTANTS
    MaxAddr,  \* bound: addresses of the host
    Fates     \* what can become of an address, a subset of AllFates

\* "nosocket": socket() fails.  "nofcntl": O_NONBLOCK cannot be set.
\* "refuses": connect() fails.  "at_once": connect() succeeds at once.
\* "accepts": the connection is accepted later.  "sticks": so it is, but
\* O_NONBLOCK cannot be taken back.  "resets": an error arrives later.
\* "silent": no answer at all, the wait expires.
AllFates == {"nosocket", "nofcntl", "refuses", "at_once", "accepts", "sticks",
             "resets", "silent"}

ASSUME MaxAddrAssumption == MaxAddr \in Nat
ASSUME FatesAssumption == Fates \subseteq AllFates

VARIABLES
    n,         \* how many addresses getaddrinfo finds
    fate,      \* what becomes of each
    timed,     \* timeout_ms > 0
    pc,        \* the system call that is next
    p,         \* the address in hand
    list,      \* the address list is allocated
    fds,       \* descriptors open, each named after its address
    nonblock,  \* the descriptors with O_NONBLOCK
    sock       \* the socket found, 0 for TLS_INVALID_SOCKET

vars == <<n, fate, timed, pc, p, list, fds, nonblock, sock>>
host == <<n, fate, timed>>

Init ==
    /\ n \in 0..MaxAddr /\ fate \in [1..n -> Fates] /\ timed \in BOOLEAN
    /\ pc = "getaddrinfo" /\ p = 1 /\ list = FALSE
    /\ fds = {} /\ nonblock = {} /\ sock = 0

getaddrinfo ==
    /\ pc = "getaddrinfo"
    /\ IF n = 0 THEN pc' = "done" /\ list' = FALSE ELSE pc' = "for" /\ list' = TRUE
    /\ UNCHANGED <<host, p, fds, nonblock, sock>>

\* Faulty variant: the loop goes on although a socket was found.
NextAddress_goesOn ==
    /\ pc = "for" /\ p <= n
    /\ pc' = "socket"
    /\ UNCHANGED <<host, p, list, fds, nonblock, sock>>

NextAddress ==
    /\ pc = "for" /\ p <= n /\ sock = 0
    /\ pc' = "socket"
    /\ UNCHANGED <<host, p, list, fds, nonblock, sock>>

freeaddrinfo ==
    /\ pc = "for" /\ (p > n \/ sock # 0)
    /\ pc' = "done" /\ list' = FALSE
    /\ UNCHANGED <<host, p, fds, nonblock, sock>>

\* Faulty variant: p moves on in the loop's body as well.
Fails_skips ==
    /\ fds' = fds \ {p} /\ nonblock' = nonblock \ {p}
    /\ pc' = "for" /\ p' = p + 2
    /\ UNCHANGED <<host, list, sock>>

\* Faulty variant: the socket of the failed try stays open.
Fails_open ==
    /\ pc' = "for" /\ p' = p + 1
    /\ UNCHANGED <<host, list, fds, nonblock, sock>>

\* Faulty variant: the same address is tried again.
Fails_again ==
    /\ fds' = fds \ {p} /\ nonblock' = nonblock \ {p}
    /\ pc' = "for"
    /\ UNCHANGED <<host, p, list, sock>>

\* sock_close, unless there is no socket yet; on to the next address.
Fails ==
    /\ fds' = fds \ {p} /\ nonblock' = nonblock \ {p}
    /\ pc' = "for" /\ p' = p + 1
    /\ UNCHANGED <<host, list, sock>>

\* The result of the second sock_set_nonblocking is not looked at.
Succeeds ==
    /\ sock' = p /\ pc' = "for" /\ p' = p + 1
    /\ nonblock' = IF fate[p] = "sticks" THEN nonblock ELSE nonblock \ {p}
    /\ UNCHANGED <<host, list, fds>>

socket ==
    /\ pc = "socket"
    /\ \/ fate[p] = "nosocket" /\ Fails
       \/ /\ fate[p] # "nosocket"
          /\ fds' = fds \cup {p} /\ pc' = IF timed THEN "fcntl" ELSE "connect"
          /\ UNCHANGED <<host, p, list, nonblock, sock>>

sock_set_nonblocking ==
    /\ pc = "fcntl"
    /\ \/ fate[p] = "nofcntl" /\ Fails
       \/ /\ fate[p] # "nofcntl"
          /\ nonblock' = nonblock \cup {p} /\ pc' = "connect"
          /\ UNCHANGED <<host, p, list, fds, sock>>

\* A blocking connect returns only when the answer, or the lack of one, is in.
connect ==
    /\ pc = "connect"
    /\ \/ fate[p] = "refuses" /\ Fails
       \/ fate[p] = "at_once" /\ Succeeds
       \/ ~timed /\ fate[p] \in {"resets", "silent"} /\ Fails
       \/ ~timed /\ fate[p] \in {"accepts", "sticks", "nofcntl"} /\ Succeeds
       \/ /\ timed /\ fate[p] \notin {"refuses", "at_once"}
          /\ pc' = "poll" /\ UNCHANGED <<host, p, list, fds, nonblock, sock>>

\* poll, then SO_ERROR.
sock_wait_writable ==
    /\ pc = "poll"
    /\ \/ fate[p] \in {"resets", "silent"} /\ Fails
       \/ fate[p] \notin {"resets", "silent"} /\ Succeeds

Next ==
    \/ getaddrinfo \/ NextAddress \/ freeaddrinfo
    \/ socket \/ sock_set_nonblocking \/ connect \/ sock_wait_writable

Spec == Init /\ [][Next]_vars

\* The caller's thread is scheduled, and poll and connect come back.
FairSpec == Spec /\ WF_vars(Next)

-----------------------------------------------------------------------------
\* Type invariant.
TypeOK ==
    /\ n \in Nat /\ fate \in [1..n -> AllFates] /\ timed \in BOOLEAN
    /\ pc \in {"getaddrinfo", "for", "socket", "fcntl", "connect", "poll", "done"}
    /\ p \in 1..n + 1 /\ list \in BOOLEAN
    /\ fds \subseteq 1..n /\ nonblock \subseteq fds /\ sock \in 0..n

\* When tcp_connect returns, the process holds the descriptor it returns and
\* no other, and the address list is freed; in between it never holds two.
OnlyTheResultIsOpen ==
    /\ pc = "done" => fds = {sock} \ {0} /\ ~list
    /\ \A i, j \in fds : i = j

\* An address the try of which succeeds.
Answers(i) == fate[i] \in {"at_once", "accepts", "sticks"} \/ (~timed /\ fate[i] = "nofcntl")

\* The socket returned is connected to the first address that answers, and none
\* is returned only if no address does ("複数アドレス対応", tlslib.c:241).
FirstThatAnswers ==
    pc = "done" =>
        /\ sock # 0 => Answers(sock)
        /\ \A i \in 1..n : Answers(i) => sock # 0 /\ sock <= i

\* tcp_connect comes back, however many addresses stay silent.
Returns == <>(pc = "done")
=============================================================================

---------------------------- MODULE PtlsAgreement ----------------------------
(***************************************************************************)
(* What a TLS handshake promises: the client finishes first, the server    *)
(* only with the very outcome the client finished with, and an end that    *)
(* has an outcome keeps it.  An end that fails has none.                   *)
(***************************************************************************)
EXTENDS Sequences

VARIABLES client, server  \* <<"running">>, <<"failed">> or <<"done", outcome>>

agreementVars == <<client, server>>

Running == <<"running">>
Failed  == <<"failed">>

Init == client = Running /\ server = Running

ClientFails == client = Running /\ client' = Failed /\ UNCHANGED server

ServerFails == server = Running /\ server' = Failed /\ UNCHANGED client

ClientDone == /\ client = Running
              /\ client'[1] = "done"
              /\ UNCHANGED server

ServerDone == /\ server = Running /\ client[1] = "done"
              /\ server' = client
              /\ UNCHANGED client

NextConnection == /\ client # Running /\ server # Running
                  /\ client' = Running /\ server' = Running

Next == ClientFails \/ ServerFails \/ ClientDone \/ ServerDone \/ NextConnection

Spec == Init /\ [][Next]_agreementVars
=============================================================================

---------------------------- MODULE MCTlsSession ----------------------------
(* TlsSession for TLC: the ways a server can cut its first flight into       *)
(* records, and the ways it can go wrong.                                    *)
EXTENDS TlsSession

Clear(m)    == [ct |-> "hs", enc |-> FALSE, body |-> <<m>>]
Sealed1(ms) == [ct |-> "hs", enc |-> TRUE, body |-> ms]
CCS         == [ct |-> "ccs", enc |-> FALSE, body |-> <<>>]
FatalAlert  == [ct |-> "alert", enc |-> FALSE, body |-> <<"fatal">>]

OneRecord   == <<Clear("SH"), Sealed1(<<"EE", "CERT", "CV", "FIN">>)>>
TwoRecords  == <<Clear("SH"), CCS, Sealed1(<<"EE", "CR", "CERT">>), Sealed1(<<"CV", "FIN">>)>>
Retry       == <<Clear("HRR"), CCS>>

\* No CertificateVerify; Finished at once; a message behind Finished in the
\* same record; a fatal alert instead of an answer; a handshake message in
\* clear when it must be protected.
NoVerify    == <<Clear("SH"), Sealed1(<<"EE", "CERT", "FIN">>)>>
NoCert      == <<Clear("SH"), Sealed1(<<"EE", "FIN">>)>>
Trailing    == <<Clear("SH"), Sealed1(<<"EE", "CERT", "CV", "FIN", "NST">>)>>
Refusal     == <<FatalAlert>>
InClear     == <<Clear("SH"), Clear("EE")>>

\* Messages cut in two over records, a change_cipher_spec between the parts;
\* an alert between the parts; a part that is never completed.
Cut         == <<Clear("SH-"), CCS, Clear("-SH"), Sealed1(<<"EE", "CERT-">>), Sealed1(<<"-CERT", "CV", "FIN">>)>>
CutByAlert  == <<Clear("SH-"), FatalAlert>>
CutShort    == <<Clear("SH"), Sealed1(<<"EE", "CERT-">>), Sealed1(<<"CV", "FIN">>)>>

PlainFlights == {OneRecord}
AllFlights == {OneRecord, TwoRecords, Retry, NoVerify, NoCert, Trailing, Refusal, InClear,
               Cut, CutByAlert, CutShort}
=============================================================================

---------------------------- MODULE MCDnsServer ----------------------------
(***************************************************************************)
(* Instances of DnsServer: w_client with a list of names, and nslookup     *)
(* with the addresses and the types of dnslookup_test.sh.                  *)
(***************************************************************************)
EXTENDS DnsServer

CONSTANTS w_client, nslookup

qq == <<113, 113, Dot, 99>>
oa == <<111, Dot, 111, 97, Dot, 99>>
A(name) == [type |-> "A", name |-> name]
Ptr(a) == [type |-> "PTR", addr |-> a]
Txt(name) == [type |-> "TXT", name |-> name]

MCARecords == [n \in {qq, oa} |-> IF n = qq THEN <<1, 2, 3, 4>> ELSE <<210, 20, 0, 127>>]
MCPtrRecords == [a \in {<<10, 10, 10, 10>>, <<1, 2, 3, 4>>} |->
                   IF a[1] = 10 THEN <<116, 45, 115>> ELSE qq]

\* One of the names is in no file; its request may come twice.
MCAsks == [c \in Clients |->
             IF c = w_client THEN <<A(<<120>>), A(oa)>>
             ELSE <<Ptr(<<10, 10, 10, 10>>), Txt(qq)>>]
=============================================================================

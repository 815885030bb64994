----------------------------- MODULE DnsServer -----------------------------
(***************************************************************************)
(* The DNS server (dns_server/w_dnsserver.cpp) and those who ask it:       *)
(* w_client, which looks up one name after another, and nslookup.          *)
(*                                                                         *)
(* The server is one loop around epoll_wait on one UDP socket, which is    *)
(* edge triggered.  It reads one request when the socket is readable,      *)
(* builds the answer in its one buffer, waits for the socket to be         *)
(* writable, sends, and waits for the next request.  The kernel's socket   *)
(* and epoll are modelled from how the loop uses them: an event is pending *)
(* (edge) when a datagram comes while the loop is interested in reading,   *)
(* and when epoll_ctl finds the socket ready for the interest it sets.     *)
(*                                                                         *)
(* Names are sequences of characters, and a character is its code.         *)
(***************************************************************************)
EXTENDS Integers, Sequences, FiniteSets

CONSTANTS Clients,     \* the programs that ask
          Asks,        \* Asks[c]: the questions of c, in order
          ARecords,    \* conf/a_record: from names to addresses
          PtrRecords,  \* conf/ptr_record: from addresses to names
          QueueSize,   \* datagrams the socket's buffer holds
          MaxRepeats,  \* requests that the network delivers twice, at most
          NULL

Octet == 0..255
Address == [1..4 -> Octet]
Name == Seq(Octet)

Question == [type : {"A"}, name : Name] \cup [type : {"PTR"}, addr : Address]
              \cup [type : {"TXT"}, name : Name]

ASSUME AsksAssumption == Asks \in [Clients -> Seq(Question)]
ASSUME RecordsAssumption ==
  /\ DOMAIN ARecords \subseteq Name /\ ARecords \in [DOMAIN ARecords -> Address]
  /\ DOMAIN PtrRecords \subseteq Address /\ PtrRecords \in [DOMAIN PtrRecords -> Name]
ASSUME BoundsAssumption == QueueSize \in Nat \ {0} /\ MaxRepeats \in Nat

\* Each lookup has a socket of its own.
Sockets == UNION {{<<c, k>> : k \in DOMAIN Asks[c]} : c \in Clients}
QuestionOf(s) == Asks[s[1]][s[2]]

ASSUME NullAssumption == NULL \notin Sockets

VARIABLES
  turn,       \* turn[c]: the number of lookups c has begun
  result,     \* result[s]: what the lookup got, if anything
  copies,     \* copies[s]: times the request of s was delivered
  noisy,      \* does a datagram that fails its checksum ever arrive?
  queue,      \* the requests in the socket's buffer, by their sockets
  spoilt,     \* is there a datagram that fails its checksum?
  interest,   \* what the loop has registered: "in" or "out"
  edge,       \* is an event pending?
  pc,         \* what the loop does next
  clientaddr, res_buf,
  ipMap, ptrMap,   \* keyed by the text that a request carries
  answers     \* answers[s]: what the server has sent to s

clients == <<turn, result>>
socket == <<copies, noisy, queue, spoilt>>
maps == <<ipMap, ptrMap>>
vars == <<clients, socket, interest, edge, pc, clientaddr, res_buf, maps, answers>>

-----------------------------------------------------------------------------
(* Names, addresses and records.                                           *)

Dot == 46
Zero == 48

\* The domain that resolvers ask in for an address: the labels "in-addr" and
\* "arpa", of which one letter each is kept.
Arpa == <<Dot, 105, Dot, 97>>

Digits(n) ==
  IF n < 10 THEN <<Zero + n>>
  ELSE IF n < 100 THEN <<Zero + n \div 10, Zero + (n % 10)>>
  ELSE <<Zero + n \div 100, Zero + ((n \div 10) % 10), Zero + (n % 10)>>

AddrText(a) ==
  Digits(a[1]) \o <<Dot>> \o Digits(a[2]) \o <<Dot>> \o Digits(a[3]) \o <<Dot>> \o Digits(a[4])
Backwards(a) == [k \in 1..4 |-> a[5 - k]]

\* A name as a packet carries it: the length of each label, in the place of the
\* dot before it, the label, and a zero at the end.
LabelLength(text, k) ==
  CHOOSE n \in 0..Len(text) + 1 - k :
    /\ \A i \in k..k + n - 1 : text[i] # Dot
    /\ k + n = Len(text) + 1 \/ text[k + n] = Dot
Encode(text) ==
  [k \in 1..Len(text) + 1 |->
     IF k = 1 \/ text[k - 1] = Dot THEN LabelLength(text, k) ELSE text[k - 1]] \o <<0>>

\* Mutant: no dots between the labels.
QueryDomainNoDots(buf) ==
  LET from[p \in DOMAIN buf] ==
        SubSeq(buf, p + 1, p + buf[p])
          \o IF buf[p + buf[p] + 1] = 0 THEN <<>> ELSE from[p + buf[p] + 1]
  IN IF buf[1] = 0 THEN <<>> ELSE from[1]

\* The text of an encoded name, which ends before a label of length 0.
QueryDomain(buf) ==
  LET from[p \in DOMAIN buf] ==
        SubSeq(buf, p + 1, p + buf[p])
          \o IF buf[p + buf[p] + 1] = 0 THEN <<>> ELSE <<Dot>> \o from[p + buf[p] + 1]
  IN IF buf[1] = 0 THEN <<>> ELSE from[1]

\* The names that the requests carry: a resolver asks for the octets of an
\* address backwards.
Asked == [s \in Sockets |->
            LET q == QuestionOf(s)
            IN Encode(IF q.type = "PTR" THEN AddrText(Backwards(q.addr)) \o Arpa ELSE q.name)]

\* A char is signed, and so are its shifts: a negative octet takes one from the
\* octet before it when the four are added.
Char(n) == IF n % 256 < 128 THEN n % 256 ELSE (n % 256) - 256
Packed(c) ==
  LET b3 == c[4] \div 256
      b2 == (c[3] + b3) \div 256
      b1 == (c[2] + b2) \div 256
  IN [k \in 1..4 |-> (CASE k = 1 -> c[1] + b1 [] k = 2 -> c[2] + b2
                        [] k = 3 -> c[3] + b3 [] k = 4 -> c[4]) % 256]

\* GetIp, on the text that ipMap has for a name: NULL stands for no text.
GetIp(addr) ==
  IF addr = NULL THEN [k \in 1..4 |-> 0] ELSE Packed([k \in 1..4 |-> Char(addr[k])])

\* MakeDomain: an encoded name up to its first zero.
MakeDomain(name) ==
  LET buf == Encode(name)
      end == CHOOSE k \in DOMAIN buf : buf[k] = 0 /\ \A i \in 1..k - 1 : buf[i] # 0
  IN SubSeq(buf, 1, end)

ARecord(addr) == [type |-> "A", data |-> addr]
PtrRecord(name) == [type |-> "PTR", data |-> MakeDomain(name)]
NoRecord == [type |-> "none"]

\* The results of a lookup that are no answer.
Unasked == [type |-> "unasked"]
Waiting == [type |-> "waiting"]
TimedOut == [type |-> "timed out"]

\* map[key]: operator [] of std::map, and the map it leaves.
At(map, key, empty) == IF key \in DOMAIN map THEN map[key] ELSE empty
Touched(map, key, empty) ==
  [k \in DOMAIN map \cup {key} |-> At(map, k, empty)]

\* InitPtrMap: an address stands for itself, and before the resolvers' domain,
\* its octets in the order of the file.
PtrTexts ==
  [t \in UNION {{AddrText(a), AddrText(a) \o Arpa} : a \in DOMAIN PtrRecords} |->
     PtrRecords[CHOOSE a \in DOMAIN PtrRecords : t \in {AddrText(a), AddrText(a) \o Arpa}]]

-----------------------------------------------------------------------------

Init ==
  /\ turn = [c \in Clients |-> 0]
  /\ result = [s \in Sockets |-> Unasked]
  /\ copies = [s \in Sockets |-> 0]
  /\ noisy \in BOOLEAN
  /\ queue = <<>>
  /\ spoilt = FALSE
  /\ interest = "in"
  /\ edge = FALSE
  /\ pc = "wait"
  /\ clientaddr = NULL
  /\ res_buf = NoRecord
  /\ ipMap = ARecords
  /\ ptrMap = PtrTexts
  /\ answers = [s \in Sockets |-> <<>>]

(* The clients and the network.                                            *)

\* The next lookup: a new socket, and the request is sent.
Lookup(c) ==
  /\ turn[c] < Len(Asks[c])
  /\ turn[c] > 0 => result[<<c, turn[c]>>] # Waiting
  /\ turn' = [turn EXCEPT ![c] = @ + 1]
  /\ result' = [result EXCEPT ![<<c, turn'[c]>>] = Waiting]
  /\ UNCHANGED <<socket, interest, edge, pc, clientaddr, res_buf, maps, answers>>

\* The lookup receives an answer, or gives up after five seconds.
GetAnswer(s) ==
  /\ result[s] = Waiting
  /\ \E k \in DOMAIN answers[s] : result' = [result EXCEPT ![s] = answers[s][k]]
  /\ UNCHANGED <<turn, socket, interest, edge, pc, clientaddr, res_buf, maps, answers>>
TimeOut(s) ==
  /\ result[s] = Waiting
  /\ result' = [result EXCEPT ![s] = TimedOut]
  /\ UNCHANGED <<turn, socket, interest, edge, pc, clientaddr, res_buf, maps, answers>>

\* The network delivers a request, soon or late, once or twice, or never.  (One
\* kind of fault at a time: a noisy one does not also repeat.)
Deliver(s) ==
  /\ result[s] # Unasked
  /\ \/ copies[s] = 0
     \/ copies[s] = 1 /\ ~noisy /\ Cardinality({u \in Sockets : copies[u] = 2}) < MaxRepeats
  /\ Len(queue) < QueueSize
  /\ copies' = [copies EXCEPT ![s] = @ + 1]
  /\ queue' = Append(queue, s)
  /\ edge' = (edge \/ interest = "in")
  /\ UNCHANGED <<clients, noisy, spoilt, interest, pc, clientaddr, res_buf, maps, answers>>

\* A datagram that fails its checksum.  One behind others is as if it came when
\* they have been read.
DeliverSpoilt ==
  /\ noisy
  /\ queue = <<>>
  /\ spoilt' = TRUE
  /\ edge' = (edge \/ interest = "in")
  /\ UNCHANGED <<clients, copies, noisy, queue, interest, pc, clientaddr, res_buf, maps, answers>>

-----------------------------------------------------------------------------
(* W_DnsServer::Run                                                        *)

Readable == queue # <<>> \/ spoilt

\* epoll_wait looks at the socket once more before it reports a pending event.
Wait ==
  /\ pc = "wait"
  /\ edge
  /\ edge' = FALSE
  /\ pc' = IF interest = "out" THEN "sendto" ELSE IF Readable THEN "recvfrom" ELSE "wait"
  /\ UNCHANGED <<clients, socket, interest, clientaddr, res_buf, maps, answers>>

\* GetRes: the record for the type and the name in the request of s.
Record(s, ips, ptrs) ==
  LET query_dom == QueryDomain(Asked[s]) IN
  CASE QuestionOf(s).type = "A" -> ARecord(GetIp(At(ips, query_dom, NULL)))
    [] QuestionOf(s).type = "PTR" -> PtrRecord(At(ptrs, query_dom, <<>>))
    [] OTHER -> NoRecord

GetRes(s) ==
  LET Leaves(map, type, empty) ==
        IF QuestionOf(s).type = type THEN Touched(map, QueryDomain(Asked[s]), empty) ELSE map IN
  /\ res_buf' = Record(s, ipMap, ptrMap)
  /\ ipMap' = Leaves(ipMap, "A", NULL)
  /\ ptrMap' = Leaves(ptrMap, "PTR", <<>>)

\* Mutant: the address of the first client is kept.
RecvfromKeepsAddress ==
  /\ pc = "recvfrom"
  /\ queue # <<>>
  /\ queue' = Tail(queue)
  /\ spoilt' = FALSE
  /\ clientaddr' = IF clientaddr = NULL THEN Head(queue) ELSE clientaddr
  /\ GetRes(Head(queue))
  /\ pc' = "mod_out"
  /\ UNCHANGED <<clients, copies, noisy, interest, edge, answers>>

\* recvfrom throws spoilt datagrams away.
Recvfrom ==
  /\ pc = "recvfrom"
  /\ queue # <<>>
  /\ queue' = Tail(queue)
  /\ spoilt' = FALSE
  /\ clientaddr' = Head(queue)
  /\ GetRes(Head(queue))
  /\ pc' = "mod_out"
  /\ UNCHANGED <<clients, copies, noisy, interest, edge, answers>>

\* With nothing else to read, it fails; the loop goes on with -1 for the size of
\* the request, which GetRes copies.
RecvfromFails ==
  /\ pc = "recvfrom"
  /\ queue = <<>>
  /\ spoilt' = FALSE
  /\ pc' = "undefined"
  /\ UNCHANGED <<clients, copies, noisy, queue, interest, edge, clientaddr, res_buf, maps,
                 answers>>

\* epoll_ctl with EPOLL_CTL_MOD: the socket is always writable.
ModOut ==
  /\ pc = "mod_out"
  /\ interest' = "out"
  /\ edge' = TRUE
  /\ pc' = "wait"
  /\ UNCHANGED <<clients, socket, clientaddr, res_buf, maps, answers>>

\* Mutant: reads the next request without a look at epoll.
SendtoAndRead ==
  /\ pc = "sendto"
  /\ answers' = [answers EXCEPT ![clientaddr] = Append(@, res_buf)]
  /\ pc' = "recvfrom"
  /\ UNCHANGED <<clients, socket, interest, edge, clientaddr, res_buf, maps>>

Sendto ==
  /\ pc = "sendto"
  /\ answers' = [answers EXCEPT ![clientaddr] = Append(@, res_buf)]
  /\ pc' = "mod_in"
  /\ UNCHANGED <<clients, socket, interest, edge, clientaddr, res_buf, maps>>

\* Mutant: the interest changes and epoll does not look at the socket.
ModInQuietly ==
  /\ pc = "mod_in"
  /\ interest' = "in"
  /\ pc' = "wait"
  /\ UNCHANGED <<clients, socket, edge, clientaddr, res_buf, maps, answers>>

ModIn ==
  /\ pc = "mod_in"
  /\ interest' = "in"
  /\ edge' = (edge \/ Readable)
  /\ pc' = "wait"
  /\ UNCHANGED <<clients, socket, clientaddr, res_buf, maps, answers>>

Run == Wait \/ Recvfrom \/ RecvfromFails \/ ModOut \/ Sendto \/ ModIn
ClientStep == (\E c \in Clients : Lookup(c)) \/ (\E s \in Sockets : GetAnswer(s) \/ TimeOut(s))
NetworkStep == DeliverSpoilt \/ \E s \in Sockets : Deliver(s)

Next == Run \/ ClientStep \/ NetworkStep

Spec == Init /\ [][Next]_vars

\* The server's process runs; the network and the clients need not do anything.
FairSpec == Spec /\ WF_vars(Run)

-----------------------------------------------------------------------------
(* Properties                                                              *)

\* A request in the buffer or an answer to send always has its event: whenever
\* the loop is at epoll_wait with something to do, epoll_wait will return.
NoLostEvent == pc = "wait" /\ (interest = "out" \/ Readable) => edge

\* The loop never reads from an empty socket, whose failure it would take for a
\* request of -1 bytes, unless a datagram arrives spoilt.
ReadsFindRequests == ~noisy => pc # "undefined" /\ (pc = "recvfrom" => queue # <<>>)

\* The answers that the files promise.
TrueAnswer(q) ==
  CASE q.type = "A" -> ARecord(At(ARecords, q.name, [k \in 1..4 |-> 0]))
    [] q.type = "PTR" -> PtrRecord(At(PtrRecords, q.addr, <<>>))
    [] OTHER -> NoRecord

\* The questions the server gets right: octets after the first are below 128, see
\* Packed, and an address reads the same backwards, see PtrTexts.
Plain(q) ==
  /\ q.type = "A" /\ q.name \in DOMAIN ARecords =>
       \A k \in 2..4 : ARecords[q.name][k] < 128
  /\ q.type = "PTR" => q.addr = Backwards(q.addr)

\* What the server finds in the files for a plain question is the true answer.
\* The theorems take it as their hypothesis, and the instance satisfies it.
AnswersTrue ==
  \A s \in Sockets :
    Plain(QuestionOf(s)) => Record(s, ARecords, PtrTexts) = TrueAnswer(QuestionOf(s))

\* A lookup gets the answer to its own question or gives up, whatever requests
\* of others, late and repeated ones and earlier lookups of names that no file
\* has are served in the meantime.
AnswersMatch ==
  \A s \in Sockets :
    Plain(QuestionOf(s)) => result[s] \in {Unasked, Waiting, TimedOut, TrueAnswer(QuestionOf(s))}

\* Is the answer in the server's buffer still to be sent?
Busy == pc \in {"mod_out", "sendto"} \/ (pc = "wait" /\ interest = "out")

\* The requests are answered one at a time, in order, each once and to the one
\* who sent it, although they share one buffer and one address.  What no plain
\* question gets is at least what the files as they were read have for it.
Answer == [s \in Sockets |-> IF Plain(QuestionOf(s)) THEN TrueAnswer(QuestionOf(s))
                             ELSE Record(s, ARecords, PtrTexts)]
current == IF Busy THEN clientaddr ELSE NULL
Service == INSTANCE AnswerService WITH Sources <- Sockets, None <- NULL, inbox <- queue
ImplementsAnswerService == Service!Spec

\* Every request that reaches the buffer is answered in the end, also those that
\* came together behind one event.
EveryRequestIsAnswered == ~noisy => <>[](queue = <<>> /\ ~Busy)
=============================================================================

-------------------------- MODULE DnsServerProofs --------------------------
(***************************************************************************)
(* Proofs about DnsServer: no event is lost, the loop reads only where     *)
(* there is a request, and each request is answered once, in order and to  *)
(* the one who sent it.                                                    *)
(***************************************************************************)
EXTENDS DnsServer, TLAPS

\* What the steps of the loop imply for one another, and that looking a key up in
\* a map changes what the map has for no key.
PCs == {"wait", "recvfrom", "mod_out", "sendto", "mod_in", "undefined"}
LoopOK ==
  /\ queue \in Seq(Sockets)
  /\ noisy \in BOOLEAN /\ spoilt \in BOOLEAN /\ edge \in BOOLEAN
  /\ interest \in {"in", "out"}
  /\ pc \in PCs
  /\ pc \in {"recvfrom", "mod_out"} => interest = "in"
  /\ pc \in {"sendto", "mod_in"} => interest = "out"
  /\ ~noisy => ~spoilt

MapsKept ==
  /\ \A key : At(ipMap, key, NULL) = At(ARecords, key, NULL)
  /\ \A key : At(ptrMap, key, <<>>) = At(PtrTexts, key, <<>>)

HeldAnswer ==
  Busy => clientaddr \in Sockets /\ res_buf = Record(clientaddr, ARecords, PtrTexts)

Inv == LoopOK /\ NoLostEvent /\ ReadsFindRequests

-----------------------------------------------------------------------------

\* Operator [] of std::map leaves every key with the value it had, or the empty
\* one it would have got.
LEMMA TouchedKeeps ==
  ASSUME NEW map, NEW touched, NEW key, NEW empty
  PROVE  At(Touched(map, touched, empty), key, empty) = At(map, key, empty)
BY DEF At, Touched

\* An address whose octets after the first are below 128 comes out of GetIp as it
\* went in, for every address.
LEMMA LowOctetsKept ==
  ASSUME NEW addr \in Address, \A k \in 2..4 : addr[k] < 128, addr # NULL
  PROVE  GetIp(addr) = addr
<1> DEFINE c == [k \in 1..4 |-> Char(addr[k])]
<1>1. \A k \in 1..4 : addr[k] \in 0..255
  BY DEF Address, Octet
<1>2. c[2] = addr[2] /\ c[3] = addr[3] /\ c[4] = addr[4]
  BY <1>1 DEF Char
<1>3. c[1] % 256 = addr[1] /\ c[1] \in Int
  BY <1>1 DEF Char
<1>4. c[4] \div 256 = 0 /\ c[4] % 256 = addr[4]
  BY <1>1, <1>2
<1>5. (c[3] + 0) \div 256 = 0 /\ (c[3] + 0) % 256 = addr[3]
  BY <1>1, <1>2
<1>6. (c[2] + 0) \div 256 = 0 /\ (c[2] + 0) % 256 = addr[2]
  BY <1>1, <1>2
<1>7. (c[1] + 0) % 256 = addr[1]
  BY <1>3
<1> HIDE DEF c
<1>8. \A k \in 1..4 : Packed(c)[k] = addr[k]
  BY <1>4, <1>5, <1>6, <1>7 DEF Packed
<1>9. Packed(c) = addr
  BY <1>8 DEF Packed, Address
<1> QED
  BY <1>9 DEF GetIp, c

-----------------------------------------------------------------------------
(* The loop.                                                               *)

LEMMA InvInit == Init => Inv
<1> SUFFICES ASSUME Init PROVE Inv
  OBVIOUS
<1>1. queue = <<>> /\ spoilt = FALSE /\ edge = FALSE /\ interest = "in" /\ pc = "wait"
  BY DEF Init
<1>2. noisy \in BOOLEAN
  BY DEF Init
<1>3. queue \in Seq(Sockets) /\ ~Readable
  BY <1>1 DEF Readable
<1> QED
  BY <1>1, <1>2, <1>3 DEF Inv, LoopOK, NoLostEvent, ReadsFindRequests, PCs

LEMMA InvNext == Inv /\ [Next]_vars => Inv'
<1> SUFFICES ASSUME Inv, [Next]_vars PROVE Inv'
  OBVIOUS
<1> USE DEF Inv, LoopOK, NoLostEvent, ReadsFindRequests, Readable, PCs
<1>1. CASE Wait
  BY <1>1 DEF Wait, socket
<1>2. CASE Recvfrom
  <2>1. queue' \in Seq(Sockets)
    BY <1>2 DEF Recvfrom
  <2>2. pc' = "mod_out" /\ interest' = "in" /\ spoilt' = FALSE
    BY <1>2 DEF Recvfrom
  <2>3. UNCHANGED <<noisy, edge>>
    BY <1>2 DEF Recvfrom
  <2> QED
    BY <2>1, <2>2, <2>3
<1>3. CASE RecvfromFails
  BY <1>3 DEF RecvfromFails
<1>4. CASE ModOut
  BY <1>4 DEF ModOut, socket
<1>5. CASE Sendto
  BY <1>5 DEF Sendto, socket
<1>6. CASE ModIn
  BY <1>6 DEF ModIn, socket
<1>7. CASE ClientStep
  <2>1. UNCHANGED <<queue, noisy, spoilt, edge, interest, pc>>
    BY <1>7 DEF ClientStep, Lookup, GetAnswer, TimeOut, socket
  <2> QED
    BY <2>1
<1>8. CASE DeliverSpoilt
  BY <1>8 DEF DeliverSpoilt
<1>9. ASSUME NEW s \in Sockets, Deliver(s) PROVE Inv'
  <2>1. queue' \in Seq(Sockets) /\ queue' # <<>>
    BY <1>9 DEF Deliver
  <2> QED
    BY <1>9, <2>1 DEF Deliver
<1>10. CASE UNCHANGED vars
  BY <1>10 DEF vars, socket
<1> QED
  BY <1>1, <1>2, <1>3, <1>4, <1>5, <1>6, <1>7, <1>8, <1>9, <1>10
  DEF Next, Run, NetworkStep

THEOREM Invariance == Spec => []Inv
<1> QED
  BY InvInit, InvNext, PTL DEF Spec

\* At epoll_wait with a request in the buffer or an answer to send, the event is
\* always pending: the edge-triggered loop never sleeps over work.
THEOREM EventsNotLost == Spec => []NoLostEvent
<1>1. Inv => NoLostEvent
  BY DEF Inv
<1> QED
  BY <1>1, Invariance, PTL

\* Without spoilt datagrams recvfrom always finds a request.
THEOREM RequestsFound == Spec => []ReadsFindRequests
<1>1. Inv => ReadsFindRequests
  BY DEF Inv
<1> QED
  BY <1>1, Invariance, PTL

-----------------------------------------------------------------------------
(* The answers.                                                            *)

AInv == MapsKept /\ HeldAnswer

LEMMA AInvInit == Init => AInv
BY DEF Init, AInv, MapsKept, HeldAnswer, Busy

LEMMA AInvNext == Inv /\ AInv /\ [Next]_vars => AInv'
<1> SUFFICES ASSUME Inv, AInv, [Next]_vars PROVE AInv'
  OBVIOUS
<1> USE DEF AInv, HeldAnswer, Busy
<1>1. CASE Wait
  BY <1>1 DEF Wait, maps, MapsKept, Inv, LoopOK, PCs
<1>2. CASE Recvfrom
  <2>1. MapsKept'
    BY <1>2, TouchedKeeps DEF Recvfrom, GetRes, MapsKept
  <2>2. clientaddr' \in Sockets /\ clientaddr' = Head(queue)
    BY <1>2 DEF Recvfrom, Inv, LoopOK
  <2>3. res_buf' = Record(Head(queue), ARecords, PtrTexts)
    BY <1>2 DEF Recvfrom, GetRes, Record, MapsKept
  <2> QED
    BY <2>1, <2>2, <2>3
<1>3. CASE RecvfromFails
  BY <1>3 DEF RecvfromFails, maps, MapsKept
<1>4. CASE ModOut
  BY <1>4 DEF ModOut, maps, MapsKept
<1>5. CASE Sendto
  BY <1>5 DEF Sendto, maps, MapsKept
<1>6. CASE ModIn
  BY <1>6 DEF ModIn, maps, MapsKept
<1>7. CASE ClientStep
  BY <1>7 DEF ClientStep, Lookup, GetAnswer, TimeOut, maps, MapsKept
<1>8. CASE NetworkStep
  BY <1>8 DEF NetworkStep, DeliverSpoilt, Deliver, maps, MapsKept
<1>9. CASE UNCHANGED vars
  BY <1>9 DEF vars, maps, MapsKept
<1> QED
  BY <1>1, <1>2, <1>3, <1>4, <1>5, <1>6, <1>7, <1>8, <1>9 DEF Next, Run

LEMMA StepRefines ==
  ASSUME AnswersTrue, Inv, AInv, [Next]_vars
  PROVE  [Service!Next]_<<queue, current, answers>>
<1> USE DEF current, Busy
<1>1. CASE Wait
  BY <1>1 DEF Wait, socket, Inv, LoopOK, PCs
<1>2. CASE Recvfrom
  <2>1. Service!Take
    BY <1>2, NullAssumption DEF Service!Take, Recvfrom
  <2> QED
    BY <2>1 DEF Service!Next
<1>3. CASE RecvfromFails
  BY <1>3 DEF RecvfromFails
<1>4. CASE ModOut
  BY <1>4 DEF ModOut, socket
<1>5. CASE Sendto
  <2>1. clientaddr \in Sockets /\ clientaddr # NULL /\ res_buf = Answer[clientaddr]
    BY <1>5, NullAssumption DEF Sendto, AInv, HeldAnswer, AnswersTrue, Answer
  <2>2. Service!Reply
    BY <1>5, <2>1 DEF Service!Reply, Sendto, socket
  <2> QED
    BY <2>2 DEF Service!Next
<1>6. CASE ModIn
  BY <1>6 DEF ModIn, socket
<1>7. CASE ClientStep
  BY <1>7 DEF ClientStep, Lookup, GetAnswer, TimeOut, socket
<1>8. CASE DeliverSpoilt
  BY <1>8 DEF DeliverSpoilt
<1>9. ASSUME NEW s \in Sockets, Deliver(s) PROVE Service!Next
  <2>1. Service!Arrive(s)
    BY <1>9 DEF Service!Arrive, Deliver
  <2> QED
    BY <2>1 DEF Service!Next
<1>10. CASE UNCHANGED vars
  BY <1>10 DEF vars, socket
<1> QED
  BY <1>1, <1>2, <1>3, <1>4, <1>5, <1>6, <1>7, <1>8, <1>9, <1>10
  DEF Next, Run, NetworkStep

\* The loop with its one buffer and one address implements AnswerService: each
\* request is answered once, in order, to the one who sent it and with the record
\* that the files had, whatever was looked up before.
THEOREM OneAnswerEach == ASSUME AnswersTrue PROVE Spec => ImplementsAnswerService
<1>1. Init => Service!Init
  BY DEF Init, Service!Init, current, Busy
<1>2. Inv /\ AInv /\ [Next]_vars => [Service!Next]_<<queue, current, answers>>
  BY StepRefines
<1>3. Spec => []AInv
  BY AInvInit, AInvNext, Invariance, PTL DEF Spec
<1> QED
  BY <1>1, <1>2, <1>3, Invariance, PTL DEF Spec, ImplementsAnswerService, Service!Spec

-----------------------------------------------------------------------------
(* What the lookups get.                                                   *)

\* All that was ever sent to a lookup is what the files had for it, and a lookup
\* that has a result has one that was sent to it.
Sent(s) == {Record(s, ARecords, PtrTexts)}
RInv ==
  /\ DOMAIN answers = Sockets /\ DOMAIN result = Sockets
  /\ \A s \in Sockets : answers[s] \in Seq(Sent(s))
  /\ \A s \in Sockets : result[s] \in {Unasked, Waiting, TimedOut} \cup Sent(s)

LEMMA RInvInit == Init => RInv
BY DEF Init, RInv

LEMMA RInvNext == AInv /\ RInv /\ [Next]_vars => RInv'
<1> SUFFICES ASSUME AInv, RInv, [Next]_vars PROVE RInv'
  OBVIOUS
<1>1. \A s : Sent(s)' = Sent(s)
  BY DEF Sent
<1>2. CASE UNCHANGED <<answers, result>>
  BY <1>1, <1>2 DEF RInv
<1>3. CASE Sendto
  <2>1. clientaddr \in Sockets /\ res_buf \in Sent(clientaddr)
    BY <1>3 DEF Sendto, AInv, HeldAnswer, Busy, Sent
  <2>2. answers' = [answers EXCEPT ![clientaddr] = Append(@, res_buf)] /\ result' = result
    BY <1>3 DEF Sendto, clients
  <2>3. Append(answers[clientaddr], res_buf) \in Seq(Sent(clientaddr))
    BY <2>1 DEF RInv
  <2>4. \A s \in Sockets : answers'[s] \in Seq(Sent(s))
    BY <2>1, <2>2, <2>3 DEF RInv
  <2> QED
    BY <1>1, <2>2, <2>4 DEF RInv
<1>4. ASSUME NEW c \in Clients, Lookup(c) PROVE RInv'
  <2>1. answers' = answers /\ result' = [result EXCEPT ![<<c, turn'[c]>>] = Waiting]
    BY <1>4 DEF Lookup
  <2> QED
    BY <1>1, <2>1 DEF RInv
<1>5. ASSUME NEW s \in Sockets, GetAnswer(s) PROVE RInv'
  <2>1. answers' = answers
    BY <1>5 DEF GetAnswer
  <2>2. PICK k \in DOMAIN answers[s] : result' = [result EXCEPT ![s] = answers[s][k]]
    BY <1>5 DEF GetAnswer
  <2>3. answers[s][k] \in Sent(s)
    BY <2>2 DEF RInv
  <2> QED
    BY <1>1, <2>1, <2>2, <2>3 DEF RInv
<1>6. ASSUME NEW s \in Sockets, TimeOut(s) PROVE RInv'
  <2>1. answers' = answers /\ result' = [result EXCEPT ![s] = TimedOut]
    BY <1>6 DEF TimeOut
  <2> QED
    BY <1>1, <2>1 DEF RInv
<1>7. CASE NetworkStep
  <2>1. UNCHANGED <<answers, result>>
    BY <1>7 DEF NetworkStep, DeliverSpoilt, Deliver, clients
  <2> QED
    BY <1>2, <2>1
<1>8. CASE Run /\ ~Sendto
  <2>1. UNCHANGED <<answers, result>>
    BY <1>8 DEF Run, Wait, Recvfrom, RecvfromFails, ModOut, ModIn, clients
  <2> QED
    BY <1>2, <2>1
<1>9. CASE UNCHANGED vars
  <2>1. UNCHANGED <<answers, result>>
    BY <1>9 DEF vars, clients
  <2> QED
    BY <1>2, <2>1
<1> QED
  BY <1>3, <1>4, <1>5, <1>6, <1>7, <1>8, <1>9 DEF Next, ClientStep

\* A lookup that the server can answer gets the answer to its own question or
\* gives up, with any clients, requests repeated, late and lost, and a network
\* that spoils datagrams.
THEOREM RightAnswers == ASSUME AnswersTrue PROVE Spec => []AnswersMatch
<1>1. Spec => []AInv
  BY AInvInit, AInvNext, Invariance, PTL DEF Spec
<1>2. Spec => []RInv
  BY <1>1, RInvInit, RInvNext, PTL DEF Spec
<1>3. RInv => AnswersMatch
  BY AnswersTrue DEF RInv, AnswersMatch, AnswersTrue, Sent
<1> QED
  BY <1>2, <1>3, PTL
=============================================================================

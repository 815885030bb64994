---------------------------- MODULE TransferConn ----------------------------
(***************************************************************************)
(* The connections of the transfer server (transfer/transfer_server.cpp):  *)
(* its one thread accepts a client, cuts what it sends into packets, and   *)
(* writes each into the shared memory, until the connection ends.          *)
(*                                                                         *)
(* A packet is a header of MSG_HEADER_LEN bytes, whose last two are the    *)
(* length of what follows.  The thread reads each part with one read, into *)
(* a buffer that keeps what was there before.  Positions count bytes.      *)
(* What the relay does with a packet is ShmRelay.                          *)
(***************************************************************************)
EXTENDS Integers, Sequences, FiniteSets, SequencesExt

CONSTANTS MSG_HEADER_LEN, PACKAGE_SIZE,    \* 51 and 8192
          Clients,
          Payloads,    \* of a client: the length of each of its packets
          Cuts,        \* bytes of a stream at which the network may split it
          OtherLens,   \* the last two bytes of what is not a header
          NONE

\* plain: packets arrive whole.  cut: in two pieces.  reset: the connection is
\* reset at some packet's end.
Fault == {"plain", "cut", "reset"}

ASSUME LengthsAssumption ==
  MSG_HEADER_LEN \in Nat \ {0} /\ PACKAGE_SIZE \in Nat /\ MSG_HEADER_LEN < PACKAGE_SIZE
ASSUME PayloadsAssumption ==
  Payloads \in [Clients -> Seq(0..PACKAGE_SIZE - MSG_HEADER_LEN)]
ASSUME CutsAssumption == Cuts \subseteq Nat \ {0} /\ OtherLens \subseteq Nat
ASSUME NoneAssumption == NONE \notin Clients

VARIABLES
  fault, cut,   \* of a client's connection: what may happen to it, and where
  client,       \* has the client yet to connect; is the connection open, closed, reset?
  error,        \* is there a reset that no read has returned?
  arrived,      \* the bytes that have arrived
  backlog,      \* the connections to accept
  thread_pc, conn_fd,   \* of the thread
  pos,          \* the bytes read from a connection
  head, body,   \* in buffer: whose header and payload, NONE for neither's
  len,
  written       \* written[c]: the packets written while c was served

net == <<fault, cut, client, arrived, backlog>>
conn_vars == <<net, error, thread_pc, conn_fd, pos, head, body, len, written>>

\* The first byte of each packet of c, counted from 0, and the end of the last.
Packets(c) == DOMAIN Payloads[c]
Start(c) ==
  LET first[n \in 1..Len(Payloads[c]) + 1] ==
        IF n = 1 THEN 0 ELSE first[n - 1] + MSG_HEADER_LEN + Payloads[c][n - 1]
  IN first
End(c) == Start(c)[Len(Payloads[c]) + 1]

ConnInit ==
  /\ fault \in [Clients -> Fault]
  /\ cut \in [Clients -> {0} \cup Cuts]
  /\ \A c \in Clients : (cut[c] # 0) = (fault[c] = "cut")
  /\ client = [c \in Clients |-> "none"]
  /\ error = [c \in Clients |-> FALSE]
  /\ arrived = [c \in Clients |-> 0]
  /\ backlog = <<>>
  /\ thread_pc = "accept" /\ conn_fd = NONE
  /\ pos = [c \in Clients |-> 0]
  /\ head = NONE /\ body = NONE
  /\ len = 0
  /\ written = [c \in Clients |-> <<>>]

-----------------------------------------------------------------------------
(* The clients and the network                                             *)

ClientConnects(c) ==
  /\ client[c] = "none"
  /\ client' = [client EXCEPT ![c] = "open"]
  /\ backlog' = Append(backlog, c)
  /\ UNCHANGED <<fault, cut, error, arrived, thread_pc, conn_fd, pos, head, body, len, written>>

\* The rest of a packet arrives, or what of it is before the cut.
Arrive(c) ==
  /\ client[c] = "open" /\ arrived[c] < End(c)
  /\ LET stops == {Start(c)[n + 1] : n \in Packets(c)} \cup {cut[c]}
         ahead == {s \in stops : s > arrived[c]}
     IN arrived' = [arrived EXCEPT ![c] = CHOOSE s \in ahead : \A r \in ahead : s <= r]
  /\ UNCHANGED <<fault, cut, client, error, backlog, thread_pc, conn_fd, pos, head, body, len, written>>

\* SendFile closes the socket, or the client ends.
Close(c) ==
  /\ client[c] = "open" /\ arrived[c] = End(c)
  /\ client' = [client EXCEPT ![c] = "closed"]
  /\ UNCHANGED <<fault, cut, error, arrived, backlog, thread_pc, conn_fd, pos, head, body, len, written>>

Reset(c) ==
  /\ fault[c] = "reset" /\ client[c] = "open"
  /\ client' = [client EXCEPT ![c] = "reset"]
  /\ error' = [error EXCEPT ![c] = TRUE]
  /\ UNCHANGED <<fault, cut, arrived, backlog, thread_pc, conn_fd, pos, head, body, len, written>>

-----------------------------------------------------------------------------
(* thread_main                                                             *)

Accept ==
  /\ thread_pc = "accept" /\ backlog # <<>>
  /\ conn_fd' = Head(backlog)
  /\ backlog' = Tail(backlog)
  /\ thread_pc' = "header"
  /\ UNCHANGED <<fault, cut, client, error, arrived, pos, head, body, len, written>>

\* read(conn_fd, ..., n): what there is, up to n bytes; when there is nothing,
\* it waits, fails once after a reset, and returns 0 at the end.
Available == arrived[conn_fd] - pos[conn_fd]
Got(n) == IF n < Available THEN n ELSE Available
ReadSome(n) ==
  /\ Available > 0
  /\ pos' = [pos EXCEPT ![conn_fd] = @ + Got(n)]
  /\ UNCHANGED error
ReadFails ==
  /\ Available = 0 /\ error[conn_fd]
  /\ error' = [error EXCEPT ![conn_fd] = FALSE]
  /\ UNCHANGED pos
AtEnd == Available = 0 /\ client[conn_fd] # "open" /\ ~error[conn_fd]

\* Mutant: the thread tries again where it should close the connection and go on.
HeaderTriesAgain ==
  /\ thread_pc = "header" /\ AtEnd
  /\ UNCHANGED conn_vars

\* 0 == ret: the thread closes the connection and accepts another.
HeaderEnds ==
  /\ thread_pc = "header" /\ AtEnd
  /\ conn_fd' = NONE
  /\ thread_pc' = "accept"
  /\ UNCHANGED <<net, error, pos, head, body, len, written>>

\* A header is read: len is what it says if it is one, and whole.
HeaderRead ==
  /\ thread_pc = "header"
  /\ ReadSome(MSG_HEADER_LEN)
  /\ IF /\ \E n \in Packets(conn_fd) : pos[conn_fd] = Start(conn_fd)[n]
        /\ Available >= MSG_HEADER_LEN
       THEN LET n == CHOOSE k \in Packets(conn_fd) : pos[conn_fd] = Start(conn_fd)[k]
            IN head' = <<conn_fd, n>> /\ len' = Payloads[conn_fd][n]
       ELSE head' = NONE /\ len' \in OtherLens
  /\ thread_pc' = "body"
  /\ UNCHANGED <<net, conn_fd, body, written>>

\* ret is unsigned, so 0 > ret is false after a failure: the thread goes on with
\* the header that is in the buffer.
HeaderFails ==
  /\ thread_pc = "header"
  /\ ReadFails
  /\ IF head = NONE THEN len' \in OtherLens ELSE UNCHANGED len
  /\ thread_pc' = "body"
  /\ UNCHANGED <<net, conn_fd, head, body, written>>

NoBody ==
  /\ thread_pc = "body" /\ len = 0
  /\ body' = head
  /\ thread_pc' = "write"
  /\ UNCHANGED <<net, error, conn_fd, pos, head, len, written>>

\* Mutant: reads as much as fits in the buffer.
BodyReadAll ==
  /\ thread_pc = "body" /\ len # 0
  /\ ReadSome(PACKAGE_SIZE - MSG_HEADER_LEN)
  /\ body' = head
  /\ thread_pc' = "write"
  /\ UNCHANGED <<net, conn_fd, head, len, written>>

\* Whatever the read returns is taken for the payload; more than the buffer has
\* room for goes over what is behind it.
BodyRead ==
  /\ thread_pc = "body" /\ len # 0
  /\ ReadSome(len)
  /\ body' = IF Got(len) = len THEN head ELSE NONE
  /\ thread_pc' = IF MSG_HEADER_LEN + Got(len) > PACKAGE_SIZE THEN "undefined" ELSE "write"
  /\ UNCHANGED <<net, conn_fd, head, len, written>>

BodyReadsNothing ==
  /\ thread_pc = "body" /\ len # 0
  /\ ReadFails \/ (AtEnd /\ UNCHANGED <<error, pos>>)
  /\ thread_pc' = "write"
  /\ UNCHANGED <<net, conn_fd, head, body, len, written>>

\* WriteData, which refuses what is longer than a block.
WriteData ==
  /\ thread_pc = "write"
  /\ written' = IF MSG_HEADER_LEN + len > PACKAGE_SIZE THEN written
                ELSE [written EXCEPT ![conn_fd] = Append(@, [head |-> head, body |-> body])]
  /\ thread_pc' = "header"
  /\ UNCHANGED <<net, error, conn_fd, pos, head, body, len>>

Client(c) == ClientConnects(c) \/ Arrive(c) \/ Close(c)
Thread ==
  \/ Accept \/ HeaderEnds \/ HeaderRead \/ HeaderFails
  \/ NoBody \/ BodyRead \/ BodyReadsNothing \/ WriteData

ConnNext == Thread \/ \E c \in Clients : Client(c) \/ Reset(c)

\* The clients send their files, the network delivers, and the thread runs.
ConnSpec == ConnInit /\ [][ConnNext]_conn_vars /\ WF_conn_vars(Thread) /\ \A c \in Clients : WF_conn_vars(Client(c))

-----------------------------------------------------------------------------
(* Properties                                                              *)

\* The packet that client c sent as its n-th.
Whole(c, n) == [head |-> <<c, n>>, body |-> <<c, n>>]
Sent(c) == [n \in Packets(c) |-> Whole(c, n)]

\* A connection whose packets arrive whole is written packet by packet in the
\* order sent, even behind one that was cut short or reset, and after a reset one
\* packet more, the last of the buffer again: read fails once, and the thread,
\* which takes the failure for a header, then sees the end.
InStep ==
  thread_pc # "undefined" =>
    \A c \in Clients :
      /\ fault[c] = "plain" => IsPrefix(written[c], Sent(c))
      /\ fault[c] = "reset" =>
           \/ IsPrefix(written[c], Sent(c))
           \/ IsPrefix(Front(written[c]), Sent(c)) /\ client[c] = "reset" /\ ~error[c]

\* Whatever a connection brings, the one thread reads it to its end, closes it
\* and comes back to accept the next: no client keeps the others out for ever,
\* but by what overruns the buffer.
EveryClientIsServed ==
  <>(thread_pc = "undefined" \/ \A c \in Clients :
       /\ client[c] # "none" /\ pos[c] = arrived[c] /\ conn_fd = NONE /\ backlog = <<>>
       /\ client[c] = "closed" /\ fault[c] = "plain" => written[c] = Sent(c))
=============================================================================

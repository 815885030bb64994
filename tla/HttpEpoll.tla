----------------------------- MODULE HttpEpoll -----------------------------
(***************************************************************************)
(* The HTTP server's loop (http_server/src/http_server/w_epoll.cpp): one   *)
(* thread, edge-triggered events, and one receive buffer for all           *)
(* connections, which is filled when a connection is readable and looked   *)
(* at when the connection is writable, in a later round.                   *)
(*                                                                         *)
(* The kernel is modelled from how the loop uses it: the ready list holds  *)
(* a descriptor once, in the order of the events; epoll_wait empties it    *)
(* and reports what is still ready.  A request is one piece and names a    *)
(* file; a client sends the next one when it has the answer.               *)
(***************************************************************************)
EXTENDS Integers, Sequences, FiniteSets, Functions

CONSTANTS Conns,      \* the connections of the clients
          Files,
          Asks,       \* Asks[c]: the files that c asks for, in order
          Content,    \* Content[f]: "found", "missing" or "large"
          MaxListen,  \* connections that wait to be accepted, at most
          Listen,     \* the listening socket
          NULL

ASSUME ConnsAssumption == Listen \notin Conns /\ NULL \notin Files
ASSUME FilesAssumption ==
  Asks \in [Conns -> Seq(Files)] /\ Content \in [Files -> {"found", "missing", "large"}]
ASSUME MaxListenAssumption == MaxListen \in Nat \ {0}

VARIABLES
  serial,     \* does each client wait for the one before it to be done?
  client,     \* client[c]: "none", "open" or "closed"
  asked,      \* asked[c]: the requests sent on c
  got,        \* got[c]: the answers that arrived on c
  backlog,    \* the connections to accept, in order
  fd,         \* fd[c]: "none", "closed", or the event the loop has registered
  taken,      \* taken[c]: the requests read from c
  ready,      \* epoll's ready list
  events,     \* what epoll_wait reported and the loop has yet to handle
  pc,         \* what the loop does next
  recv_buf,   \* the file that the request in the buffer names, or NULL
  disturbed,  \* the connections whose request was overwritten in the buffer
  mixed       \* the requests that were answered from a buffer overwritten

clients == <<serial, client, asked>>
history == <<disturbed, mixed>>
vars == <<clients, got, backlog, fd, taken, ready, events, pc, recv_buf, history>>

Init ==
  /\ serial \in BOOLEAN
  /\ client = [c \in Conns |-> "none"]
  /\ asked = [c \in Conns |-> 0]
  /\ got = [c \in Conns |-> <<>>]
  /\ backlog = <<>>
  /\ fd = [c \in Conns |-> "none"]
  /\ taken = [c \in Conns |-> 0]
  /\ ready = <<>>
  /\ events = <<>>
  /\ pc = "wait"
  /\ recv_buf = NULL
  /\ disturbed = {}
  /\ mixed = {}

\* An event on x puts it on the ready list.
Signal(x) == ready' = IF x \in Range(ready) THEN ready ELSE Append(ready, x)
SignalIf(x, cond) == IF cond THEN Signal(x) ELSE UNCHANGED ready

\* There is a request on c, or its end.
HasRequest(c) == taken[c] < asked[c]
Readable(c) == HasRequest(c) \/ client[c] = "closed"

-----------------------------------------------------------------------------
(* The clients.                                                            *)

Done(c) == Len(got[c]) = Len(Asks[c])

Connect(c) ==
  /\ client[c] = "none"
  /\ serial => \A d \in Conns : client[d] # "open"
  /\ Len(backlog) < MaxListen
  /\ client' = [client EXCEPT ![c] = "open"]
  /\ backlog' = Append(backlog, c)
  /\ Signal(Listen)
  /\ UNCHANGED <<serial, asked, got, fd, taken, events, pc, recv_buf, history>>

Ask(c) ==
  /\ client[c] = "open"
  /\ asked[c] = Len(got[c])
  /\ ~Done(c)
  /\ asked' = [asked EXCEPT ![c] = @ + 1]
  /\ SignalIf(c, fd[c] = "in")
  /\ UNCHANGED <<serial, client, got, backlog, fd, taken, events, pc, recv_buf, history>>

\* Mutant: a client of a series that gives up before it has its answers.
CloseEarly(c) ==
  /\ client[c] = "open"
  /\ client' = [client EXCEPT ![c] = "closed"]
  /\ SignalIf(c, fd[c] = "in")
  /\ UNCHANGED <<serial, asked, got, backlog, fd, taken, events, pc, recv_buf, history>>

\* A client closes when it has its answers, or gives up.
Close(c) ==
  /\ client[c] = "open"
  /\ serial => Done(c)
  /\ client' = [client EXCEPT ![c] = "closed"]
  /\ SignalIf(c, fd[c] = "in")
  /\ UNCHANGED <<serial, asked, got, backlog, fd, taken, events, pc, recv_buf, history>>

-----------------------------------------------------------------------------
(* W_Epoll::run                                                            *)

IsReady(x) ==
  IF x = Listen THEN backlog # <<>> ELSE fd[x] = "out" \/ (fd[x] = "in" /\ Readable(x))
Report(x) == [fd |-> x, event |-> IF x = Listen THEN "in" ELSE fd[x]]

\* What is still ready is reported in the order of the list.
EpollWait ==
  LET still == {i \in DOMAIN ready : IsReady(ready[i])} IN
  /\ pc = "wait"
  /\ ready # <<>>
  /\ \E place \in [1..Cardinality(still) -> still] :
       /\ \A i, j \in DOMAIN place : i < j => place[i] < place[j]
       /\ events' = [i \in DOMAIN place |-> Report(ready[place[i]])]
  /\ pc' = IF events' = <<>> THEN "wait" ELSE "event"
  /\ ready' = <<>>
  /\ UNCHANGED <<clients, got, backlog, fd, taken, recv_buf, history>>

\* The next event of the round.
Event(x, event) == pc = "event" /\ Head(events) = [fd |-> x, event |-> event]
NextEvent ==
  /\ events' = Tail(events)
  /\ pc' = IF Tail(events) = <<>> THEN "wait" ELSE "event"

\* Mutant: the event of the listening socket is passed over.
AcceptNone ==
  /\ Event(Listen, "in")
  /\ NextEvent
  /\ UNCHANGED <<clients, got, backlog, fd, taken, ready, recv_buf, history>>

\* One connection for one event of the listening socket.
Accept ==
  LET c == Head(backlog) IN
  /\ Event(Listen, "in")
  /\ backlog' = Tail(backlog)
  /\ fd' = [fd EXCEPT ![c] = "in"]
  /\ SignalIf(c, Readable(c))
  /\ NextEvent
  /\ UNCHANGED <<clients, got, taken, recv_buf, history>>

\* The buffer is cleared and filled: what it held for others is gone.
Overwrite(c) == disturbed' = (disturbed \cup {d \in Conns : fd[d] = "out"}) \ {c}

Recv(c) ==
  /\ Event(c, "in")
  /\ HasRequest(c)
  /\ recv_buf' = Asks[c][asked[c]]
  /\ taken' = [taken EXCEPT ![c] = asked[c]]
  /\ Overwrite(c)
  /\ pc' = "mod_out"
  /\ UNCHANGED <<clients, got, backlog, fd, ready, events, mixed>>

\* Mutant: only an error of recv closes the connection, not its end.
RecvEndIgnored(c) ==
  /\ Event(c, "in")
  /\ ~HasRequest(c)
  /\ recv_buf' = NULL
  /\ Overwrite(c)
  /\ pc' = "mod_out"
  /\ UNCHANGED <<clients, got, backlog, fd, taken, ready, events, mixed>>

\* The end of the connection.  The epoll_ctl that follows has no descriptor.
RecvEnd(c) ==
  /\ Event(c, "in")
  /\ ~HasRequest(c)
  /\ recv_buf' = NULL
  /\ fd' = [fd EXCEPT ![c] = "closed"]
  /\ Overwrite(c)
  /\ NextEvent
  /\ UNCHANGED <<clients, got, backlog, taken, ready, mixed>>

ModOut ==
  LET c == Head(events).fd IN
  /\ pc = "mod_out"
  /\ fd' = [fd EXCEPT ![c] = "out"]
  /\ Signal(c)
  /\ NextEvent
  /\ UNCHANGED <<clients, got, backlog, taken, recv_buf, history>>

\* make_http_res: without a file to read the answer is 404.
Response(file) ==
  IF file = NULL THEN "404" ELSE IF Content[file] = "found" THEN file ELSE "404"

Send(c) ==
  /\ Event(c, "out")
  /\ recv_buf # NULL => Content[recv_buf] # "large"
  /\ got' = [got EXCEPT ![c] = IF client[c] = "open" THEN Append(@, Response(recv_buf)) ELSE @]
  /\ mixed' = IF c \in disturbed THEN mixed \cup {<<c, taken[c]>>} ELSE mixed
  /\ pc' = "mod_in"
  /\ UNCHANGED <<clients, backlog, fd, taken, ready, events, recv_buf, disturbed>>

\* make_body: a file that the buffer cannot take with its header ends the server.
OutOfRange(c) ==
  /\ Event(c, "out")
  /\ recv_buf # NULL /\ Content[recv_buf] = "large"
  /\ pc' = "exited"
  /\ UNCHANGED <<clients, got, backlog, fd, taken, ready, events, recv_buf, history>>

\* Mutant: what arrived before the epoll_ctl gives no event.
ModInBlind ==
  LET c == Head(events).fd IN
  /\ pc = "mod_in"
  /\ fd' = [fd EXCEPT ![c] = "in"]
  /\ NextEvent
  /\ UNCHANGED <<clients, got, backlog, taken, ready, recv_buf, history>>

\* Mutant: the connection is armed for writing again.
ModInOut ==
  LET c == Head(events).fd IN
  /\ pc = "mod_in"
  /\ Signal(c)
  /\ NextEvent
  /\ UNCHANGED <<clients, got, backlog, fd, taken, recv_buf, history>>

ModIn ==
  LET c == Head(events).fd IN
  /\ pc = "mod_in"
  /\ fd' = [fd EXCEPT ![c] = "in"]
  /\ SignalIf(c, Readable(c))
  /\ NextEvent
  /\ UNCHANGED <<clients, got, backlog, taken, recv_buf, history>>

Run ==
  \/ EpollWait \/ Accept \/ ModOut \/ ModIn
  \/ \E c \in Conns : Recv(c) \/ RecvEnd(c) \/ Send(c) \/ OutOfRange(c)

Next == Run \/ \E c \in Conns : Connect(c) \/ Ask(c) \/ Close(c)

Spec == Init /\ [][Next]_vars

\* The server's process runs; a client need not do anything.
FairSpec == Spec /\ WF_vars(Run)

-----------------------------------------------------------------------------
(* Properties                                                              *)

\* Whatever the connections do at the same time, an answer on a connection is to
\* a request read from it, each request is answered at most once, and one whose
\* request was not overwritten in the buffer has the file it named.
AnswersMatch ==
  \A c \in Conns :
    /\ Len(got[c]) <= taken[c] /\ taken[c] <= asked[c]
    /\ \A k \in DOMAIN got[c] : <<c, k>> \notin mixed => got[c][k] = Response(Asks[c][k])

\* Clients that wait for one another are never mixed up, although the server may
\* read the end of one after it has accepted the next.
SerialNotMixed == serial => mixed = {}

\* A request on an accepted connection is answered, though perhaps with another's
\* file, unless its client gives up or a large file has ended the server.
AcceptedAreAnswered ==
  \A c \in Conns :
    fd[c] \in {"in", "out"} /\ asked[c] > Len(got[c])
      ~> Len(got[c]) = asked[c] \/ client[c] = "closed" \/ pc = "exited"

\* The server closes its descriptor of a connection that its client has closed,
\* whatever the loop was doing with it.
NoDescriptorLeft ==
  \A c \in Conns :
    fd[c] \in {"in", "out"} /\ client[c] = "closed" ~> fd[c] = "closed" \/ pc = "exited"

\* Of clients that wait for one another, each is accepted.
SerialAreAccepted ==
  \A c \in Conns :
    serial /\ client[c] = "open" ~> fd[c] # "none" \/ pc = "exited"
=============================================================================

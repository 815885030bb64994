-------------------------- MODULE HttpEpollProofs --------------------------
(***************************************************************************)
(* Proofs about HttpEpoll: an answer goes to the connection whose request  *)
(* was read, is made from the request that was in the buffer, and clients  *)
(* that wait for one another never get each other's files.                 *)
(***************************************************************************)
EXTENDS HttpEpoll, FiniteSetTheorems, TLAPS

\* The variables have their types.
Results == Files \cup {"404"}
Fds == Conns \cup {Listen}
TypeOK ==
  /\ serial \in BOOLEAN
  /\ client \in [Conns -> {"none", "open", "closed"}]
  /\ asked \in [Conns -> Nat] /\ taken \in [Conns -> Nat]
  /\ got \in [Conns -> Seq(Results)]
  /\ backlog \in Seq(Conns)
  /\ fd \in [Conns -> {"none", "closed", "in", "out"}]
  /\ ready \in Seq(Fds)
  /\ events \in Seq([fd : Fds, event : {"in", "out"}])
  /\ pc \in {"wait", "event", "mod_out", "mod_in", "exited"}
  /\ recv_buf \in Files \cup {NULL}
  /\ disturbed \subseteq Conns /\ mixed \subseteq Conns \X Nat

\* Is x among the events that the loop has yet to handle, or the one it handles?
ToHandle(x) == \E i \in DOMAIN events : events[i].fd = x

\* Is the loop between reading from c or answering on c, and the epoll_ctl?
InHand(c) == pc \in {"mod_out", "mod_in"} /\ Head(events).fd = c

\* A round: each descriptor has one event at most, which is the one registered,
\* and a connection is registered when it is accepted.
Round ==
  /\ \A i, j \in DOMAIN ready : ready[i] = ready[j] => i = j
  /\ \A i, j \in DOMAIN events : events[i].fd = events[j].fd => i = j
  /\ pc = "wait" => events = <<>>
  /\ pc \in {"event", "mod_out", "mod_in"} => events # <<>>
  /\ pc \in {"mod_out", "mod_in"} =>
       Head(events).fd \in Conns /\ Head(events).event = (IF pc = "mod_out" THEN "in" ELSE "out")
  /\ \A i \in DOMAIN events :
       IF events[i].fd = Listen THEN events[i].event = "in" /\ backlog # <<>>
       ELSE events[i].event = fd[events[i].fd]

Waiting ==
  /\ \A i, j \in DOMAIN backlog : backlog[i] = backlog[j] => i = j
  /\ \A i \in DOMAIN backlog : client[backlog[i]] # "none" /\ fd[backlog[i]] = "none"
  /\ \A c \in Conns : client[c] = "none" => fd[c] = "none" /\ asked[c] = 0

\* Does the loop hold a request of c that it has yet to answer?
Serving(c) ==
  \/ fd[c] = "out" /\ ~(pc = "mod_in" /\ Head(events).fd = c)
  \/ pc = "mod_out" /\ Head(events).fd = c

\* At most one request of a connection is under way, and the buffer has the
\* request of each connection being served whose request was not overwritten.
Counts ==
  \A c \in Conns :
    /\ Len(got[c]) <= taken[c] /\ taken[c] <= asked[c]
    /\ asked[c] <= Len(got[c]) + 1 /\ asked[c] <= Len(Asks[c])
    /\ Serving(c) => Len(got[c]) < taken[c]
Buffered ==
  \A c \in Conns : Serving(c) /\ c \notin disturbed => recv_buf = Asks[c][taken[c]]
Answered ==
  \A c \in Conns : \A k \in DOMAIN got[c] :
    <<c, k>> \notin mixed => got[c][k] = Response(Asks[c][k])

IInv == TypeOK /\ Round /\ Waiting /\ Counts /\ Buffered /\ Answered

\* What is readable is on the ready list or in the round, and what the round
\* reports as readable is.
Noticed ==
  /\ \A c \in Conns : fd[c] = "in" /\ Readable(c) => c \in Range(ready) \/ ToHandle(c)
  /\ \A i \in DOMAIN events :
       events[i].fd \in Conns /\ events[i].event = "in" /\ ~(i = 1 /\ pc = "mod_out") =>
         Readable(events[i].fd)

\* Clients that wait for one another: one is open, the last to be accepted.
OneOpen ==
  /\ \A c, d \in Conns : client[c] = "open" /\ client[d] = "open" => c = d
  /\ \A c \in Conns : client[c] = "closed" => asked[c] = Len(got[c])
  /\ \A c \in Conns : client[c] = "open" /\ fd[c] # "none" => backlog = <<>>
  /\ \A i \in DOMAIN backlog : client[backlog[i]] = "open" => i = Len(backlog)

\* The end of a connection that the loop has yet to read is in the round that
\* accepts the next connection, and is read before that one's first request.
Left(d) == client[d] = "closed" /\ fd[d] \in {"in", "out"}
EndsFirst ==
  \A d \in Conns : Left(d) =>
    /\ ToHandle(Listen) => fd[d] = "in" /\ ToHandle(d)
    /\ \A c \in Conns :
         client[c] = "open" /\ fd[c] # "none" =>
           fd[c] = "in" /\ fd[d] = "in" /\ ToHandle(d) /\ ~ToHandle(c)

Undisturbed == mixed = {} /\ \A c \in Conns : Serving(c) => c \notin disturbed

SInv == serial => OneOpen /\ EndsFirst /\ Undisturbed

-----------------------------------------------------------------------------
(* What the steps do to the ready list and to the round.                   *)

LEMMA TailOf ==
  ASSUME NEW S, NEW s \in Seq(S), s # <<>>
  PROVE  /\ Tail(s) \in Seq(S) /\ Head(s) = s[1] /\ 1 \in DOMAIN s
         /\ \A i \in DOMAIN Tail(s) : i \in Nat \ {0} /\ i + 1 \in DOMAIN s /\ Tail(s)[i] = s[i + 1]
         /\ \A i \in DOMAIN s : i # 1 => i - 1 \in DOMAIN Tail(s) /\ Tail(s)[i - 1] = s[i]
OBVIOUS

LEMMA EventTypes ==
  ASSUME TypeOK
  PROVE  \A i \in DOMAIN events : events[i].fd \in Fds /\ events[i].event \in {"in", "out"}
<1>1. events \in Seq([fd : Fds, event : {"in", "out"}])
  BY DEF TypeOK
<1>2. \A S : \A s \in Seq(S) : \A i \in DOMAIN s : s[i] \in S
  OBVIOUS
<1>3. \A i \in DOMAIN events : events[i] \in [fd : Fds, event : {"in", "out"}]
  BY <1>1, <1>2
<1> QED
  BY <1>3

\* An event puts a descriptor on the ready list, once.
LEMMA Signalled ==
  ASSUME TypeOK, Round, NEW x \in Fds, Signal(x)
  PROVE  /\ ready' \in Seq(Fds)
         /\ \A i, j \in DOMAIN ready' : ready'[i] = ready'[j] => i = j
         /\ Range(ready') = Range(ready) \cup {x}
<1>1. CASE x \in Range(ready)
  <2>1. ready' = ready
    BY <1>1 DEF Signal
  <2> QED
    BY <1>1, <2>1 DEF TypeOK, Round
<1>2. CASE x \notin Range(ready)
  <2>1. ready' = Append(ready, x) /\ ready \in Seq(Fds)
    BY <1>2 DEF Signal, TypeOK
  <2>2. /\ ready' \in Seq(Fds) /\ Len(ready) \in Nat
        /\ DOMAIN ready' = 1..Len(ready) + 1 /\ DOMAIN ready = 1..Len(ready)
        /\ ready'[Len(ready) + 1] = x
        /\ \A i \in DOMAIN ready : ready'[i] = ready[i]
    BY <2>1
  <2>3. \A i \in DOMAIN ready' : i \in DOMAIN ready \/ i = Len(ready) + 1
    BY <2>2
  <2>4. \A i \in DOMAIN ready : ready[i] # x
    BY <1>2 DEF Range
  <2>5. \A i, j \in DOMAIN ready' : ready'[i] = ready'[j] => i = j
    BY <2>2, <2>3, <2>4 DEF Round
  <2>6. Range(ready') = Range(ready) \cup {x}
    <3>1. \A y \in Range(ready') : y \in Range(ready) \cup {x}
      BY <2>2, <2>3 DEF Range
    <3>2. \A i \in DOMAIN ready : i \in DOMAIN ready'
      BY <2>2
    <3>3. Len(ready) + 1 \in DOMAIN ready'
      BY <2>2
    <3>4. \A y \in Range(ready) \cup {x} : y \in Range(ready')
      BY <2>2, <3>2, <3>3 DEF Range
    <3> QED
      BY <3>1, <3>4
  <2> QED
    BY <2>2, <2>5, <2>6
<1> QED
  BY <1>1, <1>2

LEMMA SignalledIf ==
  ASSUME TypeOK, Round, NEW x \in Fds, NEW cond \in BOOLEAN, SignalIf(x, cond)
  PROVE  /\ ready' \in Seq(Fds)
         /\ \A i, j \in DOMAIN ready' : ready'[i] = ready'[j] => i = j
         /\ Range(ready') = Range(ready) \cup (IF cond THEN {x} ELSE {})
<1>1. CASE cond
  BY <1>1, Signalled DEF SignalIf
<1>2. CASE ~cond
  BY <1>2 DEF SignalIf, TypeOK, Round
<1> QED
  BY <1>1, <1>2

\* When the first event of the round is done with, the others are left.
LEMMA RoundGoesOn ==
  ASSUME TypeOK, Round, events # <<>>, NextEvent
  PROVE  /\ events' \in Seq([fd : Fds, event : {"in", "out"}])
         /\ pc' \in {"wait", "event"}
         /\ pc' = "wait" <=> events' = <<>>
         /\ \A i \in DOMAIN events' :
              /\ i \in Nat \ {0} /\ i + 1 \in DOMAIN events /\ events'[i] = events[i + 1]
              /\ events'[i].fd # Head(events).fd
         /\ \A i, j \in DOMAIN events' : events'[i].fd = events'[j].fd => i = j
         /\ \A x : ToHandle(x)' <=> ToHandle(x) /\ x # Head(events).fd
<1>1. events' = Tail(events) /\ events \in Seq([fd : Fds, event : {"in", "out"}])
  BY DEF NextEvent, TypeOK
<1>2. /\ events' \in Seq([fd : Fds, event : {"in", "out"}])
      /\ Head(events) = events[1] /\ 1 \in DOMAIN events
      /\ \A i \in DOMAIN events' :
           i \in Nat \ {0} /\ i + 1 \in DOMAIN events /\ events'[i] = events[i + 1]
      /\ \A i \in DOMAIN events : i # 1 => i - 1 \in DOMAIN events' /\ events'[i - 1] = events[i]
  BY <1>1, TailOf
<1>3. \A i, j \in DOMAIN events' : events'[i].fd = events'[j].fd => i = j
  BY <1>2 DEF Round
<1>4. ASSUME NEW x PROVE ToHandle(x)' <=> ToHandle(x) /\ x # Head(events).fd
  <2>1. ASSUME ToHandle(x)' PROVE ToHandle(x) /\ x # Head(events).fd
    <3>1. PICK i \in DOMAIN events' : events'[i].fd = x
      BY <2>1 DEF ToHandle
    <3>2. i + 1 \in DOMAIN events /\ events[i + 1].fd = x /\ i + 1 # 1
      BY <1>2, <3>1
    <3> QED
      BY <1>2, <3>2 DEF ToHandle, Round
  <2>2. ASSUME ToHandle(x), x # Head(events).fd PROVE ToHandle(x)'
    <3>1. PICK i \in DOMAIN events : events[i].fd = x
      BY <2>2 DEF ToHandle
    <3>2. i # 1
      BY <1>2, <2>2, <3>1
    <3> QED
      BY <1>2, <3>1, <3>2 DEF ToHandle
  <2> QED
    BY <2>1, <2>2
<1>5. pc' \in {"wait", "event"} /\ (pc' = "wait" <=> events' = <<>>)
  BY DEF NextEvent
<1>6. \A i \in DOMAIN events' : events'[i].fd # Head(events).fd
  BY <1>2 DEF Round
<1> QED
  BY <1>2, <1>3, <1>4, <1>5, <1>6

\* The event that the loop handles is the first of the round.
LEMMA EventIsFirst ==
  ASSUME TypeOK, Round, NEW x, NEW e, Event(x, e)
  PROVE  /\ events # <<>> /\ pc = "event"
         /\ Head(events) = events[1] /\ 1 \in DOMAIN events
         /\ Head(events).fd = x /\ Head(events).event = e
         /\ ToHandle(x)
         /\ x # Listen => fd[x] = e
         /\ x = Listen => backlog # <<>>
<1>1. pc = "event" /\ events # <<>> /\ Head(events) = [fd |-> x, event |-> e]
  BY DEF Event, Round
<1>2. Head(events) = events[1] /\ 1 \in DOMAIN events
  BY <1>1, TailOf DEF TypeOK
<1>3. events[1].fd = x /\ events[1].event = e
  BY <1>1, <1>2
<1> QED
  BY <1>1, <1>2, <1>3 DEF ToHandle, Round

LEMMA HandIsFirst ==
  ASSUME TypeOK, Round, pc \in {"mod_out", "mod_in"}
  PROVE  /\ events # <<>>
         /\ Head(events) = events[1] /\ 1 \in DOMAIN events
         /\ Head(events).fd \in Conns
         /\ fd[Head(events).fd] = Head(events).event
         /\ Head(events).event = (IF pc = "mod_out" THEN "in" ELSE "out")
         /\ ToHandle(Head(events).fd)
<1>1. events # <<>> /\ Head(events).fd \in Conns
      /\ Head(events).event = (IF pc = "mod_out" THEN "in" ELSE "out")
  BY DEF Round
<1>2. Head(events) = events[1] /\ 1 \in DOMAIN events
  BY <1>1, TailOf DEF TypeOK
<1>3. events[1].fd # Listen
  BY <1>1, <1>2, ConnsAssumption
<1>4. fd[Head(events).fd] = Head(events).event
  BY <1>2, <1>3 DEF Round
<1> QED
  BY <1>1, <1>2, <1>4 DEF ToHandle

\* What epoll_wait reports.
LEMMA Reported ==
  ASSUME TypeOK, Round, EpollWait
  PROVE  /\ events' \in Seq([fd : Fds, event : {"in", "out"}])
         /\ \A i, j \in DOMAIN events' : events'[i].fd = events'[j].fd => i = j
         /\ \A i \in DOMAIN events' :
              /\ events'[i].fd \in Range(ready) /\ IsReady(events'[i].fd)
              /\ events'[i] = Report(events'[i].fd)
         /\ \A x \in Range(ready) : IsReady(x) => ToHandle(x)'
<1> DEFINE still == {i \in DOMAIN ready : IsReady(ready[i])}
           n == Cardinality(still)
<1>1. PICK place \in [1..n -> still] :
        /\ \A i, j \in DOMAIN place : i < j => place[i] < place[j]
        /\ events' = [i \in DOMAIN place |-> Report(ready[place[i]])]
  BY DEF EpollWait
<1>2. ready \in Seq(Fds) /\ DOMAIN ready = 1..Len(ready) /\ Len(ready) \in Nat
  BY DEF TypeOK
<1>3. IsFiniteSet(still) /\ n \in Nat
  <2>1. still \subseteq DOMAIN ready
    OBVIOUS
  <2>2. IsFiniteSet(1..Len(ready))
    BY <1>2, FS_Interval
  <2>3. still \in SUBSET (1..Len(ready))
    BY <1>2, <2>1
  <2>4. IsFiniteSet(still)
    BY <2>2, <2>3, FS_Subset
  <2> QED
    BY <2>4, FS_CardinalityType
<1>4. \A i \in still : i \in Nat /\ ready[i] \in Fds /\ IsReady(ready[i]) /\ ready[i] \in Range(ready)
  <2>1. \A i \in still : i \in DOMAIN ready /\ IsReady(ready[i])
    OBVIOUS
  <2> QED
    BY <1>2, <2>1 DEF Range
<1> HIDE DEF still, n
<1>5. \A i \in 1..n : place[i] \in still
  BY <1>1
<1>6. \A i, j \in 1..n : place[i] = place[j] => i = j
  <2>1. \A i, j \in 1..n : i < j => place[i] < place[j]
    BY <1>1
  <2>2. \A i \in 1..n : place[i] \in Nat
    BY <1>4, <1>5
  <2> QED
    BY <1>3, <2>1, <2>2
<1>7. \A x \in Fds : IsReady(x) => Report(x) \in [fd : Fds, event : {"in", "out"}] /\ Report(x).fd = x
  BY DEF IsReady, Report, Fds, TypeOK
<1>8. DOMAIN events' = 1..n /\ \A i \in 1..n : events'[i] = Report(ready[place[i]])
  BY <1>1
<1>9. \A i \in 1..n : /\ ready[place[i]] \in Fds /\ IsReady(ready[place[i]])
                      /\ ready[place[i]] \in Range(ready)
  BY <1>4, <1>5
<1>10. \A i \in 1..n : events'[i].fd = ready[place[i]]
  BY <1>7, <1>8, <1>9
<1>11. events' \in Seq([fd : Fds, event : {"in", "out"}])
  <2>1. events' \in [1..n -> [fd : Fds, event : {"in", "out"}]]
    BY <1>1, <1>7, <1>8, <1>9
  <2>2. \A m \in Nat : \A S : \A f \in [1..m -> S] : f \in Seq(S)
    OBVIOUS
  <2> QED
    BY <1>3, <2>1, <2>2
<1>12. \A i, j \in DOMAIN events' : events'[i].fd = events'[j].fd => i = j
  <2>1. \A i \in 1..n : place[i] \in DOMAIN ready
    BY <1>5 DEF still
  <2> QED
    BY <1>6, <1>8, <1>10, <2>1 DEF Round
<1>13. \A x \in Range(ready) : IsReady(x) => ToHandle(x)'
  <2>1. IsFiniteSet(1..n) /\ Cardinality(1..n) = n
    <3>1. Cardinality(1..n) = (IF 1 > n THEN 0 ELSE n - 1 + 1) /\ IsFiniteSet(1..n)
      BY <1>3, FS_Interval
    <3> QED
      BY <1>3, <3>1
  <2>2. place \in Injection(1..n, still)
    BY <1>1, <1>6 DEF Injection, IsInjective
  <2>3. place \in Surjection(1..n, still)
    BY <1>3, <2>1, <2>2, FS_Injection DEF n
  <2>4. ASSUME NEW x \in Range(ready), IsReady(x) PROVE ToHandle(x)'
    <3>1. PICK i \in DOMAIN ready : ready[i] = x
      BY DEF Range
    <3>2. i \in still
      BY <2>4, <3>1 DEF still
    <3>3. PICK k \in 1..n : place[k] = i
      BY <2>3, <3>2 DEF Surjection
    <3>4. events'[k].fd = x /\ k \in DOMAIN events'
      BY <1>8, <1>10, <3>1, <3>3
    <3> QED
      BY <3>4 DEF ToHandle
  <2> QED
    BY <2>4
<1> QED
  BY <1>8, <1>9, <1>10, <1>11, <1>12, <1>13

-----------------------------------------------------------------------------
(* Types.                                                                  *)

LEMMA TypeInit == Init => TypeOK
BY DEF Init, TypeOK

\* The descriptor that the loop puts back on the ready list is a connection.
LEMMA TypeNext == TypeOK /\ Round /\ Counts /\ [Next]_vars => TypeOK'
<1> SUFFICES ASSUME TypeOK, Round, Counts, [Next]_vars PROVE TypeOK'
  OBVIOUS
<1>a. Listen \in Fds /\ \A c \in Conns : c \in Fds /\ c # Listen
  BY ConnsAssumption DEF Fds
<1>1. CASE EpollWait
  <2>1. events' \in Seq([fd : Fds, event : {"in", "out"}])
    BY <1>1, Reported
  <2>2. ready' \in Seq(Fds) /\ pc' \in {"wait", "event"}
    BY <1>1 DEF EpollWait
  <2> QED
    BY <1>1, <2>1, <2>2 DEF EpollWait, TypeOK, clients, history
<1>2. CASE Accept
  <2>1. events # <<>> /\ backlog # <<>>
    BY <1>2, EventIsFirst DEF Accept
  <2>2. Head(backlog) \in Conns /\ backlog' \in Seq(Conns)
    BY <1>2, <2>1, TailOf DEF Accept, TypeOK
  <2>3. events' \in Seq([fd : Fds, event : {"in", "out"}]) /\ pc' \in {"wait", "event"}
    BY <1>2, <2>1, RoundGoesOn DEF Accept
  <2>4. Readable(Head(backlog)) \in BOOLEAN
    BY DEF Readable, HasRequest
  <2>5. ready' \in Seq(Fds)
    BY <1>a, <1>2, <2>2, <2>4, SignalledIf DEF Accept
  <2>6. fd' \in [Conns -> {"none", "closed", "in", "out"}]
    BY <1>2, <2>2 DEF Accept, TypeOK
  <2> QED
    BY <1>2, <2>2, <2>3, <2>5, <2>6 DEF Accept, TypeOK, clients, history
<1>3. CASE ModOut
  <2>1. events # <<>> /\ Head(events).fd \in Conns
    BY <1>3, HandIsFirst DEF ModOut
  <2>2. events' \in Seq([fd : Fds, event : {"in", "out"}]) /\ pc' \in {"wait", "event"}
    BY <1>3, <2>1, RoundGoesOn DEF ModOut
  <2>3. ready' \in Seq(Fds)
    BY <1>a, <1>3, <2>1, Signalled DEF ModOut
  <2>4. fd' \in [Conns -> {"none", "closed", "in", "out"}]
    BY <1>3, <2>1 DEF ModOut, TypeOK
  <2> QED
    BY <1>3, <2>2, <2>3, <2>4 DEF ModOut, TypeOK, clients, history
<1>4. CASE ModIn
  <2>1. events # <<>> /\ Head(events).fd \in Conns
    BY <1>4, HandIsFirst DEF ModIn
  <2>2. events' \in Seq([fd : Fds, event : {"in", "out"}]) /\ pc' \in {"wait", "event"}
    BY <1>4, <2>1, RoundGoesOn DEF ModIn
  <2>3. Readable(Head(events).fd) \in BOOLEAN
    BY DEF Readable, HasRequest
  <2>4. ready' \in Seq(Fds)
    BY <1>a, <1>4, <2>1, <2>3, SignalledIf DEF ModIn
  <2>5. fd' \in [Conns -> {"none", "closed", "in", "out"}]
    BY <1>4, <2>1 DEF ModIn, TypeOK
  <2> QED
    BY <1>4, <2>2, <2>4, <2>5 DEF ModIn, TypeOK, clients, history
<1>5. ASSUME NEW c \in Conns, Recv(c) PROVE TypeOK'
  <2>1. asked[c] \in Nat /\ taken[c] < asked[c] /\ taken[c] \in Nat
    BY <1>5 DEF Recv, HasRequest, TypeOK
  <2>2. asked[c] \in 1..Len(Asks[c]) /\ Asks[c] \in Seq(Files)
    BY <2>1, FilesAssumption DEF Counts
  <2>3. recv_buf' \in Files /\ taken' \in [Conns -> Nat]
    BY <1>5, <2>1, <2>2 DEF Recv, TypeOK
  <2>4. disturbed' \subseteq Conns
    BY <1>5 DEF Recv, Overwrite, TypeOK
  <2> QED
    BY <1>5, <2>3, <2>4 DEF Recv, TypeOK, clients
<1>6. ASSUME NEW c \in Conns, RecvEnd(c) PROVE TypeOK'
  <2>1. events # <<>>
    BY <1>6, EventIsFirst DEF RecvEnd
  <2>2. events' \in Seq([fd : Fds, event : {"in", "out"}]) /\ pc' \in {"wait", "event"}
    BY <1>6, <2>1, RoundGoesOn DEF RecvEnd
  <2>3. fd' \in [Conns -> {"none", "closed", "in", "out"}] /\ disturbed' \subseteq Conns
    BY <1>6 DEF RecvEnd, Overwrite, TypeOK
  <2> QED
    BY <1>6, <2>2, <2>3 DEF RecvEnd, TypeOK, clients
<1>7. ASSUME NEW c \in Conns, Send(c) PROVE TypeOK'
  <2>1. Response(recv_buf) \in Results
    BY DEF TypeOK, Response, Results
  <2>2. Append(got[c], Response(recv_buf)) \in Seq(Results)
    BY <2>1 DEF TypeOK
  <2>3. got' \in [Conns -> Seq(Results)]
    BY <1>7, <2>2 DEF Send, TypeOK
  <2>4. mixed' \subseteq Conns \X Nat
    BY <1>7 DEF Send, TypeOK
  <2> QED
    BY <1>7, <2>3, <2>4 DEF Send, TypeOK, clients
<1>8. ASSUME NEW c \in Conns, OutOfRange(c) PROVE TypeOK'
  BY <1>8 DEF OutOfRange, TypeOK, clients, history
<1>9. ASSUME NEW c \in Conns, Connect(c) PROVE TypeOK'
  <2>1. ready' \in Seq(Fds)
    BY <1>a, <1>9, Signalled DEF Connect
  <2>2. backlog' \in Seq(Conns)
    BY <1>9 DEF Connect, TypeOK
  <2>3. client' \in [Conns -> {"none", "open", "closed"}]
    BY <1>9 DEF Connect, TypeOK
  <2> QED
    BY <1>9, <2>1, <2>2, <2>3 DEF Connect, TypeOK, history
<1>10. ASSUME NEW c \in Conns, Ask(c) PROVE TypeOK'
  <2>1. ready' \in Seq(Fds)
    BY <1>a, <1>10, SignalledIf DEF Ask
  <2>2. asked' \in [Conns -> Nat]
    BY <1>10 DEF Ask, TypeOK
  <2> QED
    BY <1>10, <2>1, <2>2 DEF Ask, TypeOK, history
<1>11. ASSUME NEW c \in Conns, Close(c) PROVE TypeOK'
  <2>1. ready' \in Seq(Fds)
    BY <1>a, <1>11, SignalledIf DEF Close
  <2>2. client' \in [Conns -> {"none", "open", "closed"}]
    BY <1>11 DEF Close, TypeOK
  <2> QED
    BY <1>11, <2>1, <2>2 DEF Close, TypeOK, history
<1>12. CASE UNCHANGED vars
  BY <1>12 DEF vars, TypeOK, clients, history
<1> QED
  BY <1>1, <1>2, <1>3, <1>4, <1>5, <1>6, <1>7, <1>8, <1>9, <1>10, <1>11, <1>12
  DEF Next, Run

-----------------------------------------------------------------------------
(* The rounds.                                                             *)

LEMMA RoundInit == Init => Round /\ Waiting
BY DEF Init, Round, Waiting

\* In a round that goes on, what the events say of the descriptors stays true when
\* only the first event's descriptor, or one that has no event, changes.
LEMMA RoundStays ==
  ASSUME TypeOK, Round, events # <<>>, NextEvent,
         \A i, j \in DOMAIN ready' : ready'[i] = ready'[j] => i = j,
         \A i \in DOMAIN events' :
           IF events'[i].fd = Listen THEN backlog' = backlog
           ELSE fd'[events'[i].fd] = fd[events'[i].fd]
  PROVE  Round'
<1>1. \A i \in DOMAIN events' : i + 1 \in DOMAIN events /\ events'[i] = events[i + 1]
  BY RoundGoesOn
<1>2. ASSUME NEW i \in DOMAIN events'
      PROVE  IF events'[i].fd = Listen THEN events'[i].event = "in" /\ backlog' # <<>>
             ELSE events'[i].event = fd'[events'[i].fd]
  BY <1>1 DEF Round
<1>3. pc' \in {"wait", "event"} /\ (pc' = "wait" <=> events' = <<>>)
  BY RoundGoesOn
<1>4. \A i, j \in DOMAIN events' : events'[i].fd = events'[j].fd => i = j
  BY RoundGoesOn
<1> QED
  BY <1>2, <1>3, <1>4 DEF Round

LEMMA AcceptsHead ==
  ASSUME TypeOK, Round, Waiting, Accept
  PROVE  /\ events # <<>> /\ Head(events).fd = Listen /\ backlog # <<>>
         /\ Head(backlog) \in Conns /\ fd[Head(backlog)] = "none" /\ client[Head(backlog)] # "none"
         /\ ~ToHandle(Head(backlog))
         /\ backlog' = Tail(backlog) /\ fd' = [fd EXCEPT ![Head(backlog)] = "in"]
<1>1. events # <<>> /\ Head(events).fd = Listen /\ backlog # <<>>
  BY EventIsFirst DEF Accept
<1>2. Head(backlog) = backlog[1] /\ 1 \in DOMAIN backlog /\ Head(backlog) \in Conns
  BY <1>1, TailOf DEF TypeOK
<1>3. fd[Head(backlog)] = "none" /\ client[Head(backlog)] # "none"
  BY <1>2 DEF Waiting
<1>4. \A i \in DOMAIN events : events[i].event # "none"
  BY EventTypes
<1>5. ~ToHandle(Head(backlog))
  BY <1>2, <1>3, <1>4, ConnsAssumption DEF ToHandle, Round
<1> QED
  BY <1>1, <1>2, <1>3, <1>5 DEF Accept

LEMMA RoundNext == TypeOK /\ Round /\ Waiting /\ [Next]_vars => Round'
<1> SUFFICES ASSUME TypeOK, Round, Waiting, [Next]_vars PROVE Round'
  OBVIOUS
<1>a. Listen \in Fds /\ \A c \in Conns : c \in Fds /\ c # Listen
  BY ConnsAssumption DEF Fds
<1>1. CASE EpollWait
  <2>1. \A i, j \in DOMAIN events' : events'[i].fd = events'[j].fd => i = j
    BY <1>1, Reported
  <2>2. ready' = <<>> /\ pc' = (IF events' = <<>> THEN "wait" ELSE "event")
    BY <1>1 DEF EpollWait
  <2>3. ASSUME NEW i \in DOMAIN events'
        PROVE  IF events'[i].fd = Listen THEN events'[i].event = "in" /\ backlog' # <<>>
               ELSE events'[i].event = fd'[events'[i].fd]
    <3>1. IsReady(events'[i].fd) /\ events'[i] = Report(events'[i].fd)
      BY <1>1, Reported
    <3>2. fd' = fd /\ backlog' = backlog
      BY <1>1 DEF EpollWait
    <3> QED
      BY <3>1, <3>2 DEF IsReady, Report
  <2> QED
    BY <2>1, <2>2, <2>3 DEF Round
<1>2. CASE Accept
  <2>1. /\ events # <<>> /\ Head(events).fd = Listen /\ Head(backlog) \in Conns
        /\ ~ToHandle(Head(backlog)) /\ fd' = [fd EXCEPT ![Head(backlog)] = "in"]
    BY <1>2, AcceptsHead
  <2>2. NextEvent /\ Readable(Head(backlog)) \in BOOLEAN
        /\ SignalIf(Head(backlog), Readable(Head(backlog)))
    BY <1>2 DEF Accept, Readable, HasRequest
  <2>3. \A i, j \in DOMAIN ready' : ready'[i] = ready'[j] => i = j
    BY <1>a, <2>1, <2>2, SignalledIf
  <2>4. ASSUME NEW i \in DOMAIN events'
        PROVE  events'[i].fd # Listen /\ fd'[events'[i].fd] = fd[events'[i].fd]
    <3>1. i + 1 \in DOMAIN events /\ events'[i] = events[i + 1] /\ events'[i].fd # Listen
      BY <2>1, <2>2, RoundGoesOn
    <3>2. events'[i].fd # Head(backlog)
      BY <2>1, <3>1 DEF ToHandle
    <3>3. events'[i].fd \in Fds
      BY <3>1, EventTypes
    <3> QED
      BY <2>1, <3>1, <3>2, <3>3 DEF Fds, TypeOK
  <2> QED
    BY <2>1, <2>2, <2>3, <2>4, RoundStays
<1>3. ASSUME ModOut \/ ModIn PROVE Round'
  <2>1. events # <<>> /\ Head(events).fd \in Conns
    BY <1>3, HandIsFirst DEF ModOut, ModIn
  <2>2. \E e : fd' = [fd EXCEPT ![Head(events).fd] = e]
    BY <1>3 DEF ModOut, ModIn
  <2>3. NextEvent /\ backlog' = backlog
    BY <1>3 DEF ModOut, ModIn
  <2>4. \A i, j \in DOMAIN ready' : ready'[i] = ready'[j] => i = j
    <3>1. CASE ModOut
      BY <1>a, <2>1, <3>1, Signalled DEF ModOut
    <3>2. CASE ModIn
      <4>1. Readable(Head(events).fd) \in BOOLEAN
        BY DEF Readable, HasRequest
      <4> QED
        BY <1>a, <2>1, <3>2, <4>1, SignalledIf DEF ModIn
    <3> QED
      BY <1>3, <3>1, <3>2
  <2>5. ASSUME NEW i \in DOMAIN events', events'[i].fd # Listen
        PROVE  fd'[events'[i].fd] = fd[events'[i].fd]
    <3>1. /\ i + 1 \in DOMAIN events /\ events'[i] = events[i + 1]
          /\ events'[i].fd # Head(events).fd
      BY <2>1, <2>3, RoundGoesOn
    <3>2. events'[i].fd \in Conns
      BY <2>5, <3>1, EventTypes DEF Fds
    <3> QED
      BY <2>2, <3>1, <3>2 DEF TypeOK
  <2> QED
    BY <2>1, <2>3, <2>4, <2>5, RoundStays
<1>4. ASSUME NEW c \in Conns, RecvEnd(c) PROVE Round'
  <2>1. events # <<>> /\ Head(events).fd = c /\ NextEvent
    BY <1>4, EventIsFirst DEF RecvEnd
  <2>2. UNCHANGED <<ready, backlog>> /\ fd' = [fd EXCEPT ![c] = "closed"]
    BY <1>4 DEF RecvEnd
  <2>3. ASSUME NEW i \in DOMAIN events', events'[i].fd # Listen
        PROVE  fd'[events'[i].fd] = fd[events'[i].fd]
    <3>1. i + 1 \in DOMAIN events /\ events'[i] = events[i + 1] /\ events'[i].fd # c
      BY <2>1, RoundGoesOn
    <3>2. events'[i].fd \in Conns
      BY <2>3, <3>1, EventTypes DEF Fds
    <3> QED
      BY <2>2, <3>1, <3>2 DEF TypeOK
  <2>4. \A i, j \in DOMAIN ready' : ready'[i] = ready'[j] => i = j
    BY <2>2 DEF Round
  <2> QED
    BY <2>1, <2>2, <2>3, <2>4, RoundStays
<1>5. ASSUME NEW c \in Conns, Recv(c) \/ Send(c) \/ OutOfRange(c) PROVE Round'
  <2>1. UNCHANGED <<events, ready, fd, backlog>> /\ events # <<>>
    BY <1>5, EventIsFirst DEF Recv, Send, OutOfRange
  <2>2. /\ pc' = "mod_out" => Head(events).fd = c /\ Head(events).event = "in"
        /\ pc' = "mod_in" => Head(events).fd = c /\ Head(events).event = "out"
        /\ pc' \in {"mod_out", "mod_in", "exited"}
    BY <1>5, EventIsFirst DEF Recv, Send, OutOfRange
  <2> QED
    BY <2>1, <2>2 DEF Round
<1>6. ASSUME NEW c \in Conns, Connect(c) PROVE Round'
  <2>1. UNCHANGED <<events, fd, pc>>
    BY <1>6 DEF Connect
  <2>2. backlog' # <<>>
    BY <1>6 DEF Connect, TypeOK
  <2>3. \A i, j \in DOMAIN ready' : ready'[i] = ready'[j] => i = j
    BY <1>a, <1>6, Signalled DEF Connect
  <2> QED
    BY <2>1, <2>2, <2>3 DEF Round
<1>7. ASSUME NEW c \in Conns, Ask(c) \/ Close(c) PROVE Round'
  <2>1. UNCHANGED <<events, fd, pc, backlog>>
    BY <1>7 DEF Ask, Close
  <2>2. \A i, j \in DOMAIN ready' : ready'[i] = ready'[j] => i = j
    BY <1>a, <1>7, SignalledIf DEF Ask, Close
  <2> QED
    BY <2>1, <2>2 DEF Round
<1>8. CASE UNCHANGED vars
  BY <1>8 DEF vars, clients, Round
<1> QED
  BY <1>1, <1>2, <1>3, <1>4, <1>5, <1>6, <1>7, <1>8 DEF Next, Run

LEMMA WaitingNext == TypeOK /\ Round /\ Waiting /\ [Next]_vars => Waiting'
<1> SUFFICES ASSUME TypeOK, Round, Waiting, [Next]_vars PROVE Waiting'
  OBVIOUS
<1>1. CASE Accept
  <2>1. /\ backlog \in Seq(Conns) /\ backlog # <<>> /\ Head(backlog) \in Conns
        /\ client[Head(backlog)] # "none"
        /\ backlog' = Tail(backlog) /\ fd' = [fd EXCEPT ![Head(backlog)] = "in"]
    BY <1>1, AcceptsHead DEF TypeOK
  <2>2. Head(backlog) = backlog[1] /\ 1 \in DOMAIN backlog
    BY <2>1, TailOf
  <2>3. \A i \in DOMAIN backlog' :
          i \in Nat \ {0} /\ i + 1 \in DOMAIN backlog /\ backlog'[i] = backlog[i + 1]
    BY <2>1, TailOf
  <2>4. \A i \in DOMAIN backlog' : backlog'[i] # Head(backlog) /\ backlog'[i] \in Conns
    BY <2>1, <2>2, <2>3 DEF Waiting
  <2>5. \A i, j \in DOMAIN backlog' : backlog'[i] = backlog'[j] => i = j
    BY <2>3 DEF Waiting
  <2>6. client' = client /\ asked' = asked
    BY <1>1 DEF Accept, clients
  <2>7. \A i \in DOMAIN backlog' : client'[backlog'[i]] # "none" /\ fd'[backlog'[i]] = "none"
    BY <2>1, <2>3, <2>4, <2>6 DEF Waiting, TypeOK
  <2>8. \A c \in Conns : client'[c] = "none" => fd'[c] = "none" /\ asked'[c] = 0
    BY <2>1, <2>6 DEF Waiting, TypeOK
  <2> QED
    BY <2>5, <2>7, <2>8 DEF Waiting
<1>2. ASSUME NEW c \in Conns, fd[c] \in {"in", "out"},
             \A d \in Conns : d # c => fd'[d] = fd[d],
             client' = client, asked' = asked, backlog' = backlog
      PROVE  Waiting'
  <2>1. \A i \in DOMAIN backlog : backlog[i] # c
    BY <1>2 DEF Waiting
  <2>2. client[c] # "none"
    BY <1>2 DEF Waiting
  <2>3. \A i \in DOMAIN backlog : backlog[i] \in Conns
    BY DEF TypeOK
  <2>4. \A i \in DOMAIN backlog' : client'[backlog'[i]] # "none" /\ fd'[backlog'[i]] = "none"
    BY <1>2, <2>1, <2>3 DEF Waiting, TypeOK
  <2>5. \A d \in Conns : client'[d] = "none" => fd'[d] = "none" /\ asked'[d] = 0
    BY <1>2, <2>2 DEF Waiting, TypeOK
  <2> QED
    BY <1>2, <2>4, <2>5 DEF Waiting
<1>3. CASE ModOut \/ ModIn
  <2>1. Head(events).fd \in Conns /\ fd[Head(events).fd] \in {"in", "out"}
    BY <1>3, HandIsFirst DEF ModOut, ModIn
  <2>2. \A d \in Conns : d # Head(events).fd => fd'[d] = fd[d]
    BY <1>3 DEF ModOut, ModIn, TypeOK
  <2>3. client' = client /\ asked' = asked /\ backlog' = backlog
    BY <1>3 DEF ModOut, ModIn, clients
  <2> QED
    BY <1>2, <2>1, <2>2, <2>3
<1>4. ASSUME NEW c \in Conns, RecvEnd(c) PROVE Waiting'
  <2>1. fd[c] = "in"
    BY <1>4, EventIsFirst, ConnsAssumption DEF RecvEnd
  <2>2. \A d \in Conns : d # c => fd'[d] = fd[d]
    BY <1>4 DEF RecvEnd, TypeOK
  <2>3. client' = client /\ asked' = asked /\ backlog' = backlog
    BY <1>4 DEF RecvEnd, clients
  <2> QED
    BY <1>2, <2>1, <2>2, <2>3
<1>5. ASSUME NEW c \in Conns, Connect(c) PROVE Waiting'
  <2>1. client[c] = "none" /\ client' = [client EXCEPT ![c] = "open"]
        /\ backlog' = Append(backlog, c) /\ UNCHANGED <<fd, asked>>
    BY <1>5 DEF Connect
  <2>2. backlog \in Seq(Conns) /\ fd[c] = "none"
    BY <2>1 DEF TypeOK, Waiting
  <2>3. /\ Len(backlog) \in Nat /\ DOMAIN backlog = 1..Len(backlog)
        /\ DOMAIN backlog' = 1..Len(backlog) + 1
        /\ backlog'[Len(backlog) + 1] = c
        /\ \A i \in DOMAIN backlog : backlog'[i] = backlog[i]
    BY <2>1, <2>2
  <2>4. \A i \in DOMAIN backlog' : i \in DOMAIN backlog \/ i = Len(backlog) + 1
    BY <2>3
  <2>5. \A i \in DOMAIN backlog : backlog[i] \in Conns /\ backlog[i] # c
    BY <2>1, <2>2 DEF Waiting
  <2>6. \A i, j \in DOMAIN backlog' : backlog'[i] = backlog'[j] => i = j
    BY <2>3, <2>4, <2>5 DEF Waiting
  <2>7. \A i \in DOMAIN backlog' : client'[backlog'[i]] # "none" /\ fd'[backlog'[i]] = "none"
    BY <2>1, <2>2, <2>3, <2>4, <2>5 DEF Waiting, TypeOK
  <2>8. \A d \in Conns : client'[d] = "none" => fd'[d] = "none" /\ asked'[d] = 0
    BY <2>1 DEF Waiting, TypeOK
  <2> QED
    BY <2>6, <2>7, <2>8 DEF Waiting
<1>6. ASSUME NEW c \in Conns, Ask(c) \/ Close(c) PROVE Waiting'
  <2>1. client[c] = "open" /\ UNCHANGED <<fd, backlog>>
    BY <1>6 DEF Ask, Close
  <2>2. \/ asked' = [asked EXCEPT ![c] = @ + 1] /\ client' = client
        \/ client' = [client EXCEPT ![c] = "closed"] /\ asked' = asked
    BY <1>6 DEF Ask, Close
  <2>3. \A d \in Conns : (client'[d] = "none" <=> client[d] = "none")
                         /\ (client[d] = "none" => asked'[d] = asked[d])
    BY <2>1, <2>2 DEF TypeOK
  <2>4. \A i \in DOMAIN backlog : backlog[i] \in Conns
    BY DEF TypeOK
  <2> QED
    BY <2>1, <2>3, <2>4 DEF Waiting
<1>7. CASE EpollWait \/ (\E c \in Conns : Recv(c) \/ Send(c) \/ OutOfRange(c)) \/ UNCHANGED vars
  <2>1. UNCHANGED <<client, asked, backlog, fd>>
    BY <1>7 DEF EpollWait, Recv, Send, OutOfRange, vars, clients
  <2> QED
    BY <2>1 DEF Waiting
<1> QED
  BY <1>1, <1>3, <1>4, <1>5, <1>6, <1>7 DEF Next, Run

-----------------------------------------------------------------------------
(* The requests and the answers.                                           *)

LEMMA ServedInit == Init => Counts /\ Buffered /\ Answered
<1> SUFFICES ASSUME Init PROVE Counts /\ Buffered /\ Answered
  OBVIOUS
<1>1. /\ \A c \in Conns : asked[c] = 0 /\ taken[c] = 0 /\ got[c] = <<>> /\ fd[c] = "none"
      /\ pc = "wait"
  BY DEF Init
<1>2. \A c \in Conns : Len(Asks[c]) \in Nat
  BY FilesAssumption
<1>3. \A c \in Conns : ~Serving(c)
  BY <1>1 DEF Serving
<1> QED
  BY <1>1, <1>2, <1>3 DEF Counts, Buffered, Answered

\* Only a read makes the loop hold a request of c.
LEMMA ServingBegins ==
  ASSUME TypeOK, Round, Waiting, [Next]_vars, NEW c \in Conns, ~Recv(c), Serving(c)'
  PROVE  Serving(c)
<1>1. CASE ModOut
  <2>1. events # <<>> /\ Head(events).fd \in Conns /\ pc = "mod_out"
    BY <1>1, HandIsFirst DEF ModOut
  <2>2. pc' \in {"wait", "event"}
    BY <1>1, <2>1, RoundGoesOn DEF ModOut
  <2>3. fd'[c] = "out"
    BY <2>2 DEF Serving
  <2>4. c # Head(events).fd => fd[c] = "out"
    BY <1>1, <2>1, <2>3 DEF ModOut, TypeOK
  <2> QED
    BY <2>1, <2>4 DEF Serving
<1>2. CASE ModIn
  <2>1. events # <<>> /\ Head(events).fd \in Conns /\ pc = "mod_in"
    BY <1>2, HandIsFirst DEF ModIn
  <2>2. pc' \in {"wait", "event"}
    BY <1>2, <2>1, RoundGoesOn DEF ModIn
  <2>3. fd'[c] = "out"
    BY <2>2 DEF Serving
  <2>4. c # Head(events).fd /\ fd[c] = "out"
    BY <1>2, <2>1, <2>3 DEF ModIn, TypeOK
  <2> QED
    BY <2>1, <2>4 DEF Serving
<1>3. CASE Accept
  <2>1. events # <<>> /\ fd' = [fd EXCEPT ![Head(backlog)] = "in"] /\ Head(backlog) \in Conns
        /\ pc = "event"
    BY <1>3, AcceptsHead DEF Accept, Event
  <2>2. pc' \in {"wait", "event"}
    BY <1>3, <2>1, RoundGoesOn DEF Accept
  <2>3. fd[c] = "out"
    BY <2>1, <2>2 DEF Serving, TypeOK
  <2> QED
    BY <2>1, <2>3 DEF Serving
<1>4. CASE EpollWait
  BY <1>4 DEF EpollWait, Serving
<1>5. ASSUME NEW d \in Conns, Recv(d) PROVE Serving(c)
  <2>1. pc = "event" /\ Head(events).fd = d /\ pc' = "mod_out" /\ UNCHANGED <<events, fd>>
    BY <1>5, EventIsFirst DEF Recv
  <2>2. d # c
    BY <1>5
  <2> QED
    BY <2>1, <2>2 DEF Serving
<1>6. ASSUME NEW d \in Conns, RecvEnd(d) PROVE Serving(c)
  <2>1. pc = "event" /\ events # <<>> /\ fd' = [fd EXCEPT ![d] = "closed"]
    BY <1>6, EventIsFirst DEF RecvEnd
  <2>2. pc' \in {"wait", "event"}
    BY <1>6, <2>1, RoundGoesOn DEF RecvEnd
  <2> QED
    BY <2>1, <2>2 DEF Serving, TypeOK
<1>7. ASSUME NEW d \in Conns, Send(d) \/ OutOfRange(d) PROVE Serving(c)
  <2>1. pc = "event" /\ pc' \in {"mod_in", "exited"} /\ UNCHANGED <<events, fd>>
    BY <1>7, EventIsFirst DEF Send, OutOfRange
  <2> QED
    BY <2>1 DEF Serving
<1>8. ASSUME NEW d \in Conns, Connect(d) \/ Ask(d) \/ Close(d) PROVE Serving(c)
  <2>1. UNCHANGED <<pc, events, fd>>
    BY <1>8 DEF Connect, Ask, Close
  <2> QED
    BY <2>1 DEF Serving
<1>9. CASE UNCHANGED vars
  BY <1>9 DEF vars, Serving
<1> QED
  BY <1>1, <1>2, <1>3, <1>4, <1>5, <1>6, <1>7, <1>8, <1>9 DEF Next, Run

\* What the loop sends on, or finds out of range, it holds a request of.
LEMMA SendsHeld ==
  ASSUME TypeOK, Round, NEW c \in Conns, Send(c)
  PROVE  Serving(c) /\ ~Serving(c)'
<1>1. pc = "event" /\ fd[c] = "out" /\ Head(events).fd = c
  BY EventIsFirst, ConnsAssumption DEF Send
<1>2. pc' = "mod_in" /\ UNCHANGED <<events, fd>>
  BY DEF Send
<1> QED
  BY <1>1, <1>2 DEF Serving

LEMMA GotOneMore ==
  ASSUME TypeOK, NEW c \in Conns, Send(c)
  PROVE  /\ \A d \in Conns : d # c => got'[d] = got[d]
         /\ \/ got'[c] = got[c]
            \/ /\ Len(got[c]) \in Nat /\ Len(got'[c]) = Len(got[c]) + 1
               /\ DOMAIN got'[c] = 1..Len(got[c]) + 1 /\ DOMAIN got[c] = 1..Len(got[c])
               /\ got'[c][Len(got[c]) + 1] = Response(recv_buf)
               /\ \A k \in DOMAIN got[c] : got'[c][k] = got[c][k]
<1>1. got' = [got EXCEPT ![c] = IF client[c] = "open" THEN Append(@, Response(recv_buf)) ELSE @]
  BY DEF Send
<1>2. got[c] \in Seq(Results) /\ Response(recv_buf) \in Results
  BY DEF TypeOK, Response, Results
<1>3. got'[c] = got[c] \/ got'[c] = Append(got[c], Response(recv_buf))
  BY <1>1 DEF TypeOK
<1>4. \A d \in Conns : d # c => got'[d] = got[d]
  BY <1>1 DEF TypeOK
<1> QED
  BY <1>2, <1>3, <1>4

LEMMA CountsNext == TypeOK /\ Round /\ Waiting /\ Counts /\ [Next]_vars => Counts'
<1> SUFFICES ASSUME TypeOK, Round, Waiting, Counts, [Next]_vars, NEW c \in Conns
             PROVE  /\ Len(got'[c]) <= taken'[c] /\ taken'[c] <= asked'[c]
                    /\ asked'[c] <= Len(got'[c]) + 1 /\ asked'[c] <= Len(Asks[c])
                    /\ Serving(c)' => Len(got'[c]) < taken'[c]
  BY DEF Counts
<1>a. /\ Len(got[c]) \in Nat /\ taken[c] \in Nat /\ asked[c] \in Nat
      /\ Len(got[c]) <= taken[c] /\ taken[c] <= asked[c]
      /\ asked[c] <= Len(got[c]) + 1 /\ asked[c] <= Len(Asks[c]) /\ Len(Asks[c]) \in Nat
      /\ Serving(c) => Len(got[c]) < taken[c]
  BY FilesAssumption DEF Counts, TypeOK
<1>1. CASE got'[c] = got[c] /\ taken'[c] = taken[c] /\ asked'[c] = asked[c] /\ ~Recv(c)
  <2>1. Serving(c)' => Serving(c)
    BY <1>1, ServingBegins
  <2> QED
    BY <1>a, <1>1, <2>1
<1>2. CASE Recv(c)
  <2>1. taken[c] < asked[c] /\ taken'[c] = asked[c] /\ got' = got /\ asked' = asked
    BY <1>2 DEF Recv, HasRequest, clients, TypeOK
  <2> QED
    BY <1>a, <2>1
<1>3. CASE Send(c)
  <2>1. Serving(c) /\ ~Serving(c)' /\ taken' = taken /\ asked' = asked
    BY <1>3, SendsHeld DEF Send, clients
  <2>2. got'[c] = got[c] \/ Len(got'[c]) = Len(got[c]) + 1
    BY <1>3, GotOneMore
  <2> QED
    BY <1>a, <2>1, <2>2
<1>4. CASE Ask(c)
  <2>1. asked[c] = Len(got[c]) /\ Len(got[c]) # Len(Asks[c])
        /\ asked'[c] = asked[c] + 1 /\ got' = got /\ taken' = taken
    BY <1>4 DEF Ask, Done, TypeOK
  <2>2. Serving(c)' => Serving(c)
    BY <1>4, ServingBegins DEF Ask, Recv, Event
  <2> QED
    BY <1>a, <2>1, <2>2
<1>5. ASSUME NEW d \in Conns, d # c, Recv(d) \/ Send(d) \/ Ask(d)
      PROVE  got'[c] = got[c] /\ taken'[c] = taken[c] /\ asked'[c] = asked[c] /\ ~Recv(c)
  <2>1. got'[c] = got[c] /\ taken'[c] = taken[c] /\ asked'[c] = asked[c]
    BY <1>5, GotOneMore DEF Recv, Send, Ask, clients, TypeOK
  <2>2. ~Recv(c)
    BY <1>5 DEF Recv, Send, Ask, Event, clients
  <2> QED
    BY <2>1, <2>2
<1>6. ASSUME EpollWait \/ Accept \/ ModOut \/ ModIn \/ UNCHANGED vars
             \/ \E d \in Conns : RecvEnd(d) \/ OutOfRange(d) \/ Connect(d) \/ Close(d)
      PROVE  got' = got /\ taken' = taken /\ asked' = asked
  BY <1>6 DEF EpollWait, Accept, ModOut, ModIn, RecvEnd, OutOfRange, Connect, Close, clients, vars
<1> QED
  BY <1>1, <1>2, <1>3, <1>4, <1>5, <1>6 DEF Next, Run

LEMMA BufferedNext == TypeOK /\ Round /\ Waiting /\ Counts /\ Buffered /\ [Next]_vars => Buffered'
<1> SUFFICES ASSUME TypeOK, Round, Waiting, Counts, Buffered, [Next]_vars, NEW c \in Conns,
                    Serving(c)', c \notin disturbed'
             PROVE  recv_buf' = Asks[c][taken'[c]]
  BY DEF Buffered
<1>1. CASE Recv(c)
  BY <1>1 DEF Recv, TypeOK
<1>2. CASE ~Recv(c)
  <2>1. Serving(c)
    BY <1>2, ServingBegins
  <2>2. ASSUME NEW d \in Conns, d # c, Recv(d) PROVE FALSE
    <3>1. fd[c] = "out"
      <4>1. pc = "event"
        BY <2>2 DEF Recv, Event
      <4> QED
        BY <2>1, <4>1 DEF Serving
    <3> QED
      BY <2>2, <3>1 DEF Recv, Overwrite
  <2>3. ASSUME NEW d \in Conns, RecvEnd(d) PROVE FALSE
    <3>1. pc = "event" /\ Head(events).fd = d /\ fd[d] = "in"
      BY <2>3, EventIsFirst, ConnsAssumption DEF RecvEnd
    <3>2. fd[c] = "out"
      BY <2>1, <3>1 DEF Serving
    <3> QED
      BY <2>3, <3>1, <3>2 DEF RecvEnd, Overwrite
  <2>4. UNCHANGED <<recv_buf, taken, disturbed>>
    BY <1>2, <2>2, <2>3 DEF Next, Run, EpollWait, Accept, ModOut, ModIn, Send, OutOfRange,
       Connect, Ask, Close, history, vars
  <2> QED
    BY <2>1, <2>4 DEF Buffered
<1> QED
  BY <1>1, <1>2

LEMMA AnsweredNext ==
  TypeOK /\ Round /\ Waiting /\ Counts /\ Buffered /\ Answered /\ [Next]_vars => Answered'
<1> SUFFICES ASSUME TypeOK, Round, Waiting, Counts, Buffered, Answered, [Next]_vars
             PROVE  Answered'
  OBVIOUS
<1>1. ASSUME NEW c \in Conns, Send(c) PROVE Answered'
  <2>1. Serving(c)
    BY <1>1, SendsHeld
  <2>2. \A d \in Conns : d # c => got'[d] = got[d]
    BY <1>1, GotOneMore
  <2>3. mixed \subseteq mixed'
    BY <1>1 DEF Send
  <2>4. ASSUME NEW k \in DOMAIN got'[c], <<c, k>> \notin mixed'
        PROVE  got'[c][k] = Response(Asks[c][k])
    <3>1. CASE k \in DOMAIN got[c]
      BY <1>1, <2>3, <2>4, <3>1, GotOneMore DEF Answered
    <3>2. CASE k \notin DOMAIN got[c]
      <4>1. k = Len(got[c]) + 1 /\ got'[c][k] = Response(recv_buf) /\ Len(got[c]) \in Nat
        BY <1>1, <3>2, GotOneMore
      <4>2. taken[c] = Len(got[c]) + 1
        <5>1. taken[c] \in Nat /\ asked[c] \in Nat
          BY DEF TypeOK
        <5> QED
          BY <2>1, <4>1, <5>1 DEF Counts
      <4>3. c \notin disturbed
        BY <1>1, <2>4, <4>1, <4>2 DEF Send
      <4>4. recv_buf = Asks[c][taken[c]]
        BY <2>1, <4>3 DEF Buffered
      <4> QED
        BY <4>1, <4>2, <4>4
    <3> QED
      BY <3>1, <3>2
  <2> QED
    BY <2>2, <2>3, <2>4 DEF Answered
<1>2. ASSUME \A c \in Conns : ~Send(c) PROVE Answered'
  <2>1. UNCHANGED <<got, mixed>>
    BY <1>2 DEF Next, Run, EpollWait, Accept, ModOut, ModIn, Recv, RecvEnd, OutOfRange,
       Connect, Ask, Close, history, vars
  <2> QED
    BY <2>1 DEF Answered
<1> QED
  BY <1>1, <1>2

\* IInv is inductive, for every set of connections and files and every series of
\* requests, in whatever order the clients connect, ask and give up.
THEOREM Invariance == Spec => []IInv
<1>1. Init => IInv
  BY TypeInit, RoundInit, ServedInit DEF IInv
<1>2. IInv /\ [Next]_vars => IInv'
  <2> SUFFICES ASSUME IInv, [Next]_vars PROVE IInv'
    OBVIOUS
  <2>1. TypeOK' /\ Round' /\ Waiting'
    BY TypeNext, RoundNext, WaitingNext DEF IInv
  <2>2. Counts' /\ Buffered' /\ Answered'
    BY CountsNext, BufferedNext, AnsweredNext DEF IInv
  <2> QED
    BY <2>1, <2>2 DEF IInv
<1> QED
  BY <1>1, <1>2, PTL DEF Spec

\* An answer on a connection is to a request read from it, each request is answered
\* at most once, and the answer is made from its own file unless the buffer was
\* overwritten: the loop answers from one buffer, many connections at a time.
THEOREM AnswersFit == Spec => []AnswersMatch
<1>1. IInv => AnswersMatch
  BY DEF IInv, Counts, Answered, AnswersMatch
<1> QED
  BY <1>1, Invariance, PTL

-----------------------------------------------------------------------------
(* Clients that wait for one another.                                      *)

LEMMA NoticedInit == Init => Noticed
BY DEF Init, Noticed

LEMMA NoticedNext == TypeOK /\ Round /\ Waiting /\ Noticed /\ [Next]_vars => Noticed'
<1> SUFFICES ASSUME TypeOK, Round, Waiting, Noticed, [Next]_vars PROVE Noticed'
  OBVIOUS
<1>a. Listen \in Fds /\ \A c \in Conns : c \in Fds /\ c # Listen
  BY ConnsAssumption DEF Fds
<1>b. \A c : Readable(c) \in BOOLEAN
  BY DEF Readable, HasRequest
<1>1. CASE EpollWait
  <2>1. UNCHANGED <<fd, client, asked, taken>> /\ events = <<>>
    BY <1>1 DEF EpollWait, clients, Round
  <2>2. ASSUME NEW c \in Conns, fd[c] = "in", Readable(c) PROVE ToHandle(c)'
    <3>1. c \in Range(ready)
      BY <2>1, <2>2 DEF Noticed, ToHandle
    <3>2. IsReady(c)
      BY <1>a, <2>2 DEF IsReady
    <3> QED
      BY <1>1, <3>1, <3>2, Reported
  <2>3. ASSUME NEW i \in DOMAIN events', events'[i].fd \in Conns, events'[i].event = "in"
        PROVE  Readable(events'[i].fd)
    <3>1. IsReady(events'[i].fd) /\ events'[i] = Report(events'[i].fd)
      BY <1>1, Reported
    <3> QED
      BY <1>a, <2>3, <3>1 DEF IsReady, Report
  <2> QED
    BY <2>1, <2>2, <2>3 DEF Noticed, Readable, HasRequest
<1>2. ASSUME events # <<>>, NextEvent, UNCHANGED <<client, asked, taken>>,
             Range(ready) \subseteq Range(ready'),
             NEW x \in Fds,
             \A c \in Conns : c # x /\ c # Head(events).fd /\ fd'[c] = "in" => fd[c] = "in",
             Head(events).fd \in Conns \ {x} => fd'[Head(events).fd] # "in",
             x \in Conns /\ fd'[x] = "in" /\ Readable(x) => x \in Range(ready')
      PROVE  Noticed'
  <2>1. ASSUME NEW c \in Conns, fd'[c] = "in", Readable(c)
        PROVE  c \in Range(ready') \/ ToHandle(c)'
    <3>1. CASE c = x
      BY <1>2, <2>1, <3>1
    <3>2. CASE c # x
      <4>1. c # Head(events).fd /\ fd[c] = "in"
        BY <1>2, <2>1, <3>2
      <4>2. ToHandle(c) => ToHandle(c)'
        BY <1>2, <4>1, RoundGoesOn
      <4> QED
        BY <1>2, <2>1, <4>1, <4>2 DEF Noticed
    <3> QED
      BY <3>1, <3>2
  <2>2. ASSUME NEW i \in DOMAIN events', events'[i].fd \in Conns, events'[i].event = "in"
        PROVE  Readable(events'[i].fd)
    <3>1. i \in Nat \ {0} /\ i + 1 \in DOMAIN events /\ events'[i] = events[i + 1]
      BY <1>2, RoundGoesOn
    <3>2. i + 1 # 1
      BY <3>1
    <3> QED
      BY <2>2, <3>1, <3>2 DEF Noticed
  <2> QED
    BY <1>2, <2>1, <2>2 DEF Noticed, Readable, HasRequest
<1>3. CASE Accept
  <2>1. /\ events # <<>> /\ Head(events).fd = Listen /\ Head(backlog) \in Conns
        /\ fd' = [fd EXCEPT ![Head(backlog)] = "in"]
    BY <1>3, AcceptsHead
  <2>2. NextEvent /\ UNCHANGED <<client, asked, taken>>
    BY <1>3 DEF Accept, clients
  <2>3. Range(ready') = Range(ready) \cup (IF Readable(Head(backlog)) THEN {Head(backlog)} ELSE {})
    BY <1>3, <1>a, <1>b, <2>1, SignalledIf DEF Accept
  <2>4. \A c \in Conns : c # Head(backlog) => fd'[c] = fd[c]
    BY <2>1 DEF TypeOK
  <2> QED
    BY <1>2, <1>a, <2>1, <2>2, <2>3, <2>4
<1>4. CASE ModOut
  <2>1. events # <<>> /\ Head(events).fd \in Conns
    BY <1>4, HandIsFirst DEF ModOut
  <2>2. NextEvent /\ UNCHANGED <<client, asked, taken>>
    BY <1>4 DEF ModOut, clients
  <2>3. Range(ready') = Range(ready) \cup {Head(events).fd}
    BY <1>4, <1>a, <2>1, Signalled DEF ModOut
  <2>4. \A c \in Conns : c # Head(events).fd => fd'[c] = fd[c]
    BY <1>4 DEF ModOut, TypeOK
  <2> QED
    BY <1>2, <1>a, <2>1, <2>2, <2>3, <2>4
<1>5. CASE ModIn
  <2>1. events # <<>> /\ Head(events).fd \in Conns
    BY <1>5, HandIsFirst DEF ModIn
  <2>2. NextEvent /\ UNCHANGED <<client, asked, taken>>
    BY <1>5 DEF ModIn, clients
  <2>3. Range(ready') = Range(ready) \cup (IF Readable(Head(events).fd) THEN {Head(events).fd} ELSE {})
    BY <1>5, <1>a, <1>b, <2>1, SignalledIf DEF ModIn
  <2>4. \A c \in Conns : c # Head(events).fd => fd'[c] = fd[c]
    BY <1>5 DEF ModIn, TypeOK
  <2> QED
    BY <1>2, <1>a, <2>1, <2>2, <2>3, <2>4
<1>6. ASSUME NEW d \in Conns, RecvEnd(d) PROVE Noticed'
  <2>1. events # <<>> /\ Head(events).fd = d
    BY <1>6, EventIsFirst DEF RecvEnd
  <2>2. NextEvent /\ UNCHANGED <<client, asked, taken, ready>>
    BY <1>6 DEF RecvEnd, clients
  <2>3. fd'[d] = "closed" /\ \A c \in Conns : c # d => fd'[c] = fd[c]
    BY <1>6 DEF RecvEnd, TypeOK
  <2> QED
    BY <1>2, <1>a, <2>1, <2>2, <2>3
<1>7. ASSUME NEW d \in Conns, Recv(d) PROVE Noticed'
  <2>1. UNCHANGED <<events, ready, fd, client, asked>> /\ pc = "event" /\ pc' = "mod_out"
        /\ events[1].fd = d /\ 1 \in DOMAIN events
    BY <1>7, EventIsFirst DEF Recv, clients
  <2>2. taken' = [taken EXCEPT ![d] = asked[d]] /\ taken[d] < asked[d]
    BY <1>7 DEF Recv, HasRequest
  <2>3. \A c \in Conns : Readable(c)' => Readable(c)
    BY <2>1, <2>2 DEF Readable, HasRequest, TypeOK
  <2>4. \A c \in Conns : c # d => Readable(c)' = Readable(c)
    BY <2>1, <2>2 DEF Readable, HasRequest, TypeOK
  <2>5. \A i \in DOMAIN events : i # 1 => events[i].fd # d
    BY <2>1 DEF Round
  <2> QED
    BY <2>1, <2>3, <2>4, <2>5 DEF Noticed, ToHandle
<1>8. ASSUME NEW d \in Conns, Send(d) \/ OutOfRange(d) PROVE Noticed'
  <2>1. UNCHANGED <<events, ready, fd, client, asked, taken>> /\ pc = "event"
    BY <1>8 DEF Send, OutOfRange, clients, Event
  <2> QED
    BY <2>1 DEF Noticed, ToHandle, Readable, HasRequest
<1>9. ASSUME NEW d \in Conns, Connect(d) \/ Ask(d) \/ Close(d) PROVE Noticed'
  <2>1. UNCHANGED <<events, pc, fd, taken>>
    BY <1>9 DEF Connect, Ask, Close
  <2>2. /\ Range(ready) \subseteq Range(ready')
        /\ fd[d] = "in" => d \in Range(ready')
    <3>1. CASE Connect(d)
      <4>1. Range(ready') = Range(ready) \cup {Listen} /\ fd[d] = "none"
        BY <1>a, <3>1, Signalled DEF Connect, Waiting
      <4> QED
        BY <4>1
    <3>2. CASE Ask(d) \/ Close(d)
      <4>1. Range(ready') = Range(ready) \cup (IF fd[d] = "in" THEN {d} ELSE {})
        BY <1>a, <3>2, SignalledIf DEF Ask, Close
      <4> QED
        BY <4>1
    <3> QED
      BY <1>9, <3>1, <3>2
  <2>3. \A c \in Conns : c # d => Readable(c)' = Readable(c)
    BY <1>9 DEF Connect, Ask, Close, Readable, HasRequest, TypeOK
  <2>4. Readable(d) => Readable(d)'
    <3>1. asked[d] \in Nat /\ taken[d] \in Nat
      BY DEF TypeOK
    <3>2. client'[d] = "closed" \/ (client[d] # "closed" /\ (asked'[d] = asked[d] \/ asked'[d] = asked[d] + 1))
      BY <1>9 DEF Connect, Ask, Close, TypeOK
    <3> QED
      BY <2>1, <3>1, <3>2 DEF Readable, HasRequest
  <2> QED
    BY <2>1, <2>2, <2>3, <2>4 DEF Noticed, ToHandle
<1>10. CASE UNCHANGED vars
  BY <1>10 DEF vars, clients, Noticed, ToHandle, Readable, HasRequest
<1> QED
  BY <1>1, <1>3, <1>4, <1>5, <1>6, <1>7, <1>8, <1>9, <1>10 DEF Next, Run

LEMMA OneOpenNext ==
  ASSUME serial, TypeOK, Round, Waiting, Counts, OneOpen, [Next]_vars
  PROVE  OneOpen'
<1>a. \A i \in DOMAIN backlog : backlog[i] \in Conns
  BY DEF TypeOK
<1>1. ASSUME NEW c \in Conns, Connect(c) PROVE OneOpen'
  <2>1. /\ client[c] = "none" /\ \A d \in Conns : client[d] # "open"
        /\ client' = [client EXCEPT ![c] = "open"] /\ backlog' = Append(backlog, c)
        /\ UNCHANGED <<asked, got, fd>>
    BY <1>1 DEF Connect
  <2>2. \A d \in Conns : client'[d] = "open" => d = c
    BY <2>1 DEF TypeOK
  <2>3. \A d \in Conns : client'[d] = "closed" => asked'[d] = Len(got'[d])
    BY <2>1 DEF TypeOK, OneOpen
  <2>4. fd'[c] = "none"
    BY <2>1 DEF Waiting
  <2>5. /\ Len(backlog) \in Nat /\ DOMAIN backlog = 1..Len(backlog)
        /\ DOMAIN backlog' = 1..Len(backlog) + 1 /\ Len(backlog') = Len(backlog) + 1
        /\ \A i \in DOMAIN backlog : backlog'[i] = backlog[i]
    BY <2>1 DEF TypeOK
  <2>6. ASSUME NEW i \in DOMAIN backlog', client'[backlog'[i]] = "open" PROVE i = Len(backlog')
    <3>1. i \in DOMAIN backlog \/ i = Len(backlog')
      BY <2>5
    <3>2. ASSUME i \in DOMAIN backlog PROVE FALSE
      <4>1. backlog'[i] = backlog[i] /\ backlog[i] \in Conns /\ client[backlog[i]] # "none"
        BY <1>a, <2>5, <3>2 DEF Waiting
      <4>2. backlog[i] = c
        BY <2>2, <2>6, <4>1
      <4> QED
        BY <2>1, <4>1, <4>2
    <3> QED
      BY <3>1, <3>2
  <2> QED
    BY <2>2, <2>3, <2>4, <2>6 DEF OneOpen
<1>2. CASE Accept
  <2>1. /\ backlog # <<>> /\ backlog' = Tail(backlog) /\ Head(backlog) \in Conns
        /\ fd' = [fd EXCEPT ![Head(backlog)] = "in"]
    BY <1>2, AcceptsHead
  <2>2. backlog \in Seq(Conns) /\ Head(backlog) = backlog[1] /\ 1 \in DOMAIN backlog
    BY <2>1, TailOf DEF TypeOK
  <2>3. UNCHANGED <<client, asked, got>>
    BY <1>2 DEF Accept, clients
  <2>4. ASSUME NEW c \in Conns, client'[c] = "open", fd'[c] # "none" PROVE backlog' = <<>>
    <3>1. fd[c] = "none"
      BY <2>1, <2>3, <2>4 DEF OneOpen
    <3>2. c = Head(backlog)
      BY <2>1, <2>4, <3>1 DEF TypeOK
    <3>3. Len(backlog) = 1
      BY <2>2, <2>3, <2>4, <3>2 DEF OneOpen
    <3>4. \A s \in Seq(Conns) : Len(s) = 1 => Tail(s) = <<>>
      <4>1. \A s \in Seq(Conns) : Len(s) = 1 => Tail(s) \in Seq(Conns) /\ Len(Tail(s)) = 0
        OBVIOUS
      <4>2. \A s \in Seq(Conns) : Len(s) = 0 => s = <<>>
        OBVIOUS
      <4> QED
        BY <4>1, <4>2
    <3> QED
      BY <2>1, <2>2, <3>3, <3>4
  <2>5. ASSUME NEW i \in DOMAIN backlog', client'[backlog'[i]] = "open" PROVE i = Len(backlog')
    <3>1. i \in Nat /\ i + 1 \in DOMAIN backlog /\ backlog'[i] = backlog[i + 1]
      BY <2>1, <2>2, TailOf
    <3>2. i + 1 = Len(backlog)
      BY <2>3, <2>5, <3>1 DEF OneOpen
    <3>3. Len(backlog') = Len(backlog) - 1
      BY <2>1, <2>2
    <3> QED
      BY <3>1, <3>2, <3>3
  <2> QED
    BY <2>3, <2>4, <2>5 DEF OneOpen
<1>3. ASSUME NEW c \in Conns, Close(c) PROVE OneOpen'
  <2>1. /\ client[c] = "open" /\ client' = [client EXCEPT ![c] = "closed"]
        /\ UNCHANGED <<asked, got, fd, backlog>> /\ Len(got[c]) = Len(Asks[c])
    BY <1>3 DEF Close, Done
  <2>2. asked[c] = Len(got[c])
    <3>1. asked[c] \in Nat /\ taken[c] \in Nat /\ Len(got[c]) \in Nat
      BY DEF TypeOK
    <3> QED
      BY <2>1, <3>1 DEF Counts
  <2>3. \A d \in Conns : client'[d] = "open" => client[d] = "open"
    BY <2>1 DEF TypeOK
  <2>4. \A d \in Conns : client'[d] = "closed" => asked'[d] = Len(got'[d])
    BY <2>1, <2>2 DEF OneOpen, TypeOK
  <2> QED
    BY <1>a, <2>1, <2>3, <2>4 DEF OneOpen
<1>4. ASSUME UNCHANGED <<client, backlog>>,
             \A c \in Conns : client[c] = "closed" => asked'[c] = asked[c] /\ got'[c] = got[c],
             \A c \in Conns : fd'[c] # "none" => fd[c] # "none"
      PROVE  OneOpen'
  BY <1>4 DEF OneOpen
<1>5. CASE ModOut \/ ModIn
  <2>1. Head(events).fd \in Conns /\ fd[Head(events).fd] # "none"
    BY <1>5, HandIsFirst DEF ModOut, ModIn
  <2>2. \A c \in Conns : c # Head(events).fd => fd'[c] = fd[c]
    BY <1>5 DEF ModOut, ModIn, TypeOK
  <2>3. UNCHANGED <<client, backlog, asked, got>>
    BY <1>5 DEF ModOut, ModIn, clients
  <2> QED
    BY <1>4, <2>1, <2>2, <2>3
<1>6. ASSUME NEW d \in Conns, RecvEnd(d) PROVE OneOpen'
  <2>1. fd[d] = "in"
    BY <1>6, EventIsFirst, ConnsAssumption DEF RecvEnd
  <2>2. \A c \in Conns : c # d => fd'[c] = fd[c]
    BY <1>6 DEF RecvEnd, TypeOK
  <2>3. UNCHANGED <<client, backlog, asked, got>>
    BY <1>6 DEF RecvEnd, clients
  <2> QED
    BY <1>4, <2>1, <2>2, <2>3
<1>7. ASSUME NEW d \in Conns, Send(d) PROVE OneOpen'
  <2>1. UNCHANGED <<client, backlog, asked, fd>>
    BY <1>7 DEF Send, clients
  <2>2. \A c \in Conns : client[c] = "closed" => got'[c] = got[c]
    BY <1>7 DEF Send, TypeOK
  <2> QED
    BY <1>4, <2>1, <2>2
<1>8. ASSUME NEW d \in Conns, Ask(d) PROVE OneOpen'
  <2>1. UNCHANGED <<client, backlog, got, fd>>
    BY <1>8 DEF Ask
  <2>2. \A c \in Conns : client[c] = "closed" => asked'[c] = asked[c]
    BY <1>8 DEF Ask, TypeOK
  <2> QED
    BY <1>4, <2>1, <2>2
<1>9. CASE EpollWait \/ (\E c \in Conns : Recv(c) \/ OutOfRange(c)) \/ UNCHANGED vars
  <2>1. UNCHANGED <<client, backlog, asked, got, fd>>
    BY <1>9 DEF EpollWait, Recv, OutOfRange, clients, vars
  <2> QED
    BY <1>4, <2>1
<1> QED
  BY <1>1, <1>2, <1>3, <1>5, <1>6, <1>7, <1>8, <1>9 DEF Next, Run

\* Of clients that wait for one another, the loop holds a request only of the one
\* that is open.
LEMMA ServesOpen ==
  ASSUME TypeOK, Waiting, Counts, OneOpen, NEW c \in Conns, Serving(c) \/ HasRequest(c)
  PROVE  client[c] = "open"
<1>1. Len(got[c]) \in Nat /\ taken[c] \in Nat /\ asked[c] \in Nat
  BY DEF TypeOK
<1>2. Len(got[c]) < asked[c]
  BY <1>1 DEF Counts, HasRequest
<1>3. client[c] # "none" /\ client[c] # "closed"
  BY <1>1, <1>2 DEF Waiting, OneOpen
<1> QED
  BY <1>3 DEF TypeOK

LEMMA EndsFirstNext ==
  ASSUME serial, TypeOK, Round, Waiting, Counts, Noticed, OneOpen, EndsFirst, [Next]_vars
  PROVE  EndsFirst'
<1> SUFFICES ASSUME NEW d \in Conns, Left(d)'
             PROVE  /\ ToHandle(Listen)' => fd'[d] = "in" /\ ToHandle(d)'
                    /\ \A c \in Conns :
                         client'[c] = "open" /\ fd'[c] # "none" =>
                           fd'[c] = "in" /\ fd'[d] = "in" /\ ToHandle(d)' /\ ~ToHandle(c)'
  BY DEF EndsFirst
<1>a. client'[d] = "closed" /\ fd'[d] \in {"in", "out"} /\ d # Listen
  BY ConnsAssumption DEF Left
<1>b. Left(d) => /\ ToHandle(Listen) => fd[d] = "in" /\ ToHandle(d)
                 /\ \A c \in Conns :
                      client[c] = "open" /\ fd[c] # "none" =>
                        fd[c] = "in" /\ fd[d] = "in" /\ ToHandle(d) /\ ~ToHandle(c)
  BY DEF EndsFirst
<1>1. CASE EpollWait
  <2>1. UNCHANGED <<fd, client>> /\ events = <<>> /\ pc = "wait"
    BY <1>1 DEF EpollWait, clients, Round
  <2>2. \A x : ~ToHandle(x)
    BY <2>1 DEF ToHandle
  <2>3. Left(d) /\ client[d] = "closed"
    BY <1>a, <2>1 DEF Left
  <2>4. ~Serving(d)
    BY <2>3, ServesOpen
  <2>5. fd[d] = "in"
    BY <2>1, <2>3, <2>4 DEF Left, Serving
  <2>6. d \in Range(ready) /\ IsReady(d)
    BY <1>a, <2>2, <2>3, <2>5 DEF Noticed, Readable, IsReady
  <2>7. ToHandle(d)'
    BY <1>1, <2>6, Reported
  <2> QED
    BY <1>b, <2>1, <2>2, <2>3, <2>5, <2>7
<1>2. CASE Accept
  <2> DEFINE x == Head(backlog)
  <2>1. /\ events # <<>> /\ Head(events).fd = Listen /\ backlog # <<>>
        /\ x \in Conns /\ fd[x] = "none" /\ ~ToHandle(x)
        /\ fd' = [fd EXCEPT ![x] = "in"]
    BY <1>2, AcceptsHead
  <2>2. NextEvent /\ client' = client
    BY <1>2 DEF Accept, clients
  <2>3. \A y : ToHandle(y)' <=> ToHandle(y) /\ y # Listen
    BY <2>1, <2>2, RoundGoesOn
  <2>4. ToHandle(Listen)
    BY <1>2, EventIsFirst DEF Accept
  <2>5. fd'[x] = "in" /\ \A c \in Conns : c # x => fd'[c] = fd[c]
    BY <2>1 DEF TypeOK
  <2> HIDE DEF x
  <2>6. ASSUME NEW c \in Conns, client'[c] = "open", fd'[c] # "none"
        PROVE  fd'[c] = "in" /\ fd'[d] = "in" /\ ToHandle(d)' /\ ~ToHandle(c)'
    <3>1. c = x
      BY <2>1, <2>2, <2>5, <2>6 DEF OneOpen
    <3>2. d # x /\ Left(d)
      BY <1>a, <2>2, <2>5, <2>6, <3>1 DEF Left
    <3> QED
      BY <1>a, <1>b, <2>1, <2>3, <2>4, <2>5, <3>1, <3>2
  <2> QED
    BY <2>3, <2>6
<1>3. CASE ModOut \/ ModIn
  <2> DEFINE h == Head(events).fd
  <2>1. /\ events # <<>> /\ h \in Conns /\ ToHandle(h) /\ h # Listen
        /\ fd[h] = Head(events).event
        /\ Head(events).event = (IF pc = "mod_out" THEN "in" ELSE "out")
        /\ pc \in {"mod_out", "mod_in"}
    BY <1>3, HandIsFirst, ConnsAssumption DEF ModOut, ModIn
  <2>2. NextEvent /\ client' = client
    BY <1>3 DEF ModOut, ModIn, clients
  <2>3. \A y : ToHandle(y)' <=> ToHandle(y) /\ y # h
    BY <2>1, <2>2, RoundGoesOn
  <2>4. \A c \in Conns : c # h => fd'[c] = fd[c]
    BY <1>3 DEF ModOut, ModIn, TypeOK
  <2>5. pc = "mod_out" => Serving(h)
    BY DEF Serving
  <2>6. pc = "mod_out" => client[h] = "open"
    BY <2>1, <2>5, ServesOpen
  <2>7. pc = "mod_in" => fd[h] = "out"
    BY <2>1
  <2>8. fd[h] \in {"in", "out"}
    BY <2>1
  <2> HIDE DEF h
  <2>9. Left(d)
    BY <1>a, <2>2, <2>4, <2>8 DEF Left
  <2>10. d = h => fd[d] = "out"
    BY <1>a, <2>1, <2>2, <2>6, <2>7
  <2>11. ToHandle(Listen)' => fd'[d] = "in" /\ ToHandle(d)'
    BY <1>b, <2>3, <2>4, <2>9, <2>10
  <2>12. ASSUME NEW c \in Conns, client'[c] = "open", fd'[c] # "none"
         PROVE  fd'[c] = "in" /\ fd'[d] = "in" /\ ToHandle(d)' /\ ~ToHandle(c)'
    <3>1. fd[c] # "none"
      BY <2>4, <2>8, <2>12
    <3>2. fd[c] = "in" /\ fd[d] = "in" /\ ToHandle(d) /\ ~ToHandle(c)
      BY <1>b, <2>2, <2>9, <2>12, <3>1
    <3>3. c # h /\ d # h
      BY <2>1, <2>10, <3>2
    <3> QED
      BY <2>3, <2>4, <3>2, <3>3
  <2> QED
    BY <2>11, <2>12
<1>4. ASSUME NEW x \in Conns, RecvEnd(x)
      PROVE  /\ ToHandle(Listen)' => fd'[d] = "in" /\ ToHandle(d)'
             /\ \A c \in Conns :
                  client'[c] = "open" /\ fd'[c] # "none" =>
                    fd'[c] = "in" /\ fd'[d] = "in" /\ ToHandle(d)' /\ ~ToHandle(c)'
  <2>1. events # <<>> /\ Head(events).fd = x /\ fd[x] = "in" /\ ToHandle(x)
    BY <1>4, EventIsFirst, ConnsAssumption DEF RecvEnd
  <2>2. NextEvent /\ client' = client /\ fd' = [fd EXCEPT ![x] = "closed"]
    BY <1>4 DEF RecvEnd, clients
  <2>3. \A y : ToHandle(y)' <=> ToHandle(y) /\ y # x
    BY <2>1, <2>2, RoundGoesOn
  <2>4. fd'[x] = "closed" /\ \A c \in Conns : c # x => fd'[c] = fd[c]
    BY <2>2 DEF TypeOK
  <2>5. d # x /\ Left(d)
    BY <1>a, <2>2, <2>4 DEF Left
  <2>6. ToHandle(Listen)' => fd'[d] = "in" /\ ToHandle(d)'
    BY <1>b, <2>3, <2>4, <2>5
  <2>7. ASSUME NEW c \in Conns, client'[c] = "open", fd'[c] # "none"
        PROVE  fd'[c] = "in" /\ fd'[d] = "in" /\ ToHandle(d)' /\ ~ToHandle(c)'
    <3>1. fd[c] # "none"
      BY <2>1, <2>4, <2>7
    <3>2. fd[c] = "in" /\ fd[d] = "in" /\ ToHandle(d) /\ ~ToHandle(c)
      BY <1>b, <2>2, <2>5, <2>7, <3>1
    <3> QED
      BY <2>1, <2>3, <2>4, <2>5, <3>2
  <2> QED
    BY <2>6, <2>7
<1>5. ASSUME NEW x \in Conns, Close(x)
      PROVE  /\ ToHandle(Listen)' => fd'[d] = "in" /\ ToHandle(d)'
             /\ \A c \in Conns :
                  client'[c] = "open" /\ fd'[c] # "none" =>
                    fd'[c] = "in" /\ fd'[d] = "in" /\ ToHandle(d)' /\ ~ToHandle(c)'
  <2>1. UNCHANGED <<events, fd>> /\ client[x] = "open" /\ client' = [client EXCEPT ![x] = "closed"]
    BY <1>5 DEF Close
  <2>2. \A y : ToHandle(y)' <=> ToHandle(y)
    BY <2>1 DEF ToHandle
  <2>3. \A c \in Conns : client'[c] = "open" => client[c] = "open" /\ c # x
    BY <2>1 DEF TypeOK
  <2>4. CASE d = x
    <3>1. backlog = <<>>
      BY <1>a, <2>1, <2>4 DEF OneOpen
    <3>2. ~ToHandle(Listen)
      BY <3>1 DEF ToHandle, Round
    <3>3. \A c \in Conns : client'[c] # "open"
      BY <2>1, <2>3 DEF OneOpen
    <3> QED
      BY <2>2, <3>2, <3>3
  <2>5. CASE d # x
    <3>1. Left(d)
      BY <1>a, <2>1, <2>5 DEF Left, TypeOK
    <3> QED
      BY <1>b, <2>1, <2>2, <2>3, <3>1
  <2> QED
    BY <2>4, <2>5
<1>6. ASSUME NEW x \in Conns, Connect(x)
      PROVE  /\ ToHandle(Listen)' => fd'[d] = "in" /\ ToHandle(d)'
             /\ \A c \in Conns :
                  client'[c] = "open" /\ fd'[c] # "none" =>
                    fd'[c] = "in" /\ fd'[d] = "in" /\ ToHandle(d)' /\ ~ToHandle(c)'
  <2>1. UNCHANGED <<events, fd>> /\ client[x] = "none" /\ client' = [client EXCEPT ![x] = "open"]
    BY <1>6 DEF Connect
  <2>2. \A y : ToHandle(y)' <=> ToHandle(y)
    BY <2>1 DEF ToHandle
  <2>3. fd[x] = "none" /\ \A c \in Conns : c # x => client'[c] = client[c]
    BY <2>1 DEF TypeOK, Waiting
  <2>4. Left(d)
    BY <1>a, <2>1, <2>3 DEF Left
  <2> QED
    BY <1>b, <2>1, <2>2, <2>3, <2>4
<1>7. CASE (\E c \in Conns : Recv(c) \/ Send(c) \/ OutOfRange(c) \/ Ask(c)) \/ UNCHANGED vars
  <2>1. UNCHANGED <<events, fd, client>>
    BY <1>7 DEF Recv, Send, OutOfRange, Ask, clients, vars
  <2>2. \A y : ToHandle(y)' <=> ToHandle(y)
    BY <2>1 DEF ToHandle
  <2>3. Left(d)
    BY <1>a, <2>1 DEF Left
  <2> QED
    BY <1>b, <2>1, <2>2, <2>3
<1> QED
  BY <1>1, <1>2, <1>3, <1>4, <1>5, <1>6, <1>7 DEF Next, Run

LEMMA UndisturbedNext ==
  ASSUME serial, TypeOK, Round, Waiting, Counts, Noticed, OneOpen, EndsFirst, Undisturbed,
         [Next]_vars
  PROVE  Undisturbed'
<1>1. mixed' = {}
  <2>1. ASSUME NEW c \in Conns, Send(c) PROVE mixed' = mixed
    <3>1. c \notin disturbed
      BY <2>1, SendsHeld DEF Undisturbed
    <3> QED
      BY <2>1, <3>1 DEF Send
  <2>2. ASSUME \A c \in Conns : ~Send(c) PROVE mixed' = mixed
    BY <2>2 DEF Next, Run, EpollWait, Accept, ModOut, ModIn, Recv, RecvEnd, OutOfRange,
       Connect, Ask, Close, history, vars
  <2> QED
    BY <2>1, <2>2 DEF Undisturbed
<1>2. ASSUME NEW c \in Conns, Serving(c)' PROVE c \notin disturbed'
  <2>1. CASE Recv(c)
    BY <2>1 DEF Recv, Overwrite
  <2>2. CASE ~Recv(c)
    <3>1. Serving(c) /\ c \notin disturbed
      BY <1>2, <2>2, ServingBegins DEF Undisturbed
    <3>2. client[c] = "open"
      BY <3>1, ServesOpen
    <3>3. ASSUME NEW x \in Conns, Recv(x) PROVE FALSE
      <4>1. client[x] = "open"
        BY <3>3, ServesOpen DEF Recv
      <4> QED
        BY <2>2, <3>2, <3>3, <4>1 DEF OneOpen
    <3>4. ASSUME NEW x \in Conns, RecvEnd(x) PROVE FALSE
      <4>1. /\ pc = "event" /\ events # <<>> /\ 1 \in DOMAIN events /\ Head(events) = events[1]
            /\ events[1].fd = x /\ events[1].event = "in" /\ fd[x] = "in"
        BY <3>4, EventIsFirst, ConnsAssumption DEF RecvEnd
      <4>2. Readable(x)
        BY <4>1 DEF Noticed
      <4>3. Left(x)
        BY <3>4, <4>1, <4>2 DEF RecvEnd, Readable, Left
      <4>4. fd[c] = "out"
        BY <3>1, <4>1 DEF Serving
      <4> QED
        BY <3>2, <4>3, <4>4 DEF EndsFirst
    <3>5. disturbed' = disturbed
      BY <3>3, <3>4 DEF Next, Run, EpollWait, Accept, ModOut, ModIn, Send, OutOfRange,
         Connect, Ask, Close, history, vars
    <3> QED
      BY <3>1, <3>5
  <2> QED
    BY <2>1, <2>2
<1> QED
  BY <1>1, <1>2 DEF Undisturbed

LEMMA SInvInit == Init => SInv
<1> SUFFICES ASSUME Init PROVE OneOpen /\ EndsFirst /\ Undisturbed
  BY DEF SInv
<1>1. /\ \A c \in Conns : client[c] = "none" /\ fd[c] = "none"
      /\ backlog = <<>> /\ pc = "wait" /\ mixed = {}
  BY DEF Init
<1> QED
  BY <1>1 DEF OneOpen, EndsFirst, Left, Undisturbed, Serving

\* Clients that connect one after the other, each when the one before it is done,
\* never get each other's files, for any number of clients and requests: the end
\* of a connection is read before the first request of the next.
THEOREM SerialAreApart == Spec => []SerialNotMixed
<1>1. IInv /\ Noticed /\ [Next]_vars => Noticed'
  BY NoticedNext DEF IInv
<1>2. Spec => []Noticed
  BY <1>1, NoticedInit, Invariance, PTL DEF Spec
<1>3. IInv /\ Noticed /\ SInv /\ [Next]_vars => SInv'
  <2> SUFFICES ASSUME IInv, Noticed, SInv, [Next]_vars, serial'
               PROVE  (OneOpen /\ EndsFirst /\ Undisturbed)'
    BY DEF SInv
  <2>1. serial
    BY DEF Next, Run, EpollWait, Accept, ModOut, ModIn, Recv, RecvEnd, Send, OutOfRange,
       Connect, Ask, Close, clients, vars
  <2>2. OneOpen /\ EndsFirst /\ Undisturbed
    BY <2>1 DEF SInv
  <2>3. TypeOK /\ Round /\ Waiting /\ Counts
    BY DEF IInv
  <2> QED
    BY <2>1, <2>2, <2>3, OneOpenNext, EndsFirstNext, UndisturbedNext
<1>4. SInv => SerialNotMixed
  BY DEF SInv, Undisturbed, SerialNotMixed
<1> QED
  BY <1>2, <1>3, <1>4, SInvInit, Invariance, PTL DEF Spec
=============================================================================

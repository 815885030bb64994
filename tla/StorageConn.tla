---------------------------- MODULE StorageConn ----------------------------
(***************************************************************************)
(* The connections of the storage server (storage_server/                  *)
(* storage_server.cpp): a pool of threads takes turns to accept, and each  *)
(* thread reads messages from its connection until it ends.                *)
(*                                                                         *)
(* The reading processes of the relay send every message in a block of     *)
(* PACKAGE_SIZE bytes.  The server has no framing but the number of bytes  *)
(* that each handler reads, field by field, with one read per field.       *)
(* Positions count bytes, and the sizes are the program's.                 *)
(*                                                                         *)
(* The operations of PendingFile are single steps here.  A byte that is    *)
(* not the first of a block is taken for one that is no type of message:   *)
(* it belongs to what an earlier message left in the block of the shared   *)
(* memory, or to the content of a file.                                    *)
(***************************************************************************)
EXTENDS Integers, Sequences, FiniteSets

CONSTANTS Threads,    \* the threads of the pool (SS_N_THREADS)
          Conns,      \* connections the reading processes make
          FileIDs,    \* identities of files
          Traffics,   \* what the connections may bring, see Traffic
          NULL

PACKAGE_SIZE == 8192

\* The payload of a data packet fills at most the block.
MaxLen == PACKAGE_SIZE - 51

Message == [type : {"N"}, id : FileIDs, size : Nat]
             \cup [type : {"D"}, id : FileIDs, offset : Nat, len : 0..MaxLen]
             \cup [type : {"E"}, id : FileIDs]

\* brings: the messages of each connection; after: the connection its process
\* closed before it made this one, or NULL; cut: 0, or the byte of a block at
\* which the network splits it in two.
Traffic == [brings : [Conns -> Seq(Message)], after : [Conns -> Conns \cup {NULL}],
            cut : {0} \cup (51..PACKAGE_SIZE - 1)]

ASSUME NullAssumption == NULL \notin Threads \cup Conns
ASSUME TrafficAssumption == Traffics \subseteq Traffic

VARIABLES
  traffic,    \* the traffic of this behaviour
  client,     \* client[c]: has the process yet to connect, is it open, closed?
  arrived,    \* arrived[c]: the bytes that have arrived
  backlog,    \* the connections to accept, in order
  mlock,      \* the thread that holds mlock, or NULL
  pc,         \* pc[t]: what thread t does next
  conn_fd,    \* conn_fd[t]: the connection of thread t
  pos,        \* pos[c]: the bytes read from c
  msg,        \* msg[t]: the place in brings of the message t handles
  fields,     \* fields[t]: the reads the handler has yet to do
  file_size, dl_size,   \* per file, of its PendingFile
  handled     \* handled[c]: the places of the messages handled, in order

net == <<traffic, client, arrived, backlog>>
thread == <<conn_fd, msg>>
files == <<file_size, dl_size>>
vars == <<net, mlock, pc, thread, pos, fields, files, handled>>

PC == {"lock", "accept", "type", "fields", "op", "ignore", "skip"}

Sent(c) == traffic.brings[c]

Init ==
  /\ traffic \in Traffics
  /\ client = [c \in Conns |-> "none"]
  /\ arrived = [c \in Conns |-> 0]
  /\ backlog = <<>>
  /\ mlock = NULL
  /\ pc = [t \in Threads |-> "lock"]
  /\ conn_fd = [t \in Threads |-> NULL]
  /\ pos = [c \in Conns |-> 0]
  /\ msg = [t \in Threads |-> 0]
  /\ fields = [t \in Threads |-> <<>>]
  /\ file_size = [f \in FileIDs |-> -1]
  /\ dl_size = [f \in FileIDs |-> 0]
  /\ handled = [c \in Conns |-> <<>>]

Goto(t, label) == pc' = [pc EXCEPT ![t] = label]

-----------------------------------------------------------------------------
(* The reading processes.                                                  *)

\* A process connects at its first message, or its first after an alarm.
Connect(c) ==
  /\ client[c] = "none" /\ Sent(c) # <<>>
  /\ traffic.after[c] # NULL => client[traffic.after[c]] = "closed"
  /\ client' = [client EXCEPT ![c] = "open"]
  /\ backlog' = Append(backlog, c)
  /\ UNCHANGED <<traffic, arrived, mlock, pc, thread, pos, fields, files, handled>>

\* A block arrives, or a piece of one.
Arrive(c) ==
  /\ client[c] = "open"
  /\ arrived[c] < Len(Sent(c)) * PACKAGE_SIZE
  /\ arrived' = [arrived EXCEPT ![c] =
                   IF traffic.cut = 0 THEN @ + PACKAGE_SIZE
                   ELSE IF @ % PACKAGE_SIZE = 0 THEN @ + traffic.cut
                   ELSE @ + PACKAGE_SIZE - traffic.cut]
  /\ UNCHANGED <<traffic, client, backlog, mlock, pc, thread, pos, fields, files, handled>>

\* The alarm closes a connection that has been idle for a minute.
Close(c) ==
  /\ client[c] = "open"
  /\ arrived[c] = Len(Sent(c)) * PACKAGE_SIZE
  /\ client' = [client EXCEPT ![c] = "closed"]
  /\ UNCHANGED <<traffic, arrived, backlog, mlock, pc, thread, pos, fields, files, handled>>

-----------------------------------------------------------------------------
(* thread_main                                                             *)

Lock(t) ==
  /\ pc[t] = "lock"
  /\ mlock = NULL
  /\ mlock' = t
  /\ Goto(t, "accept")
  /\ UNCHANGED <<net, thread, pos, fields, files, handled>>

\* Mutant: mlock is held while the connection is served.
AcceptHolding(t) ==
  /\ pc[t] = "accept"
  /\ backlog # <<>>
  /\ conn_fd' = [conn_fd EXCEPT ![t] = Head(backlog)]
  /\ backlog' = Tail(backlog)
  /\ UNCHANGED mlock
  /\ Goto(t, "type")
  /\ UNCHANGED <<traffic, client, arrived, msg, pos, fields, files, handled>>

Accept(t) ==
  /\ pc[t] = "accept"
  /\ backlog # <<>>
  /\ conn_fd' = [conn_fd EXCEPT ![t] = Head(backlog)]
  /\ backlog' = Tail(backlog)
  /\ mlock' = NULL
  /\ Goto(t, "type")
  /\ UNCHANGED <<traffic, client, arrived, msg, pos, fields, files, handled>>

\* read(conn_fd, ..., n): what there is, up to n bytes, and 0 bytes for ever at
\* the end of the connection; it blocks before that.
Available(c) == arrived[c] - pos[c]
AtEnd(c) == client[c] = "closed" /\ Available(c) = 0
Readable(c) == Available(c) > 0 \/ AtEnd(c)
Got(c, n) == IF Available(c) < n THEN Available(c) ELSE n

\* The reads of each handler after the byte of the type.
Reads(m) ==
  CASE m.type = "N" -> <<20, 20, 8, 2, PACKAGE_SIZE - 1 - 20 - 20 - 8 - 2>>
    [] m.type = "D" -> <<20, 20, 8, 2, m.len>>
    [] m.type = "E" -> <<20, PACKAGE_SIZE - 1 - 30>>

\* Mutant: the length of the data is not subtracted.
NeglectNoData(m) == IF m.type = "D" THEN PACKAGE_SIZE - 1 - 20 - 20 - 8 - 2 ELSE 0

\* What SS_GetFileData reads after the operation, to the end of the block.
Neglect(m) == IF m.type = "D" THEN PACKAGE_SIZE - 1 - 20 - 20 - 8 - 2 - m.len ELSE 0

\* The type of a message, or the end of the connection, which t closes.
ReadType(t) ==
  LET c == conn_fd[t] IN
  /\ pc[t] = "type"
  /\ Readable(c)
  /\ \/ /\ AtEnd(c)
        /\ conn_fd' = [conn_fd EXCEPT ![t] = NULL]
        /\ Goto(t, "lock")
        /\ UNCHANGED <<msg, pos, fields>>
     \/ /\ ~AtEnd(c) /\ pos[c] % PACKAGE_SIZE = 0
        /\ pos' = [pos EXCEPT ![c] = @ + 1]
        /\ msg' = [msg EXCEPT ![t] = pos[c] \div PACKAGE_SIZE + 1]
        /\ fields' = [fields EXCEPT ![t] = Reads(Sent(c)[msg'[t]])]
        /\ Goto(t, "fields")
        /\ UNCHANGED conn_fd
     \/ /\ ~AtEnd(c) /\ pos[c] % PACKAGE_SIZE # 0
        /\ pos' = [pos EXCEPT ![c] = @ + 1]
        /\ Goto(t, "skip")
        /\ UNCHANGED <<conn_fd, msg, fields>>
  /\ UNCHANGED <<net, mlock, files, handled>>

\* A field: the handler goes on with whatever read returned.  A read of 0 bytes
\* returns at once.
ReadField(t) ==
  LET c == conn_fd[t]
      n == Head(fields[t]) IN
  /\ pc[t] = "fields"
  /\ n = 0 \/ Readable(c)
  /\ pos' = [pos EXCEPT ![c] = @ + Got(c, n)]
  /\ fields' = [fields EXCEPT ![t] = Tail(@)]
  /\ Goto(t, IF Len(fields[t]) = 1 THEN "op" ELSE "fields")
  /\ UNCHANGED <<net, mlock, thread, files, handled>>

\* The message t handles; is it an end that has to wait for the file's bytes?
Handled(t) == Sent(conn_fd[t])[msg[t]]
\* Mutant: the end waits for no bytes once there is a header.
WaitsHeader(m) == m.type = "E" /\ file_size[m.id] = -1

Waits(m) == m.type = "E" /\ file_size[m.id] # dl_size[m.id]

\* The operation on the file.  SS_ClosePendingFile keeps the thread until the
\* bytes are complete, and forgets the file.
Operate(t) ==
  LET c == conn_fd[t]
      m == Handled(t) IN
  /\ pc[t] = "op"
  /\ ~Waits(m)
  /\ \/ /\ m.type = "N"
        /\ file_size' = [file_size EXCEPT ![m.id] = m.size]
        /\ Goto(t, "type")
        /\ UNCHANGED dl_size
     \/ /\ m.type = "D"
        /\ dl_size' = [dl_size EXCEPT ![m.id] = @ + m.len]
        /\ Goto(t, IF Neglect(m) = 0 THEN "type" ELSE "ignore")
        /\ UNCHANGED file_size
     \/ /\ m.type = "E"
        /\ file_size' = [file_size EXCEPT ![m.id] = -1]
        /\ dl_size' = [dl_size EXCEPT ![m.id] = 0]
        /\ Goto(t, "type")
  /\ handled' = [handled EXCEPT ![c] = Append(@, msg[t])]
  /\ UNCHANGED <<net, mlock, thread, pos, fields>>

\* The rest of a data block.
Ignore(t) ==
  LET c == conn_fd[t] IN
  /\ pc[t] = "ignore"
  /\ Readable(c)
  /\ pos' = [pos EXCEPT ![c] = @ + Got(c, Neglect(Handled(t)))]
  /\ Goto(t, "type")
  /\ UNCHANGED <<net, mlock, thread, fields, files, handled>>

\* An unknown type: one byte after another is read, and the loop's condition,
\* that msg differs from one of the types, is always true.
Skip(t) ==
  LET c == conn_fd[t] IN
  /\ pc[t] = "skip"
  /\ Available(c) > 0
  /\ pos' = [pos EXCEPT ![c] = arrived[c]]
  /\ UNCHANGED <<net, mlock, pc, thread, fields, files, handled>>

\* Nothing more arrives, and the threads wait or skip.
Idle ==
  /\ \A c \in Conns : client[c] = "closed" \/ Sent(c) = <<>>
  /\ \A t \in Threads :
       \/ pc[t] = "skip" /\ Available(conn_fd[t]) = 0
       \/ pc[t] = "op" /\ Waits(Handled(t))
       \/ pc[t] = "accept" /\ backlog = <<>>
       \/ pc[t] = "lock" /\ mlock # NULL
  /\ UNCHANGED vars

ThreadStep(t) ==
  \/ Lock(t) \/ Accept(t) \/ ReadType(t) \/ ReadField(t) \/ Operate(t)
  \/ Ignore(t) \/ Skip(t)
ProcessStep(c) == Connect(c) \/ Arrive(c) \/ Close(c)

Next == Idle \/ (\E t \in Threads : ThreadStep(t)) \/ (\E c \in Conns : ProcessStep(c))

Spec == Init /\ [][Next]_vars

\* Threads and processes run on unless a call blocks them.
FairSpec == /\ Spec
            /\ \A t \in Threads : WF_vars(ThreadStep(t))
            /\ \A c \in Conns : WF_vars(ProcessStep(c))

-----------------------------------------------------------------------------
(* Properties                                                              *)

IsEnd(c, k) == Sent(c)[k].type = "E"
EndHandled(c) == \E k \in DOMAIN handled[c] : IsEnd(c, handled[c][k])

\* However the lengths of the data fall, up to the full block, the handlers of
\* headers and of data read each a whole block: until an end message has been
\* handled on the connection, and as long as each block arrives in one piece, the
\* thread reads the next type at the start of the next block, and has handled the
\* blocks before it, each once and in order.
WholeBlocks ==
  \A t \in Threads :
    LET c == conn_fd[t] IN
    pc[t] \in {"type", "skip"} /\ traffic.cut = 0 /\ ~EndHandled(c) =>
      /\ pos[c] = Len(handled[c]) * PACKAGE_SIZE
      /\ handled[c] = [k \in 1..Len(handled[c]) |-> k]

\* The variables have their types.
TypeOK ==
  /\ traffic \in Traffics
  /\ client \in [Conns -> {"none", "open", "closed"}]
  /\ arrived \in [Conns -> Nat]
  /\ backlog \in Seq(Conns)
  /\ mlock \in Threads \cup {NULL}
  /\ pc \in [Threads -> PC]
  /\ conn_fd \in [Threads -> Conns \cup {NULL}]
  /\ pos \in [Conns -> Nat]
  /\ msg \in [Threads -> Nat]
  /\ fields \in [Threads -> Seq(Nat)]
  /\ file_size \in [FileIDs -> Int]
  /\ dl_size \in [FileIDs -> Nat]
  /\ handled \in [Conns -> Seq(Nat)]

\* What has arrived is whole blocks, and maybe the first piece of one; no byte is
\* read before it has arrived.
ArrivesInBlocks ==
  \A c \in Conns :
    /\ arrived[c] <= Len(Sent(c)) * PACKAGE_SIZE
    /\ arrived[c] % PACKAGE_SIZE \in {0, traffic.cut}
    /\ pos[c] <= arrived[c]

\* A connection is in one place: not made yet, to be accepted once, or with one
\* thread; and nothing is read from it before.
OneServer ==
  /\ \A i, j \in DOMAIN backlog : backlog[i] = backlog[j] => i = j
  /\ \A i \in DOMAIN backlog : client[backlog[i]] # "none"
  /\ \A c \in Conns :
       client[c] = "none" \/ (\E i \in DOMAIN backlog : backlog[i] = c) =>
         pos[c] = 0 /\ handled[c] = <<>> /\ \A t \in Threads : conn_fd[t] # c
  /\ \A t, u \in Threads : conn_fd[t] \in Conns /\ conn_fd[t] = conn_fd[u] => t = u

\* A thread that serves has a connection, and in a handler a message of it.
InHand ==
  \A t \in Threads :
    /\ pc[t] \notin {"lock", "accept"} => conn_fd[t] \in Conns
    /\ pc[t] \in {"fields", "op", "ignore"} => msg[t] \in DOMAIN Sent(conn_fd[t])
    /\ pc[t] = "fields" => fields[t] # <<>>

\* The bytes of the blocks handled, and of a block those before the k-th read.
Base(c) == Len(handled[c]) * PACKAGE_SIZE
Before(k) == CASE k = 1 -> 1 [] k = 2 -> 21 [] k = 3 -> 41 [] k = 4 -> 49 [] k = 5 -> 51

\* How far into its block a handler of a header or of data is at each step.
InBlock(t) ==
  LET c == conn_fd[t]
      m == Handled(t) IN
  /\ handled[c] = [k \in 1..Len(handled[c]) |-> k]
  /\ pc[t] # "skip"
  /\ pc[t] = "type" => pos[c] = Base(c)
  /\ pc[t] \in {"fields", "op"} => msg[t] = Len(handled[c]) + 1
  /\ pc[t] = "fields" /\ m.type # "E" =>
       \E k \in 1..5 :
         /\ pos[c] = Base(c) + Before(k)
         /\ Len(fields[t]) = 6 - k
         /\ \A i \in 1..6 - k : fields[t][i] = Reads(m)[k + i - 1]
  /\ pc[t] = "op" /\ m.type # "E" => pos[c] + Neglect(m) = Base(c) + PACKAGE_SIZE
  /\ pc[t] = "ignore" => pos[c] + Neglect(m) = Base(c) /\ Base(c) <= arrived[c]

InStep ==
  \A t \in Threads :
    conn_fd[t] \in Conns /\ traffic.cut = 0 /\ ~EndHandled(conn_fd[t]) => InBlock(t)

\* The inductive invariant behind WholeBlocks.
IInv == TypeOK /\ ArrivesInBlocks /\ OneServer /\ InHand /\ InStep

IsHandled(c, k) == \E i \in DOMAIN handled[c] : handled[c][i] = k
Places(c) == DOMAIN Sent(c)

\* Where a connection's traffic has its messages, and the bytes it has for a file.
PlacesIn(brings) == UNION {{c} \X DOMAIN brings[c] : c \in Conns}
BytesIn(brings, f) ==
  {b \in PlacesIn(brings) \X (1..MaxLen) :
     LET m == brings[b[1][1]][b[1][2]] IN m.type = "D" /\ m.id = f /\ b[2] <= m.len}

\* What the transfer clients send: a file has one header, with the number of bytes
\* that its packets have, and has finitely many packets.  The
\* theorem about DataBeforeEnd takes it as its hypothesis.
UploadsWhole ==
  \A tr \in Traffics : \A f \in FileIDs :
    /\ IsFiniteSet(BytesIn(tr.brings, f))
    /\ \A p, q \in PlacesIn(tr.brings) :
         LET m == tr.brings[p[1]][p[2]]
             n == tr.brings[q[1]][q[2]]
         IN m.type = "N" /\ m.id = f /\ n.type = "N" /\ n.id = f =>
              p = q /\ m.size = Cardinality(BytesIn(tr.brings, f))

\* Whatever threads the messages of a file come to, and in whatever order, its
\* end is through only when its header and all its data are counted, provided
\* that every packet has data.
DataBeforeEnd ==
  \A c \in Conns : \A k \in Places(c) :
    IsEnd(c, k) /\ IsHandled(c, k) =>
      \A d \in Conns : \A j \in Places(d) :
        Sent(d)[j].id = Sent(c)[k].id =>
          \/ IsHandled(d, j)
          \/ IsEnd(d, j) /\ ~IsHandled(d, j)
          \/ Sent(d)[j].type = "D" /\ Sent(d)[j].len = 0

\* Each handler of an end leaves its thread astray, so a pool serves uploads as
\* long as enough threads are left: those for the connections open at a time,
\* and one for each upload but the last.
Processes == {c \in Conns : traffic.after[c] = NULL /\ Sent(c) # <<>>}
EndConns == {c \in Conns : \E k \in Places(c) : IsEnd(c, k)}
PoolSuffices ==
  /\ traffic.cut = 0
  /\ \A c \in Conns : \A k \in Places(c) : IsEnd(c, k) => k = Len(Sent(c))
  /\ Cardinality(Processes) + Cardinality(EndConns) - 1 <= Cardinality(Threads)

AllHandled == \A c \in Conns : Len(handled[c]) = Len(Sent(c))

\* Then, if each block arrives whole and nothing follows an end on its
\* connection, every message is handled in the end: neither the accept mutex nor
\* the wait inside SS_ClosePendingFile keeps a thread from a connection for ever.
PoolServesAll == PoolSuffices => <>AllHandled
=============================================================================

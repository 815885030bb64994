------------------------- MODULE StorageConnProofs --------------------------
(***************************************************************************)
(* Proofs about StorageConn: whatever messages the connections bring, and  *)
(* whatever threads serve them, the handlers of headers and of data read   *)
(* whole blocks, and the end of a file waits for all of its data.          *)
(***************************************************************************)
EXTENDS StorageConn, FiniteSetTheorems, TLAPS

\* What InStep says of one thread.
Right(t) ==
  conn_fd[t] \in Conns /\ traffic.cut = 0 /\ ~EndHandled(conn_fd[t]) => InBlock(t)

-----------------------------------------------------------------------------
(* Messages and their sizes                                                *)

LEMMA TrafficType ==
  ASSUME traffic \in Traffics
  PROVE  /\ traffic.brings \in [Conns -> Seq(Message)]
         /\ traffic.after \in [Conns -> Conns \cup {NULL}]
         /\ traffic.cut \in {0} \cup (51..PACKAGE_SIZE - 1)
  <1>1. traffic \in Traffic
    BY TrafficAssumption
  <1> QED
    BY <1>1 DEF Traffic

LEMMA CutType ==
  ASSUME traffic \in Traffics
  PROVE  traffic.cut \in Nat /\ traffic.cut < 8192
  <1>1. PACKAGE_SIZE \in Nat /\ PACKAGE_SIZE > 0
    BY DEF PACKAGE_SIZE
  <1>2. traffic.cut = 0 \/ traffic.cut \in 51..PACKAGE_SIZE - 1
    BY TrafficType
  <1>3. traffic.cut \in Nat /\ traffic.cut < PACKAGE_SIZE
    BY <1>1, <1>2
  <1> QED
    BY <1>3 DEF PACKAGE_SIZE

LEMMA SentType ==
  ASSUME traffic \in Traffics, NEW c \in Conns
  PROVE  Sent(c) \in Seq(Message) /\ Len(Sent(c)) \in Nat
  <1>1. Sent(c) \in Seq(Message)
    BY TrafficType DEF Sent
  <1> QED
    BY <1>1

LEMMA MessageType ==
  \A m \in Message : m.type \in {"N", "D", "E"}
  BY DEF Message

LEMMA MessageFile ==
  \A m \in Message : m.id \in FileIDs
  BY DEF Message

LEMMA HeaderSize ==
  \A m \in Message : m.type = "N" => m.size \in Nat
  BY DEF Message

LEMMA DataLength ==
  \A m \in Message : m.type = "D" => m.len \in Nat /\ m.len <= 8141
  <1>1. \A m \in Message : m.type = "D" => m.len \in 0..MaxLen
    BY DEF Message
  <1>2. MaxLen \in Nat
    BY DEF MaxLen, PACKAGE_SIZE
  <1>3. \A m \in Message : m.type = "D" => m.len \in Nat /\ m.len <= MaxLen
    BY <1>1, <1>2
  <1> QED
    BY <1>3 DEF MaxLen, PACKAGE_SIZE

\* The reads of a handler, and the last of a header's or data's five.
LEMMA HeaderReads ==
  ASSUME NEW m \in Message, m.type = "N"
  PROVE  Reads(m) = <<20, 20, 8, 2, 8141>> /\ Neglect(m) = 0
  BY DEF Reads, Neglect, PACKAGE_SIZE

LEMMA DataReads ==
  ASSUME NEW m \in Message, m.type = "D"
  PROVE  Reads(m) = <<20, 20, 8, 2, m.len>> /\ Neglect(m) = 8141 - m.len
         /\ m.len \in Nat /\ m.len <= 8141
  <1>1. m.len \in Nat /\ m.len <= 8141
    BY DataLength
  <1>2. Reads(m) = <<20, 20, 8, 2, m.len>>
    BY DEF Reads
  <1>3. Neglect(m) = 8141 - m.len
    <2>1. Neglect(m) = PACKAGE_SIZE - 1 - 20 - 20 - 8 - 2 - m.len
      BY DEF Neglect, PACKAGE_SIZE
    <2> QED
      BY <1>1, <2>1 DEF PACKAGE_SIZE
  <1> QED
    BY <1>1, <1>2, <1>3

LEMMA EndReads ==
  ASSUME NEW m \in Message, m.type = "E"
  PROVE  Reads(m) = <<20, 8161>> /\ Neglect(m) = 0
  BY DEF Reads, Neglect, PACKAGE_SIZE

LEMMA ReadsType ==
  ASSUME NEW m \in Message
  PROVE  Reads(m) \in Seq(Nat) /\ Reads(m) # <<>> /\ Neglect(m) \in Nat
  <1>1. CASE m.type = "N"
    <2>1. <<20, 20, 8, 2, 8141>> \in Seq(Nat) /\ <<20, 20, 8, 2, 8141>> # <<>>
      OBVIOUS
    <2>2. Reads(m) = <<20, 20, 8, 2, 8141>> /\ Neglect(m) = 0
      BY <1>1, HeaderReads
    <2> QED
      BY <2>1, <2>2
  <1>2. CASE m.type = "D"
    <2>1. ASSUME NEW n \in Nat
          PROVE  <<20, 20, 8, 2, n>> \in Seq(Nat) /\ <<20, 20, 8, 2, n>> # <<>>
      OBVIOUS
    <2>a. /\ m.len \in Nat /\ m.len <= 8141
          /\ Reads(m) = <<20, 20, 8, 2, m.len>> /\ Neglect(m) = 8141 - m.len
      BY <1>2, DataReads
    <2>2. PICK n \in Nat : /\ n <= 8141 /\ Reads(m) = <<20, 20, 8, 2, n>>
                           /\ Neglect(m) = 8141 - n
      BY <2>a
    <2> QED
      BY <2>1, <2>2
  <1>3. CASE m.type = "E"
    <2>1. <<20, 8161>> \in Seq(Nat) /\ <<20, 8161>> # <<>>
      OBVIOUS
    <2>2. Reads(m) = <<20, 8161>> /\ Neglect(m) = 0
      BY <1>3, EndReads
    <2> QED
      BY <2>1, <2>2
  <1> QED
    BY <1>1, <1>2, <1>3, MessageType

LEMMA FiveReads ==
  ASSUME NEW m \in Message, m.type # "E"
  PROVE  /\ Len(Reads(m)) = 5
         /\ Reads(m)[1] = 20 /\ Reads(m)[2] = 20 /\ Reads(m)[3] = 8 /\ Reads(m)[4] = 2
         /\ Reads(m)[5] = 8141 - Neglect(m)
  <1>1. CASE m.type = "N"
    BY <1>1, HeaderReads
  <1>2. CASE m.type = "D"
    <2>a. /\ m.len \in Nat /\ m.len <= 8141
          /\ Reads(m) = <<20, 20, 8, 2, m.len>> /\ Neglect(m) = 8141 - m.len
      BY <1>2, DataReads
    <2>1. PICK n \in Nat : /\ n <= 8141 /\ Reads(m) = <<20, 20, 8, 2, n>>
                           /\ Neglect(m) = 8141 - n
      BY <2>a
    <2> QED
      BY <2>1
  <1> QED
    BY <1>1, <1>2, MessageType

\* A read stops at what has arrived.
LEMMA GotBounds ==
  ASSUME TypeOK, ArrivesInBlocks, NEW c \in Conns, NEW n \in Nat
  PROVE  /\ Got(c, n) \in Nat
         /\ pos[c] + Got(c, n) \in Nat
         /\ pos[c] + Got(c, n) <= arrived[c]
         /\ pos[c] + n <= arrived[c] => Got(c, n) = n
  BY DEF TypeOK, ArrivesInBlocks, Got, Available

\* The message that a thread handles.
LEMMA InHandType ==
  ASSUME TypeOK, InHand, NEW t \in Threads, pc[t] \in {"fields", "op", "ignore"}
  PROVE  /\ conn_fd[t] \in Conns /\ Handled(t) \in Message
         /\ msg[t] \in DOMAIN Sent(conn_fd[t])
  <1>1. conn_fd[t] \in Conns /\ msg[t] \in DOMAIN Sent(conn_fd[t])
    BY DEF InHand
  <1>2. Sent(conn_fd[t]) \in Seq(Message)
    BY <1>1, TrafficType DEF TypeOK, Sent
  <1> QED
    BY <1>1, <1>2 DEF Handled

\* The message whose type is read: the block has arrived, or a piece of it.
LEMMA NextMessage ==
  ASSUME TypeOK, ArrivesInBlocks, NEW c \in Conns, Available(c) > 0, pos[c] % PACKAGE_SIZE = 0,
         NEW k, k = pos[c] \div PACKAGE_SIZE + 1
  PROVE  k \in DOMAIN Sent(c) /\ k \in Nat /\ Sent(c)[k] \in Message
  <1>1. Sent(c) \in Seq(Message)
    BY TrafficType DEF TypeOK, Sent
  <1>2. pos[c] \in Nat /\ arrived[c] \in Nat /\ pos[c] < arrived[c]
        /\ arrived[c] <= Len(Sent(c)) * 8192
    BY DEF TypeOK, ArrivesInBlocks, Available, PACKAGE_SIZE
  <1>3. Len(Sent(c)) \in Nat
    BY <1>1
  <1>4. k \in 1..Len(Sent(c))
    <2> DEFINE p == pos[c]
               n == Len(Sent(c))
    <2>1. p \in Nat /\ n \in Nat /\ p < n * 8192 /\ k = p \div 8192 + 1
      BY <1>2, <1>3 DEF PACKAGE_SIZE
    <2> HIDE DEF p, n
    <2>2. k \in 1..n
      BY <2>1
    <2> QED
      BY <2>2 DEF n
  <1> QED
    BY <1>1, <1>4

-----------------------------------------------------------------------------
(* The initial states                                                      *)

LEMMA InitInvariant == Init => IInv
  <1> SUFFICES ASSUME Init PROVE IInv
    OBVIOUS
  <1>1. TypeOK
    BY DEF Init, TypeOK, PC
  <1>2. ArrivesInBlocks
    <2>1. \A c \in Conns : Len(Sent(c)) \in Nat
      BY <1>1, SentType DEF TypeOK
    <2>2. \A c \in Conns : arrived[c] = 0 /\ pos[c] = 0
      BY DEF Init
    <2>3. \A n \in Nat : 0 <= n * 8192
      OBVIOUS
    <2> QED
      BY <2>1, <2>2, <2>3 DEF ArrivesInBlocks, PACKAGE_SIZE
  <1>3. OneServer
    BY NullAssumption DEF Init, OneServer
  <1>4. InHand
    BY DEF Init, InHand
  <1>5. InStep
    BY NullAssumption DEF Init, InStep
  <1> QED
    BY <1>1, <1>2, <1>3, <1>4, <1>5 DEF IInv

-----------------------------------------------------------------------------
(* Types                                                                   *)

LEMMA NextType ==
  ASSUME IInv, [Next]_vars
  PROVE  TypeOK'
  <1>t. TypeOK /\ ArrivesInBlocks /\ InHand
    BY DEF IInv
  <1> USE <1>t DEF TypeOK, net, thread, files
  <1>1. CASE UNCHANGED vars
    BY <1>1 DEF vars
  <1>2. ASSUME NEW c \in Conns, Connect(c)
        PROVE  TypeOK'
    BY <1>2 DEF Connect
  <1>3. ASSUME NEW c \in Conns, Arrive(c)
        PROVE  TypeOK'
    <2>1. arrived' \in [Conns -> Nat]
      <3>1. traffic.cut \in Nat /\ traffic.cut < 8192
        BY CutType
      <3>2. PICK n : arrived' = [arrived EXCEPT ![c] = n] /\ n \in Nat
        <4>1. PICK k \in Nat : k = arrived[c]
          OBVIOUS
        <4>2. k + 8192 \in Nat /\ k + traffic.cut \in Nat /\ k + 8192 - traffic.cut \in Nat
          <5>1. PICK n \in Nat : n = traffic.cut /\ n < 8192
            BY <3>1
          <5> HIDE <1>t DEF TypeOK
          <5>2. k + 8192 \in Nat /\ k + n \in Nat /\ k + 8192 - n \in Nat
            BY <5>1
          <5> QED
            BY <5>1, <5>2
        <4> DEFINE x == IF traffic.cut = 0 THEN k + 8192
                        ELSE IF k % 8192 = 0 THEN k + traffic.cut ELSE k + 8192 - traffic.cut
        <4>3. arrived' = [arrived EXCEPT ![c] = x]
          BY <1>3, <4>1 DEF Arrive, PACKAGE_SIZE
        <4>4. x \in Nat
          BY <4>2
        <4> HIDE DEF x
        <4> QED
          BY <4>3, <4>4
      <3> QED
        BY <3>2
    <2> QED
      BY <1>3, <2>1 DEF Arrive
  <1>4. ASSUME NEW c \in Conns, Close(c)
        PROVE  TypeOK'
    BY <1>4 DEF Close
  <1>5. ASSUME NEW t \in Threads, Lock(t)
        PROVE  TypeOK'
    BY <1>5 DEF Lock, Goto, PC
  <1>6. ASSUME NEW t \in Threads, Accept(t)
        PROVE  TypeOK'
    <2>1. Head(backlog) \in Conns /\ Tail(backlog) \in Seq(Conns)
      BY <1>6 DEF Accept
    <2> QED
      BY <1>6, <2>1 DEF Accept, Goto, PC
  <1>7. ASSUME NEW t \in Threads, ReadType(t)
        PROVE  TypeOK'
    <2>1. conn_fd[t] \in Conns
      BY <1>7 DEF ReadType, InHand
    <2>2. pc' \in [Threads -> PC]
      BY <1>7 DEF ReadType, Goto, PC
    <2>5. pos' \in [Conns -> Nat]
      <3>1. pos[conn_fd[t]] + 1 \in Nat
        BY <2>1
      <3>2. pos' = pos \/ pos' = [pos EXCEPT ![conn_fd[t]] = pos[conn_fd[t]] + 1]
        BY <1>7 DEF ReadType
      <3> QED
        BY <3>1, <3>2
    <2>3. conn_fd' \in [Threads -> Conns \cup {NULL}]
      BY <1>7 DEF ReadType
    <2>4. msg' \in [Threads -> Nat] /\ fields' \in [Threads -> Seq(Nat)]
      <3>1. CASE UNCHANGED <<msg, fields>>
        BY <3>1
      <3>2. CASE /\ ~AtEnd(conn_fd[t]) /\ pos[conn_fd[t]] % PACKAGE_SIZE = 0
                 /\ msg' = [msg EXCEPT ![t] = pos[conn_fd[t]] \div PACKAGE_SIZE + 1]
                 /\ fields' = [fields EXCEPT ![t] = Reads(Sent(conn_fd[t])[msg'[t]])]
        <4>1. Available(conn_fd[t]) > 0
          BY <1>7, <3>2 DEF ReadType, Readable
        <4>2. msg'[t] = pos[conn_fd[t]] \div PACKAGE_SIZE + 1
          BY <3>2
        <4>3. msg'[t] \in Nat /\ Sent(conn_fd[t])[msg'[t]] \in Message
          BY <2>1, <3>2, <4>1, <4>2, NextMessage
        <4>4. Reads(Sent(conn_fd[t])[msg'[t]]) \in Seq(Nat)
          BY <4>3, ReadsType
        <4> QED
          BY <3>2, <4>2, <4>3, <4>4
      <3> QED
        BY <1>7, <3>1, <3>2 DEF ReadType
    <2> QED
      BY <1>7, <2>2, <2>3, <2>4, <2>5 DEF ReadType
  <1>8. ASSUME NEW t \in Threads, ReadField(t)
        PROVE  TypeOK'
    <2>1. conn_fd[t] \in Conns /\ fields[t] # <<>> /\ fields[t] \in Seq(Nat)
      BY <1>8 DEF ReadField, InHand
    <2>2. Head(fields[t]) \in Nat /\ Tail(fields[t]) \in Seq(Nat)
      BY <2>1
    <2>3. pos[conn_fd[t]] + Got(conn_fd[t], Head(fields[t])) \in Nat
      BY <2>1, <2>2, GotBounds
    <2> QED
      BY <1>8, <2>1, <2>2, <2>3 DEF ReadField, Goto, PC
  <1>9. ASSUME NEW t \in Threads, Operate(t)
        PROVE  TypeOK'
    <2>1. conn_fd[t] \in Conns /\ Handled(t) \in Message
      BY <1>9, InHandType DEF Operate
    <2> DEFINE m == Handled(t)
    <2>2. m.id \in FileIDs
      BY <2>1, MessageFile
    <2>a. m.type = "N" => m.size \in Nat
      BY <2>1, HeaderSize
    <2>b. m.type = "D" => m.len \in Nat
      BY <2>1, DataLength
    <2>3. file_size' \in [FileIDs -> Int]
      BY <1>9, <2>2, <2>a DEF Operate
    <2>c. dl_size' \in [FileIDs -> Nat]
      <3>1. CASE m.type = "D"
        <4>1. dl_size' = [dl_size EXCEPT ![m.id] = @ + m.len]
          BY <1>9, <3>1 DEF Operate
        <4>2. dl_size[m.id] + m.len \in Nat
          BY <2>2, <2>b, <3>1
        <4>3. dl_size \in [FileIDs -> Nat]
          OBVIOUS
        <4> HIDE <1>t DEF TypeOK, m
        <4> QED
          BY <4>1, <4>2, <4>3
      <3>2. CASE m.type # "D"
        <4>1. dl_size' = dl_size \/ dl_size' = [dl_size EXCEPT ![m.id] = 0]
          BY <1>9, <3>2 DEF Operate
        <4>2. dl_size \in [FileIDs -> Nat]
          OBVIOUS
        <4> HIDE <1>t DEF TypeOK, m
        <4> QED
          BY <4>1, <4>2
      <3> QED
        BY <3>1, <3>2
    <2>4. pc' \in [Threads -> PC]
      BY <1>9 DEF Operate, Goto, PC
    <2>5. handled' \in [Conns -> Seq(Nat)]
      BY <1>9, <2>1 DEF Operate
    <2> QED
      BY <1>9, <2>3, <2>c, <2>4, <2>5 DEF Operate
  <1>10. ASSUME NEW t \in Threads, Ignore(t)
         PROVE  TypeOK'
    <2>1. conn_fd[t] \in Conns /\ Handled(t) \in Message
      BY <1>10, InHandType DEF Ignore
    <2>2. Neglect(Handled(t)) \in Nat
      BY <2>1, ReadsType
    <2>3. pos[conn_fd[t]] + Got(conn_fd[t], Neglect(Handled(t))) \in Nat
      BY <2>1, <2>2, GotBounds
    <2> QED
      BY <1>10, <2>1, <2>3 DEF Ignore, Goto, PC
  <1>11. ASSUME NEW t \in Threads, Skip(t)
         PROVE  TypeOK'
    BY <1>11 DEF Skip, InHand
  <1> QED
    BY <1>1, <1>2, <1>3, <1>4, <1>5, <1>6, <1>7, <1>8, <1>9, <1>10, <1>11
    DEF Next, Idle, ThreadStep, ProcessStep

-----------------------------------------------------------------------------
(* Blocks arrive, and what is read has arrived                             *)

LEMMA NextArrives ==
  ASSUME IInv, [Next]_vars
  PROVE  /\ ArrivesInBlocks'
         /\ \A c \in Conns : arrived[c] <= arrived'[c]
  <1>t. TypeOK /\ ArrivesInBlocks /\ InHand
    BY DEF IInv
  <1>p. TypeOK'
    BY NextType
  <1> USE <1>t DEF net, thread, files
  <1>a. \A c \in Conns :
          /\ arrived[c] \in Nat /\ pos[c] \in Nat /\ Len(Sent(c)) \in Nat
          /\ arrived[c] <= Len(Sent(c)) * 8192 /\ arrived[c] % 8192 \in {0, traffic.cut}
          /\ pos[c] <= arrived[c]
    BY SentType DEF TypeOK, ArrivesInBlocks, PACKAGE_SIZE
  <1>1. ASSUME UNCHANGED <<traffic, arrived>>, \A c \in Conns : pos'[c] <= arrived[c]
        PROVE  /\ ArrivesInBlocks'
               /\ \A c \in Conns : arrived[c] <= arrived'[c]
    BY <1>1, <1>a DEF ArrivesInBlocks, Sent, PACKAGE_SIZE
  <1>2. ASSUME NEW c \in Conns, Arrive(c)
        PROVE  /\ ArrivesInBlocks'
               /\ \A d \in Conns : arrived[d] <= arrived'[d]
    <2>1. PICK a \in Nat, n \in Nat, k \in Nat :
            a = arrived[c] /\ n = Len(Sent(c)) /\ k = traffic.cut /\ k < 8192
      BY <1>a, CutType DEF TypeOK
    <2>2. PICK x :
            x = IF k = 0 THEN a + 8192 ELSE IF a % 8192 = 0 THEN a + k ELSE a + 8192 - k
      OBVIOUS
    <2>3. a < n * 8192 /\ a % 8192 \in {0, k} /\ pos[c] <= a
      BY <1>2, <2>1, <1>a DEF Arrive, PACKAGE_SIZE
    <2>a. /\ a \in Nat /\ n \in Nat /\ k \in Nat /\ k < 8192
          /\ a < n * 8192 /\ a % 8192 \in {0, k}
      BY <2>1, <2>3
    <2>4. x \in Nat /\ a <= x /\ x <= n * 8192 /\ x % 8192 \in {0, k}
      <3>1. CASE k = 0
        BY <2>2, <2>a, <3>1
      <3>2. CASE k # 0 /\ a % 8192 = 0
        BY <2>2, <2>a, <3>2
      <3>3. CASE k # 0 /\ a % 8192 = k
        BY <2>2, <2>a, <3>3
      <3> QED
        BY <2>a, <3>1, <3>2, <3>3
    <2>5. arrived' = [arrived EXCEPT ![c] = x]
      BY <1>2, <2>1, <2>2 DEF Arrive, PACKAGE_SIZE
    <2>6. arrived'[c] = x /\ \A d \in Conns : d # c => arrived'[d] = arrived[d]
      BY <2>5 DEF TypeOK
    <2>7. traffic' = traffic /\ pos' = pos
      BY <1>2 DEF Arrive
    <2>8. pos[c] <= x
      BY <2>1, <2>3, <2>4, <1>a
    <2>9. \A d \in Conns :
            /\ arrived'[d] <= Len(Sent(d)) * 8192
            /\ arrived'[d] % 8192 \in {0, traffic.cut}
            /\ pos[d] <= arrived'[d] /\ arrived[d] <= arrived'[d]
      <3> TAKE d \in Conns
      <3>1. CASE d = c
        BY <3>1, <2>1, <2>4, <2>6, <2>8
      <3>2. CASE d # c
        BY <3>2, <1>a, <2>6
      <3> QED
        BY <3>1, <3>2
    <2> QED
      BY <2>7, <2>9 DEF ArrivesInBlocks, Sent, PACKAGE_SIZE
  <1>3. ASSUME NEW c \in Conns, NEW n \in Nat, pos' = [pos EXCEPT ![c] = @ + Got(c, n)]
        PROVE  \A d \in Conns : pos'[d] <= arrived[d]
    BY <1>3, <1>a, GotBounds DEF TypeOK
  <1>4. ASSUME NEW t \in Threads, ReadType(t)
        PROVE  \A c \in Conns : pos'[c] <= arrived[c]
    <2>1. CASE pos' = pos
      BY <2>1, <1>a
    <2>2. CASE pos' # pos
      <3>1. /\ pos' = [pos EXCEPT ![conn_fd[t]] = @ + 1]
            /\ Readable(conn_fd[t]) /\ ~AtEnd(conn_fd[t])
        BY <1>4, <2>2 DEF ReadType
      <3>2. conn_fd[t] \in Conns
        BY <1>4 DEF ReadType, InHand
      <3>3. pos[conn_fd[t]] < arrived[conn_fd[t]]
        BY <3>1, <3>2, <1>a DEF Readable, Available
      <3> QED
        BY <3>1, <3>2, <3>3, <1>a DEF TypeOK
    <2> QED
      BY <2>1, <2>2
  <1>5. ASSUME NEW t \in Threads, ReadField(t)
        PROVE  \A c \in Conns : pos'[c] <= arrived[c]
    <2>1. conn_fd[t] \in Conns /\ fields[t] # <<>> /\ fields[t] \in Seq(Nat)
      BY <1>5 DEF ReadField, InHand, TypeOK
    <2>2. Head(fields[t]) \in Nat
      BY <2>1
    <2> QED
      BY <1>5, <2>1, <2>2, <1>3 DEF ReadField
  <1>6. ASSUME NEW t \in Threads, Ignore(t)
        PROVE  \A c \in Conns : pos'[c] <= arrived[c]
    <2>1. conn_fd[t] \in Conns /\ Neglect(Handled(t)) \in Nat
      BY <1>6, InHandType, ReadsType DEF Ignore
    <2> QED
      BY <1>6, <2>1, <1>3 DEF Ignore
  <1>7. ASSUME NEW t \in Threads, Skip(t)
        PROVE  \A c \in Conns : pos'[c] <= arrived[c]
    BY <1>7, <1>a DEF Skip, TypeOK
  <1>8. CASE UNCHANGED <<traffic, arrived, pos>>
    BY <1>8, <1>1, <1>a
  <1>9. ASSUME NEW t \in Threads, ThreadStep(t)
        PROVE  /\ ArrivesInBlocks'
               /\ \A c \in Conns : arrived[c] <= arrived'[c]
    <2>1. UNCHANGED <<traffic, arrived>>
      BY <1>9 DEF ThreadStep, Lock, Accept, ReadType, ReadField, Operate, Ignore, Skip
    <2>2. UNCHANGED pos \/ ReadType(t) \/ ReadField(t) \/ Ignore(t) \/ Skip(t)
      BY <1>9 DEF ThreadStep, Lock, Accept, Operate
    <2> QED
      BY <2>1, <2>2, <1>1, <1>4, <1>5, <1>6, <1>7, <1>a
  <1>10. CASE UNCHANGED vars
    BY <1>10, <1>8 DEF vars
  <1>11. ASSUME NEW c \in Conns, Connect(c) \/ Close(c)
         PROVE  UNCHANGED <<traffic, arrived, pos>>
    BY <1>11 DEF Connect, Close
  <1> QED
    BY <1>2, <1>8, <1>9, <1>10, <1>11 DEF Next, Idle, ProcessStep

-----------------------------------------------------------------------------
(* Each connection is in one place                                         *)

LEMMA NextOneServer ==
  ASSUME IInv, [Next]_vars
  PROVE  OneServer'
  <1>t. TypeOK /\ OneServer /\ InHand
    BY DEF IInv
  <1> USE <1>t DEF net, thread, files
  <1>1. CASE UNCHANGED <<client, backlog, conn_fd, pos, handled>>
    BY <1>1 DEF OneServer
  <1>2. ASSUME NEW c \in Conns, Connect(c)
        PROVE  OneServer'
    <2>1. /\ client[c] = "none" /\ client' = [client EXCEPT ![c] = "open"]
          /\ backlog' = Append(backlog, c)
          /\ UNCHANGED <<conn_fd, pos, handled>>
      BY <1>2 DEF Connect
    <2>2. backlog \in Seq(Conns)
      BY DEF TypeOK
    <2>3. /\ DOMAIN backlog = 1..Len(backlog) /\ DOMAIN backlog' = 1..Len(backlog) + 1
          /\ \A i \in 1..Len(backlog) : backlog'[i] = backlog[i]
          /\ backlog'[Len(backlog) + 1] = c
          /\ Len(backlog) \in Nat
      BY <2>1, <2>2
    <2>4. \A i \in DOMAIN backlog : backlog[i] # c
      BY <2>1 DEF OneServer
    <2>5. \A i, j \in DOMAIN backlog' : backlog'[i] = backlog'[j] => i = j
      BY <2>3, <2>4 DEF OneServer
    <2>6. \A i \in DOMAIN backlog' : client'[backlog'[i]] # "none"
      <3> SUFFICES ASSUME NEW i \in DOMAIN backlog'
                   PROVE  client'[backlog'[i]] # "none"
        OBVIOUS
      <3>1. CASE i \in DOMAIN backlog
        <4>1. client[backlog[i]] # "none" /\ backlog[i] \in Conns /\ backlog'[i] = backlog[i]
          BY <2>2, <2>3, <3>1 DEF OneServer
        <4> QED
          BY <2>1, <4>1 DEF TypeOK
      <3>2. CASE i = Len(backlog) + 1
        BY <2>1, <2>3, <3>2 DEF TypeOK
      <3> QED
        BY <2>3, <3>1, <3>2
    <2>7. \A d \in Conns :
            client'[d] = "none" \/ (\E i \in DOMAIN backlog' : backlog'[i] = d) =>
              client[d] = "none" \/ (\E i \in DOMAIN backlog : backlog[i] = d)
      BY <2>1, <2>3 DEF TypeOK
    <2>8. \A d \in Conns :
            client'[d] = "none" \/ (\E i \in DOMAIN backlog' : backlog'[i] = d) =>
              pos'[d] = 0 /\ handled'[d] = <<>> /\ \A t \in Threads : conn_fd'[t] # d
      BY <2>1, <2>7 DEF OneServer
    <2>9. \A t, u \in Threads : conn_fd'[t] \in Conns /\ conn_fd'[t] = conn_fd'[u] => t = u
      BY <2>1 DEF OneServer
    <2> QED
      BY <2>5, <2>6, <2>8, <2>9 DEF OneServer
  <1>3. ASSUME NEW c \in Conns, Close(c)
        PROVE  OneServer'
    <2>1. /\ client[c] # "none" /\ client' = [client EXCEPT ![c] = "closed"]
          /\ UNCHANGED <<backlog, conn_fd, pos, handled>>
      BY <1>3 DEF Close
    <2>2. \A d \in Conns : client'[d] = "none" <=> client[d] = "none"
      BY <2>1 DEF TypeOK
    <2>3. \A i \in DOMAIN backlog : backlog[i] \in Conns
      BY DEF TypeOK
    <2> QED
      BY <2>1, <2>2, <2>3 DEF OneServer
  <1>4. ASSUME NEW t \in Threads, Accept(t)
        PROVE  OneServer'
    <2>1. /\ backlog # <<>> /\ backlog' = Tail(backlog)
          /\ conn_fd' = [conn_fd EXCEPT ![t] = Head(backlog)]
          /\ UNCHANGED <<client, pos, handled>>
      BY <1>4 DEF Accept
    <2>2. backlog \in Seq(Conns) /\ conn_fd \in [Threads -> Conns \cup {NULL}]
      BY DEF TypeOK
    <2>3. /\ DOMAIN backlog = 1..Len(backlog) /\ DOMAIN backlog' = 1..Len(backlog) - 1
          /\ \A i \in 1..Len(backlog) - 1 : backlog'[i] = backlog[i + 1]
          /\ Head(backlog) = backlog[1] /\ Head(backlog) \in Conns
          /\ Len(backlog) \in Nat /\ 1 \in DOMAIN backlog
      BY <2>1, <2>2
    <2> DEFINE h == Head(backlog)
    <2>4. \A i \in DOMAIN backlog' : backlog'[i] # h
      BY <2>3 DEF OneServer
    <2>s. \A i \in DOMAIN backlog' :
            i \in Int /\ i + 1 \in DOMAIN backlog /\ backlog'[i] = backlog[i + 1]
      BY <2>3
    <2>5. \A i, j \in DOMAIN backlog' : backlog'[i] = backlog'[j] => i = j
      <3> SUFFICES ASSUME NEW i \in DOMAIN backlog', NEW j \in DOMAIN backlog',
                          backlog'[i] = backlog'[j]
                   PROVE  i = j
        OBVIOUS
      <3>1. i + 1 = j + 1
        BY <2>s DEF OneServer
      <3> QED
        BY <2>s, <3>1
    <2>6. \A i \in DOMAIN backlog' : client'[backlog'[i]] # "none"
      BY <2>1, <2>s DEF OneServer
    <2>7. \A u \in Threads : conn_fd[u] # h
      BY <2>3 DEF OneServer
    <2>8. client[h] # "none"
      BY <2>3 DEF OneServer
    <2>9. \A d \in Conns :
            client'[d] = "none" \/ (\E i \in DOMAIN backlog' : backlog'[i] = d) =>
              d # h /\ (client[d] = "none" \/ (\E i \in DOMAIN backlog : backlog[i] = d))
      <3> TAKE d \in Conns
      <3>1. CASE client'[d] = "none"
        BY <3>1, <2>1, <2>8
      <3>2. ASSUME NEW i \in DOMAIN backlog', backlog'[i] = d
            PROVE  d # h /\ \E k \in DOMAIN backlog : backlog[k] = d
        <4>1. i + 1 \in DOMAIN backlog /\ backlog[i + 1] = d
          BY <3>2, <2>3
        <4> QED
          BY <4>1, <3>2, <2>4
      <3> QED
        BY <3>1, <3>2
    <2> HIDE DEF h
    <2>10. \A u \in Threads : conn_fd'[u] = IF u = t THEN h ELSE conn_fd[u]
      BY <2>1, <2>2 DEF h
    <2>11. \A d \in Conns :
             client'[d] = "none" \/ (\E i \in DOMAIN backlog' : backlog'[i] = d) =>
               pos'[d] = 0 /\ handled'[d] = <<>> /\ \A u \in Threads : conn_fd'[u] # d
      BY <2>1, <2>9, <2>10 DEF OneServer
    <2>12. \A u, v \in Threads : conn_fd'[u] \in Conns /\ conn_fd'[u] = conn_fd'[v] => u = v
      BY <2>7, <2>10 DEF OneServer
    <2> QED
      BY <2>5, <2>6, <2>11, <2>12 DEF OneServer
  <1>5. ASSUME NEW t \in Threads, UNCHANGED <<client, backlog>>,
               conn_fd' = conn_fd \/ conn_fd' = [conn_fd EXCEPT ![t] = NULL],
               conn_fd[t] \in Conns,
               \A c \in Conns : c # conn_fd[t] => pos'[c] = pos[c] /\ handled'[c] = handled[c]
        PROVE  OneServer'
    <2>1. \A u \in Threads : conn_fd'[u] = conn_fd[u] \/ (conn_fd'[u] = NULL /\ u = t)
      BY <1>5 DEF TypeOK
    <2>2. NULL \notin Conns
      BY NullAssumption
    <2>3. \A u, v \in Threads : conn_fd'[u] \in Conns /\ conn_fd'[u] = conn_fd'[v] => u = v
      BY <2>1, <2>2 DEF OneServer
    <2>4. ASSUME NEW c \in Conns,
                 client[c] = "none" \/ (\E i \in DOMAIN backlog : backlog[i] = c)
          PROVE  pos'[c] = 0 /\ handled'[c] = <<>> /\ \A u \in Threads : conn_fd'[u] # c
      <3>1. pos[c] = 0 /\ handled[c] = <<>> /\ \A u \in Threads : conn_fd[u] # c
        BY <2>4 DEF OneServer
      <3> QED
        BY <3>1, <1>5, <2>1, <2>2
    <2> QED
      BY <1>5, <2>3, <2>4 DEF OneServer
  <1>6. ASSUME NEW t \in Threads,
               ReadType(t) \/ ReadField(t) \/ Operate(t) \/ Ignore(t) \/ Skip(t)
        PROVE  OneServer'
    <2>1. conn_fd[t] \in Conns
      BY <1>6 DEF ReadType, ReadField, Operate, Ignore, Skip, InHand
    <2>2. UNCHANGED <<client, backlog>>
      BY <1>6 DEF ReadType, ReadField, Operate, Ignore, Skip
    <2>3. conn_fd' = conn_fd \/ conn_fd' = [conn_fd EXCEPT ![t] = NULL]
      BY <1>6 DEF ReadType, ReadField, Operate, Ignore, Skip
    <2>4. \A c \in Conns : c # conn_fd[t] => pos'[c] = pos[c]
      BY <1>6, <2>1 DEF ReadType, ReadField, Operate, Ignore, Skip, TypeOK
    <2>5. \A c \in Conns : c # conn_fd[t] => handled'[c] = handled[c]
      BY <1>6, <2>1 DEF ReadType, ReadField, Operate, Ignore, Skip, TypeOK
    <2> QED
      BY <1>5, <2>1, <2>2, <2>3, <2>4, <2>5
  <1>7. ASSUME NEW t \in Threads, Lock(t)
        PROVE  OneServer'
    BY <1>7, <1>1 DEF Lock
  <1>8. ASSUME NEW c \in Conns, Arrive(c)
        PROVE  OneServer'
    BY <1>8, <1>1 DEF Arrive
  <1>9. CASE UNCHANGED vars
    BY <1>9, <1>1 DEF vars
  <1> QED
    BY <1>2, <1>3, <1>4, <1>6, <1>7, <1>8, <1>9 DEF Next, Idle, ThreadStep, ProcessStep

-----------------------------------------------------------------------------
(* A thread that serves has a connection and a message                     *)

\* What InHand says of one thread.
Busy(t) ==
  /\ pc[t] \notin {"lock", "accept"} => conn_fd[t] \in Conns
  /\ pc[t] \in {"fields", "op", "ignore"} => msg[t] \in DOMAIN Sent(conn_fd[t])
  /\ pc[t] = "fields" => fields[t] # <<>>

LEMMA NextInHand ==
  ASSUME IInv, [Next]_vars
  PROVE  InHand'
  <1>t. TypeOK /\ ArrivesInBlocks /\ InHand
    BY DEF IInv
  <1> USE <1>t DEF net, thread, files
  <1>b. \A t \in Threads : Busy(t)
    BY DEF InHand, Busy
  <1>1. CASE UNCHANGED <<traffic, pc, conn_fd, msg, fields>>
    BY <1>1 DEF InHand, Sent
  <1>2. ASSUME NEW t \in Threads, ThreadStep(t), Busy(t)'
        PROVE  InHand'
    <2>1. traffic' = traffic
      BY <1>2 DEF ThreadStep, Lock, Accept, ReadType, ReadField, Operate, Ignore, Skip
    <2>2. ASSUME NEW u \in Threads, u # t
          PROVE  Busy(u)'
      <3>1. pc'[u] = pc[u] /\ conn_fd'[u] = conn_fd[u] /\ msg'[u] = msg[u] /\ fields'[u] = fields[u]
        BY <1>2, <2>2
        DEF ThreadStep, Lock, Accept, ReadType, ReadField, Operate, Ignore, Skip, Goto, TypeOK
      <3> QED
        BY <1>b, <2>1, <3>1 DEF Busy, Sent
    <2> QED
      BY <1>2, <2>2 DEF InHand, Busy
  <1>3. ASSUME NEW t \in Threads, Lock(t)
        PROVE  Busy(t)'
    BY <1>3 DEF Lock, Goto, Busy, TypeOK
  <1>4. ASSUME NEW t \in Threads, Accept(t)
        PROVE  Busy(t)'
    <2>1. Head(backlog) \in Conns
      BY <1>4 DEF Accept, TypeOK
    <2> QED
      BY <1>4, <2>1 DEF Accept, Goto, Busy, TypeOK
  <1>5. ASSUME NEW t \in Threads, ReadType(t)
        PROVE  Busy(t)'
    <2> DEFINE c == conn_fd[t]
    <2>1. c \in Conns /\ traffic' = traffic
      BY <1>5 DEF ReadType, InHand
    <2>2. CASE pc'[t] = "lock"
      BY <2>2 DEF Busy
    <2>3. CASE pc'[t] = "skip" /\ conn_fd' = conn_fd
      BY <2>1, <2>3 DEF Busy
    <2>4. CASE /\ ~AtEnd(c) /\ pos[c] % PACKAGE_SIZE = 0
               /\ msg' = [msg EXCEPT ![t] = pos[c] \div PACKAGE_SIZE + 1]
               /\ fields' = [fields EXCEPT ![t] = Reads(Sent(c)[msg'[t]])]
               /\ conn_fd' = conn_fd
      <3>1. Available(c) > 0
        BY <1>5, <2>4 DEF ReadType, Readable
      <3>2. msg'[t] = pos[c] \div PACKAGE_SIZE + 1
        BY <2>4 DEF TypeOK
      <3>3. msg'[t] \in DOMAIN Sent(c) /\ Sent(c)[msg'[t]] \in Message
        BY <2>1, <2>4, <3>1, <3>2, NextMessage
      <3>4. fields'[t] # <<>>
        BY <2>4, <3>3, ReadsType DEF TypeOK
      <3> QED
        BY <2>1, <2>4, <3>3, <3>4 DEF Busy, Sent
    <2> QED
      BY <1>5, <2>2, <2>3, <2>4 DEF ReadType, Goto, TypeOK
  <1>6. ASSUME NEW t \in Threads, ReadField(t)
        PROVE  Busy(t)'
    <2>1. Busy(t) /\ pc[t] = "fields" /\ fields[t] \in Seq(Nat)
      BY <1>6, <1>b DEF ReadField, TypeOK
    <2>2. fields[t] # <<>> /\ (Tail(fields[t]) = <<>> => Len(fields[t]) = 1)
      <3>1. PICK s \in Seq(Nat) : s = fields[t] /\ s # <<>>
        BY <2>1 DEF Busy
      <3>2. Len(s) \in Nat \ {0} /\ (Tail(s) = <<>> => Len(s) = 1)
        <4>1. Len(s) \in Nat /\ Len(s) # 0 /\ Len(Tail(s)) = Len(s) - 1
          BY <3>1
        <4>a. Len(<<>>) = 0
          OBVIOUS
        <4>2. Tail(s) = <<>> => Len(Tail(s)) = 0
          BY <4>a, Zenon
        <4>3. Tail(s) = <<>> => Len(s) = 1
          <5>1. PICK n : n = Len(Tail(s))
            OBVIOUS
          <5>2. n = Len(s) - 1 /\ (Tail(s) = <<>> => n = 0)
            BY <4>1, <4>2, <5>1
          <5> QED
            BY <4>1, <5>2
        <4> QED
          BY <4>1, <4>3
      <3> QED
        BY <3>1, <3>2
    <2>3. /\ UNCHANGED <<traffic, conn_fd, msg>> /\ fields'[t] = Tail(fields[t])
          /\ pc'[t] = IF Len(fields[t]) = 1 THEN "op" ELSE "fields"
      BY <1>6 DEF ReadField, Goto, TypeOK
    <2> QED
      BY <2>1, <2>2, <2>3 DEF Busy, Sent
  <1>7. ASSUME NEW t \in Threads, Operate(t)
        PROVE  Busy(t)'
    <2>1. Busy(t) /\ pc[t] = "op"
      BY <1>7, <1>b DEF Operate
    <2>2. UNCHANGED <<traffic, conn_fd, msg>> /\ pc'[t] \in {"type", "ignore"}
      BY <1>7 DEF Operate, Goto, TypeOK
    <2> QED
      BY <2>1, <2>2 DEF Busy, Sent
  <1>8. ASSUME NEW t \in Threads, Ignore(t)
        PROVE  Busy(t)'
    <2>1. Busy(t) /\ pc[t] = "ignore"
      BY <1>8, <1>b DEF Ignore
    <2>2. UNCHANGED <<traffic, conn_fd, msg>> /\ pc'[t] = "type"
      BY <1>8 DEF Ignore, Goto, TypeOK
    <2> QED
      BY <2>1, <2>2 DEF Busy, Sent
  <1>9. ASSUME NEW t \in Threads, Skip(t)
        PROVE  InHand'
    BY <1>9, <1>1 DEF Skip
  <1>10. ASSUME NEW c \in Conns, ProcessStep(c)
         PROVE  InHand'
    BY <1>10, <1>1 DEF ProcessStep, Connect, Arrive, Close
  <1>11. CASE UNCHANGED vars
    BY <1>11, <1>1 DEF vars
  <1> QED
    BY <1>2, <1>3, <1>4, <1>5, <1>6, <1>7, <1>8, <1>9, <1>10, <1>11
    DEF Next, Idle, ThreadStep

-----------------------------------------------------------------------------
(* The handlers read whole blocks                                          *)

LEMMA NextBlock ==
  ASSUME NEW a \in Nat, NEW n \in Nat, NEW p \in Nat, a % 8192 = 0, n * 8192 < p, p <= a
  PROVE  (n + 1) * 8192 <= a
  OBVIOUS

LEMMA SameEnd ==
  ASSUME NEW c, traffic' = traffic, handled'[c] = handled[c]
  PROVE  EndHandled(c)' <=> EndHandled(c)
  BY DEF EndHandled, IsEnd, Sent

\* A step of another thread, or of a process.
LEMMA Untouched ==
  ASSUME IInv, [Next]_vars, NEW u \in Threads, traffic' = traffic,
         pc'[u] = pc[u], conn_fd'[u] = conn_fd[u], msg'[u] = msg[u], fields'[u] = fields[u],
         conn_fd[u] \in Conns =>
           pos'[conn_fd[u]] = pos[conn_fd[u]] /\ handled'[conn_fd[u]] = handled[conn_fd[u]]
  PROVE  Right(u)'
  <1> SUFFICES ASSUME conn_fd[u] \in Conns, traffic.cut = 0, ~EndHandled(conn_fd[u])'
               PROVE  InBlock(u)'
    BY DEF Right, EndHandled, IsEnd, Sent
  <1> DEFINE c == conn_fd[u]
  <1>1. ~EndHandled(c)
    BY SameEnd
  <1>2. InBlock(u)
    BY <1>1 DEF IInv, InStep
  <1>3. arrived[c] <= arrived'[c] /\ arrived[c] \in Nat /\ arrived'[c] \in Nat
    BY NextArrives, NextType DEF IInv, TypeOK
  <1>4. Handled(u)' = Handled(u) /\ Base(c)' = Base(c)
    BY DEF Handled, Sent, Base
  <1>5. Base(c) \in Nat
    BY DEF Base, IInv, TypeOK, PACKAGE_SIZE
  <1>6. Base(c) <= arrived[c] => Base(c) <= arrived'[c]
    BY <1>3, <1>5
  <1> QED
    <2>1. PICK m : m = Handled(u)
      OBVIOUS
    <2>2. Handled(u)' = m
      BY <1>4, <2>1
    <2>3. /\ handled'[c] = [k \in 1..Len(handled'[c]) |-> k]
          /\ pc'[u] # "skip"
          /\ pc'[u] = "type" => pos'[c] = Base(c)'
          /\ pc'[u] \in {"fields", "op"} => msg'[u] = Len(handled'[c]) + 1
      BY <1>2, <1>4 DEF InBlock
    <2>4. pc'[u] = "fields" /\ m.type # "E" =>
            \E k \in 1..5 :
              /\ pos'[c] = Base(c)' + Before(k)
              /\ Len(fields'[u]) = 6 - k
              /\ \A i \in 1..6 - k : fields'[u][i] = Reads(m)[k + i - 1]
      BY <1>2, <1>4, <2>1 DEF InBlock
    <2>5. /\ pc'[u] = "op" /\ m.type # "E" => pos'[c] + Neglect(m) = Base(c)' + PACKAGE_SIZE
          /\ pc'[u] = "ignore" => pos'[c] + Neglect(m) = Base(c)' /\ Base(c)' <= arrived'[c]
      BY <1>2, <1>4, <1>6, <2>1 DEF InBlock
    <2> QED
      BY <2>2, <2>3, <2>4, <2>5 DEF InBlock

\* A thread between two connections.
LEMMA LockRight ==
  ASSUME IInv, [Next]_vars, NEW t \in Threads, Lock(t)
  PROVE  Right(t)'
  <1>1. /\ UNCHANGED <<traffic, conn_fd, handled>> /\ pc'[t] = "accept"
    BY DEF Lock, Goto, net, thread, IInv, TypeOK
  <1> SUFFICES ASSUME conn_fd[t] \in Conns, traffic.cut = 0, ~EndHandled(conn_fd[t])
               PROVE  InBlock(t)'
    BY <1>1 DEF Right, EndHandled, IsEnd, Sent
  <1>2. InBlock(t)
    BY DEF IInv, InStep
  <1> QED
    BY <1>1, <1>2 DEF InBlock

LEMMA AcceptRight ==
  ASSUME IInv, [Next]_vars, NEW t \in Threads, Accept(t)
  PROVE  Right(t)'
  <1> DEFINE c == Head(backlog)
  <1>1. backlog \in Seq(Conns) /\ backlog # <<>>
    BY DEF Accept, IInv, TypeOK
  <1>2. c \in Conns /\ 1 \in DOMAIN backlog /\ backlog[1] = c
    BY <1>1
  <1>3. pos[c] = 0 /\ handled[c] = <<>>
    BY <1>2 DEF IInv, OneServer
  <1>4. /\ conn_fd'[t] = c /\ pc'[t] = "type" /\ UNCHANGED <<pos, handled>>
    BY DEF Accept, Goto, IInv, TypeOK
  <1>5. <<>> = [k \in 1..Len(<<>>) |-> k]
    OBVIOUS
  <1>6. PICK h : h = c
    OBVIOUS
  <1>7. pos'[h] = 0 /\ handled'[h] = <<>> /\ conn_fd'[t] = h
    BY <1>3, <1>4, <1>6
  <1>8. Len(handled'[h]) = 0
    BY <1>7
  <1>9. Len(handled'[h]) * PACKAGE_SIZE = 0
    BY <1>8 DEF PACKAGE_SIZE
  <1>10. handled'[h] = [k \in 1..Len(handled'[h]) |-> k]
    BY <1>5, <1>7
  <1>11. InBlock(t)'
    BY <1>4, <1>7, <1>9, <1>10 DEF InBlock, Base
  <1> QED
    BY <1>11 DEF Right

LEMMA ReadTypeRight ==
  ASSUME IInv, [Next]_vars, NEW t \in Threads, ReadType(t)
  PROVE  Right(t)'
  <1> DEFINE c == conn_fd[t]
             n == Len(handled[c])
  <1>1. CASE conn_fd'[t] = NULL
    BY <1>1, NullAssumption DEF Right
  <1>2. CASE conn_fd'[t] # NULL
    <2>1. /\ c \in Conns /\ pc[t] = "type"
      BY DEF ReadType, IInv, InHand
    <2>2. conn_fd' = conn_fd /\ UNCHANGED <<traffic, handled>>
      BY <1>2 DEF ReadType, net, IInv, TypeOK
    <2> SUFFICES ASSUME traffic.cut = 0, ~EndHandled(c)
                 PROVE  InBlock(t)'
      BY <2>1, <2>2 DEF Right, EndHandled, IsEnd, Sent
    <2>3. InBlock(t)
      BY <2>1 DEF IInv, InStep
    <2>4. /\ handled[c] = [k \in 1..Len(handled[c]) |-> k] /\ pos[c] = Base(c)
          /\ n \in Nat /\ Base(c) = n * 8192
      BY <2>1, <2>3 DEF InBlock, Base, PACKAGE_SIZE, IInv, TypeOK
    <2>5. pos[c] % PACKAGE_SIZE = 0 /\ pos[c] \div PACKAGE_SIZE + 1 = n + 1
      <3>1. PICK i \in Nat : i = n
        BY <2>4
      <3>2. (i * 8192) % 8192 = 0 /\ (i * 8192) \div 8192 = i
        OBVIOUS
      <3>3. pos[c] = i * 8192
        BY <2>4, <3>1
      <3>4. pos[c] % 8192 = 0 /\ pos[c] \div 8192 = i
        BY <3>2, <3>3
      <3> QED
        BY <3>1, <3>4 DEF PACKAGE_SIZE
    <2>6. /\ ~AtEnd(c) /\ Readable(c)
          /\ pos' = [pos EXCEPT ![c] = @ + 1]
          /\ msg' = [msg EXCEPT ![t] = n + 1]
          /\ fields' = [fields EXCEPT ![t] = Reads(Sent(c)[msg'[t]])]
          /\ pc' = [pc EXCEPT ![t] = "fields"]
      BY <1>2, <2>5 DEF ReadType, Goto, IInv, TypeOK
    <2>7. pos'[c] = Base(c) + 1 /\ msg'[t] = n + 1 /\ pc'[t] = "fields"
      BY <2>1, <2>4, <2>6 DEF IInv, TypeOK
    <2>8. Sent(c)[n + 1] \in Message
      BY <2>1, <2>5, <2>6, NextMessage DEF Readable, IInv
    <2>9. Handled(t)' = Sent(c)[n + 1] /\ fields'[t] = Reads(Sent(c)[n + 1])
      BY <2>2, <2>6, <2>7 DEF Handled, Sent, IInv, TypeOK
    <2>10. Base(c)' = Base(c) /\ conn_fd'[t] = c
      BY <2>2 DEF Base
    <2> DEFINE m == Sent(c)[n + 1]
    <2>11. ASSUME m.type # "E"
           PROVE  \E k \in 1..5 :
                    /\ pos'[c] = Base(c) + Before(k)
                    /\ Len(fields'[t]) = 6 - k
                    /\ \A i \in 1..6 - k : fields'[t][i] = Reads(m)[k + i - 1]
      <3>1. Len(Reads(m)) = 5
        BY <2>8, <2>11, FiveReads
      <3>2. pos'[c] = Base(c) + Before(1) /\ Len(fields'[t]) = 6 - 1
        BY <2>7, <2>9, <3>1 DEF Before
      <3>3. \A i \in 1..6 - 1 : fields'[t][i] = Reads(m)[1 + i - 1]
        BY <2>9
      <3> QED
        BY <3>2, <3>3
    <2> HIDE DEF m, n
    <2>12. Handled(t)' = m /\ n = Len(handled'[c])
      BY <2>2, <2>9 DEF m, n
    <2> QED
      BY <2>2, <2>4, <2>7, <2>10, <2>11, <2>12 DEF InBlock
  <1> QED
    BY <1>1, <1>2

LEMMA NeglectBound ==
  ASSUME NEW m \in Message, m.type # "E"
  PROVE  Neglect(m) <= 8141
  <1>1. CASE m.type = "N"
    BY <1>1, HeaderReads
  <1>2. CASE m.type = "D"
    BY <1>2, DataReads
  <1> QED
    BY <1>1, <1>2, MessageType

LEMMA BeforeType ==
  ASSUME NEW k \in 1..5
  PROVE  Before(k) \in Nat /\ Before(k) > 0
  BY DEF Before

LEMMA ReadAt ==
  ASSUME NEW m \in Message, m.type # "E", NEW k \in 1..5
  PROVE  /\ k < 5 => Before(k) + Reads(m)[k] = Before(k + 1) /\ Before(k + 1) <= 51
         /\ k = 5 => Before(k) + Reads(m)[k] + Neglect(m) = 8192
  <1>1. /\ Before(1) = 1 /\ Before(2) = 21 /\ Before(3) = 41 /\ Before(4) = 49
        /\ Before(5) = 51
    BY DEF Before
  <1>2. CASE k = 1
    BY <1>1, <1>2, FiveReads
  <1>3. CASE k = 2
    BY <1>1, <1>3, FiveReads
  <1>4. CASE k = 3
    BY <1>1, <1>4, FiveReads
  <1>5. CASE k = 4
    BY <1>1, <1>5, FiveReads
  <1>6. CASE k = 5
    <2>1. PICK g \in Nat : g = Neglect(m)
      BY ReadsType
    <2>2. Reads(m)[5] = 8141 - g
      BY <2>1, FiveReads
    <2> QED
      BY <1>1, <1>6, <2>1, <2>2
  <1> QED
    BY <1>2, <1>3, <1>4, <1>5, <1>6

LEMMA ReadFieldRight ==
  ASSUME IInv, [Next]_vars, NEW t \in Threads, ReadField(t)
  PROVE  Right(t)'
  <1> DEFINE c == conn_fd[t]
             m == Handled(t)
             f == fields[t]
  <1>1. c \in Conns /\ pc[t] = "fields" /\ m \in Message /\ f \in Seq(Nat) /\ f # <<>>
    BY InHandType DEF ReadField, IInv, InHand, TypeOK
  <1>2. /\ UNCHANGED <<traffic, arrived, conn_fd, msg, handled>>
        /\ fields'[t] = Tail(f)
        /\ pc'[t] = IF Len(f) = 1 THEN "op" ELSE "fields"
        /\ pos'[c] = pos[c] + Got(c, Head(f))
    BY <1>1 DEF ReadField, Goto, net, thread, IInv, TypeOK
  <1> SUFFICES ASSUME traffic.cut = 0, ~EndHandled(c)
               PROVE  InBlock(t)'
    BY <1>1, <1>2 DEF Right, EndHandled, IsEnd, Sent
  <1>3. InBlock(t)
    BY <1>1 DEF IInv, InStep
  <1>4. m' = m /\ Base(c)' = Base(c) /\ c' = c
    BY <1>2 DEF Handled, Sent, Base
  <1>5. /\ handled'[c] = [k \in 1..Len(handled'[c]) |-> k]
        /\ msg'[t] = Len(handled'[c]) + 1
    BY <1>1, <1>2, <1>3 DEF InBlock
  <1>6. CASE m.type = "E"
    BY <1>2, <1>4, <1>5, <1>6 DEF InBlock
  <1>7. CASE m.type # "E"
    <2>1. PICK k \in 1..5 :
            /\ pos[c] = Base(c) + Before(k)
            /\ Len(f) = 6 - k
            /\ \A i \in 1..6 - k : f[i] = Reads(m)[k + i - 1]
      BY <1>1, <1>3, <1>7 DEF InBlock
    <2>2. PICK n \in Nat, p \in Nat, a \in Nat, g \in Nat :
            /\ n = Len(handled[c]) /\ p = pos[c] /\ a = arrived[c] /\ g = Neglect(m)
            /\ Base(c) = n * 8192
      BY <1>1, ReadsType DEF Base, IInv, TypeOK, PACKAGE_SIZE
    <2>d. Base(c) = n * 8192 /\ pos[c] = p
      BY <2>2
    <2>a. PICK b \in Nat : b = Before(k) /\ b > 0
      BY <2>1, BeforeType
    <2>3. p <= a /\ a % 8192 = 0
      BY <1>1, <2>2 DEF IInv, ArrivesInBlocks, PACKAGE_SIZE
    <2>b. p = n * 8192 + b
      BY <2>1, <2>2, <2>a
    <2>4. n * 8192 + 8192 <= a
      <3>1. n * 8192 < p
        BY <2>2, <2>a, <2>b
      <3>2. (n + 1) * 8192 <= a
        BY <2>2, <2>3, <3>1, NextBlock
      <3> QED
        BY <2>2, <3>2
    <2>5. /\ Head(f) = Reads(m)[k]
          /\ Head(f) \in Nat
      <3>1. Head(f) = f[1] /\ Head(f) \in Nat
        BY <1>1
      <3>2. 1 \in 1..6 - k /\ k + 1 - 1 = k
        BY <2>1
      <3>3. f[1] = Reads(m)[k + 1 - 1]
        BY <2>1, <3>2
      <3> QED
        BY <3>1, <3>2, <3>3
    <2>6. PICK h \in Nat : h = Head(f) /\ h = Reads(m)[k]
      BY <2>5
    <2>c. /\ k < 5 => b + h = Before(k + 1) /\ b + h <= 51
          /\ k = 5 => b + h + g = 8192
      <3>1. /\ k < 5 => Before(k) + Reads(m)[k] = Before(k + 1) /\ Before(k + 1) <= 51
            /\ k = 5 => Before(k) + Reads(m)[k] + Neglect(m) = 8192
        BY <1>1, <1>7, ReadAt
      <3>2. Before(k) = b /\ Reads(m)[k] = h /\ Neglect(m) = g
        BY <2>2, <2>a, <2>6
      <3> QED
        BY <3>1, <3>2
    <2>7. p + h <= a
      <3>1. b + h <= 8192
        BY <2>1, <2>2, <2>c
      <3> QED
        BY <2>b, <2>4, <3>1
    <2>8. pos'[c] = p + h
      <3>1. Got(c, h) = h
        <4>1. TypeOK /\ ArrivesInBlocks /\ c \in Conns /\ h \in Nat
          BY <1>1, <2>6 DEF IInv
        <4>2. pos[c] + h <= arrived[c]
          BY <2>2, <2>7
        <4> HIDE DEF c, m, f
        <4> QED
          BY <4>1, <4>2, GotBounds
      <3> QED
        BY <1>2, <2>2, <2>6, <3>1
    <2>9. CASE k = 5
      <3>1. pc'[t] = "op"
        BY <1>2, <2>1, <2>9
      <3>2. pos'[c] + g = n * 8192 + 8192
        BY <2>8, <2>9, <2>b, <2>c
      <3>3. pos'[c] + Neglect(m) = Base(c) + PACKAGE_SIZE
        BY <2>2, <3>2 DEF PACKAGE_SIZE
      <3> QED
        BY <1>4, <1>5, <3>1, <3>3 DEF InBlock
    <2>10. CASE k # 5
      <3>1. k + 1 \in 1..5 /\ 6 - (k + 1) = 5 - k
        BY <2>1, <2>10
      <3>2. pc'[t] = "fields"
        BY <1>2, <2>1, <3>1
      <3>3. pos'[c] = Base(c) + Before(k + 1)
        <4>1. b + h = Before(k + 1)
          BY <2>1, <2>10, <2>c
        <4>2. pos'[c] = n * 8192 + (b + h)
          BY <2>8, <2>b
        <4> QED
          BY <2>d, <4>1, <4>2
      <3>4. /\ Len(fields'[t]) = 6 - (k + 1)
            /\ \A i \in 1..6 - (k + 1) : fields'[t][i] = f[i + 1]
        BY <1>1, <1>2, <2>1, <3>1
      <3>5. \A i \in 1..6 - (k + 1) : fields'[t][i] = Reads(m)[(k + 1) + i - 1]
        <4> SUFFICES ASSUME NEW i \in 1..6 - (k + 1)
                     PROVE  fields'[t][i] = Reads(m)[(k + 1) + i - 1]
          OBVIOUS
        <4>1. i + 1 \in 1..6 - k /\ k + (i + 1) - 1 = (k + 1) + i - 1
          BY <2>1
        <4>2. f[i + 1] = Reads(m)[k + (i + 1) - 1]
          BY <2>1, <4>1
        <4> QED
          BY <3>4, <4>1, <4>2
      <3>6. \E j \in 1..5 :
              /\ pos'[c] = Base(c) + Before(j)
              /\ Len(fields'[t]) = 6 - j
              /\ \A i \in 1..6 - j : fields'[t][i] = Reads(m)[j + i - 1]
        BY <3>1, <3>3, <3>4, <3>5
      <3>7. Handled(t)' = m /\ conn_fd'[t] = c /\ Base(conn_fd[t])' = Base(c)
        BY <1>4
      <3> HIDE DEF m, c
      <3>8. \E j \in 1..5 :
              /\ pos'[conn_fd'[t]] = Base(conn_fd[t])' + Before(j)
              /\ Len(fields'[t]) = 6 - j
              /\ \A i \in 1..6 - j : fields'[t][i] = Reads(Handled(t)')[j + i - 1]
        BY <3>6, <3>7
      <3>9. /\ handled'[conn_fd'[t]] = [j \in 1..Len(handled'[conn_fd'[t]]) |-> j]
            /\ msg'[t] = Len(handled'[conn_fd'[t]]) + 1
        BY <1>5, <3>7
      <3> QED
        BY <3>2, <3>8, <3>9 DEF InBlock
    <2> QED
      BY <2>9, <2>10
  <1> QED
    BY <1>6, <1>7

\* The end of a file ends what InStep says of its connection.
LEMMA OperateRight ==
  ASSUME IInv, [Next]_vars, NEW t \in Threads, Operate(t)
  PROVE  Right(t)'
  <1> DEFINE c == conn_fd[t]
             m == Handled(t)
  <1>1. /\ c \in Conns /\ pc[t] = "op" /\ m \in Message /\ handled[c] \in Seq(Nat)
        /\ msg[t] \in Nat
    BY InHandType DEF Operate, IInv, TypeOK
  <1>2. /\ UNCHANGED <<traffic, arrived, conn_fd, msg, pos>>
        /\ handled'[c] = Append(handled[c], msg[t])
        /\ m.type # "E" => pc'[t] = IF Neglect(m) = 0 THEN "type" ELSE "ignore"
    <2>1. UNCHANGED <<traffic, arrived, conn_fd, msg, pos>>
      BY DEF Operate, net, thread
    <2>2. handled'[c] = Append(handled[c], msg[t])
      BY <1>1 DEF Operate, IInv, TypeOK
    <2>3. m.type # "E" => pc'[t] = IF Neglect(m) = 0 THEN "type" ELSE "ignore"
      BY <1>1 DEF Operate, Goto, Neglect, IInv, TypeOK
    <2> QED
      BY <2>1, <2>2, <2>3
  <1> SUFFICES ASSUME traffic.cut = 0, ~EndHandled(c)'
               PROVE  InBlock(t)'
    BY <1>1, <1>2 DEF Right, EndHandled, IsEnd, Sent
  <1>3. PICK n \in Nat : n = Len(handled[c])
    BY <1>1
  <1>4. /\ DOMAIN handled[c] = 1..n /\ DOMAIN handled'[c] = 1..n + 1
        /\ \A k \in 1..n : handled'[c][k] = handled[c][k]
        /\ handled'[c][n + 1] = msg[t]
        /\ Len(handled'[c]) = n + 1
    BY <1>1, <1>2, <1>3
  <1>a. \A k \in DOMAIN handled'[c] : Sent(c)[handled'[c][k]].type # "E"
    BY <1>2 DEF EndHandled, IsEnd, Sent
  <1>5. m.type # "E"
    <2>1. n + 1 \in DOMAIN handled'[c] /\ handled'[c][n + 1] = msg[t]
      BY <1>4
    <2>2. Sent(c)[msg[t]].type # "E"
      BY <1>a, <2>1
    <2> QED
      BY <2>2 DEF Handled
  <1>6. ~EndHandled(c)
    <2>1. \A k \in 1..n : k \in DOMAIN handled'[c]
      BY <1>4
    <2>2. \A k \in DOMAIN handled[c] : Sent(c)[handled[c][k]].type # "E"
      BY <1>4, <1>a, <2>1
    <2> QED
      BY <2>2 DEF EndHandled, IsEnd
  <1>7. /\ handled[c] = [k \in 1..n |-> k] /\ msg[t] = n + 1
        /\ pos[c] + Neglect(m) = n * 8192 + 8192
    <2>1. InBlock(t)
      BY <1>1, <1>6 DEF IInv, InStep
    <2> QED
      BY <1>1, <1>3, <1>5, <2>1 DEF InBlock, Base, PACKAGE_SIZE
  <1>8. handled'[c] = [k \in 1..n + 1 |-> k]
    <2>1. \A k \in 1..n + 1 : handled'[c][k] = k
      BY <1>4, <1>7
    <2>2. handled'[c] \in Seq(Nat)
      BY <1>1, <1>2
    <2> QED
      BY <1>4, <2>1, <2>2
  <1>9. PICK p \in Nat, a \in Nat, g \in Nat : p = pos[c] /\ a = arrived[c] /\ g = Neglect(m)
    BY <1>1, ReadsType DEF IInv, TypeOK
  <1>10. p + g = n * 8192 + 8192 /\ g <= 8141
    <2>1. p + g = n * 8192 + 8192
      BY <1>7, <1>9
    <2>2. g <= 8141
      BY <1>1, <1>5, <1>9, NeglectBound
    <2> QED
      BY <2>1, <2>2
  <1>11. p <= a /\ a % 8192 = 0
    BY <1>1, <1>9 DEF IInv, ArrivesInBlocks, PACKAGE_SIZE
  <1>12. (n + 1) * 8192 <= a
    <2>1. n * 8192 < p
      BY <1>10
    <2> QED
      BY <1>11, <2>1, NextBlock
  <1>13. Base(c)' = (n + 1) * 8192 /\ c' = c
    BY <1>2, <1>4 DEF Base, PACKAGE_SIZE
  <1>14. pos'[c] + g = (n + 1) * 8192
    <2>1. p + g = (n + 1) * 8192
      BY <1>10
    <2>2. pos'[c] = p
      BY <1>2, <1>9
    <2> QED
      BY <2>1, <2>2
  <1>15. Neglect(Handled(t))' = g
    <2>1. Handled(t)' = Handled(t)
      BY <1>2 DEF Handled, Sent
    <2> QED
      BY <1>9, <2>1 DEF Neglect
  <1>16. handled'[c] = [k \in 1..Len(handled'[c]) |-> k]
    BY <1>4, <1>8
  <1>17. CASE g = 0
    <2>1. pc'[t] = "type"
      BY <1>2, <1>5, <1>9, <1>17
    <2>2. pos'[c] = Base(c)'
      <3>1. pos'[c] = p /\ p = (n + 1) * 8192
        BY <1>2, <1>9, <1>10, <1>17
      <3> QED
        BY <1>13, <3>1
    <2> QED
      BY <1>13, <1>16, <2>1, <2>2 DEF InBlock
  <1>18. CASE g # 0
    <2>1. pc'[t] = "ignore"
      BY <1>2, <1>5, <1>9, <1>18
    <2>2. pos'[c] + Neglect(Handled(t))' = Base(c)'
      BY <1>13, <1>14, <1>15
    <2>3. Base(c)' <= arrived'[c]
      <3>1. arrived'[c] = a
        BY <1>2, <1>9
      <3> QED
        BY <1>12, <1>13, <3>1
    <2> QED
      BY <1>13, <1>16, <2>1, <2>2, <2>3 DEF InBlock
  <1> QED
    BY <1>17, <1>18

LEMMA IgnoreRight ==
  ASSUME IInv, [Next]_vars, NEW t \in Threads, Ignore(t)
  PROVE  Right(t)'
  <1> DEFINE c == conn_fd[t]
             g == Neglect(Handled(t))
  <1>1. c \in Conns /\ pc[t] = "ignore" /\ g \in Nat
    BY InHandType, ReadsType DEF Ignore, IInv
  <1>2. /\ UNCHANGED <<traffic, conn_fd, handled>> /\ pc'[t] = "type"
        /\ pos'[c] = pos[c] + Got(c, g)
    BY <1>1 DEF Ignore, Goto, net, thread, IInv, TypeOK
  <1> SUFFICES ASSUME traffic.cut = 0, ~EndHandled(c)
               PROVE  InBlock(t)'
    BY <1>1, <1>2 DEF Right, EndHandled, IsEnd, Sent
  <1>3. InBlock(t)
    BY <1>1 DEF IInv, InStep
  <1>4. /\ handled[c] = [k \in 1..Len(handled[c]) |-> k]
        /\ pos[c] + g = Base(c) /\ Base(c) <= arrived[c]
    BY <1>1, <1>3 DEF InBlock
  <1>5. pos[c] + g <= arrived[c]
    BY <1>4
  <1> HIDE DEF g
  <1>6. Got(c, g) = g
    BY <1>1, <1>5, GotBounds DEF IInv
  <1>7. pos'[c] = Base(c)' /\ c' = c
    BY <1>2, <1>4, <1>6 DEF Base
  <1> QED
    BY <1>2, <1>4, <1>7 DEF InBlock

LEMMA SkipRight ==
  ASSUME IInv, [Next]_vars, NEW t \in Threads, Skip(t)
  PROVE  Right(t)'
  <1>1. /\ UNCHANGED <<traffic, conn_fd, handled>> /\ pc[t] = "skip"
        /\ conn_fd[t] \in Conns
    BY DEF Skip, net, thread, IInv, InHand
  <1>2. Right(t)
    BY DEF IInv, InStep, Right
  <1>3. ~(traffic.cut = 0 /\ ~EndHandled(conn_fd[t]))
    BY <1>1, <1>2 DEF Right, InBlock
  <1>4. EndHandled(conn_fd[t])' <=> EndHandled(conn_fd[t])
    BY <1>1 DEF EndHandled, IsEnd, Sent
  <1> QED
    BY <1>1, <1>3, <1>4 DEF Right

LEMMA NextInStep ==
  ASSUME IInv, [Next]_vars
  PROVE  InStep'
  <1> SUFFICES \A u \in Threads : Right(u)'
    BY DEF InStep, Right
  <1>1. ASSUME UNCHANGED <<traffic, pc, conn_fd, msg, fields, pos, handled>>
        PROVE  \A u \in Threads : Right(u)'
    BY <1>1, Untouched
  <1>2. ASSUME NEW t \in Threads, ThreadStep(t), Right(t)'
        PROVE  \A u \in Threads : Right(u)'
    <2>1. ASSUME NEW u \in Threads, u # t
          PROVE  Right(u)'
      <3>1. traffic' = traffic
        BY <1>2
        DEF ThreadStep, Lock, Accept, ReadType, ReadField, Operate, Ignore, Skip, net
      <3>2. /\ pc'[u] = pc[u] /\ conn_fd'[u] = conn_fd[u]
            /\ msg'[u] = msg[u] /\ fields'[u] = fields[u]
        BY <1>2, <2>1
        DEF ThreadStep, Lock, Accept, ReadType, ReadField, Operate, Ignore, Skip, Goto,
            thread, IInv, TypeOK
      <3>3. conn_fd[u] \in Conns =>
              pos'[conn_fd[u]] = pos[conn_fd[u]] /\ handled'[conn_fd[u]] = handled[conn_fd[u]]
        <4>1. CASE Lock(t) \/ Accept(t)
          BY <4>1 DEF Lock, Accept
        <4>2. CASE ReadType(t) \/ ReadField(t) \/ Operate(t) \/ Ignore(t) \/ Skip(t)
          <5>1. conn_fd[t] \in Conns
            BY <4>2 DEF ReadType, ReadField, Operate, Ignore, Skip, IInv, InHand
          <5>2. conn_fd[u] \in Conns => conn_fd[u] # conn_fd[t]
            BY <2>1 DEF IInv, OneServer
          <5>3. \A c \in Conns : c # conn_fd[t] => pos'[c] = pos[c]
            BY <4>2, <5>1 DEF ReadType, ReadField, Operate, Ignore, Skip, IInv, TypeOK
          <5>4. \A c \in Conns : c # conn_fd[t] => handled'[c] = handled[c]
            BY <4>2, <5>1 DEF ReadType, ReadField, Operate, Ignore, Skip, IInv, TypeOK
          <5> QED
            BY <5>2, <5>3, <5>4
        <4> QED
          BY <1>2, <4>1, <4>2 DEF ThreadStep
      <3> QED
        BY <3>1, <3>2, <3>3, Untouched
    <2> QED
      BY <1>2, <2>1
  <1>3. ASSUME NEW t \in Threads, ThreadStep(t)
        PROVE  Right(t)'
    BY <1>3, LockRight, AcceptRight, ReadTypeRight, ReadFieldRight, OperateRight, IgnoreRight,
       SkipRight
    DEF ThreadStep
  <1>4. ASSUME NEW c \in Conns, ProcessStep(c)
        PROVE  UNCHANGED <<traffic, pc, conn_fd, msg, fields, pos, handled>>
    BY <1>4 DEF ProcessStep, Connect, Arrive, Close, thread
  <1>5. CASE UNCHANGED vars
    BY <1>1, <1>5 DEF vars, net, thread
  <1> QED
    BY <1>1, <1>2, <1>3, <1>4, <1>5 DEF Next, Idle

-----------------------------------------------------------------------------
(* The theorems                                                            *)

\* For any threads, connections and messages, IInv holds in every state.
THEOREM Invariance == Spec => []IInv
  <1>1. IInv /\ [Next]_vars => IInv'
    BY NextType, NextArrives, NextOneServer, NextInHand, NextInStep DEF IInv
  <1> QED
    BY InitInvariant, <1>1, PTL DEF Spec

\* Until an end has been handled on a connection, whatever lengths the data of its
\* blocks have, the thread that serves it reads the next type at the start of the
\* next block and has handled the blocks before it, each once and in order.
THEOREM BlocksAreRead == Spec => []WholeBlocks
  <1>1. IInv => WholeBlocks
    <2> SUFFICES ASSUME IInv, NEW t \in Threads, pc[t] \in {"type", "skip"},
                        traffic.cut = 0, ~EndHandled(conn_fd[t])
                 PROVE  /\ pos[conn_fd[t]] = Len(handled[conn_fd[t]]) * PACKAGE_SIZE
                        /\ handled[conn_fd[t]] =
                             [k \in 1..Len(handled[conn_fd[t]]) |-> k]
      BY DEF WholeBlocks
    <2>1. conn_fd[t] \in Conns
      BY DEF IInv, InHand
    <2>2. InBlock(t)
      BY <2>1 DEF IInv, InStep
    <2> QED
      BY <2>2 DEF InBlock, Base
  <1> QED
    BY Invariance, <1>1, PTL

-----------------------------------------------------------------------------
(* The data before the end                                                 *)

MsgAt(p) == Sent(p[1])[p[2]]
Through(p) == IsHandled(p[1], p[2])
AllPlaces == PlacesIn(traffic.brings)
Bytes(f) == BytesIn(traffic.brings, f)
Counted(f) == {b \in Bytes(f) : Through(b[1])}
Ended(f) == \E p \in AllPlaces : Through(p) /\ MsgAt(p).type = "E" /\ MsgAt(p).id = f

\* A thread is past the type of the message it handles, and no message is handled
\* twice.
Passed ==
  /\ \A t \in Threads :
       /\ pc[t] \in {"fields", "op", "ignore"} => (msg[t] - 1) * PACKAGE_SIZE < pos[conn_fd[t]]
       /\ pc[t] \in {"fields", "op"} => ~IsHandled(conn_fd[t], msg[t])
  /\ \A c \in Conns : \A i \in DOMAIN handled[c] : (handled[c][i] - 1) * PACKAGE_SIZE < pos[c]

\* Until an end of the file is through, its PendingFile has the size in the header,
\* if that was handled, and the number of the bytes that were.
SizesTrue ==
  \A f \in FileIDs : ~Ended(f) =>
    /\ dl_size[f] = Cardinality(Counted(f))
    /\ \/ file_size[f] = -1
       \/ \E p \in AllPlaces :
            /\ Through(p) /\ MsgAt(p).type = "N" /\ MsgAt(p).id = f
            /\ file_size[f] = MsgAt(p).size

\* After it, the header and all the data are.
EndsLast ==
  \A f \in FileIDs : Ended(f) =>
    \A p \in AllPlaces :
      MsgAt(p).id = f =>
        Through(p) \/ MsgAt(p).type = "E" \/ (MsgAt(p).type = "D" /\ MsgAt(p).len = 0)

EInv == Passed /\ SizesTrue /\ EndsLast

LEMMA PlaceOf ==
  \A b : \A p : p \in PlacesIn(b) <=>
    p[1] \in Conns /\ p[2] \in DOMAIN b[p[1]] /\ p = <<p[1], p[2]>>
  <1> SUFFICES ASSUME NEW b, NEW p
               PROVE  p \in PlacesIn(b) <=>
                        p[1] \in Conns /\ p[2] \in DOMAIN b[p[1]] /\ p = <<p[1], p[2]>>
    OBVIOUS
  <1>1. ASSUME p \in PlacesIn(b)
        PROVE  p[1] \in Conns /\ p[2] \in DOMAIN b[p[1]] /\ p = <<p[1], p[2]>>
    <2>1. PICK c \in Conns : p \in {c} \X DOMAIN b[c]
      BY <1>1 DEF PlacesIn
    <2> QED
      BY <2>1
  <1>2. ASSUME p[1] \in Conns, p[2] \in DOMAIN b[p[1]], p = <<p[1], p[2]>>
        PROVE  p \in PlacesIn(b)
    <2>1. p \in {p[1]} \X DOMAIN b[p[1]]
      BY <1>2
    <2> QED
      BY <1>2, <2>1 DEF PlacesIn
  <1> QED
    BY <1>1, <1>2

LEMMA PlaceType ==
  ASSUME TypeOK, NEW p \in AllPlaces
  PROVE  /\ p[1] \in Conns /\ p[2] \in Places(p[1]) /\ p = <<p[1], p[2]>>
         /\ MsgAt(p) \in Message
  <1>1. p[1] \in Conns /\ p[2] \in DOMAIN traffic.brings[p[1]] /\ p = <<p[1], p[2]>>
    BY PlaceOf DEF AllPlaces
  <1>2. Sent(p[1]) \in Seq(Message)
    BY <1>1, TrafficType DEF TypeOK, Sent
  <1> QED
    BY <1>1, <1>2 DEF Places, Sent, MsgAt

\* The bytes read of a connection grow, and of one that another thread serves, or
\* that a thread does not read, they stay.
LEMMA PosGrows ==
  ASSUME IInv, [Next]_vars
  PROVE  \A c \in Conns : pos[c] \in Nat /\ pos'[c] \in Nat /\ pos[c] <= pos'[c]
  <1>1. \A c \in Conns : pos[c] \in Nat /\ arrived[c] \in Nat /\ pos[c] <= arrived[c]
    BY DEF IInv, TypeOK, ArrivesInBlocks
  <1>2. ASSUME pos' = pos PROVE \A c \in Conns : pos'[c] \in Nat /\ pos[c] <= pos'[c]
    BY <1>1, <1>2
  <1>3. ASSUME NEW t \in Threads, ReadType(t) \/ ReadField(t) \/ Ignore(t) \/ Skip(t)
        PROVE  \A c \in Conns : pos'[c] \in Nat /\ pos[c] <= pos'[c]
    <2> DEFINE d == conn_fd[t]
    <2>1. d \in Conns
      BY <1>3 DEF ReadType, ReadField, Ignore, Skip, IInv, InHand
    <2>2. \A c \in Conns : c # d => pos'[c] = pos[c]
      BY <1>3, <2>1 DEF ReadType, ReadField, Ignore, Skip, IInv, TypeOK
    <2>3. pos'[d] \in Nat /\ pos[d] <= pos'[d]
      <3>1. CASE ReadType(t)
        <4>1. pos'[d] = pos[d] \/ pos'[d] = pos[d] + 1
          BY <2>1, <3>1 DEF ReadType, IInv, TypeOK
        <4> QED
          BY <1>1, <2>1, <4>1
      <3>2. CASE ReadField(t)
        <4>1. Head(fields[t]) \in Nat
          <5>1. fields[t] \in Seq(Nat) /\ fields[t] # <<>>
            BY <3>2 DEF ReadField, IInv, TypeOK, InHand
          <5> QED
            BY <5>1
        <4>2. pos'[d] = pos[d] + Got(d, Head(fields[t]))
          BY <2>1, <3>2 DEF ReadField, IInv, TypeOK
        <4>3. Got(d, Head(fields[t])) \in Nat
          BY <2>1, <4>1, GotBounds DEF IInv
        <4> QED
          BY <1>1, <2>1, <4>2, <4>3
      <3>3. CASE Ignore(t)
        <4>1. Neglect(Handled(t)) \in Nat
          BY <3>3, InHandType, ReadsType DEF Ignore, IInv
        <4>2. pos'[d] = pos[d] + Got(d, Neglect(Handled(t)))
          BY <2>1, <3>3 DEF Ignore, IInv, TypeOK
        <4>3. Got(d, Neglect(Handled(t))) \in Nat
          BY <2>1, <4>1, GotBounds DEF IInv
        <4> QED
          BY <1>1, <2>1, <4>2, <4>3
      <3>4. CASE Skip(t)
        <4>1. pos'[d] = arrived[d]
          BY <2>1, <3>4 DEF Skip, IInv, TypeOK
        <4> QED
          BY <1>1, <2>1, <4>1
      <3> QED
        BY <1>3, <3>1, <3>2, <3>3, <3>4
    <2> HIDE DEF d
    <2> QED
      BY <1>1, <2>2, <2>3
  <1>4. ASSUME NEW t \in Threads, Lock(t) \/ Accept(t) \/ Operate(t)
        PROVE  pos' = pos
    BY <1>4 DEF Lock, Accept, Operate
  <1>5. ASSUME NEW c \in Conns, ProcessStep(c)
        PROVE  pos' = pos
    BY <1>5 DEF ProcessStep, Connect, Arrive, Close
  <1> QED
    BY <1>1, <1>2, <1>3, <1>4, <1>5 DEF Next, ThreadStep, Idle, vars

\* A thread's operation adds its message to those handled; nothing else does.
LEMMA OperateHandles ==
  ASSUME IInv, NEW t \in Threads, Operate(t)
  PROVE  /\ conn_fd[t] \in Conns /\ msg[t] \in Places(conn_fd[t]) /\ Handled(t) \in Message
         /\ pc[t] = "op" /\ traffic' = traffic /\ pos' = pos
         /\ handled[conn_fd[t]] \in Seq(Nat) /\ msg[t] \in Nat
         /\ handled'[conn_fd[t]] = Append(handled[conn_fd[t]], msg[t])
         /\ \A c \in Conns : c # conn_fd[t] => handled'[c] = handled[c]
         /\ \A c \in Conns : \A k :
              IsHandled(c, k)' <=> IsHandled(c, k) \/ (c = conn_fd[t] /\ k = msg[t])
  <1>a. conn_fd[t] \in Conns /\ msg[t] \in Places(conn_fd[t]) /\ pc[t] = "op"
        /\ Handled(t) \in Message
    BY InHandType DEF Operate, IInv, Places
  <1>b. PICK d, n : d = conn_fd[t] /\ n = msg[t]
    OBVIOUS
  <1>1. d \in Conns /\ n \in Places(d)
    BY <1>a, <1>b
  <1>2. handled' = [handled EXCEPT ![d] = Append(@, n)] /\ traffic' = traffic /\ pos' = pos
    BY <1>b DEF Operate, net
  <1>3. handled[d] \in Seq(Nat) /\ n \in Nat
    BY <1>1, <1>b DEF IInv, TypeOK
  <1>4. handled'[d] = Append(handled[d], n)
    BY <1>1, <1>2 DEF IInv, TypeOK
  <1>5. \A c \in Conns : c # d => handled'[c] = handled[c]
    BY <1>2 DEF IInv, TypeOK
  <1>6. \A s \in Seq(Nat) : \A k :
          (\E i \in DOMAIN Append(s, n) : Append(s, n)[i] = k) <=>
            (\E i \in DOMAIN s : s[i] = k) \/ k = n
    <2> SUFFICES ASSUME NEW s \in Seq(Nat), NEW k
                 PROVE  (\E i \in DOMAIN Append(s, n) : Append(s, n)[i] = k) <=>
                          (\E i \in DOMAIN s : s[i] = k) \/ k = n
      OBVIOUS
    <2>1. /\ Len(s) \in Nat /\ DOMAIN s = 1..Len(s)
          /\ DOMAIN Append(s, n) = 1..Len(s) + 1 /\ Append(s, n)[Len(s) + 1] = n
          /\ \A i \in DOMAIN s : Append(s, n)[i] = s[i]
      BY <1>3
    <2>2. \A i \in DOMAIN Append(s, n) : i \in DOMAIN s \/ i = Len(s) + 1
      BY <2>1
    <2>3. Len(s) + 1 \in DOMAIN Append(s, n) /\ \A i \in DOMAIN s : i \in DOMAIN Append(s, n)
      BY <2>1
    <2> QED
      BY <2>1, <2>2, <2>3
  <1>7. \A k : IsHandled(d, k)' <=> IsHandled(d, k) \/ k = n
    <2>1. PICK h \in Seq(Nat) : h = handled[d]
      BY <1>3
    <2>2. handled'[d] = Append(h, n)
      BY <1>4, <2>1
    <2>3. \A k : (\E i \in DOMAIN Append(h, n) : Append(h, n)[i] = k) <=>
                   (\E i \in DOMAIN h : h[i] = k) \/ k = n
      BY <1>6, <2>1
    <2>4. \A k : IsHandled(d, k) <=> \E i \in DOMAIN h : h[i] = k
      BY <2>1 DEF IsHandled
    <2>5. \A k : IsHandled(d, k)' <=> \E i \in DOMAIN Append(h, n) : Append(h, n)[i] = k
      BY <2>2 DEF IsHandled
    <2> QED
      BY <2>3, <2>4, <2>5
  <1>8. \A c \in Conns : c # d => \A k : IsHandled(c, k)' <=> IsHandled(c, k)
    BY <1>5 DEF IsHandled
  <1> QED
    BY <1>a, <1>b, <1>2, <1>3, <1>4, <1>5, <1>7, <1>8

LEMMA PassedInit == Init => Passed
  BY DEF Init, Passed, IsHandled

LEMMA HandledOnly ==
  ASSUME [Next]_vars, \A t \in Threads : ~Operate(t)
  PROVE  UNCHANGED <<traffic, files, handled>>
  BY DEF Next, Idle, ThreadStep, Lock, Accept, ReadType, ReadField, Ignore, Skip,
     ProcessStep, Connect, Arrive, Close, net, vars

LEMMA SameTraffic ==
  ASSUME IInv, [Next]_vars
  PROVE  traffic' = traffic
  BY HandledOnly, OperateHandles

\* The message whose type is read begins where the bytes read end.
LEMMA BlockBefore ==
  ASSUME NEW p \in Nat, p % 8192 = 0, NEW k, k = p \div 8192 + 1
  PROVE  k \in Nat /\ (k - 1) * 8192 = p
  OBVIOUS

LEMMA EarlierBlock ==
  ASSUME NEW k \in Nat, NEW p \in Nat, NEW q \in Nat, (k - 1) * 8192 < p, p <= q
  PROVE  (k - 1) * 8192 < q
  OBVIOUS

LEMMA PassedNext ==
  ASSUME IInv, Passed, [Next]_vars
  PROVE  Passed'
  <1>a. \A c \in Conns : pos[c] \in Nat /\ pos'[c] \in Nat /\ pos[c] <= pos'[c]
    BY PosGrows
  <1>b. \A c \in Conns : handled[c] \in Seq(Nat) /\ \A i \in DOMAIN handled[c] : handled[c][i] \in Nat
    <2>1. \A c \in Conns : handled[c] \in Seq(Nat)
      BY DEF IInv, TypeOK
    <2>2. \A s \in Seq(Nat) : \A i \in DOMAIN s : s[i] \in Nat
      OBVIOUS
    <2> QED
      BY <2>1, <2>2
  <1>c. \A c \in Conns : \A k : IsHandled(c, k) => k \in Nat /\ (k - 1) * 8192 < pos[c]
    BY <1>b DEF IsHandled, Passed, PACKAGE_SIZE
  <1>1. \A c \in Conns : \A k : IsHandled(c, k)' => k \in Nat /\ (k - 1) * 8192 < pos'[c]
    <2>1. ASSUME NEW t \in Threads, Operate(t), NEW c \in Conns, NEW k, IsHandled(c, k)'
          PROVE  k \in Nat /\ (k - 1) * 8192 < pos'[c]
      <3>1. IsHandled(c, k) \/ (c = conn_fd[t] /\ k = msg[t])
        BY <2>1, OperateHandles
      <3>2. pos' = pos /\ pc[t] = "op" /\ msg[t] \in Nat
        BY <2>1, OperateHandles
      <3>3. (msg[t] - 1) * 8192 < pos[conn_fd[t]]
        BY <3>2 DEF Passed, PACKAGE_SIZE
      <3> QED
        BY <1>c, <3>1, <3>2, <3>3
    <2>2. ASSUME handled' = handled, NEW c \in Conns, NEW k, IsHandled(c, k)'
          PROVE  k \in Nat /\ (k - 1) * 8192 < pos'[c]
      <3>1. IsHandled(c, k)
        BY <2>2 DEF IsHandled
      <3>2. k \in Nat /\ (k - 1) * 8192 < pos[c]
        BY <1>c, <3>1
      <3> QED
        BY <1>a, <3>2, EarlierBlock
    <2> QED
      BY <2>1, <2>2, HandledOnly
  <1>2. ASSUME NEW t \in Threads
        PROVE  /\ pc'[t] \in {"fields", "op", "ignore"} =>
                    (msg'[t] - 1) * 8192 < pos'[conn_fd'[t]]
               /\ pc'[t] \in {"fields", "op"} => ~IsHandled(conn_fd[t], msg[t])'
    <2>a. pc[t] \in {"fields", "op", "ignore"} =>
            /\ conn_fd[t] \in Conns /\ msg[t] \in Nat
            /\ (msg[t] - 1) * 8192 < pos[conn_fd[t]]
      BY InHandType DEF IInv, TypeOK, Passed, PACKAGE_SIZE
    <2>1. ASSUME ReadType(t), pc'[t] = "fields"
          PROVE  /\ (msg'[t] - 1) * 8192 < pos'[conn_fd'[t]]
                 /\ ~IsHandled(conn_fd[t], msg[t])'
      <3>1. PICK c : c = conn_fd[t]
        OBVIOUS
      <3>2. c \in Conns
        BY <2>1, <3>1 DEF ReadType, IInv, InHand
      <3>3. /\ pos[c] % 8192 = 0 /\ pos'[c] = pos[c] + 1 /\ msg'[t] = pos[c] \div 8192 + 1
            /\ conn_fd'[t] = c /\ handled' = handled
        BY <2>1, <3>1, <3>2 DEF ReadType, Goto, IInv, TypeOK, PACKAGE_SIZE
      <3>4. PICK k : k = msg'[t]
        OBVIOUS
      <3>5. k \in Nat /\ (k - 1) * 8192 = pos[c]
        BY <1>a, <3>2, <3>3, <3>4, BlockBefore
      <3>6. (k - 1) * 8192 < pos'[c]
        BY <1>a, <3>2, <3>3, <3>5
      <3>7. ~IsHandled(c, k)
        BY <1>a, <1>c, <3>2, <3>5
      <3>8. ~IsHandled(c, k)'
        BY <3>3, <3>7 DEF IsHandled
      <3> QED
        BY <3>3, <3>4, <3>6, <3>8 DEF IsHandled
    <2>2. ASSUME ~(ReadType(t) /\ pc'[t] = "fields"), pc'[t] \in {"fields", "op", "ignore"}
          PROVE  /\ conn_fd'[t] = conn_fd[t] /\ msg'[t] = msg[t]
                 /\ pc[t] \in {"fields", "op", "ignore"}
                 /\ pc'[t] \in {"fields", "op"} => pc[t] \in {"fields", "op"} /\ ~Operate(t)
      <3>1. ASSUME NEW u \in Threads, ThreadStep(u), u # t
            PROVE  conn_fd'[t] = conn_fd[t] /\ msg'[t] = msg[t] /\ pc'[t] = pc[t]
        BY <3>1 DEF ThreadStep, Lock, Accept, ReadType, ReadField, Operate, Ignore, Skip, Goto,
           thread, IInv, TypeOK
      <3>3. CASE Lock(t) \/ Accept(t) \/ ReadType(t) \/ Skip(t)
        BY <2>2, <3>3 DEF Lock, Accept, ReadType, Skip, Goto, IInv, TypeOK
      <3>4. CASE ReadField(t)
        BY <2>2, <3>4 DEF ReadField, Operate, thread
      <3>5. CASE Operate(t)
        <4>1. pc'[t] \in {"type", "ignore"} /\ UNCHANGED thread /\ pc[t] = "op"
          BY <3>5, OperateHandles, MessageType DEF Operate, Goto, IInv, TypeOK
        <4> QED
          BY <4>1 DEF thread
      <3>6. CASE Ignore(t)
        BY <2>2, <3>6 DEF Ignore, Goto, IInv, TypeOK
      <3>7. ASSUME NEW c \in Conns, ProcessStep(c)
            PROVE  UNCHANGED <<conn_fd, msg, pc, handled>>
        BY <3>7 DEF ProcessStep, Connect, Arrive, Close, thread
      <3>8. ASSUME UNCHANGED <<conn_fd, msg, pc, handled>>
            PROVE  pc'[t] = pc[t] /\ ~Operate(t)
        <4>1. ASSUME Operate(t) PROVE FALSE
          <5>1. pc'[t] \in {"type", "ignore"} /\ pc[t] = "op"
            BY <4>1, OperateHandles, MessageType DEF Operate, Goto, IInv, TypeOK
          <5> QED
            BY <3>8, <5>1
        <4> QED
          BY <3>8, <4>1
      <3>9. ASSUME NEW u \in Threads, ThreadStep(u), u # t, Operate(t) PROVE FALSE
        <4>1. pc'[t] \in {"type", "ignore"} /\ pc[t] = "op"
          BY <3>9, OperateHandles, MessageType DEF Operate, Goto, IInv, TypeOK
        <4> QED
          BY <3>1, <3>9, <4>1
      <3>10. CASE \E u \in Threads : ThreadStep(u)
        <4>1. PICK u \in Threads : ThreadStep(u)
          BY <3>10
        <4>2. CASE u = t
          BY <2>2, <3>3, <3>4, <3>5, <3>6, <4>1, <4>2 DEF ThreadStep
        <4>3. CASE u # t
          BY <2>2, <3>1, <3>9, <4>1, <4>3
        <4> QED
          BY <4>2, <4>3
      <3>11. CASE Idle \/ UNCHANGED vars
        <4>1. UNCHANGED <<conn_fd, msg, pc, handled>>
          BY <3>11 DEF Idle, vars, thread
        <4> QED
          BY <2>2, <3>8, <4>1
      <3> QED
        BY <2>2, <3>7, <3>8, <3>10, <3>11 DEF Next
    <2>3. ASSUME ~(ReadType(t) /\ pc'[t] = "fields"), pc'[t] \in {"fields", "op"}
          PROVE  ~IsHandled(conn_fd[t], msg[t])'
      <3>1. PICK c, k : c = conn_fd[t] /\ k = msg[t]
        OBVIOUS
      <3>2. conn_fd'[t] = c /\ msg'[t] = k /\ pc[t] \in {"fields", "op"} /\ ~Operate(t) /\ c \in Conns
        BY <2>2, <2>3, <2>a, <3>1
      <3>3. ~IsHandled(c, k)
        BY <3>1, <3>2 DEF Passed
      <3>4. ASSUME NEW u \in Threads, Operate(u) PROVE ~IsHandled(c, k)'
        <4>1. u # t
          BY <3>2, <3>4
        <4>2. conn_fd[u] # c
          BY <3>1, <3>2, <4>1 DEF IInv, OneServer
        <4> QED
          BY <3>2, <3>3, <3>4, <4>2, OperateHandles
      <3>5. ASSUME handled' = handled PROVE ~IsHandled(c, k)'
        BY <3>3, <3>5 DEF IsHandled
      <3>6. ~IsHandled(c, k)'
        BY <3>4, <3>5, HandledOnly
      <3> QED
        BY <3>2, <3>6 DEF IsHandled
    <2>4. ASSUME ~(ReadType(t) /\ pc'[t] = "fields"), pc'[t] \in {"fields", "op", "ignore"}
          PROVE  (msg'[t] - 1) * 8192 < pos'[conn_fd'[t]]
      <3>1. PICK c, k : c = conn_fd[t] /\ k = msg[t]
        OBVIOUS
      <3>2. conn_fd'[t] = c /\ msg'[t] = k /\ c \in Conns /\ k \in Nat /\ (k - 1) * 8192 < pos[c]
        BY <2>2, <2>4, <2>a, <3>1
      <3>3. (k - 1) * 8192 < pos'[c]
        BY <1>a, <3>2, EarlierBlock
      <3> QED
        BY <3>2, <3>3
    <2> QED
      BY <2>1, <2>3, <2>4
  <1>3. \A c \in Conns : \A i \in DOMAIN handled'[c] : (handled'[c][i] - 1) * 8192 < pos'[c]
    BY <1>1 DEF IsHandled
  <1> QED
    BY <1>2, <1>3 DEF Passed, PACKAGE_SIZE

LEMMA ByteOf ==
  \A f : \A b : b \in Bytes(f) =>
    /\ b[1] \in AllPlaces /\ b[2] \in 1..MaxLen /\ b = <<b[1], b[2]>>
    /\ MsgAt(b[1]).type = "D" /\ MsgAt(b[1]).id = f /\ b[2] <= MsgAt(b[1]).len
  BY DEF Bytes, BytesIn, AllPlaces, MsgAt, Sent

LEMMA ByteIn ==
  ASSUME NEW q \in AllPlaces, NEW n \in 1..MaxLen, MsgAt(q).type = "D", n <= MsgAt(q).len
  PROVE  <<q, n>> \in Bytes(MsgAt(q).id)
  BY DEF Bytes, BytesIn, AllPlaces, MsgAt, Sent

LEMMA BytesFinite ==
  ASSUME UploadsWhole, TypeOK, NEW f \in FileIDs
  PROVE  /\ IsFiniteSet(Bytes(f)) /\ IsFiniteSet(Counted(f))
         /\ Cardinality(Bytes(f)) \in Nat /\ Cardinality(Counted(f)) \in Nat
  <1>1. IsFiniteSet(Bytes(f))
    BY DEF UploadsWhole, TypeOK, Bytes
  <1>2. Counted(f) \subseteq Bytes(f)
    BY DEF Counted
  <1>3. IsFiniteSet(Counted(f))
    BY <1>1, <1>2, FS_Subset
  <1> QED
    BY <1>1, <1>3, FS_CardinalityType

\* What an operation does to its file, and that it leaves the other files alone.
LEMMA OperateFiles ==
  ASSUME IInv, NEW t \in Threads, Operate(t)
  PROVE  LET m == Handled(t) IN
         /\ m.type \in {"N", "D", "E"} /\ m.id \in FileIDs
         /\ m.type = "N" => file_size'[m.id] = m.size /\ dl_size'[m.id] = dl_size[m.id]
         /\ m.type = "D" =>
              /\ file_size'[m.id] = file_size[m.id] /\ dl_size'[m.id] = dl_size[m.id] + m.len
              /\ m.len \in 0..MaxLen
         /\ m.type = "E" => file_size[m.id] = dl_size[m.id]
         /\ \A f \in FileIDs : f # m.id =>
              file_size'[f] = file_size[f] /\ dl_size'[f] = dl_size[f]
  <1>1. PICK m : m = Handled(t)
    OBVIOUS
  <1>2. m \in Message
    BY <1>1, OperateHandles
  <1>3. m.type \in {"N", "D", "E"} /\ m.id \in FileIDs /\ (m.type = "D" => m.len \in 0..MaxLen)
    BY <1>2 DEF Message
  <1>4. file_size \in [FileIDs -> Int] /\ dl_size \in [FileIDs -> Nat]
    BY DEF IInv, TypeOK
  <1>5. CASE m.type = "N"
    BY <1>1, <1>3, <1>4, <1>5 DEF Operate
  <1>6. CASE m.type = "D"
    BY <1>1, <1>3, <1>4, <1>6 DEF Operate
  <1>7. CASE m.type = "E"
    BY <1>1, <1>3, <1>4, <1>7 DEF Operate, Waits
  <1> QED
    BY <1>1, <1>3, <1>5, <1>6, <1>7

\* The place of the message that is handled is new among those through.
LEMMA OperatePlace ==
  ASSUME IInv, Passed, NEW t \in Threads, Operate(t)
  PROVE  \E p \in AllPlaces :
           /\ p = <<conn_fd[t], msg[t]>> /\ ~Through(p) /\ MsgAt(p) = Handled(t)
           /\ \A q \in AllPlaces : Through(q)' <=> Through(q) \/ q = p
  <1>1. PICK p : p = <<conn_fd[t], msg[t]>>
    OBVIOUS
  <1>2. p[1] \in Conns /\ p[2] \in Places(p[1]) /\ p = <<p[1], p[2]>>
    BY <1>1, OperateHandles
  <1>3. p \in AllPlaces
    BY <1>2, PlaceOf DEF AllPlaces, Places, Sent
  <1>4. ~Through(p)
    BY <1>1, OperateHandles DEF Passed, Through
  <1>5. MsgAt(p) = Handled(t)
    BY <1>1 DEF MsgAt, Handled
  <1>6. ASSUME NEW q \in AllPlaces
        PROVE  Through(q)' <=> Through(q) \/ q = p
    <2>1. q[1] \in Conns /\ q = <<q[1], q[2]>>
      BY PlaceOf DEF AllPlaces
    <2>2. IsHandled(q[1], q[2])' <=> IsHandled(q[1], q[2]) \/ (q[1] = p[1] /\ q[2] = p[2])
      BY <1>1, <2>1, OperateHandles
    <2> QED
      BY <1>2, <2>1, <2>2 DEF Through
  <1> QED
    BY <1>1, <1>3, <1>4, <1>5, <1>6

\* The messages stay where they are.
LEMMA SamePlaces ==
  ASSUME traffic' = traffic
  PROVE  /\ AllPlaces' = AllPlaces
         /\ \A p : MsgAt(p)' = MsgAt(p)
         /\ \A f : Bytes(f)' = Bytes(f)
  BY DEF AllPlaces, MsgAt, Bytes, Sent

LEMMA MoreBytes ==
  ASSUME NEW S, IsFiniteSet(S), NEW p, NEW n \in Nat, \A b \in S : b[1] # p
  PROVE  Cardinality(S \cup ({p} \X (1..n))) = Cardinality(S) + n
  <1> DEFINE T == {p} \X (1..n)
  <1>1. IsFiniteSet({p}) /\ Cardinality({p}) = 1
    BY FS_Singleton
  <1>2. IsFiniteSet(1..n) /\ Cardinality(1..n) = n
    BY FS_Interval
  <1>3. IsFiniteSet(T) /\ Cardinality(T) = n
    <2>1. IsFiniteSet(T) /\ Cardinality(T) = Cardinality({p}) * Cardinality(1..n)
      BY <1>1, <1>2, FS_Product
    <2>2. Cardinality({p}) * Cardinality(1..n) = 1 * n
      BY <1>1, <1>2
    <2>3. 1 * n = n
      OBVIOUS
    <2> QED
      BY <2>1, <2>2, <2>3
  <1>4. S \cap T = {}
    OBVIOUS
  <1>5. Cardinality(S \cap T) = 0
    BY <1>4, FS_EmptySet
  <1>6. Cardinality(S) \in Nat
    BY FS_CardinalityType
  <1>7. Cardinality(S \cup T) = Cardinality(S) + Cardinality(T) - Cardinality(S \cap T)
    BY <1>3, FS_Union
  <1> HIDE DEF T
  <1>8. Cardinality(S \cup T) = Cardinality(S) + n
    BY <1>3, <1>5, <1>6, <1>7
  <1> QED
    BY <1>8 DEF T

\* What is through stays through.
LEMMA ThroughStays ==
  ASSUME IInv, Passed, [Next]_vars
  PROVE  \A p \in AllPlaces : Through(p) => Through(p)'
  <1>1. ASSUME NEW t \in Threads, Operate(t)
        PROVE  \A p \in AllPlaces : Through(p) => Through(p)'
    BY <1>1, OperatePlace
  <1>2. ASSUME handled' = handled
        PROVE  \A p \in AllPlaces : Through(p) => Through(p)'
    BY <1>2 DEF Through, IsHandled
  <1> QED
    BY <1>1, <1>2, HandledOnly

LEMMA EndedStays ==
  ASSUME IInv, Passed, [Next]_vars, NEW f, Ended(f)
  PROVE  Ended(f)'
  <1>1. PICK p \in AllPlaces : Through(p) /\ MsgAt(p).type = "E" /\ MsgAt(p).id = f
    BY DEF Ended
  <1>2. Through(p)'
    BY <1>1, ThroughStays
  <1>3. AllPlaces' = AllPlaces /\ MsgAt(p)' = MsgAt(p)
    BY SameTraffic, SamePlaces
  <1> QED
    BY <1>1, <1>2, <1>3 DEF Ended

\* A header, or an end, adds nothing to the bytes of its file.
LEMMA CountedSame ==
  ASSUME IInv, Passed, [Next]_vars, NEW t \in Threads, Operate(t), NEW f,
         Handled(t).id # f \/ Handled(t).type # "D"
  PROVE  Counted(f)' = Counted(f)
  <1>1. PICK p \in AllPlaces :
          /\ MsgAt(p) = Handled(t)
          /\ \A q \in AllPlaces : Through(q)' <=> Through(q) \/ q = p
    BY OperatePlace
  <1>2. Bytes(f)' = Bytes(f)
    BY SameTraffic, SamePlaces
  <1>3. \A b \in Bytes(f) : b[1] \in AllPlaces /\ b[1] # p
    BY <1>1, ByteOf
  <1>4. \A b \in Bytes(f) : Through(b[1])' <=> Through(b[1])
    BY <1>1, <1>3
  <1>5. PICK B : B = Bytes(f)
    OBVIOUS
  <1>6. Counted(f)' = {b \in B : Through(b[1])'}
    BY <1>2, <1>5 DEF Counted
  <1>7. {b \in B : Through(b[1])'} = {b \in B : Through(b[1])}
    BY <1>4, <1>5
  <1> QED
    BY <1>5, <1>6, <1>7 DEF Counted

\* A packet adds its own.
LEMMA CountedMore ==
  ASSUME UploadsWhole, IInv, Passed, [Next]_vars, NEW t \in Threads, Operate(t),
         Handled(t).type = "D", NEW f, f = Handled(t).id
  PROVE  Cardinality(Counted(f)') = Cardinality(Counted(f)) + Handled(t).len
  <1>1. PICK p \in AllPlaces :
          /\ MsgAt(p) = Handled(t) /\ ~Through(p)
          /\ \A q \in AllPlaces : Through(q)' <=> Through(q) \/ q = p
    BY OperatePlace
  <1>2. PICK n : n = Handled(t).len
    OBVIOUS
  <1>3. f \in FileIDs /\ n \in 0..MaxLen
    BY <1>2, OperateFiles
  <1>4. PICK B, C : B = Bytes(f) /\ C = Counted(f)
    OBVIOUS
  <1>5. B' = B /\ Bytes(f)' = B
    BY <1>4, SameTraffic, SamePlaces
  <1>6. \A b \in B : b[1] \in AllPlaces /\ b[2] \in 1..MaxLen /\ b = <<b[1], b[2]>>
                     /\ MsgAt(b[1]).type = "D" /\ b[2] <= MsgAt(b[1]).len
    BY <1>4, ByteOf
  <1>7. \A i \in 1..n : <<p, i>> \in B
    <2> SUFFICES ASSUME NEW i \in 1..n PROVE <<p, i>> \in B
      OBVIOUS
    <2>1. MaxLen \in Nat
      BY DEF MaxLen, PACKAGE_SIZE
    <2>2. i \in 1..MaxLen /\ i <= n
      BY <1>3, <2>1
    <2> QED
      BY <1>1, <1>2, <1>4, <2>2, ByteIn
  <1>8. C = {b \in B : Through(b[1])}
    BY <1>4 DEF Counted
  <1>9. Counted(f)' = {b \in B : Through(b[1])'}
    BY <1>5 DEF Counted
  <1>10. \A b \in B : Through(b[1])' <=> Through(b[1]) \/ b[1] = p
    BY <1>1, <1>6
  <1>11. {b \in B : b[1] = p} = {p} \X (1..n)
    <2>1. ASSUME NEW b \in B, b[1] = p PROVE b \in {p} \X (1..n)
      <3>1. b[2] \in 1..MaxLen /\ b = <<b[1], b[2]>> /\ b[2] <= n
        BY <1>1, <1>2, <1>6, <2>1
      <3>2. b[2] \in 1..n
        <4>1. \A N, i : i \in 1..MaxLen /\ N \in 0..MaxLen /\ i <= N => i \in 1..N
          BY DEF MaxLen, PACKAGE_SIZE
        <4> QED
          BY <1>3, <3>1, <4>1
      <3> QED
        BY <2>1, <3>1, <3>2
    <2>2. ASSUME NEW b \in {p} \X (1..n) PROVE b \in B /\ b[1] = p
      <3>1. PICK i \in 1..n : b = <<p, i>>
        OBVIOUS
      <3> QED
        BY <1>7, <3>1
    <2> QED
      BY <2>1, <2>2
  <1>12. Counted(f)' = C \cup {b \in B : b[1] = p}
    BY <1>8, <1>9, <1>10
  <1>13. \A b \in C : b[1] # p
    BY <1>1, <1>8
  <1>14. IsFiniteSet(C)
    BY <1>3, <1>4, BytesFinite DEF IInv
  <1>15. n \in Nat
    BY <1>3 DEF MaxLen, PACKAGE_SIZE
  <1>16. Cardinality(C \cup ({p} \X (1..n))) = Cardinality(C) + n
    BY <1>13, <1>14, <1>15, MoreBytes
  <1>17. Cardinality(Counted(f)') = Cardinality(Counted(f)) + n
    BY <1>4, <1>11, <1>12, <1>16
  <1> QED
    BY <1>2, <1>17

LEMMA SizesNext ==
  ASSUME UploadsWhole, IInv, EInv, [Next]_vars
  PROVE  SizesTrue'
  <1>1. SUFFICES ASSUME NEW f \in FileIDs, ~Ended(f)'
                 PROVE  /\ dl_size'[f] = Cardinality(Counted(f)')
                        /\ \/ file_size'[f] = -1
                           \/ \E p \in AllPlaces :
                                /\ Through(p)' /\ MsgAt(p).type = "N" /\ MsgAt(p).id = f
                                /\ file_size'[f] = MsgAt(p).size
    BY SameTraffic, SamePlaces DEF SizesTrue
  <1>2. ~Ended(f)
    BY <1>1, EndedStays DEF EInv
  <1>3. /\ dl_size[f] = Cardinality(Counted(f))
        /\ \/ file_size[f] = -1
           \/ \E p \in AllPlaces :
                /\ Through(p) /\ MsgAt(p).type = "N" /\ MsgAt(p).id = f
                /\ file_size[f] = MsgAt(p).size
    BY <1>2 DEF EInv, SizesTrue
  <1>4. \A p \in AllPlaces : Through(p) => Through(p)'
    BY ThroughStays DEF EInv
  <1>5. ASSUME NEW t \in Threads, Operate(t), f # Handled(t).id
        PROVE  /\ dl_size'[f] = Cardinality(Counted(f)')
               /\ \/ file_size'[f] = -1
                  \/ \E p \in AllPlaces :
                       /\ Through(p)' /\ MsgAt(p).type = "N" /\ MsgAt(p).id = f
                       /\ file_size'[f] = MsgAt(p).size
    <2>1. dl_size'[f] = dl_size[f] /\ file_size'[f] = file_size[f]
      BY <1>5, OperateFiles
    <2>2. Counted(f)' = Counted(f)
      BY <1>5, CountedSame DEF EInv
    <2> QED
      BY <1>3, <1>4, <2>1, <2>2
  <1>6. ASSUME NEW t \in Threads, Operate(t), f = Handled(t).id
        PROVE  /\ dl_size'[f] = Cardinality(Counted(f)')
               /\ \/ file_size'[f] = -1
                  \/ \E p \in AllPlaces :
                       /\ Through(p)' /\ MsgAt(p).type = "N" /\ MsgAt(p).id = f
                       /\ file_size'[f] = MsgAt(p).size
    <2>1. PICK p \in AllPlaces :
            /\ MsgAt(p) = Handled(t)
            /\ \A q \in AllPlaces : Through(q)' <=> Through(q) \/ q = p
      BY <1>6, OperatePlace DEF EInv
    <2>2. Through(p)'
      BY <2>1
    <2>3. CASE Handled(t).type = "N"
      <3>1. file_size'[f] = MsgAt(p).size /\ dl_size'[f] = dl_size[f]
        BY <1>6, <2>1, <2>3, OperateFiles
      <3>2. Counted(f)' = Counted(f)
        BY <1>6, <2>3, CountedSame DEF EInv
      <3> QED
        BY <1>3, <1>6, <2>1, <2>2, <2>3, <3>1, <3>2
    <2>4. CASE Handled(t).type = "D"
      <3>1. file_size'[f] = file_size[f] /\ dl_size'[f] = dl_size[f] + Handled(t).len
        BY <1>6, <2>4, OperateFiles
      <3>2. Cardinality(Counted(f)') = Cardinality(Counted(f)) + Handled(t).len
        BY <1>6, <2>4, CountedMore DEF EInv
      <3> QED
        BY <1>3, <1>4, <3>1, <3>2
    <2>5. CASE Handled(t).type = "E"
      <3>1. AllPlaces' = AllPlaces /\ MsgAt(p)' = MsgAt(p)
        BY SameTraffic, SamePlaces
      <3>2. Ended(f)'
        BY <1>6, <2>1, <2>2, <2>5, <3>1 DEF Ended
      <3> QED
        BY <1>1, <3>2
    <2> QED
      BY <1>6, <2>3, <2>4, <2>5, OperateFiles
  <1>7. CASE UNCHANGED <<traffic, files, handled>>
    <2>1. dl_size' = dl_size /\ file_size' = file_size
      BY <1>7 DEF files
    <2>2. Counted(f)' = Counted(f)
      BY <1>7 DEF Counted, Bytes, Through, IsHandled
    <2> QED
      BY <1>3, <1>4, <2>1, <2>2
  <1> QED
    BY <1>5, <1>6, <1>7, HandledOnly

\* An end that does not wait finds the header and every byte counted.
LEMMA EndFinds ==
  ASSUME UploadsWhole, IInv, EInv, NEW f \in FileIDs, ~Ended(f), file_size[f] = dl_size[f],
         NEW q \in AllPlaces, MsgAt(q).id = f
  PROVE  Through(q) \/ MsgAt(q).type = "E" \/ (MsgAt(q).type = "D" /\ MsgAt(q).len = 0)
  <1>1. TypeOK
    BY DEF IInv
  <1>2. dl_size[f] = Cardinality(Counted(f)) /\ Cardinality(Counted(f)) \in Nat
    BY <1>1, BytesFinite DEF EInv, SizesTrue
  <1>3. file_size[f] # -1
    BY <1>2
  <1>4. PICK p \in AllPlaces :
          /\ Through(p) /\ MsgAt(p).type = "N" /\ MsgAt(p).id = f
          /\ file_size[f] = MsgAt(p).size
    BY <1>3 DEF EInv, SizesTrue
  <1>5. \A r \in AllPlaces : MsgAt(r).type = "N" /\ MsgAt(r).id = f =>
          p = r /\ MsgAt(p).size = Cardinality(Bytes(f))
    BY <1>1, <1>4 DEF UploadsWhole, TypeOK, AllPlaces, MsgAt, Sent, Bytes
  <1>6. Cardinality(Bytes(f)) = Cardinality(Counted(f))
    BY <1>2, <1>4, <1>5
  <1>7. Counted(f) = Bytes(f)
    <2>1. Counted(f) \in SUBSET Bytes(f)
      BY DEF Counted
    <2> QED
      BY <1>1, <1>6, <2>1, BytesFinite, FS_Subset
  <1>8. MsgAt(q) \in Message
    BY <1>1, PlaceType
  <1>9. MsgAt(q).type \in {"N", "D", "E"} /\ (MsgAt(q).type = "D" => MsgAt(q).len \in 0..MaxLen)
    BY <1>8 DEF Message
  <1>10. CASE MsgAt(q).type = "N"
    BY <1>4, <1>5, <1>10
  <1>11. ASSUME MsgAt(q).type = "D", MsgAt(q).len # 0
         PROVE  Through(q)
    <2>a. 1 \in 1..MaxLen /\ \A n \in 0..MaxLen : n # 0 => 1 <= n
      BY DEF MaxLen, PACKAGE_SIZE
    <2>1. 1 \in 1..MaxLen /\ 1 <= MsgAt(q).len
      BY <1>9, <1>11, <2>a
    <2>2. <<q, 1>> \in Bytes(f)
      BY <1>11, <2>1, ByteIn
    <2>3. <<q, 1>> \in Counted(f)
      BY <1>7, <2>2
    <2>4. Through(<<q, 1>>[1])
      BY <2>3 DEF Counted
    <2> QED
      BY <2>4
  <1> QED
    BY <1>9, <1>10, <1>11

LEMMA EndsLastNext ==
  ASSUME UploadsWhole, IInv, EInv, [Next]_vars
  PROVE  EndsLast'
  <1>1. SUFFICES ASSUME NEW f \in FileIDs, Ended(f)', NEW q \in AllPlaces, MsgAt(q).id = f
                 PROVE  \/ Through(q)' \/ MsgAt(q).type = "E"
                        \/ (MsgAt(q).type = "D" /\ MsgAt(q).len = 0)
    BY SameTraffic, SamePlaces DEF EndsLast
  <1>2. Through(q) => Through(q)'
    BY ThroughStays DEF EInv
  <1>3. CASE Ended(f)
    BY <1>1, <1>2, <1>3 DEF EInv, EndsLast
  <1>4. CASE ~Ended(f)
    <2>1. PICK p \in AllPlaces : Through(p)' /\ MsgAt(p).type = "E" /\ MsgAt(p).id = f
      BY <1>1, SameTraffic, SamePlaces DEF Ended
    <2>2. ~Through(p)
      BY <1>4, <2>1 DEF Ended
    <2>3. PICK t \in Threads : Operate(t)
      <3>1. ASSUME handled' = handled PROVE FALSE
        BY <2>1, <2>2, <3>1 DEF Through, IsHandled
      <3> QED
        BY <3>1, HandledOnly
    <2>4. MsgAt(p) = Handled(t)
      BY <2>1, <2>2, <2>3, OperatePlace DEF EInv
    <2>5. file_size[f] = dl_size[f]
      BY <2>1, <2>3, <2>4, OperateFiles
    <2> QED
      BY <1>1, <1>2, <1>4, <2>5, EndFinds
  <1> QED
    BY <1>3, <1>4

LEMMA EInvInit == Init => EInv
  <1> SUFFICES ASSUME Init PROVE EInv
    OBVIOUS
  <1>1. \A p \in AllPlaces : ~Through(p)
    BY PlaceOf DEF Init, AllPlaces, Through, IsHandled
  <1>2. \A f : ~Ended(f)
    BY <1>1 DEF Ended
  <1>3. \A f : Counted(f) = {}
    BY <1>1, ByteOf DEF Counted
  <1>4. Cardinality({}) = 0
    BY FS_EmptySet
  <1>5. \A f \in FileIDs : dl_size[f] = 0 /\ file_size[f] = -1
    BY DEF Init
  <1>6. SizesTrue
    BY <1>3, <1>4, <1>5 DEF SizesTrue
  <1>7. EndsLast
    BY <1>2 DEF EndsLast
  <1> QED
    BY <1>6, <1>7, PassedInit DEF EInv

\* Whatever threads the messages of a file come to, and in whatever order, its end is
\* through only when its header and all its data are counted (SS_ClosePendingFile
\* keeps its thread until the bytes written are as many as the header says).
THEOREM DataFirst == ASSUME UploadsWhole PROVE Spec => []DataBeforeEnd
  <1>1. ASSUME IInv, EInv PROVE DataBeforeEnd
    <2> SUFFICES ASSUME NEW c \in Conns, NEW k \in Places(c), IsEnd(c, k) /\ IsHandled(c, k),
                        NEW d \in Conns, NEW j \in Places(d), Sent(d)[j].id = Sent(c)[k].id
                 PROVE  \/ IsHandled(d, j)
                        \/ IsEnd(d, j) /\ ~IsHandled(d, j)
                        \/ Sent(d)[j].type = "D" /\ Sent(d)[j].len = 0
      BY DEF DataBeforeEnd
    <2>1. PICK p, q : p = <<c, k>> /\ q = <<d, j>>
      OBVIOUS
    <2>2. p \in AllPlaces /\ q \in AllPlaces
      BY <2>1, PlaceOf DEF AllPlaces, Places, Sent
    <2>3. /\ MsgAt(p) = Sent(c)[k] /\ (Through(p) <=> IsHandled(c, k))
          /\ MsgAt(q) = Sent(d)[j] /\ (Through(q) <=> IsHandled(d, j))
      BY <2>1 DEF MsgAt, Through
    <2>4. MsgAt(p) \in Message
      BY <1>1, <2>2, PlaceType DEF IInv
    <2>5. PICK f \in FileIDs : f = MsgAt(p).id
      BY <2>4 DEF Message
    <2>6. Ended(f)
      BY <2>2, <2>3, <2>5 DEF Ended, IsEnd
    <2>7. Through(q) \/ MsgAt(q).type = "E" \/ (MsgAt(q).type = "D" /\ MsgAt(q).len = 0)
      BY <1>1, <2>2, <2>3, <2>5, <2>6 DEF EInv, EndsLast
    <2> QED
      BY <2>3, <2>7 DEF IsEnd
  <1>2. IInv /\ EInv /\ [Next]_vars => EInv'
    BY PassedNext, SizesNext, EndsLastNext DEF EInv
  <1>3. Spec => []IInv
    BY Invariance
  <1> QED
    BY <1>1, <1>2, <1>3, EInvInit, PTL DEF Spec
=============================================================================

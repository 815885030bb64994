--------------------------- MODULE ShmRelayProofs ---------------------------
(***************************************************************************)
(* Proofs about ShmRelay for every number of blocks, reading processes and *)
(* packets, and in every circumstance the scenarios can combine; and about *)
(* TransferConn, whose thread is the relay's writer, for any clients,      *)
(* packets and lengths, and wherever the network cuts a stream.            *)
(***************************************************************************)
EXTENDS ShmRelay, TransferConn, SequenceTheorems, WellFoundedInduction, FiniteSetTheorems, TLAPS

\* The processes are the readers and the writer, numbered after them.
LEMMA Processes == /\ Readers \subseteq Procs
                   /\ Writer \in Procs
                   /\ Writer \notin Readers
                   /\ Procs = Readers \cup {Writer}
                   /\ 0 \in Readers
  BY SizesAssumption DEF Readers, Procs, Writer

\* The next block and the next reader, round the rings, are in range.
LEMMA Rings == /\ \A i \in Blocks : (i + 1) % NBLK \in Blocks
               /\ \A r \in Readers : (r + 1) % NPROC \in Readers
  BY SizesAssumption DEF Blocks, Readers

\* Bad is no block, so that an index ReadData accepts is one.
LEMMA BadIsNoBlock == Bad \notin Blocks
  BY SizesAssumption DEF Blocks, Bad

\* Both ends closed leave a FIFO of the right type.
LEMMA EmptyBuffer == <<>> \in Seq(Notice)
  OBVIOUS

-----------------------------------------------------------------------------
(* Type correctness                                                        *)

LEMMA InitType == Init => TypeOK
  BY SizesAssumption, ScenarioAssumption, Processes
  DEF Init, TypeOK, InRange, Packet, Blocks, Readers, Writer, WriterPC, ReaderPC, Scenario, Procs

\* The indexes stay in range.
LEMMA NextInRange == TypeOK /\ [Next]_vars => InRange'
  <1> SUFFICES ASSUME TypeOK, [Next]_vars
               PROVE  InRange'
    OBVIOUS
  <1>t. InRange /\ id \in Readers /\ id \in Procs /\ id # Writer
    BY Processes DEF TypeOK
  <1> USE <1>t, Processes DEF InRange, Goto, WriterPC, ReaderPC
  <1>1. CASE UNCHANGED <<pc, index>>
    BY <1>1
  <1>2. ASSUME NEW p \in Procs, ResetSem(p)
        PROVE  InRange'
    BY <1>2 DEF ResetSem
  <1>3. ASSUME NEW p \in Procs, P(p)
        PROVE  InRange'
    <2>1. CASE p = Writer
      BY <1>3, <2>1 DEF P
    <2>2. CASE p \in Readers
      BY <1>3, <2>2 DEF P
    <2> QED
      BY <2>1, <2>2
  <1>4. CASE Receive
    BY <1>4, Rings DEF Receive
  <1>5. CASE WriteBlock \/ WriterV \/ WriterWrite \/ WriterClose
    BY <1>5 DEF WriteBlock, WriterV, WriterWrite, WriterClose, Die
  <1>6. CASE WriterOpen
    BY <1>6 DEF WriterOpen
  <1>7. ASSUME NEW r \in Readers, ReaderOpen(r)
        PROVE  InRange'
    BY <1>7 DEF ReaderOpen
  <1>8. ASSUME NEW r \in Readers, ReaderRead(r)
        PROVE  InRange'
    <2> buf[r] \in Seq(Notice)
      BY DEF TypeOK
    <2>h. buf[r] # <<>> => Head(buf[r]) \in Notice
      BY HeadTailProperties
    <2>1. buf[r] # <<>> => Head(buf[r]).index \in Blocks
      BY <2>h DEF Notice
    <2>2. PICK i \in Blocks \cup {Bad} : index' = [index EXCEPT ![r] = i]
      BY <1>8, <2>1 DEF ReaderRead
    <2>3. pc' = [pc EXCEPT ![r] = "fclose"]
      BY <1>8 DEF ReaderRead
    <2> QED
      BY <2>2, <2>3
  <1>9. ASSUME NEW r \in Readers, ReaderClose(r)
        PROVE  InRange'
    <2>1. index[r] # Bad => index[r] \in Blocks
      OBVIOUS
    <2> QED
      BY <1>9, <2>1 DEF ReaderClose
  <1>10. ASSUME NEW r \in Readers, ReadBlock(r) \/ ReaderV(r)
         PROVE  InRange'
    BY <1>10 DEF ReadBlock, ReaderV
  <1>11. ASSUME NEW r \in Readers, Connect(r) \/ Send(r)
         PROVE  InRange'
    BY <1>11 DEF Connect, Send, Die
  <1>12. ASSUME NEW r \in Readers, Alarm(r)
         PROVE  InRange'
    BY <1>12 DEF Alarm
  <1>13. ASSUME NEW p \in Procs, Kill(p)
         PROVE  InRange'
    BY <1>13 DEF Kill, Die
  <1> QED
    BY <1>1, <1>2, <1>3, <1>4, <1>5, <1>6, <1>7, <1>8, <1>9, <1>10, <1>11, <1>12, <1>13
    DEF Next, WriterStep, ReaderStep, Idle, vars

\* What a process leaves behind when it ends.
LEMMA DieType ==
  ASSUME TypeOK, NEW p \in Procs, Die(p)
  PROVE  /\ sem' \in [Blocks -> Nat] /\ adj' \in [Procs -> [Blocks -> Int]]
         /\ buf' \in [Readers -> Seq(Notice)]
         /\ wopen' \in [Readers -> BOOLEAN] /\ ropen' \in [Readers -> BOOLEAN]
         /\ leaked' \in [Readers -> BOOLEAN]
  <1>1. \A i \in Blocks : sem[i] + adj[p][i] > 0 => sem[i] + adj[p][i] \in Nat
    BY DEF TypeOK
  <1>2. sem' \in [Blocks -> Nat]
    BY <1>1 DEF Die, Undo
  <1>3. adj' \in [Procs -> [Blocks -> Int]]
    BY DEF Die, Undo, TypeOK
  <1>4. buf' \in [Readers -> Seq(Notice)]
    BY EmptyBuffer DEF Die, TypeOK
  <1> QED
    BY <1>2, <1>3, <1>4 DEF Die, TypeOK

LEMMA NextType == TypeOK /\ [Next]_vars => TypeOK'
  <1> SUFFICES ASSUME TypeOK, [Next]_vars
               PROVE  TypeOK'
    OBVIOUS
  <1>t. InRange'
    BY NextInRange
  <1>s. /\ at \in [Procs -> 0..NBLK] /\ sem \in [Blocks -> Nat] /\ hasShm \in [Procs -> BOOLEAN]
        /\ adj \in [Procs -> [Blocks -> Int]]
    BY DEF TypeOK
  <1>b. /\ buf \in [Readers -> Seq(Notice)] /\ sent \in [Readers -> Seq(Sending)]
        /\ told \in [Readers -> Nat \cup {NULL}]
    BY DEF TypeOK
  <1>r. InRange /\ cnt \in Nat /\ id \in Readers /\ shm \in [Blocks -> Packet]
    BY DEF TypeOK
  <1> USE <1>t, Processes DEF env, mem, fifo, writer, reader, out
  <1>1. CASE UNCHANGED vars
    BY <1>1 DEF vars, TypeOK
  <1>2. ASSUME NEW p \in Procs, ResetSem(p)
        PROVE  TypeOK'
    <2>1. at[p] \in 0..NBLK /\ (at[p] < NBLK => at[p] + 1 \in 0..NBLK)
      BY SizesAssumption, <1>s
    <2>2. at' \in [Procs -> 0..NBLK]
      BY <1>2, <2>1, <1>s DEF ResetSem
    <2>3. sem' \in [Blocks -> Nat]
      BY <1>2, <1>s DEF ResetSem
    <2>4. hasShm' \in [Procs -> BOOLEAN]
      BY <1>2, <1>s DEF ResetSem
    <2>6. adj' \in [Procs -> [Blocks -> Int]]
      BY <1>2, <1>s DEF ResetSem
    <2>5. UNCHANGED <<scen, shm, fifo, writer, reader, out>>
      BY <1>2 DEF ResetSem
    <2> QED
      BY <2>2, <2>3, <2>4, <2>5, <2>6 DEF TypeOK
  <1>3. ASSUME NEW p \in Procs, P(p)
        PROVE  TypeOK'
    <2>1. index[p] \in Blocks
      BY <1>3, <1>r DEF P, InRange
    <2>2. sem' \in [Blocks -> Nat]
      BY <1>3, <2>1, <1>s DEF P
    <2>4. adj' \in [Procs -> [Blocks -> Int]]
      BY <1>3, <2>1, <1>s DEF P
    <2>3. UNCHANGED <<env, shm, fifo, writer, reader, out>>
      BY <1>3 DEF P
    <2> QED
      BY <2>2, <2>3, <2>4 DEF TypeOK
  <1>4. CASE Receive \/ WriteBlock
    <2>1. cnt' \in Nat /\ shm' \in [Blocks -> Packet]
      BY <1>4, <1>r DEF Receive, WriteBlock, Packet
    <2>2. UNCHANGED <<env, sem, adj, fifo, id, reader, out>>
      BY <1>4 DEF Receive, WriteBlock
    <2> QED
      BY <2>1, <2>2 DEF TypeOK
  <1>5. CASE WriterV
    <2>1. sem' \in [Blocks -> Nat]
      BY <1>5, <1>s, <1>r DEF WriterV, InRange
    <2>2. adj' \in [Procs -> [Blocks -> Int]]
      BY <1>5, <1>s, <1>r DEF WriterV, InRange
    <2> QED
      BY <1>5, <2>1, <2>2, Rings DEF WriterV, TypeOK
  <1>6. CASE WriterOpen \/ WriterClose
    <2>1. buf' \in [Readers -> Seq(Notice)]
      BY <1>6, EmptyBuffer, <1>b DEF WriterOpen, WriterClose
    <2> QED
      BY <1>6, <2>1 DEF WriterOpen, WriterClose, TypeOK
  <1>7. CASE WriterWrite
    <2>1. [index |-> index[Writer], pkt |-> cnt] \in Notice
      BY <1>r DEF Notice, InRange
    <2> buf[id] \in Seq(Notice)
      BY <1>b, <1>r
    <2>a. Append(buf[id], [index |-> index[Writer], pkt |-> cnt]) \in Seq(Notice)
      BY <2>1, AppendProperties, <1>b, <1>r
    <2>2. CASE Readable(id)
      <3>1. buf' \in [Readers -> Seq(Notice)]
        BY <1>7, <2>2, <2>a, <1>b DEF WriterWrite
      <3> QED
        BY <1>7, <2>2, <3>1 DEF WriterWrite, TypeOK
    <2>3. CASE ~Readable(id)
      <3>1. Die(Writer) /\ UNCHANGED <<env, index, shm, writer, reader, out>>
        BY <1>7, <2>3 DEF WriterWrite
      <3> QED
        BY <3>1, DieType DEF TypeOK
    <2> QED
      BY <2>2, <2>3
  <1>8. ASSUME NEW r \in Readers, ReaderOpen(r)
        PROVE  TypeOK'
    BY <1>8 DEF ReaderOpen, TypeOK
  <1>9. ASSUME NEW r \in Readers, ReaderRead(r)
        PROVE  TypeOK'
    <2> buf[r] \in Seq(Notice)
      BY <1>b
    <2>1. buf[r] # <<>> => Head(buf[r]) \in Notice /\ Tail(buf[r]) \in Seq(Notice)
      BY HeadTailProperties, <1>b
    <2>2. buf' \in [Readers -> Seq(Notice)]
      BY <1>9, <2>1, <1>b DEF ReaderRead
    <2>3. told' \in [Readers -> Nat \cup {NULL}]
      BY <1>9, <2>1, <1>r, <1>b DEF ReaderRead, Notice
    <2>4. UNCHANGED <<env, mem, wopen, ropen, leaked, writer, data, out>>
      BY <1>9 DEF ReaderRead
    <2> QED
      BY <2>2, <2>3, <2>4 DEF TypeOK
  <1>10. ASSUME NEW r \in Readers, ReaderClose(r)
         PROVE  TypeOK'
    <2>1. buf' \in [Readers -> Seq(Notice)]
      BY <1>10, EmptyBuffer, <1>b DEF ReaderClose
    <2> QED
      BY <1>10, <2>1 DEF ReaderClose, TypeOK
  <1>11. ASSUME NEW r \in Readers, ReadBlock(r)
         PROVE  TypeOK'
    <2>1. index[r] \in Blocks
      BY <1>11, <1>r DEF ReadBlock, InRange
    <2> QED
      BY <1>11, <2>1 DEF ReadBlock, TypeOK
  <1>12. ASSUME NEW r \in Readers, ReaderV(r)
         PROVE  TypeOK'
    <2>1. index[r] \in Blocks
      BY <1>12, <1>r DEF ReaderV, InRange
    <2>2. sem' \in [Blocks -> Nat]
      BY <1>12, <2>1, <1>s DEF ReaderV
    <2>4. adj' \in [Procs -> [Blocks -> Int]]
      BY <1>12, <2>1, <1>s DEF ReaderV
    <2>3. UNCHANGED <<env, shm, fifo, writer, reader, out>>
      BY <1>12 DEF ReaderV
    <2> QED
      BY <2>2, <2>3, <2>4 DEF TypeOK
  <1>13. ASSUME NEW r \in Readers, Connect(r)
         PROVE  TypeOK'
    BY <1>13 DEF Connect, TypeOK
  <1>14. ASSUME NEW r \in Readers, Send(r)
         PROVE  TypeOK'
    <2>1. [pkt |-> data[r], told |-> told[r]] \in Sending
      BY DEF Sending, TypeOK
    <2> sent[r] \in Seq(Sending)
      BY <1>b
    <2>a. Append(sent[r], [pkt |-> data[r], told |-> told[r]]) \in Seq(Sending)
      BY <2>1, AppendProperties, <1>b
    <2>2. CASE sock[r] # "refused"
      <3>1. sent' \in [Readers -> Seq(Sending)]
        BY <1>14, <2>2, <2>a, <1>b DEF Send
      <3> QED
        BY <1>14, <2>2, <3>1 DEF Send, TypeOK
    <2>3. CASE sock[r] = "refused"
      <3>1. Die(r) /\ UNCHANGED <<env, index, shm, writer, reader, out>>
        BY <1>14, <2>3 DEF Send
      <3> QED
        BY <3>1, DieType DEF TypeOK
    <2> QED
      BY <2>2, <2>3
  <1>15. ASSUME NEW r \in Readers, Alarm(r)
         PROVE  TypeOK'
    <2>1. buf' \in [Readers -> Seq(Notice)]
      BY <1>15, EmptyBuffer, <1>b DEF Alarm
    <2> QED
      BY <1>15, <2>1 DEF Alarm, TypeOK
  <1>16. ASSUME NEW p \in Procs, Kill(p)
         PROVE  TypeOK'
    <2>1. Die(p) /\ UNCHANGED <<env, index, writer, reader, out>>
      BY <1>16 DEF Kill
    <2>2. shm' \in [Blocks -> Packet]
      BY <1>16, <1>r DEF Kill, Packet
    <2> QED
      BY <2>1, <2>2, DieType DEF TypeOK
  <1> QED
    BY <1>1, <1>2, <1>3, <1>4, <1>5, <1>6, <1>7, <1>8, <1>9, <1>10, <1>11, <1>12,
       <1>13, <1>14, <1>15, <1>16
    DEF Next, WriterStep, ReaderStep, Idle
-----------------------------------------------------------------------------
(* Mutual exclusion of the copies                                          *)

\* Who holds the units of the semaphores.
Exclusion == SemaphoreCounts /\ UndoesItsP /\ MutualExclusion

LEMMA InitInvariant == Init => IInv
  <1> SUFFICES ASSUME Init
               PROVE  IInv
    OBVIOUS
  <1>1. TypeOK
    BY InitType
  <1>2. ResetBeforeUse
    BY Processes DEF Init, ResetBeforeUse
  <1>3. \A p \in Procs, i \in Blocks : ~Holds(p, i)
    BY Processes DEF Init, Holds
  <1>4. \A i \in Blocks : sem[i] = 1 /\ \A p \in Procs : adj[p][i] = 0
    BY DEF Init
  <1> QED
    BY <1>1, <1>2, <1>3, <1>4 DEF IInv, SemaphoreCounts, UndoesItsP, MutualExclusion

\* The circumstances never change.
LEMMA SameScenario == [Next]_vars => scen' = scen
  BY DEF Next, WriterStep, ReaderStep, Idle, vars, env, ResetSem, P, Receive, WriteBlock,
     WriterV, WriterOpen, WriterWrite, WriterClose, ReaderOpen, ReaderRead, ReaderClose,
     ReadBlock, ReaderV, Connect, Send, Alarm, Kill

\* Until the writer has reset the semaphores no reader is woken.
LEMMA NextResetBeforeUse == IInv /\ [Next]_vars => ResetBeforeUse'
  <1> SUFFICES ASSUME TypeOK, ResetBeforeUse, [Next]_vars, scen.attached
               PROVE  ResetBeforeUse'
    BY SameScenario DEF IInv, ResetBeforeUse
  <1>t. /\ pc \in [Procs -> WriterPC \cup ReaderPC] /\ hasShm \in [Procs -> BOOLEAN]
        /\ wopen \in [Readers -> BOOLEAN] /\ id \in Readers
    BY DEF TypeOK, InRange
  <1> USE <1>t, Processes, SameScenario DEF ResetBeforeUse, Goto, env, fifo
  <1>1. CASE UNCHANGED vars
    BY <1>1 DEF vars
  <1>2. ASSUME NEW p \in Procs, ResetSem(p)
        PROVE  ResetBeforeUse'
    BY <1>2 DEF ResetSem
  <1>3. ASSUME NEW p \in Procs, P(p)
        PROVE  ResetBeforeUse'
    BY <1>3 DEF P
  <1>4. CASE Receive
    BY <1>4 DEF Receive
  <1>5. CASE WriteBlock \/ WriterV \/ WriterWrite \/ WriterClose
    BY <1>5 DEF WriteBlock, WriterV, WriterWrite, WriterClose, Die
  <1>6. CASE WriterOpen
    BY <1>6 DEF WriterOpen
  <1>7. ASSUME NEW r \in Readers, ReaderOpen(r)
        PROVE  ResetBeforeUse'
    BY <1>7 DEF ReaderOpen
  <1>8. ASSUME NEW r \in Readers, ReaderRead(r) \/ ReaderClose(r) \/ ReadBlock(r)
        PROVE  ResetBeforeUse'
    BY <1>8 DEF ReaderRead, ReaderClose, ReadBlock
  <1>9. ASSUME NEW r \in Readers, ReaderV(r) \/ Connect(r) \/ Send(r)
        PROVE  ResetBeforeUse'
    BY <1>9 DEF ReaderV, Connect, Send, Die
  <1>10. ASSUME NEW r \in Readers, Alarm(r)
         PROVE  ResetBeforeUse'
    BY <1>10 DEF Alarm
  <1>11. ASSUME NEW p \in Procs, Kill(p)
         PROVE  ResetBeforeUse'
    BY <1>11 DEF Kill, Die
  <1> QED
    BY <1>1, <1>2, <1>3, <1>4, <1>5, <1>6, <1>7, <1>8, <1>9, <1>10, <1>11
    DEF Next, WriterStep, ReaderStep, Idle

\* A step that starts or ends no copy, and leaves the semaphores alone.
LEMMA SameHolders ==
  ASSUME IInv, sem' = sem, adj' = adj, Steady,
         \A p \in Procs, i \in Blocks : Holds(p, i)' <=> Holds(p, i)
  PROVE  Exclusion'
  BY DEF IInv, SemaphoreCounts, UndoesItsP, MutualExclusion, Exclusion

\* P and V move the one unit of a block between its semaphore and a process.
LEMMA NextExclusion == IInv /\ [Next]_vars => Exclusion'
  <1> SUFFICES ASSUME IInv, [Next]_vars, Steady
               PROVE  Exclusion'
    BY SameScenario DEF Steady, SemaphoreCounts, UndoesItsP, MutualExclusion, Exclusion
  <1>t. /\ InRange /\ id \in Readers /\ ResetBeforeUse
        /\ pc \in [Procs -> WriterPC \cup ReaderPC]
        /\ index \in [Procs -> Blocks \cup {Bad}]
        /\ sem \in [Blocks -> Nat]
        /\ at \in [Procs -> 0..NBLK] /\ adj \in [Procs -> [Blocks -> Int]]
    BY DEF IInv, TypeOK, InRange
  <1>i. \A i \in Blocks :
          /\ sem[i] \in {0, 1}
          /\ sem[i] = 1 => \A p \in Procs : ~Holds(p, i)
          /\ sem[i] = 0 => \E p \in Procs : Holds(p, i)
          /\ \A p, q \in Procs : Holds(p, i) /\ Holds(q, i) => p = q
    BY DEF IInv, SemaphoreCounts, MutualExclusion
  <1>a. \A p \in Procs, i \in Blocks : adj[p][i] = IF Holds(p, i) THEN 1 ELSE 0
    BY DEF IInv, UndoesItsP
  <1> USE <1>t, Processes DEF Goto, mem
  <1>1. CASE UNCHANGED <<sem, adj, pc, index>>
    BY <1>1, SameHolders DEF Holds
  <1>2. ASSUME NEW p \in Procs, ResetSem(p)
        PROVE  Exclusion'
    <2>1. p = Writer /\ \A r \in Readers : pc[r] \in {"fopen", "fwait", "dead"}
      BY <1>2 DEF ResetSem, ResetBeforeUse, Steady
    <2>2. \A q \in Procs : pc[q] \notin {"copy", "V"}
      BY <1>2, <2>1 DEF ResetSem
    <2>3. \A i \in Blocks : sem[i] = 1
      BY <1>i, <2>2 DEF Holds
    <2>4. sem' = sem
      BY <1>2, <2>3, SizesAssumption DEF ResetSem, Blocks
    <2>5. \A q \in Procs, i \in Blocks : Holds(q, i)' <=> Holds(q, i)
      BY <1>2, <2>2 DEF ResetSem, Holds
    <2>6. \A q \in Procs, i \in Blocks : adj[q][i] = 0
      BY <1>a, <2>2 DEF Holds
    <2>7. adj' = adj
      <3>1. CASE at[p] < NBLK
        <4>0. at[p] \in 0..NBLK /\ NBLK \in Nat /\ at[p] # NBLK
          BY <3>1, SizesAssumption
        <4>a. at[p] \in Blocks
          BY <4>0, <3>1 DEF Blocks
        <4>b. adj' = [q \in Procs |-> [adj[q] EXCEPT ![at[p]] = 0]]
          BY <4>0, <1>2 DEF ResetSem
        <4>1. at[p] \in Blocks /\ adj' = [q \in Procs |-> [adj[q] EXCEPT ![at[p]] = 0]]
          BY <4>a, <4>b
        <4>2. \A q \in Procs : [adj[q] EXCEPT ![at[p]] = 0] = adj[q]
          BY <2>6, <4>1
        <4> QED
          BY <4>1, <4>2
      <3>2. CASE ~(at[p] < NBLK)
        BY <1>2, <3>2 DEF ResetSem
      <3> QED
        BY <3>1, <3>2
    <2> QED
      BY <2>4, <2>5, <2>7, SameHolders
  <1>3. ASSUME NEW p \in Procs, P(p)
        PROVE  Exclusion'
    <2>1. index[p] \in Blocks /\ sem[index[p]] = 1
      BY <1>3, <1>i DEF P, InRange
    <2>2. sem' = [sem EXCEPT ![index[p]] = 0]
      BY <1>3, <2>1 DEF P
    <2>3. \A q \in Procs, i \in Blocks :
            Holds(q, i)' <=> Holds(q, i) \/ (q = p /\ i = index[p])
      BY <1>3 DEF P, Holds
    <2>4. \A q \in Procs : ~Holds(q, index[p])
      BY <2>1, <1>i
    <2>5. UndoesItsP'
      <3>1. adj' = [adj EXCEPT ![p][index[p]] = @ + 1] /\ adj[p][index[p]] = 0
        BY <1>3, <1>a, <2>1, <2>4 DEF P
      <3>2. \A q \in Procs, i \in Blocks :
              adj'[q][i] = IF q = p /\ i = index[p] THEN 1 ELSE adj[q][i]
        BY <2>1, <3>1
      <3> QED
        BY <1>a, <2>3, <3>2 DEF UndoesItsP
    <2>6. MutualExclusion'
      BY <1>i, <2>3, <2>4 DEF MutualExclusion
    <2>7. SemaphoreCounts'
      BY <1>i, <2>1, <2>2, <2>3, <2>4 DEF SemaphoreCounts
    <2> QED
      BY <2>5, <2>6, <2>7 DEF Exclusion
  <1>4. ASSUME NEW p \in Procs, pc[p] = "V", index' = index,
               sem' = [sem EXCEPT ![index[p]] = @ + 1],
               adj' = [adj EXCEPT ![p][index[p]] = @ - 1],
               NEW label \in {"fopen", "send"}, pc' = [pc EXCEPT ![p] = label]
        PROVE  Exclusion'
    <2>1. index[p] \in Blocks /\ Holds(p, index[p])
      BY <1>4 DEF Holds, InRange
    <2>2. sem[index[p]] = 0 /\ \A q \in Procs : Holds(q, index[p]) => q = p
      BY <2>1, <1>i
    <2>3. sem' = [sem EXCEPT ![index[p]] = 1]
      BY <1>4, <2>1, <2>2
    <2>4. \A q \in Procs, i \in Blocks : Holds(q, i)' <=> Holds(q, i) /\ q # p
      BY <1>4 DEF Holds
    <2>5. \A i \in Blocks : Holds(p, i) => i = index[p]
      BY DEF Holds
    <2>6. UndoesItsP'
      <3>1. adj[p][index[p]] = 1
        BY <1>a, <2>1
      <3>2. \A q \in Procs, i \in Blocks :
              adj'[q][i] = IF q = p /\ i = index[p] THEN 0 ELSE adj[q][i]
        BY <1>4, <2>1, <3>1
      <3> QED
        BY <1>a, <2>4, <2>5, <3>2 DEF UndoesItsP
    <2> QED
      BY <1>i, <2>1, <2>2, <2>3, <2>4, <2>5, <2>6 DEF SemaphoreCounts, MutualExclusion, Exclusion
  <1>5. CASE WriterV
    BY <1>5, <1>4 DEF WriterV
  <1>6. ASSUME NEW r \in Readers, ReaderV(r)
        PROVE  Exclusion'
    BY <1>6, <1>4 DEF ReaderV
  <1>13. ASSUME NEW p \in Procs, Die(p), index' = index
         PROVE  Exclusion'
    <2>1. \A q \in Procs, i \in Blocks : Holds(q, i)' <=> Holds(q, i) /\ q # p
      BY <1>13 DEF Die, Holds
    <2>2. ASSUME NEW i \in Blocks
          PROVE  sem'[i] = IF Holds(p, i) THEN 1 ELSE sem[i]
      <3>1. sem'[i] = IF sem[i] + adj[p][i] > 0 THEN sem[i] + adj[p][i] ELSE 0
        BY <1>13 DEF Die, Undo
      <3>2. CASE Holds(p, i)
        <4>1. sem[i] = 0 /\ adj[p][i] = 1
          BY <1>i, <1>a, <3>2
        <4> QED
          BY <3>1, <3>2, <4>1
      <3>3. CASE ~Holds(p, i)
        <4>1. sem[i] \in {0, 1} /\ adj[p][i] = 0
          BY <1>i, <1>a, <3>3
        <4> QED
          BY <3>1, <3>3, <4>1
      <3> QED
        BY <3>2, <3>3
    <2>3. UndoesItsP'
      <3>1. \A q \in Procs, i \in Blocks : adj'[q][i] = IF q = p THEN 0 ELSE adj[q][i]
        BY <1>13 DEF Die, Undo
      <3> QED
        BY <1>a, <2>1, <3>1 DEF UndoesItsP
    <2>4. MutualExclusion'
      BY <1>i, <2>1 DEF MutualExclusion
    <2>5. SemaphoreCounts'
      BY <1>i, <2>1, <2>2 DEF SemaphoreCounts
    <2> QED
      BY <2>3, <2>4, <2>5 DEF Exclusion
  <1>14. ASSUME NEW p \in Procs, Kill(p)
         PROVE  Exclusion'
    BY <1>13, <1>14 DEF Kill
  <1>7. CASE Receive \/ WriteBlock \/ WriterWrite \/ WriterClose
    <2>1. CASE WriterWrite /\ ~Readable(id)
      BY <1>13, <2>1 DEF WriterWrite
    <2>2. CASE ~WriterWrite \/ Readable(id)
      <3>1. \A q \in Procs, i \in Blocks : Holds(q, i)' <=> Holds(q, i)
        BY <1>7, <2>2 DEF Receive, WriteBlock, WriterWrite, WriterClose, Holds
      <3> QED
        BY <1>7, <2>2, <3>1, SameHolders DEF Receive, WriteBlock, WriterWrite, WriterClose
    <2> QED
      BY <2>1, <2>2
  <1>8. CASE WriterOpen
    <2>1. \A q \in Procs, i \in Blocks : Holds(q, i)' <=> Holds(q, i)
      BY <1>8 DEF WriterOpen, Holds
    <2> QED
      BY <1>8, <2>1, SameHolders DEF WriterOpen
  <1>9. ASSUME NEW r \in Readers, ReaderOpen(r)
        PROVE  Exclusion'
    <2>1. \A q \in Procs, i \in Blocks : Holds(q, i)' <=> Holds(q, i)
      BY <1>9 DEF ReaderOpen, Holds
    <2> QED
      BY <1>9, <2>1, SameHolders DEF ReaderOpen
  <1>10. ASSUME NEW r \in Readers, ReaderRead(r) \/ ReaderClose(r) \/ ReadBlock(r)
         PROVE  Exclusion'
    <2>1. \A q \in Procs, i \in Blocks : Holds(q, i)' <=> Holds(q, i)
      BY <1>10 DEF ReaderRead, ReaderClose, ReadBlock, Holds
    <2> QED
      BY <1>10, <2>1, SameHolders DEF ReaderRead, ReaderClose, ReadBlock
  <1>11. ASSUME NEW r \in Readers, Connect(r) \/ Send(r)
         PROVE  Exclusion'
    <2>1. CASE Send(r) /\ sock[r] = "refused"
      BY <1>13, <2>1 DEF Send
    <2>2. CASE Connect(r) \/ sock[r] # "refused"
      <3>1. \A q \in Procs, i \in Blocks : Holds(q, i)' <=> Holds(q, i)
        BY <1>11, <2>2 DEF Connect, Send, Holds
      <3> QED
        BY <1>11, <2>2, <3>1, SameHolders DEF Connect, Send
    <2> QED
      BY <1>11, <2>1, <2>2
  <1>12. ASSUME NEW r \in Readers, Alarm(r)
         PROVE  FALSE
    BY <1>12 DEF Alarm, Steady
  <1> QED
    BY <1>1, <1>2, <1>3, <1>5, <1>6, <1>7, <1>8, <1>9, <1>10, <1>11, <1>12,
       <1>14
    DEF Next, WriterStep, ReaderStep, Idle, vars

\* IInv is an inductive invariant of the relay.
THEOREM Invariance == Spec => []IInv
  <1>1. IInv /\ [Next]_vars => IInv'
    BY NextType, NextResetBeforeUse, NextExclusion DEF IInv, Exclusion
  <1> QED
    BY InitInvariant, <1>1, PTL DEF Spec

\* The variables have their types, and indexes of semaphores and blocks are in
\* range, however the FIFOs, the alarms and the connections behave.
THEOREM TypeCorrect == Spec => []TypeOK
  <1>1. IInv => TypeOK
    BY DEF IInv
  <1> QED
    BY Invariance, <1>1, PTL

\* Two processes never copy into or out of one block at the same time, and each
\* semaphore is 1, or 0 while a process copies its block, also when processes are
\* killed while they copy: for any number of blocks and readers, as long as no
\* reader resets the semaphores in use and no alarm interrupts a P.
THEOREM CopiesExclude == Spec => []BlocksGuarded
  <1>1. IInv => BlocksGuarded
    BY DEF IInv, BlocksGuarded
  <1> QED
    BY Invariance, <1>1, PTL

-----------------------------------------------------------------------------
(* What a reader sends is what it was told of, or later                    *)

\* Quotient and remainder, and that they are the only ones.
LEMMA Division ==
  ASSUME NEW N \in Nat \ {0}, NEW x \in Nat
  PROVE  x = N * (x \div N) + (x % N) /\ x % N \in Nat /\ x % N < N /\ x \div N \in Nat
  OBVIOUS

LEMMA OneRemainder ==
  ASSUME NEW N \in Nat, NEW q \in Int, NEW p \in Int, NEW r \in Nat, NEW s \in Nat,
         r < N, s < N, N * q + r = N * p + s
  PROVE  r = s
  <1>1. N * (q - p) = s - r
    BY SMT
  <1>2. CASE q - p >= 1
    <2>1. N * (q - p) >= N
      BY <1>2
    <2> QED
      BY <2>1, <1>1
  <1>3. CASE q - p <= -1
    <2>1. N * (q - p) <= -N
      BY <1>3
    <2> QED
      BY <2>1, <1>1
  <1>4. CASE q = p
    BY <1>4
  <1> QED
    BY <1>2, <1>3, <1>4

\* The successor in the ring is the place of the successor.
LEMMA RingSuccessor ==
  ASSUME NEW N \in Nat \ {0}, NEW x \in Nat
  PROVE  ((x % N) + 1) % N = (x + 1) % N
  <1>1. PICK r \in Nat : r = x % N
    BY Division
  <1>2. PICK q \in Nat : x = N * q + r /\ r < N
    BY Division, <1>1
  <1>3. x + 1 \in Nat
    OBVIOUS
  <1>4. PICK s \in Nat : s = (x + 1) % N
    BY Division, <1>3
  <1>5. PICK p \in Nat : x + 1 = N * p + s /\ s < N
    BY Division, <1>3, <1>4
  <1>6. PICK u \in Nat : u = (r + 1) % N
    BY Division
  <1>7. PICK v \in Nat : r + 1 = N * v + u /\ u < N
    <2>1. r + 1 \in Nat
      OBVIOUS
    <2> QED
      BY Division, <1>6, <2>1
  <1>8. N * (q + v) + u = N * p + s
    <2>1. N * (q + v) = N * q + N * v
      OBVIOUS
    <2>2. x + 1 = N * q + (N * v + u)
      BY <1>2, <1>7
    <2>3. PICK a \in Int, b \in Int, c \in Int :
            a = N * q /\ b = N * v /\ c = N * p
      OBVIOUS
    <2> QED
      BY <2>1, <2>2, <2>3, <1>5
  <1>9. u = s
    <2>1. q + v \in Int /\ p \in Int /\ N \in Nat
      OBVIOUS
    <2> HIDE <1>1, <1>4, <1>6
    <2> QED
      BY <1>8, <1>5, <1>7, <2>1, OneRemainder
  <1> QED
    BY <1>1, <1>4, <1>6, <1>9

LEMMA InitNoneStale == Init => NoneStale
  <1> SUFFICES ASSUME Init
               PROVE  NoneStale
    OBVIOUS
  <1>1. 0 % NBLK = 0
    <2>1. PICK u \in Nat, v \in Nat : u = 0 % NBLK /\ 0 = NBLK * v + u /\ u < NBLK
      BY Division, SizesAssumption
    <2>2. NBLK * v + u = NBLK * 0 + 0
      BY <2>1, SizesAssumption
    <2> QED
      BY <2>1, <2>2, OneRemainder, SizesAssumption
  <1>2. InRing
    BY <1>1, Processes DEF Init, InRing
  <1>3. Announced
    BY Processes DEF Init, Announced
  <1>4. \A r \in Readers : NoticesHold(r)
    BY Processes DEF Init, NoticesHold
  <1> QED
    BY <1>2, <1>3, <1>4 DEF NoneStale

\* The writer's index goes round with the number of the packet.
LEMMA NextInRing == TypeOK /\ InRing /\ [Next]_vars => InRing'
  <1> SUFFICES ASSUME TypeOK, InRing, [Next]_vars
               PROVE  InRing'
    OBVIOUS
  <1>t. cnt \in Nat /\ index \in [Procs -> Blocks \cup {Bad}]
    BY DEF TypeOK, InRange
  <1>1. CASE Receive
    <2>1. index'[Writer] = (index[Writer] + 1) % NBLK /\ cnt' = cnt + 1
      BY <1>1, <1>t, Processes DEF Receive
    <2> QED
      BY <2>1, <1>t, RingSuccessor, SizesAssumption DEF InRing
  <1>2. CASE index'[Writer] = index[Writer] /\ cnt' = cnt
    BY <1>2 DEF InRing
  <1>3. ASSUME NEW r \in Readers, ReaderRead(r)
        PROVE  InRing'
    <2>1. index'[Writer] = index[Writer] /\ cnt' = cnt
      BY <1>3, <1>t, Processes DEF ReaderRead, writer
    <2> QED
      BY <1>2, <2>1
  <1>4. ~Receive /\ (\A r \in Readers : ~ReaderRead(r)) => UNCHANGED <<index, cnt>>
    BY DEF Next, WriterStep, ReaderStep, Idle, vars, writer, ResetSem, P, WriteBlock,
       WriterV, WriterOpen, WriterWrite, WriterClose, ReaderOpen, ReaderClose, ReadBlock,
       ReaderV, Connect, Send, Alarm, Kill
  <1> QED
    BY <1>1, <1>2, <1>3, <1>4

\* A process that has ended does nothing more.
LEMMA DeadStaysDead == TypeOK /\ [Next]_vars /\ WriterLives' => WriterLives
  <1> SUFFICES ASSUME TypeOK, [Next]_vars, pc[Writer] = "dead"
               PROVE  pc'[Writer] = "dead"
    BY SameScenario DEF WriterLives
  <1>t. pc \in [Procs -> WriterPC \cup ReaderPC] /\ id \in Readers
    BY DEF TypeOK, InRange
  <1> USE <1>t, Processes DEF Goto
  <1>1. CASE UNCHANGED pc
    BY <1>1
  <1>2. ASSUME NEW p \in Procs, ResetSem(p) \/ P(p)
        PROVE  pc'[Writer] = "dead"
    BY <1>2 DEF ResetSem, P
  <1>3. ASSUME NEW p \in Procs, Kill(p)
        PROVE  pc'[Writer] = "dead"
    BY <1>3 DEF Kill, Die
  <1>4. ASSUME NEW r \in Readers, ReaderOpen(r) \/ ReaderRead(r) \/ ReaderClose(r)
        PROVE  pc'[Writer] = "dead"
    BY <1>4 DEF ReaderOpen, ReaderRead, ReaderClose
  <1>5. ASSUME NEW r \in Readers, ReadBlock(r) \/ ReaderV(r) \/ Connect(r) \/ Send(r) \/ Alarm(r)
        PROVE  pc'[Writer] = "dead"
    BY <1>5 DEF ReadBlock, ReaderV, Connect, Send, Alarm, Die
  <1> QED
    BY <1>1, <1>2, <1>3, <1>4, <1>5
    DEF Next, WriterStep, ReaderStep, Idle, vars, Receive, WriteBlock, WriterV,
        WriterOpen, WriterWrite, WriterClose

\* The writer's part.
LEMMA NextAnnounced ==
  TypeOK /\ InRing /\ Announced /\ WriterLives' /\ [Next]_vars => Announced'
  <1> SUFFICES ASSUME TypeOK, InRing, Announced, WriterLives', [Next]_vars
               PROVE  Announced'
    OBVIOUS
  <1>t. /\ pc \in [Procs -> WriterPC \cup ReaderPC] /\ id \in Readers
        /\ cnt \in Nat /\ shm \in [Blocks -> Packet]
        /\ index \in [Procs -> Blocks \cup {Bad}] /\ index[Writer] \in Blocks
    BY DEF TypeOK, InRange
  <1>a. /\ \A i \in Blocks : shm[i] \in Nat /\ shm[i] <= cnt
        /\ pc[Writer] \in {"V", "fopen", "fwait", "fwrite"} => shm[index[Writer]] = cnt
    BY DEF Announced
  <1> USE <1>t, Processes DEF Goto
  <1>1. ASSUME shm' = shm, cnt' = cnt, index'[Writer] = index[Writer],
               pc'[Writer] \in {"V", "fopen", "fwait", "fwrite"} =>
                 pc[Writer] \in {"V", "fopen", "fwait", "fwrite"}
        PROVE  Announced'
    BY <1>1, <1>a DEF Announced
  <1>2. CASE UNCHANGED vars
    BY <1>1, <1>2 DEF vars, env, mem, writer
  <1>3. ASSUME NEW p \in Procs, ResetSem(p) \/ P(p)
        PROVE  Announced'
    BY <1>1, <1>3 DEF ResetSem, P, writer
  <1>4. CASE Receive
    <2>1. pc'[Writer] \in {"P", "reset"} /\ cnt' = cnt + 1 /\ shm' = shm
      BY <1>4 DEF Receive, mem
    <2>2. \A i \in Blocks : shm'[i] \in Nat /\ shm'[i] <= cnt'
      BY <1>a, <2>1
    <2> QED
      BY <2>1, <2>2 DEF Announced
  <1>5. CASE WriteBlock
    <2>1. shm' = [shm EXCEPT ![index[Writer]] = cnt] /\ cnt' = cnt /\ index' = index
      BY <1>5 DEF WriteBlock, writer
    <2>2. shm'[index'[Writer]] = cnt'
      BY <2>1
    <2>3. \A i \in Blocks : shm'[i] \in Nat /\ shm'[i] <= cnt'
      BY <1>a, <2>1
    <2> QED
      BY <2>2, <2>3 DEF Announced
  <1>6. CASE WriterV
    BY <1>1, <1>6 DEF WriterV
  <1>7. CASE WriterOpen
    BY <1>1, <1>7 DEF WriterOpen, mem, writer
  <1>8. CASE WriterWrite \/ WriterClose
    BY <1>1, <1>8 DEF WriterWrite, WriterClose, Die, mem, writer
  <1>9. ASSUME NEW r \in Readers, ReaderOpen(r)
        PROVE  Announced'
    BY <1>1, <1>9 DEF ReaderOpen, mem, writer
  <1>10. ASSUME NEW r \in Readers, ReaderRead(r)
         PROVE  Announced'
    BY <1>1, <1>10 DEF ReaderRead, mem, writer
  <1>11. ASSUME NEW r \in Readers, ReaderClose(r) \/ ReadBlock(r) \/ ReaderV(r)
         PROVE  Announced'
    BY <1>1, <1>11 DEF ReaderClose, ReadBlock, ReaderV, mem, writer
  <1>12. ASSUME NEW r \in Readers, Connect(r) \/ Send(r) \/ Alarm(r)
         PROVE  Announced'
    BY <1>1, <1>12 DEF Connect, Send, Alarm, Die, mem, writer
  <1>13. ASSUME NEW p \in Procs, Kill(p)
         PROVE  Announced'
    <2>1. p # Writer
      BY <1>13, SameScenario DEF Kill, Die, WriterLives
    <2> QED
      BY <1>1, <1>13, <2>1 DEF Kill, Die, writer
  <1> QED
    BY <1>2, <1>3, <1>4, <1>5, <1>6, <1>7, <1>8, <1>9, <1>10, <1>11, <1>12, <1>13
    DEF Next, WriterStep, ReaderStep, Idle

\* A reader whose notices, copy and past are left as they are, or whose FIFO is
\* emptied, and who gets no further in ReadData than it was.
LEMMA SameNotices ==
  ASSUME NEW r \in Readers, NoticesHold(r), shm' = shm,
         told'[r] = told[r], data'[r] = data[r], index'[r] = index[r], sent'[r] = sent[r],
         buf'[r] = buf[r] \/ buf'[r] = <<>>,
         pc'[r] \in {"fclose", "P", "copy"} => pc[r] \in {"fclose", "P", "copy"},
         pc'[r] \in {"V", "send", "write"} => pc[r] \in {"V", "send", "write"}
  PROVE  NoticesHold(r)'
  <1>1. \A k \in DOMAIN buf'[r] : Current(buf[r][k].index, buf[r][k].pkt)'
    <2>1. CASE buf'[r] = buf[r]
      <3>1. \A k \in DOMAIN buf[r] : Current(buf[r][k].index, buf[r][k].pkt)
        BY DEF NoticesHold
      <3> QED
        BY <2>1, <3>1 DEF Current
    <2>2. CASE buf'[r] = <<>>
      BY <2>2
    <2> QED
      BY <2>1, <2>2
  <1>2. pc'[r] \in {"fclose", "P", "copy"} /\ told'[r] # NULL => Current(index[r], told[r])'
    BY DEF NoticesHold, Current
  <1>3. pc'[r] \in {"V", "send", "write"} /\ told'[r] # NULL =>
          data'[r] >= told'[r] /\ data'[r] % NBLK = told'[r] % NBLK
    BY DEF NoticesHold
  <1>4. (\A k \in DOMAIN sent[r] :
          LET s == sent[r][k] IN
            s.told # NULL => s.pkt >= s.told /\ s.pkt % NBLK = s.told % NBLK)'
    BY DEF NoticesHold
  <1> QED
    BY <1>1, <1>2, <1>3, <1>4 DEF NoticesHold, Current

\* What is in the shared memory goes only forward.
LEMMA StaysCurrent ==
  ASSUME TypeOK, InRing, Announced, WriteBlock,
         NEW i \in Blocks, NEW n \in Nat, Current(i, n)
  PROVE  Current(i, n)'
  <1>1. /\ shm' = [shm EXCEPT ![index[Writer]] = cnt] /\ shm \in [Blocks -> Packet]
        /\ index[Writer] = cnt % NBLK /\ shm[i] \in Nat /\ shm[i] <= cnt /\ cnt \in Nat
    BY DEF WriteBlock, TypeOK, InRing, Announced
  <1>2. n <= shm[i] /\ shm[i] % NBLK = i /\ n % NBLK = i
    BY DEF Current
  <1>3. CASE i = index[Writer]
    <2>1. shm'[i] = cnt /\ cnt % NBLK = i
      BY <1>1, <1>3
    <2>2. PICK a \in Nat : a = shm[i]
      BY <1>1
    <2>3. n <= cnt
      BY <1>1, <1>2, <2>2
    <2> QED
      BY <1>2, <2>1, <2>3 DEF Current
  <1>4. CASE i # index[Writer]
    BY <1>1, <1>2, <1>4 DEF Current
  <1> QED
    BY <1>3, <1>4

\* The packet written is on its place, and goes into the FIFO with that place.
LEMMA WriterNotifies ==
  ASSUME TypeOK, InRing, Announced, NEW r \in Readers, NoticesHold(r), WriterWrite
  PROVE  NoticesHold(r)'
  <1>t. /\ id \in Readers /\ cnt \in Nat /\ index[Writer] \in Blocks
        /\ pc \in [Procs -> WriterPC \cup ReaderPC] /\ buf \in [Readers -> Seq(Notice)]
    BY DEF TypeOK, InRange
  <1> USE <1>t, Processes DEF Goto
  <1>1. CASE ~Readable(id)
    BY <1>1, SameNotices DEF WriterWrite, Die, mem, reader, out
  <1>2. CASE r # id
    BY <1>2, SameNotices DEF WriterWrite, Die, mem, reader, out
  <1>3. CASE Readable(id) /\ r = id
    <2> DEFINE new == [index |-> index[Writer], pkt |-> cnt]
    <2>1. /\ buf' = [buf EXCEPT ![r] = Append(@, new)]
          /\ UNCHANGED <<shm, told, data, index, sent>> /\ pc' = [pc EXCEPT ![Writer] = "fclose"]
      BY <1>3 DEF WriterWrite, mem, reader, out
    <2>2. Current(new.index, new.pkt)
      BY DEF Announced, InRing, Current, WriterWrite
    <2>3. new \in Notice /\ buf[r] \in Seq(Notice)
      BY DEF Notice
    <2> HIDE DEF new
    <2>4. /\ buf'[r] = Append(buf[r], new)
          /\ DOMAIN buf[r] = 1..Len(buf[r]) /\ Len(buf[r]) \in Nat
      BY <2>1, <2>3
    <2>5. \A k \in DOMAIN buf'[r] : buf'[r][k] = new \/ (k \in DOMAIN buf[r] /\ buf'[r][k] = buf[r][k])
      BY <2>3, <2>4, AppendProperties
    <2>6. \A k \in DOMAIN buf[r] : Current(buf[r][k].index, buf[r][k].pkt)
      BY DEF NoticesHold
    <2>7. \A k \in DOMAIN buf'[r] : Current(buf'[r][k].index, buf'[r][k].pkt)
      BY <2>2, <2>5, <2>6
    <2>8. pc'[r] = pc[r]
      BY <2>1
    <2> QED
      BY <2>1, <2>7, <2>8 DEF NoticesHold, Current
  <1> QED
    BY <1>1, <1>2, <1>3

\* The reader takes the notice out of the FIFO as it is, or has none.
LEMMA ReaderIsTold ==
  ASSUME TypeOK, NEW r \in Readers, NoticesHold(r), ReaderRead(r)
  PROVE  NoticesHold(r)'
  <1>t. /\ pc \in [Procs -> WriterPC \cup ReaderPC] /\ buf \in [Readers -> Seq(Notice)]
        /\ index \in [Procs -> Blocks \cup {Bad}] /\ told \in [Readers -> Nat \cup {NULL}]
    BY DEF TypeOK, InRange
  <1> USE <1>t, Processes DEF Goto
  <1>1. pc'[r] = "fclose" /\ UNCHANGED <<shm, sent>>
    BY DEF ReaderRead, mem, out
  <1>2. \A k \in DOMAIN buf[r] : Current(buf[r][k].index, buf[r][k].pkt)
    BY DEF NoticesHold
  <1>3. CASE buf[r] # <<>>
    <2>1. /\ index'[r] = Head(buf[r]).index /\ told'[r] = Head(buf[r]).pkt
          /\ buf'[r] = Tail(buf[r])
      BY <1>3 DEF ReaderRead
    <2>2. buf[r] \in Seq(Notice)
      OBVIOUS
    <2>3. Head(buf[r]) = buf[r][1] /\ 1 \in DOMAIN buf[r]
      BY <1>3, <2>2
    <2>4. Current(index'[r], told'[r])
      BY <1>2, <2>1, <2>3
    <2>5. \A k \in DOMAIN buf'[r] : k + 1 \in DOMAIN buf[r] /\ buf'[r][k] = buf[r][k + 1]
      BY <1>3, <2>1, <2>2, HeadTailProperties
    <2>6. \A k \in DOMAIN buf'[r] : Current(buf'[r][k].index, buf'[r][k].pkt)
      BY <1>2, <2>5
    <2> QED
      BY <1>1, <2>4, <2>6 DEF NoticesHold, Current
  <1>4. CASE buf[r] = <<>>
    <2>1. told'[r] = NULL /\ buf'[r] = <<>>
      BY <1>4 DEF ReaderRead
    <2> QED
      BY <1>1, <2>1 DEF NoticesHold, Current
  <1> QED
    BY <1>3, <1>4

\* The block is copied as it is, and the copy sent.
LEMMA ReaderCopies ==
  ASSUME TypeOK, NEW r \in Readers, NoticesHold(r), ReadBlock(r)
  PROVE  NoticesHold(r)'
  <1>t. /\ pc \in [Procs -> WriterPC \cup ReaderPC] /\ data \in [Readers -> Packet]
    BY DEF TypeOK, InRange
  <1>1. /\ pc'[r] = "V" /\ pc[r] = "copy" /\ data'[r] = shm[index[r]]
        /\ UNCHANGED <<shm, index, told, sent, buf>>
    BY <1>t, Processes DEF ReadBlock, Goto, mem, fifo, out
  <1>2. told[r] # NULL => data'[r] >= told[r] /\ data'[r] % NBLK = told[r] % NBLK
    <2>1. told[r] # NULL => Current(index[r], told[r])
      BY <1>1 DEF NoticesHold
    <2>2. told[r] # NULL => told[r] \in Nat
      BY DEF TypeOK
    <2>3. index[r] \in Blocks /\ shm[index[r]] \in Int
      BY <1>1 DEF TypeOK, InRange, Packet, Half
    <2> QED
      BY <1>1, <2>1, <2>2, <2>3 DEF Current
  <1> QED
    BY <1>1, <1>2 DEF NoticesHold, Current

LEMMA ReaderSends ==
  ASSUME TypeOK, NEW r \in Readers, NoticesHold(r), Send(r)
  PROVE  NoticesHold(r)'
  <1>t. /\ pc \in [Procs -> WriterPC \cup ReaderPC] /\ sent \in [Readers -> Seq(Sending)]
    BY DEF TypeOK, InRange
  <1> USE <1>t, Processes DEF Goto
  <1>1. /\ UNCHANGED <<shm, index, told, data>> /\ pc[r] = "write"
        /\ buf'[r] = buf[r] \/ buf'[r] = <<>>
    BY DEF Send, Die, fifo, reader
  <1>2. pc'[r] \in {"fopen", "dead"}
    BY DEF Send, Die
  <1>3. CASE UNCHANGED sent
    BY <1>1, <1>2, <1>3, SameNotices
  <1>4. CASE sent' = [sent EXCEPT ![r] = Append(@, [pkt |-> data[r], told |-> told[r]])]
    <2> DEFINE new == [pkt |-> data[r], told |-> told[r]]
    <2>1. new.told # NULL => new.pkt >= new.told /\ new.pkt % NBLK = new.told % NBLK
      BY <1>1 DEF NoticesHold
    <2>2. new \in Sending /\ sent[r] \in Seq(Sending)
      BY DEF Sending, TypeOK
    <2>3. sent'[r] = Append(sent[r], new)
      BY <1>4
    <2> HIDE DEF new
    <2>4. DOMAIN sent[r] = 1..Len(sent[r]) /\ Len(sent[r]) \in Nat
      BY <2>2
    <2>5. \A k \in DOMAIN sent'[r] :
            sent'[r][k] = new \/ (k \in DOMAIN sent[r] /\ sent'[r][k] = sent[r][k])
      BY <2>2, <2>3, <2>4, AppendProperties
    <2>6. \A k \in DOMAIN sent[r] :
            sent[r][k].told # NULL =>
              sent[r][k].pkt >= sent[r][k].told /\ sent[r][k].pkt % NBLK = sent[r][k].told % NBLK
      BY DEF NoticesHold
    <2>7. \A k \in DOMAIN sent'[r] :
            sent'[r][k].told # NULL =>
              sent'[r][k].pkt >= sent'[r][k].told /\ sent'[r][k].pkt % NBLK = sent'[r][k].told % NBLK
      BY <2>1, <2>5, <2>6
    <2>8. \A k \in DOMAIN buf'[r] : k \in DOMAIN buf[r] /\ buf'[r][k] = buf[r][k]
      BY <1>1
    <2>9. \A k \in DOMAIN buf'[r] : Current(buf'[r][k].index, buf'[r][k].pkt)
      BY <2>8 DEF NoticesHold
    <2> QED
      BY <1>1, <1>2, <2>7, <2>9 DEF NoticesHold, Current
  <1> QED
    BY <1>3, <1>4 DEF Send

LEMMA NextNotices ==
  ASSUME TypeOK, InRing, Announced, NEW r \in Readers, NoticesHold(r), [Next]_vars
  PROVE  NoticesHold(r)' \/ ~WriterLives'
  <1>t. /\ id \in Readers /\ buf \in [Readers -> Seq(Notice)]
        /\ pc \in [Procs -> WriterPC \cup ReaderPC] /\ index \in [Procs -> Blocks \cup {Bad}]
        /\ told \in [Readers -> Nat \cup {NULL}] /\ data \in [Readers -> Packet]
        /\ sent \in [Readers -> Seq(Sending)] /\ pc[Writer] \in WriterPC
    BY DEF TypeOK, InRange
  <1> USE <1>t, Processes DEF Goto
  <1>1. CASE UNCHANGED vars
    BY <1>1, SameNotices DEF vars, mem, fifo, reader, out
  <1>2. ASSUME NEW p \in Procs, ResetSem(p) \/ P(p)
        PROVE  NoticesHold(r)'
    BY <1>2, SameNotices DEF ResetSem, P, fifo, reader, out
  <1>3. CASE Receive \/ WriterV \/ WriterClose
    BY <1>3, SameNotices DEF Receive, WriterV, WriterClose, mem, fifo, reader, out
  <1>4. CASE WriterOpen
    BY <1>4, SameNotices DEF WriterOpen, mem, reader, out
  <1>5. CASE WriteBlock
    <2>1. /\ pc'[r] = pc[r] /\ UNCHANGED <<index, buf, told, data, sent>>
      BY <1>5 DEF WriteBlock, fifo, reader, out
    <2>2. ASSUME NEW k \in DOMAIN buf[r]
          PROVE  Current(buf[r][k].index, buf[r][k].pkt)'
      <3>1. buf[r][k] \in Notice
        <4>1. buf[r] \in Seq(Notice)
          OBVIOUS
        <4> QED
          BY <4>1, <2>2
      <3>2. /\ buf[r][k].index \in Blocks /\ buf[r][k].pkt \in Nat
            /\ Current(buf[r][k].index, buf[r][k].pkt)
        BY <3>1 DEF Notice, NoticesHold
      <3>3. PICK i \in Blocks, n \in Nat : i = buf[r][k].index /\ n = buf[r][k].pkt
        BY <3>2
      <3>4. Current(i, n)'
        BY <1>5, <3>2, <3>3, StaysCurrent
      <3> QED
        BY <3>3, <3>4, <2>1 DEF Current
    <2>3. ASSUME pc[r] \in {"fclose", "P", "copy"}, told[r] # NULL
          PROVE  Current(index[r], told[r])'
      <3>1. Current(index[r], told[r]) /\ told[r] \in Nat
        BY <2>3 DEF NoticesHold
      <3>2. index[r] \in Int /\ told[r] % NBLK = index[r]
        BY <3>1, SizesAssumption DEF Current, Blocks, Bad
      <3>3. told[r] % NBLK \in Nat /\ told[r] % NBLK < NBLK
        BY <3>1, Division, SizesAssumption
      <3>4. index[r] \in Blocks
        BY <3>2, <3>3, SizesAssumption DEF Blocks
      <3>5. PICK i \in Blocks, n \in Nat : i = index[r] /\ n = told[r]
        BY <3>1, <3>4
      <3>6. Current(i, n)'
        BY <1>5, <3>1, <3>5, StaysCurrent
      <3> QED
        BY <3>5, <3>6, <2>1 DEF Current
    <2>4. pc'[r] \in {"V", "send", "write"} /\ told'[r] # NULL =>
            data'[r] >= told'[r] /\ data'[r] % NBLK = told'[r] % NBLK
      BY <2>1 DEF NoticesHold
    <2>5. (\A k \in DOMAIN sent[r] :
            LET s == sent[r][k] IN
              s.told # NULL => s.pkt >= s.told /\ s.pkt % NBLK = s.told % NBLK)'
      BY <2>1 DEF NoticesHold
    <2>6. \A k \in DOMAIN buf'[r] : Current(buf[r][k].index, buf[r][k].pkt)'
      BY <2>1, <2>2
    <2>7. pc'[r] \in {"fclose", "P", "copy"} /\ told'[r] # NULL => Current(index[r], told[r])'
      BY <2>1, <2>3
    <2> QED
      BY <2>4, <2>5, <2>6, <2>7 DEF NoticesHold, Current
  <1>6. CASE WriterWrite
    BY <1>6, WriterNotifies
  <1>7. ASSUME NEW q \in Readers, ReaderOpen(q)
        PROVE  NoticesHold(r)'
    BY <1>7, SameNotices DEF ReaderOpen, mem, reader, out
  <1>8. ASSUME NEW q \in Readers, ReaderRead(q)
        PROVE  NoticesHold(r)'
    <2>1. CASE q = r
      BY <1>8, <2>1, ReaderIsTold
    <2>2. CASE q # r
      BY <1>8, <2>2, SameNotices DEF ReaderRead, mem, out
    <2> QED
      BY <2>1, <2>2
  <1>9. ASSUME NEW q \in Readers, ReaderClose(q) \/ ReaderV(q)
        PROVE  NoticesHold(r)'
    BY <1>9, SameNotices DEF ReaderClose, ReaderV, mem, fifo, reader, out
  <1>10. ASSUME NEW q \in Readers, ReadBlock(q)
         PROVE  NoticesHold(r)'
    <2>1. CASE q = r
      BY <1>10, <2>1, ReaderCopies
    <2>2. CASE q # r
      BY <1>10, <2>2, SameNotices DEF ReadBlock, mem, fifo, out
    <2> QED
      BY <2>1, <2>2
  <1>11. ASSUME NEW q \in Readers, Connect(q)
         PROVE  NoticesHold(r)'
    BY <1>11, SameNotices DEF Connect, mem, fifo, reader
  <1>12. ASSUME NEW q \in Readers, Send(q)
         PROVE  NoticesHold(r)'
    <2>1. CASE q = r
      BY <1>12, <2>1, ReaderSends
    <2>2. CASE q # r
      BY <1>12, <2>2, SameNotices DEF Send, Die, fifo, reader
    <2> QED
      BY <2>1, <2>2
  <1>13. ASSUME NEW q \in Readers, Alarm(q)
         PROVE  NoticesHold(r)'
    BY <1>13, SameNotices DEF Alarm, mem, reader
  <1>14. ASSUME NEW p \in Procs, Kill(p)
         PROVE  NoticesHold(r)' \/ ~WriterLives'
    <2>1. CASE p = Writer
      BY <1>14, <2>1, SameScenario DEF Kill, Die, WriterLives
    <2>2. CASE p # Writer
      BY <1>14, <2>2, SameNotices DEF Kill, Die, reader, out
    <2> QED
      BY <2>1, <2>2
  <1> QED
    BY <1>1, <1>2, <1>3, <1>4, <1>5, <1>6, <1>7, <1>8, <1>9, <1>10, <1>11, <1>12,
       <1>13, <1>14
    DEF Next, WriterStep, ReaderStep, Idle

\* Nothing older than the notice comes out of the relay.
LEMMA NextNoneStale == TypeOK /\ NoneStale /\ [Next]_vars => NoneStale'
  <1> SUFFICES ASSUME TypeOK, NoneStale, [Next]_vars
               PROVE  NoneStale'
    OBVIOUS
  <1>1. InRing'
    BY NextInRing DEF NoneStale
  <1>2. ASSUME WriterLives'
        PROVE  Announced' /\ \A r \in Readers : NoticesHold(r)'
    <2>1. InRing /\ Announced /\ \A r \in Readers : NoticesHold(r)
      BY <1>2, DeadStaysDead DEF NoneStale
    <2>2. Announced'
      BY <1>2, <2>1, NextAnnounced
    <2>3. \A r \in Readers : NoticesHold(r)'
      BY <1>2, <2>1, NextNotices
    <2> QED
      BY <2>2, <2>3
  <1> QED
    BY <1>1, <1>2 DEF NoneStale

\* What a reader sends is the packet it was told of or a later one of the same
\* block, for any number of blocks and readers and however late the readers are,
\* until the writer is killed.
THEOREM NotStale == Spec => []NeverStale
  <1>1. NoneStale => NeverStale
    BY DEF NoneStale, NeverStale, NoticesHold
  <1> QED
    BY InitNoneStale, NextNoneStale, TypeCorrect, <1>1, PTL DEF Spec

-----------------------------------------------------------------------------
(* Every packet is sent, once                                              *)

\* Both sides close a FIFO in time, and nothing but kills disturbs them.
InTime == scen.prompt /\ ~scen.alarms /\ ~scen.refused

\* The packets handed to the readers, each by its notice.
Handed == IF pc[Writer] \in {"recv", "fclose", "dead"} THEN cnt ELSE cnt - 1

\* The packet r sends next.
Due(r) == Dealt(r, Len(sent[r]) + 1)

\* The block of packet n.
Place(n) == n % NBLK

\* r has a notice, in its FIFO or in hand.
HasWork(r) ==
  \/ pc[r] \in {"fclose", "P", "copy", "V", "send", "write"}
  \/ pc[r] = "fread" /\ buf[r] # <<>>

\* Who has which end of a FIFO open, and that a notice is in a FIFO only while its
\* reader is in its read: the writer's open meets the reader's.
Met ==
  /\ pc[Writer] # "dead"
  /\ \A r \in Readers :
       /\ pc[r] = "dead" => scen.kills
       /\ ~leaked[r]
       /\ sock[r] # "refused"
       /\ ropen[r] <=> pc[r] \in {"fwait", "fread", "fclose"}
       /\ wopen[r] <=> r = id /\ pc[Writer] \in {"fwait", "fwrite", "fclose"}
       /\ pc[r] \notin {"fread", "dead"} => buf[r] = <<>>
       /\ pc[r] = "fread" => (buf[r] = <<>> <=> r = id /\ pc[Writer] = "fwrite")
  /\ pc[Writer] = "fwrite" => pc[id] \in {"fread", "dead"}
  /\ pc[Writer] = "fwait" => pc[id] \notin {"fwait", "fread", "fclose"}

\* Whose turn it is.
Turn ==
  IF pc[Writer] \in {"reset", "P", "copy", "V"} THEN (id + 1) % NPROC = cnt % NPROC
  ELSE id = cnt % NPROC

\* r is in step with the writer: the packet it sends next is among the last NPROC
\* handed out when r has work, and among the next NPROC when it waits; the notice,
\* the index, the block or the copy it goes by, depending on where it is, is that
\* packet's; and what it has sent are the packets dealt to it, in order.
Served(r) ==
  /\ pc[r] # "dead" =>
       /\ IF HasWork(r) THEN Handed - NPROC < Due(r) /\ Due(r) <= Handed
          ELSE Handed < Due(r) /\ Due(r) <= Handed + NPROC
       /\ pc[r] = "fread" /\ buf[r] # <<>> =>
            buf[r] = <<[index |-> Place(Due(r)), pkt |-> Due(r)]>>
       /\ pc[r] \in {"fclose", "P", "copy"} => index[r] = Place(Due(r))
       /\ HasWork(r) /\ pc[r] \notin {"V", "send", "write"} => shm[Place(Due(r))] = Due(r)
       /\ pc[r] \in {"V", "send", "write"} => data[r] = Due(r)
       /\ pc[r] = "write" => sock[r] = "connected"
  /\ \A k \in DOMAIN sent[r] : sent[r][k].pkt = Dealt(r, k)

\* The inductive invariant behind ExactlyOnce, with TypeOK and NoneStale.
Relayed == InTime /\ WriterLives => Met /\ Turn /\ \A r \in Readers : Served(r)

\* Two numbers of one remainder are a divisor apart, or equal.
LEMMA RemainderApart ==
  ASSUME NEW N \in Nat \ {0}, NEW a \in Nat, NEW b \in Nat, a % N = b % N, a < b
  PROVE  a + N <= b
  <1>1. PICK s \in Nat : s = a % N
    BY Division
  <1>2. PICK q \in Nat : a = N * q + s
    BY <1>1, Division
  <1>3. PICK p \in Nat : b = N * p + s
    BY <1>1, Division
  <1>4. N * (p - q) = b - a
    BY <1>2, <1>3, SMT
  <1>5. CASE p - q >= 1
    <2>1. \A d \in Int : d >= 1 => N * d >= N
      OBVIOUS
    <2>2. N * (p - q) >= N
      BY <1>5, <2>1
    <2> QED
      BY <1>4, <2>2
  <1>6. CASE p - q <= 0
    <2>1. \A d \in Int : d <= 0 => N * d <= 0
      OBVIOUS
    <2>2. N * (p - q) <= 0
      BY <1>6, <2>1
    <2> QED
      BY <1>4, <2>2
  <1> QED
    BY <1>5, <1>6

\* What is left of a multiple and something less.
LEMMA RemainderOf ==
  ASSUME NEW N \in Nat \ {0}, NEW q \in Nat, NEW s \in Nat, s < N
  PROVE  (N * q + s) % N = s
  <1>1. PICK x \in Nat : x = N * q + s
    OBVIOUS
  <1>2. PICK t \in Nat : t = x % N /\ t < N
    BY Division
  <1>3. PICK p \in Nat : x = N * p + t
    BY <1>2, Division
  <1>4. t = s
    <2>1. N * p + t = N * q + s
      BY <1>1, <1>3
    <2>2. p \in Int /\ q \in Int /\ N \in Nat
      OBVIOUS
    <2> QED
      BY <1>2, <2>1, <2>2, OneRemainder
  <1> QED
    BY <1>1, <1>2, <1>4

\* A divisor more leaves the same remainder.
LEMMA RemainderAgain ==
  ASSUME NEW N \in Nat \ {0}, NEW a \in Nat
  PROVE  (a + N) % N = a % N
  <1>1. PICK s \in Nat : s = a % N /\ s < N
    BY Division
  <1>2. PICK q \in Nat : a = N * q + s
    BY <1>1, Division
  <1>3. a + N = N * (q + 1) + s
    BY <1>2, SMT
  <1>4. q + 1 \in Nat
    OBVIOUS
  <1>5. (N * (q + 1) + s) % N = s
    BY <1>1, <1>4, RemainderOf
  <1> QED
    BY <1>1, <1>3, <1>5

\* The packets dealt to r are those of its remainder, one round apart.
LEMMA DealtIsNat ==
  ASSUME NEW r \in Readers, NEW k \in Nat \ {0}
  PROVE  /\ Dealt(r, k) \in Nat
         /\ Dealt(r, k) % NPROC = r
         /\ Dealt(r, k + 1) = Dealt(r, k) + NPROC
  <1>1. r \in Nat /\ r < NPROC /\ NPROC \in Nat \ {0}
    BY SizesAssumption DEF Readers
  <1>2. PICK j \in Nat : k = j + 1
    BY SMT
  <1>3. (j + 1) * NPROC = j * NPROC + NPROC /\ j * NPROC \in Nat /\ NPROC * j = j * NPROC
    BY <1>1
  <1>4. Dealt(r, k) = (IF r = 0 THEN NPROC ELSE r) + j * NPROC
    BY <1>1, <1>2 DEF Dealt
  <1>5. Dealt(r, k + 1) = (IF r = 0 THEN NPROC ELSE r) + (j + 1) * NPROC
    BY <1>1, <1>2 DEF Dealt
  <1>6. CASE r = 0
    <2>1. Dealt(r, k) = NPROC * (j + 1) + 0
      BY <1>1, <1>3, <1>4, <1>6
    <2>2. j + 1 \in Nat /\ 0 < NPROC
      BY <1>1
    <2>3. (NPROC * (j + 1) + 0) % NPROC = 0
      BY <1>1, <2>2, RemainderOf
    <2> QED
      BY <1>1, <1>3, <1>4, <1>5, <1>6, <2>1, <2>3
  <1>7. CASE r # 0
    <2>1. Dealt(r, k) = NPROC * j + r
      BY <1>1, <1>3, <1>4, <1>7
    <2>3. (NPROC * j + r) % NPROC = r
      BY <1>1, RemainderOf
    <2> QED
      BY <1>1, <1>3, <1>4, <1>5, <1>7, <2>1, <2>3
  <1> QED
    BY <1>6, <1>7

\* The packet due is one of r's, and the next one after it is a round later.
LEMMA DueIsNat ==
  ASSUME TypeOK, NEW r \in Readers
  PROVE  /\ Due(r) \in Nat /\ Due(r) % NPROC = r
         /\ Dealt(r, Len(sent[r]) + 2) = Due(r) + NPROC
         /\ Place(Due(r)) \in Blocks
  <1>1. sent[r] \in Seq(Sending)
    BY DEF TypeOK
  <1>2. Len(sent[r]) \in Nat
    BY <1>1, LenProperties
  <1>3. PICK k \in Nat \ {0} : k = Len(sent[r]) + 1
    BY <1>2
  <1>4. k + 1 = Len(sent[r]) + 2
    BY <1>2, <1>3
  <1>5. Due(r) \in Nat /\ Due(r) % NPROC = r /\ Dealt(r, Len(sent[r]) + 2) = Due(r) + NPROC
    BY <1>3, <1>4, DealtIsNat DEF Due
  <1>6. PICK d \in Nat : d = Due(r)
    BY <1>5
  <1>7. d % NBLK \in 0..NBLK - 1
    BY SizesAssumption, Division
  <1> QED
    BY <1>5, <1>6, <1>7 DEF Place, Blocks

\* The writer's open and the reader's wait for each other; so each notice is alone
\* in its FIFO and is read before either side opens the FIFO again.
LEMMA NextMet ==
  ASSUME TypeOK, InTime, WriterLives', Met, \A r \in Readers : Served(r), [Next]_vars
  PROVE  Met'
  <1>t. /\ id \in Readers /\ buf \in [Readers -> Seq(Notice)]
        /\ pc \in [Procs -> WriterPC \cup ReaderPC] /\ index \in [Procs -> Blocks \cup {Bad}]
        /\ pc[Writer] \in WriterPC /\ \A r \in Readers : pc[r] \in ReaderPC
        /\ ropen \in [Readers -> BOOLEAN] /\ wopen \in [Readers -> BOOLEAN]
        /\ leaked \in [Readers -> BOOLEAN]
        /\ sock \in [Readers -> {"none", "connected", "refused"}]
    BY DEF TypeOK, InRange
  <1>s. scen' = scen
    BY SameScenario
  <1>m. /\ pc[Writer] # "dead"
        /\ pc[Writer] = "fwrite" => pc[id] \in {"fread", "dead"}
        /\ pc[Writer] = "fwait" => pc[id] \notin {"fwait", "fread", "fclose"}
    BY DEF Met
  <1>r. \A r \in Readers :
          /\ pc[r] = "dead" => scen.kills
          /\ ~leaked[r]
          /\ sock[r] # "refused"
          /\ ropen[r] <=> pc[r] \in {"fwait", "fread", "fclose"}
          /\ wopen[r] <=> r = id /\ pc[Writer] \in {"fwait", "fwrite", "fclose"}
          /\ pc[r] \notin {"fread", "dead"} => buf[r] = <<>>
          /\ pc[r] = "fread" => (buf[r] = <<>> <=> r = id /\ pc[Writer] = "fwrite")
    BY DEF Met
  <1> USE <1>t, Processes DEF Goto
  <1>1. CASE UNCHANGED vars
    BY <1>1, <1>m, <1>r DEF vars, env, fifo, writer, out, Met
  <1>2. ASSUME NEW p \in Procs, ResetSem(p) \/ P(p)
        PROVE  Met'
    <2>1. UNCHANGED <<id, fifo, sock>>
      BY <1>2 DEF ResetSem, P, writer, out
    <2>2. /\ pc[p] \in {"reset", "P"}
          /\ \E c \in {"reset", "P", "copy", "fopen"} : pc' = [pc EXCEPT ![p] = c]
      <3>1. pc = [pc EXCEPT ![p] = pc[p]]
        OBVIOUS
      <3> QED
        BY <1>2, <3>1 DEF ResetSem, P
    <2>3. PICK c \in {"reset", "P", "copy", "fopen"} : pc' = [pc EXCEPT ![p] = c]
      BY <2>2
    <2> QED
      BY <1>m, <1>r, <1>s, <2>1, <2>2, <2>3 DEF fifo, Met
  <1>3. CASE Receive \/ WriteBlock \/ WriterV
    <2>1. UNCHANGED <<fifo, sock>> /\ pc[Writer] \in {"recv", "copy", "V"}
      BY <1>3 DEF Receive, WriteBlock, WriterV, out
    <2>2. \E c \in {"reset", "P", "V", "fopen"} : pc' = [pc EXCEPT ![Writer] = c]
      BY <1>3 DEF Receive, WriteBlock, WriterV
    <2>3. PICK c \in {"reset", "P", "V", "fopen"} : pc' = [pc EXCEPT ![Writer] = c]
      BY <2>2
    <2> QED
      BY <1>m, <1>r, <1>s, <2>1, <2>3 DEF fifo, Met
  <1>4. CASE WriterOpen
    <2>1. /\ pc[Writer] = "fopen" /\ pc[id] \notin {"fread", "fclose"}
          /\ wopen' = [wopen EXCEPT ![id] = TRUE]
          /\ UNCHANGED <<id, buf, ropen, leaked, sock>>
      BY <1>4 DEF WriterOpen, InTime, writer, out
    <2>2. pc' = [pc EXCEPT ![Writer] = IF Readable(id) THEN "fwrite" ELSE "fwait",
                           ![id] = IF @ = "fwait" THEN "fread" ELSE @]
      BY <1>4 DEF WriterOpen
    <2>3. Readable(id) <=> pc[id] = "fwait"
      BY <1>r, <2>1 DEF Readable
    <2>4. CASE pc[id] = "fwait"
      <3>1. pc' = [pc EXCEPT ![Writer] = "fwrite", ![id] = "fread"]
        BY <2>2, <2>3, <2>4
      <3> QED
        BY <1>m, <1>r, <1>s, <2>1, <2>4, <3>1 DEF Met
    <2>5. CASE pc[id] # "fwait"
      <3>1. pc' = [pc EXCEPT ![Writer] = "fwait"]
        BY <2>2, <2>3, <2>5
      <3> QED
        BY <1>m, <1>r, <1>s, <2>1, <2>5, <3>1 DEF Met
    <2> QED
      BY <2>4, <2>5
  <1>5. CASE WriterWrite
    <2>1. Readable(id) /\ pc[id] = "fread"
      <3>1. ~Readable(id) => pc'[Writer] = "dead"
        BY <1>5 DEF WriterWrite, Die
      <3>2. ~Readable(id) => scen.kills
        BY <1>5, <1>m, <1>r DEF WriterWrite, Readable
      <3>3. Readable(id)
        BY <3>1, <3>2, <1>s DEF WriterLives
      <3> QED
        BY <1>5, <1>m, <1>r, <3>3 DEF WriterWrite, Readable
    <2>2. /\ pc[Writer] = "fwrite" /\ pc' = [pc EXCEPT ![Writer] = "fclose"]
          /\ UNCHANGED <<id, wopen, ropen, leaked, sock>>
          /\ buf' = [buf EXCEPT ![id] = Append(@, [index |-> index[Writer], pkt |-> cnt])]
      BY <1>5, <2>1 DEF WriterWrite, writer, out
    <2>3. buf'[id] # <<>> /\ \A r \in Readers : r # id => buf'[r] = buf[r]
      <3>1. PICK n \in Notice : n = [index |-> index[Writer], pkt |-> cnt]
        BY DEF Notice, TypeOK, InRange
      <3>2. buf[id] \in Seq(Notice)
        OBVIOUS
      <3>3. Len(Append(buf[id], n)) = Len(buf[id]) + 1 /\ Len(buf[id]) \in Nat
        BY <3>2, AppendProperties, LenProperties
      <3>4. PICK b \in Seq(Notice) : b = Append(buf[id], n)
        BY <3>2, AppendProperties
      <3>5. b # <<>>
        BY <3>3, <3>4, EmptySeq
      <3> QED
        BY <2>2, <3>1, <3>4, <3>5
    <2> QED
      BY <1>m, <1>r, <1>s, <2>1, <2>2, <2>3 DEF Met
  <1>6. CASE WriterClose
    <2>1. /\ pc[Writer] = "fclose" /\ pc' = [pc EXCEPT ![Writer] = "recv"]
          /\ wopen' = [wopen EXCEPT ![id] = FALSE]
          /\ UNCHANGED <<id, ropen, leaked, sock>>
      BY <1>6 DEF WriterClose, writer, out
    <2>2. \A r \in Readers : pc[r] = "fread" => buf'[r] = buf[r]
      BY <1>6, <1>r DEF WriterClose, Readable
    <2>3. \A r \in Readers : buf'[r] = buf[r] \/ buf'[r] = <<>>
      BY <1>6 DEF WriterClose
    <2> QED
      BY <1>m, <1>r, <1>s, <2>1, <2>2, <2>3 DEF Met
  <1>7. ASSUME NEW q \in Readers, ReaderOpen(q)
        PROVE  Met'
    <2>1. /\ pc[q] = "fopen" /\ ~(pc[Writer] = "fclose" /\ id = q)
          /\ ropen' = [ropen EXCEPT ![q] = TRUE]
          /\ UNCHANGED <<id, buf, wopen, leaked, sock>>
      BY <1>7 DEF ReaderOpen, InTime, writer, out
    <2>2. pc' = [pc EXCEPT ![q] = IF wopen[q] THEN "fread" ELSE "fwait",
                           ![Writer] = IF @ = "fwait" /\ id = q THEN "fwrite" ELSE @]
      BY <1>7 DEF ReaderOpen
    <2>3. wopen[q] <=> q = id /\ pc[Writer] = "fwait"
      BY <1>m, <1>r, <2>1
    <2>4. CASE wopen[q]
      <3>1. pc' = [pc EXCEPT ![q] = "fread", ![Writer] = "fwrite"]
        BY <2>2, <2>3, <2>4
      <3> QED
        BY <1>m, <1>r, <1>s, <2>1, <2>3, <2>4, <3>1 DEF Met
    <2>5. CASE ~wopen[q]
      <3>1. pc' = [pc EXCEPT ![q] = "fwait"]
        BY <2>2, <2>3, <2>5
      <3> QED
        BY <1>m, <1>r, <1>s, <2>1, <2>3, <2>5, <3>1 DEF Met
    <2> QED
      BY <2>4, <2>5
  <1>8. ASSUME NEW q \in Readers, ReaderRead(q)
        PROVE  Met'
    <2>1. pc[q] = "fread" /\ pc' = [pc EXCEPT ![q] = "fclose"]
      BY <1>8 DEF ReaderRead
    <2>2. UNCHANGED <<id, wopen, ropen, leaked, sock>>
      BY <1>8 DEF ReaderRead, writer, out
    <2>3. buf[q] # <<>>
      BY <1>8, <1>r, <2>1 DEF ReaderRead
    <2>4. buf' = [buf EXCEPT ![q] = Tail(@)]
      BY <1>8, <2>3 DEF ReaderRead
    <2>5. buf[q] = <<[index |-> Place(Due(q)), pkt |-> Due(q)]>>
      BY <2>1, <2>3 DEF Served
    <2>6. Tail(buf[q]) = <<>>
      BY <2>5
    <2>7. buf' = [buf EXCEPT ![q] = <<>>]
      BY <2>4, <2>6
    <2> QED
      BY <1>m, <1>r, <1>s, <2>1, <2>2, <2>3, <2>7 DEF Met
  <1>9. ASSUME NEW q \in Readers, ReaderClose(q)
        PROVE  Met'
    <2>1. pc[q] = "fclose" /\ ropen' = [ropen EXCEPT ![q] = FALSE]
      BY <1>9 DEF ReaderClose
    <2>2. UNCHANGED <<id, wopen, leaked, sock>>
      BY <1>9 DEF ReaderClose, writer, out
    <2>3. buf' = buf
      BY <1>9, <1>r, <2>1 DEF ReaderClose
    <2>4. \E c \in {"fopen", "P"} : pc' = [pc EXCEPT ![q] = c]
      BY <1>9 DEF ReaderClose
    <2> QED
      BY <1>m, <1>r, <1>s, <2>1, <2>2, <2>3, <2>4 DEF Met
  <1>10. ASSUME NEW q \in Readers, ReadBlock(q) \/ ReaderV(q) \/ Connect(q)
         PROVE  Met'
    <2>1. pc[q] \in {"copy", "V", "send"} /\ UNCHANGED <<id, fifo>>
      BY <1>10 DEF ReadBlock, ReaderV, Connect, writer
    <2>2. \E c \in {"V", "send", "write"} : pc' = [pc EXCEPT ![q] = c]
      BY <1>10 DEF ReadBlock, ReaderV, Connect, InTime
    <2>3. \A r \in Readers : sock'[r] # "refused"
      BY <1>10, <1>r DEF ReadBlock, ReaderV, Connect, InTime, out
    <2> QED
      BY <1>m, <1>r, <1>s, <2>1, <2>2, <2>3 DEF Met, fifo
  <1>11. ASSUME NEW q \in Readers, Send(q)
         PROVE  Met'
    <2>1. pc[q] = "write" /\ pc' = [pc EXCEPT ![q] = "fopen"] /\ UNCHANGED <<id, fifo, sock>>
      BY <1>11, <1>r DEF Send, writer
    <2> QED
      BY <1>m, <1>r, <1>s, <2>1 DEF Met, fifo
  <1>12. ASSUME NEW q \in Readers, Alarm(q)
         PROVE  FALSE
    BY <1>12 DEF Alarm, InTime
  <1>13. ASSUME NEW p \in Procs, Kill(p)
         PROVE  Met'
    <2>1. p # Writer
      BY <1>13, <1>s DEF Kill, Die, WriterLives
    <2>2. scen.kills /\ pc' = [pc EXCEPT ![p] = "dead"] /\ UNCHANGED <<id, sock>>
      BY <1>13 DEF Kill, Die, writer, out
    <2>3. \A r \in Readers : ~leaked'[r] /\ wopen'[r] = wopen[r] /\ ropen'[r] = (r # p /\ ropen[r])
      BY <1>13, <1>r, <2>1 DEF Kill, Die
    <2>4. \A r \in Readers : buf'[r] = IF wopen'[r] \/ ropen'[r] \/ leaked'[r] THEN buf[r] ELSE <<>>
      BY <1>13 DEF Kill, Die
    <2>5. \A r \in Readers : pc'[r] # "dead" => buf'[r] = buf[r]
      BY <1>r, <2>2, <2>3, <2>4
    <2> QED
      BY <1>m, <1>r, <1>s, <2>1, <2>2, <2>3, <2>5 DEF Met
  <1> QED
    BY <1>1, <1>2, <1>3, <1>4, <1>5, <1>6, <1>7, <1>8, <1>9, <1>10, <1>11, <1>12,
       <1>13
    DEF Next, WriterStep, ReaderStep, Idle

\* The writer counts packets and readers in step, and only a notice hands a packet on.
LEMMA NextTurn ==
  ASSUME TypeOK, Met, Met', Turn, [Next]_vars
  PROVE  Turn' /\ (WriterWrite \/ Handed' = Handed)
  <1>t. /\ cnt \in Nat /\ id \in Readers /\ NPROC \in Nat \ {0}
        /\ pc \in [Procs -> WriterPC \cup ReaderPC]
    BY SizesAssumption DEF TypeOK, InRange
  <1>d. pc[Writer] # "dead" /\ pc'[Writer] # "dead"
    BY DEF Met
  <1> USE <1>t, Processes DEF Goto
  <1>1. CASE Receive
    <2>1. /\ pc[Writer] = "recv" /\ pc'[Writer] \in {"P", "reset"}
          /\ cnt' = cnt + 1 /\ id' = id
      BY <1>1 DEF Receive
    <2>2. ((cnt % NPROC) + 1) % NPROC = (cnt + 1) % NPROC
      BY RingSuccessor
    <2>3. id = cnt % NPROC
      BY <2>1 DEF Turn
    <2> QED
      BY <2>1, <2>2, <2>3 DEF Turn, Handed
  <1>2. CASE WriterV
    <2>1. /\ pc[Writer] = "V" /\ pc'[Writer] = "fopen" /\ id' = (id + 1) % NPROC /\ cnt' = cnt
      BY <1>2 DEF WriterV
    <2> QED
      BY <2>1 DEF Turn, Handed
  <1>3. CASE WriterWrite
    <2>1. pc[Writer] = "fwrite" /\ pc'[Writer] = "fclose" /\ UNCHANGED <<cnt, id>>
      BY <1>3, <1>d DEF WriterWrite, Die, writer
    <2> QED
      BY <1>3, <2>1 DEF Turn
  <1>4. ASSUME UNCHANGED <<cnt, id>>,
               pc'[Writer] \in {"reset", "P", "copy", "V"} <=> pc[Writer] \in {"reset", "P", "copy", "V"},
               pc'[Writer] \in {"recv", "fclose"} <=> pc[Writer] \in {"recv", "fclose"}
        PROVE  Turn' /\ Handed' = Handed
    BY <1>4, <1>d DEF Turn, Handed
  <1>5. CASE WriteBlock \/ WriterOpen \/ WriterClose
    <2>1. id # Writer
      OBVIOUS
    <2> QED
      BY <1>4, <1>5, <2>1 DEF WriteBlock, WriterOpen, WriterClose, writer
  <1>6. ASSUME NEW p \in Procs, ResetSem(p) \/ P(p)
        PROVE  Turn' /\ Handed' = Handed
    BY <1>4, <1>6 DEF ResetSem, P, writer
  <1>7. ASSUME NEW r \in Readers, ReaderOpen(r)
        PROVE  Turn' /\ Handed' = Handed
    BY <1>4, <1>7 DEF ReaderOpen, writer
  <1>8. ASSUME NEW r \in Readers, ReaderRead(r) \/ ReaderClose(r) \/ ReadBlock(r) \/ ReaderV(r)
        PROVE  Turn' /\ Handed' = Handed
    BY <1>4, <1>8 DEF ReaderRead, ReaderClose, ReadBlock, ReaderV, writer
  <1>9. ASSUME NEW r \in Readers, Connect(r) \/ Send(r) \/ Alarm(r)
        PROVE  Turn' /\ Handed' = Handed
    BY <1>4, <1>9 DEF Connect, Send, Alarm, Die, writer
  <1>10. ASSUME NEW p \in Procs, Kill(p)
         PROVE  Turn' /\ Handed' = Handed
    BY <1>4, <1>10, <1>d DEF Kill, Die, writer
  <1>11. CASE UNCHANGED vars
    BY <1>4, <1>11 DEF vars, writer
  <1> QED
    BY <1>1, <1>2, <1>3, <1>5, <1>6, <1>7, <1>8, <1>9, <1>10, <1>11
    DEF Next, WriterStep, ReaderStep, Idle

\* A reader that goes on waiting, or goes on with the packet it has, while nothing
\* is handed on.
LEMMA SameService ==
  ASSUME NEW r \in Readers, Served(r), Handed' = Handed, shm' = shm, sent'[r] = sent[r],
         pc'[r] # "dead" =>
           /\ pc[r] # "dead"
           /\ HasWork(r)' <=> HasWork(r)
           /\ HasWork(r) => /\ pc'[r] = pc[r] /\ buf'[r] = buf[r] /\ index'[r] = index[r]
                            /\ data'[r] = data[r] /\ sock'[r] = sock[r]
  PROVE  Served(r)'
  <1>1. Due(r)' = Due(r) /\ \A k \in DOMAIN sent'[r] : sent'[r][k].pkt = Dealt(r, k)
    BY DEF Due, Dealt, Served
  <1>2. CASE pc'[r] = "dead"
    BY <1>1, <1>2 DEF Served, Dealt
  <1>3. CASE pc'[r] # "dead" /\ ~HasWork(r)
    <2>1. ~HasWork(r)' /\ Handed < Due(r) /\ Due(r) <= Handed + NPROC
      BY <1>3 DEF Served
    <2> QED
      BY <1>1, <1>3, <2>1 DEF Served, HasWork, Dealt
  <1>4. CASE pc'[r] # "dead" /\ HasWork(r)
    BY <1>1, <1>4 DEF Served, Place, Dealt
  <1> QED
    BY <1>2, <1>3, <1>4

\* The next block the writer fills is not one that a reader has yet to copy.
LEMMA FillsAhead ==
  ASSUME NBLK > NPROC, TypeOK, InRing, Met, NEW r \in Readers, Served(r), WriteBlock,
         Handed' = Handed
  PROVE  Served(r)'
  <1>t. /\ cnt \in Nat /\ NPROC \in Nat /\ NBLK \in Nat \ {0} /\ shm \in [Blocks -> Packet]
        /\ pc \in [Procs -> WriterPC \cup ReaderPC] /\ index[Writer] = cnt % NBLK
    BY SizesAssumption DEF TypeOK, InRange, InRing
  <1>1. /\ pc[Writer] = "copy" /\ shm' = [shm EXCEPT ![index[Writer]] = cnt]
        /\ pc'[r] = pc[r] /\ UNCHANGED <<index, buf, data, sock, sent>>
    BY <1>t, Processes DEF WriteBlock, Goto, fifo, reader, out
  <1>2. PICK d \in Nat : d = Due(r) /\ Place(d) \in Blocks
    BY DueIsNat
  <1>3. Due(r)' = d
    BY <1>1, <1>2 DEF Due, Dealt
  <1>4. HasWork(r)' <=> HasWork(r)
    BY <1>1 DEF HasWork
  <1>5. ASSUME pc[r] # "dead", HasWork(r), pc[r] \notin {"V", "send", "write"}
        PROVE  shm'[Place(d)] = d
    <2>1. cnt - 1 - NPROC < d /\ d <= cnt - 1 /\ shm[Place(d)] = d
      BY <1>1, <1>2, <1>5 DEF Served, Handed
    <2>2. d < cnt /\ cnt < d + NBLK
      BY <1>t, <2>1
    <2>3. Place(d) # cnt % NBLK
      <3>1. ASSUME d % NBLK = cnt % NBLK
            PROVE  d + NBLK <= cnt
        <4>1. d < cnt /\ NBLK \in Nat \ {0} /\ d \in Nat /\ cnt \in Nat
          BY <1>t, <2>2
        <4> QED
          BY <3>1, <4>1, RemainderApart
      <3> QED
        BY <1>t, <2>2, <3>1 DEF Place
    <2> QED
      BY <1>t, <1>1, <1>2, <2>1, <2>3
  <1>6. pc[r] # "dead" =>
          /\ IF HasWork(r) THEN Handed - NPROC < d /\ d <= Handed
             ELSE Handed < d /\ d <= Handed + NPROC
          /\ pc[r] = "fread" /\ buf[r] # <<>> => buf[r] = <<[index |-> Place(d), pkt |-> d]>>
          /\ pc[r] \in {"fclose", "P", "copy"} => index[r] = Place(d)
          /\ pc[r] \in {"V", "send", "write"} => data[r] = d
          /\ pc[r] = "write" => sock[r] = "connected"
    BY <1>2 DEF Served
  <1>7. \A k \in DOMAIN sent'[r] : sent'[r][k].pkt = Dealt(r, k)
    BY <1>1 DEF Served
  <1> QED
    BY <1>1, <1>3, <1>4, <1>5, <1>6, <1>7 DEF Served, Place, Dealt

\* The notice goes to the one reader whose turn it is: to the others the next
\* packet is not due yet, or they are less than a round behind.
LEMMA HandsOver ==
  ASSUME TypeOK, InRing, Announced, Met, Met', Turn, NEW r \in Readers, Served(r), WriterWrite
  PROVE  Served(r)'
  <1>t. /\ cnt \in Nat /\ NPROC \in Nat \ {0} /\ shm \in [Blocks -> Packet] /\ id \in Readers
        /\ pc \in [Procs -> WriterPC \cup ReaderPC] /\ buf \in [Readers -> Seq(Notice)]
    BY SizesAssumption DEF TypeOK, InRange
  <1>1. /\ pc[Writer] = "fwrite" /\ pc' = [pc EXCEPT ![Writer] = "fclose"]
        /\ buf' = [buf EXCEPT ![id] = Append(@, [index |-> index[Writer], pkt |-> cnt])]
        /\ UNCHANGED <<cnt, id, index, shm, data, sock, sent>>
    BY <1>t, Processes DEF WriterWrite, Die, Goto, Met, writer, reader, out
  <1>2. /\ id = cnt % NPROC /\ index[Writer] = Place(cnt) /\ shm[Place(cnt)] = cnt
        /\ Handed = cnt - 1 /\ Handed' = cnt
    BY <1>1, <1>t, Processes DEF Turn, InRing, Announced, Handed, Place
  <1>3. PICK d \in Nat : d = Due(r) /\ d % NPROC = r
    BY DueIsNat
  <1>4. Due(r)' = d
    BY <1>1, <1>3 DEF Due, Dealt
  <1>5. pc'[r] = pc[r]
    BY <1>1, Processes
  <1>6. \A k \in DOMAIN sent'[r] : sent'[r][k].pkt = Dealt(r, k)
    BY <1>1 DEF Served
  <1>7. CASE pc[r] = "dead"
    BY <1>5, <1>6, <1>7 DEF Served, Dealt
  <1>8. CASE r = id /\ pc[r] # "dead"
    <2>1. pc[r] = "fread" /\ buf[r] = <<>>
      BY <1>1, <1>8 DEF Met
    <2>2. cnt - 1 < d /\ d <= cnt - 1 + NPROC
      BY <1>2, <1>3, <1>8, <2>1 DEF Served, HasWork
    <2>3. d = cnt
      <3>1. ASSUME cnt < d
            PROVE  cnt + NPROC <= d
        <4>1. cnt % NPROC = d % NPROC
          BY <1>2, <1>3, <1>8
        <4> QED
          BY <1>t, <3>1, <4>1, RemainderApart
      <3> QED
        BY <1>t, <2>2, <3>1
    <2>4. buf'[r] = <<[index |-> Place(d), pkt |-> d]>>
      BY <1>1, <1>2, <1>8, <1>t, <2>1, <2>3
    <2>5. HasWork(r)'
      BY <1>5, <2>1, <2>4 DEF HasWork
    <2>6. cnt - NPROC < d /\ d <= cnt /\ shm'[Place(d)] = d
      BY <1>1, <1>2, <1>t, <2>3
    <2> QED
      BY <1>2, <1>4, <1>5, <1>6, <2>1, <2>4, <2>5, <2>6 DEF Served, Place, Dealt
  <1>9. CASE r # id /\ pc[r] # "dead"
    <2>1. buf'[r] = buf[r]
      BY <1>1, <1>9
    <2>2. HasWork(r)' <=> HasWork(r)
      BY <1>5, <2>1 DEF HasWork
    <2>3. d # cnt
      BY <1>2, <1>3, <1>9
    <2>4. d + NPROC # cnt
      <3>1. (d + NPROC) % NPROC = r
        BY <1>3, <1>t, RemainderAgain
      <3> QED
        BY <1>2, <1>9, <3>1
    <2>5. IF HasWork(r) THEN cnt - NPROC < d /\ d <= cnt ELSE cnt < d /\ d <= cnt + NPROC
      <3>1. IF HasWork(r) THEN cnt - 1 - NPROC < d /\ d <= cnt - 1
            ELSE cnt - 1 < d /\ d <= cnt - 1 + NPROC
        BY <1>2, <1>3, <1>9 DEF Served
      <3>2. HasWork(r) => cnt - NPROC < d /\ d <= cnt
        BY <1>t, <2>4, <3>1
      <3>3. ~HasWork(r) => cnt < d /\ d <= cnt + NPROC
        BY <1>t, <2>3, <3>1
      <3> QED
        BY <3>2, <3>3
    <2>6. /\ pc[r] = "fread" /\ buf[r] # <<>> => buf[r] = <<[index |-> Place(d), pkt |-> d]>>
          /\ pc[r] \in {"fclose", "P", "copy"} => index[r] = Place(d)
          /\ HasWork(r) /\ pc[r] \notin {"V", "send", "write"} => shm[Place(d)] = d
          /\ pc[r] \in {"V", "send", "write"} => data[r] = d
          /\ pc[r] = "write" => sock[r] = "connected"
      BY <1>3, <1>9 DEF Served
    <2> QED
      BY <1>1, <1>2, <1>4, <1>5, <1>6, <2>1, <2>2, <2>5, <2>6 DEF Served, Place, Dealt
  <1> QED
    BY <1>7, <1>8, <1>9

\* The reader takes its packet from the FIFO to the semaphore, copies it ...
LEMMA TakesItsPacket ==
  ASSUME TypeOK, Met, NEW r \in Readers, Served(r), Handed' = Handed,
         ReaderRead(r) \/ ReaderClose(r) \/ P(r) \/ ReadBlock(r) \/ ReaderV(r) \/ Connect(r),
         ~scen.refused
  PROVE  Served(r)'
  <1>t. /\ pc \in [Procs -> WriterPC \cup ReaderPC] /\ index \in [Procs -> Blocks \cup {Bad}]
        /\ data \in [Readers -> Packet] /\ sock \in [Readers -> {"none", "connected", "refused"}]
    BY DEF TypeOK, InRange
  <1>1. pc[r] \in {"fread", "fclose", "P", "copy", "V", "send"} /\ UNCHANGED <<shm, sent>>
    BY DEF ReaderRead, ReaderClose, P, ReadBlock, ReaderV, Connect, mem, out
  <1>2. PICK d \in Nat : d = Due(r) /\ Place(d) \in Blocks
    BY DueIsNat
  <1>3. Due(r)' = d
    BY <1>1, <1>2 DEF Due, Dealt
  <1>4. \A k \in DOMAIN sent'[r] : sent'[r][k].pkt = Dealt(r, k)
    BY <1>1 DEF Served
  <1>s. /\ pc[r] = "fread" /\ buf[r] # <<>> => buf[r] = <<[index |-> Place(d), pkt |-> d]>>
        /\ pc[r] \in {"fclose", "P", "copy"} => index[r] = Place(d)
        /\ HasWork(r) /\ pc[r] \notin {"V", "send", "write"} => shm[Place(d)] = d
        /\ pc[r] \in {"V", "send", "write"} => data[r] = d
        /\ HasWork(r) => Handed - NPROC < d /\ d <= Handed
    BY <1>1, <1>2 DEF Served
  <1>5. HasWork(r)
    BY <1>1 DEF HasWork, ReaderRead, ReaderClose, P, ReadBlock, ReaderV, Connect, Met
  <1>6. ASSUME pc'[r] \in {"fclose", "P", "copy", "V", "send", "write"},
               pc'[r] \in {"fclose", "P", "copy"} => index'[r] = Place(d) /\ shm[Place(d)] = d,
               pc'[r] \in {"V", "send", "write"} => data'[r] = d,
               pc'[r] = "write" => sock'[r] = "connected"
        PROVE  Served(r)'
    <2>1. HasWork(r)'
      BY <1>6 DEF HasWork
    <2> QED
      BY <1>1, <1>3, <1>4, <1>5, <1>6, <1>s, <2>1 DEF Served, Place, Dealt
  <1> USE <1>t, Processes DEF Goto
  <1>7. CASE ReaderRead(r)
    <2>1. pc[r] = "fread" /\ buf[r] # <<>> /\ index'[r] = Head(buf[r]).index /\ pc'[r] = "fclose"
      BY <1>5, <1>7 DEF ReaderRead, HasWork
    <2>2. Head(buf[r]) = [index |-> Place(d), pkt |-> d]
      BY <1>s, <2>1
    <2> QED
      BY <1>5, <1>6, <1>s, <2>1, <2>2
  <1>8. CASE ReaderClose(r)
    <2>1. pc[r] = "fclose" /\ index' = index /\ index[r] = Place(d)
      BY <1>8, <1>s DEF ReaderClose
    <2>2. pc'[r] = "P"
      BY <1>2, <1>8, <2>1, BadIsNoBlock DEF ReaderClose
    <2> QED
      BY <1>5, <1>6, <1>s, <2>1, <2>2
  <1>9. CASE P(r)
    BY <1>5, <1>6, <1>9, <1>s DEF P
  <1>10. CASE ReadBlock(r)
    BY <1>5, <1>6, <1>10, <1>s DEF ReadBlock
  <1>11. CASE ReaderV(r)
    BY <1>5, <1>6, <1>11, <1>s DEF ReaderV, reader
  <1>12. CASE Connect(r)
    <2>1. sock[r] # "refused"
      BY DEF Met
    <2>2. pc'[r] = "write" /\ sock'[r] = "connected" /\ data' = data /\ pc[r] = "send"
      BY <1>12, <2>1 DEF Connect, reader
    <2> QED
      BY <1>6, <1>s, <2>2
  <1> QED
    BY <1>7, <1>8, <1>9, <1>10, <1>11, <1>12

\* ... and sends it, which makes the packet one round later the next.
LEMMA SendsItsPacket ==
  ASSUME TypeOK, Met, NEW r \in Readers, Served(r), Handed' = Handed, Send(r)
  PROVE  Served(r)'
  <1>t. /\ pc \in [Procs -> WriterPC \cup ReaderPC] /\ sent[r] \in Seq(Sending)
        /\ NPROC \in Nat /\ cnt \in Nat
    BY SizesAssumption DEF TypeOK, InRange
  <1>1. pc[r] = "write" /\ HasWork(r) /\ sock[r] = "connected"
    BY DEF Send, Served, HasWork
  <1>2. PICK d \in Nat : d = Due(r) /\ Dealt(r, Len(sent[r]) + 2) = d + NPROC
    BY DueIsNat
  <1>3. data[r] = d /\ Handed - NPROC < d /\ d <= Handed
    BY <1>1, <1>2 DEF Served
  <1>4. pc'[r] = "fopen"
    BY <1>1, <1>t, Processes DEF Send, Goto
  <1>5. PICK m \in Sending : m = [pkt |-> d, told |-> told[r]]
    BY <1>2 DEF Sending, Packet, TypeOK
  <1>6. sent'[r] = Append(sent[r], m)
    BY <1>1, <1>3, <1>5 DEF Send, TypeOK
  <1>7. PICK n \in Nat : n = Len(sent[r]) /\ DOMAIN sent[r] = 1..n
    BY <1>t, LenProperties
  <1>8. /\ Len(sent'[r]) = n + 1 /\ DOMAIN sent'[r] = 1..n + 1
        /\ sent'[r][n + 1] = m /\ \A k \in 1..n : sent'[r][k] = sent[r][k]
    <2>1. PICK s \in Seq(Sending) : s = Append(sent[r], m)
      BY <1>t, AppendProperties
    <2>2. /\ Len(s) = n + 1
          /\ s[n + 1] = m /\ \A k \in 1..n : s[k] = sent[r][k]
      BY <1>t, <1>7, <2>1, AppendProperties
    <2>3. DOMAIN s = 1..n + 1
      BY <2>2, LenProperties
    <2> QED
      BY <1>6, <2>1, <2>2, <2>3
  <1>9. Due(r)' = d + NPROC
    <2>1. (n + 1) + 1 = n + 2
      OBVIOUS
    <2> QED
      BY <1>2, <1>7, <1>8, <2>1 DEF Due, Dealt
  <1>10. d = Dealt(r, n + 1)
    BY <1>2, <1>7 DEF Due
  <1>11. \A k \in DOMAIN sent'[r] : sent'[r][k].pkt = Dealt(r, k)
    <2>1. \A k \in 1..n : sent'[r][k].pkt = Dealt(r, k)
      BY <1>7, <1>8 DEF Served
    <2>2. sent'[r][n + 1].pkt = Dealt(r, n + 1)
      BY <1>5, <1>8, <1>10
    <2>3. \A k \in 1..n + 1 : k = n + 1 \/ k \in 1..n
      OBVIOUS
    <2> QED
      BY <1>8, <2>1, <2>2, <2>3
  <1>12. ~HasWork(r)'
    BY <1>4 DEF HasWork
  <1>13. Handed < d + NPROC /\ d + NPROC <= Handed + NPROC
    <2>1. Handed \in Int
      BY <1>t DEF Handed
    <2> QED
      BY <1>3, <1>t, <2>1
  <1> QED
    BY <1>4, <1>9, <1>11, <1>12, <1>13 DEF Served, Dealt

\* Whoever takes a step, each reader stays in step with the writer.
LEMMA NextServed ==
  ASSUME NBLK > NPROC, TypeOK, InTime, WriterLives', NoneStale, WriterLives, Met, Met', Turn,
         WriterWrite \/ Handed' = Handed, NEW r \in Readers, Served(r), [Next]_vars
  PROVE  Served(r)'
  <1>t. /\ id \in Readers /\ pc \in [Procs -> WriterPC \cup ReaderPC]
        /\ buf \in [Readers -> Seq(Notice)] /\ sent \in [Readers -> Seq(Sending)]
        /\ index \in [Procs -> Blocks \cup {Bad}] /\ data \in [Readers -> Packet]
        /\ sock \in [Readers -> {"none", "connected", "refused"}]
        /\ told \in [Readers -> Nat \cup {NULL}]
    BY DEF TypeOK, InRange
  <1>n. InRing /\ Announced
    BY DEF NoneStale
  <1>w. CASE WriterWrite
    BY <1>n, <1>w, HandsOver
  <1>h. SUFFICES ASSUME Handed' = Handed
                 PROVE  Served(r)'
    BY <1>w
  <1>m. \A q \in Readers :
          /\ ropen[q] <=> pc[q] \in {"fwait", "fread", "fclose"}
          /\ wopen[q] <=> q = id /\ pc[Writer] \in {"fwait", "fwrite", "fclose"}
          /\ pc[q] \notin {"fread", "dead"} => buf[q] = <<>>
    BY DEF Met
  <1> USE <1>t, <1>h, Processes DEF Goto
  <1>1. CASE UNCHANGED vars
    BY <1>1, SameService DEF vars, mem, fifo, reader, out, HasWork
  <1>2. ASSUME NEW p \in Procs, ResetSem(p)
        PROVE  Served(r)'
    BY <1>2, SameService DEF ResetSem, fifo, reader, out, HasWork
  <1>3. ASSUME NEW p \in Procs, P(p)
        PROVE  Served(r)'
    <2>1. CASE p = r
      BY <1>3, <2>1, TakesItsPacket DEF InTime
    <2>2. CASE p # r
      BY <1>3, <2>2, SameService DEF P, fifo, reader, out, HasWork
    <2> QED
      BY <2>1, <2>2
  <1>4. CASE Receive \/ WriterV
    BY <1>4, SameService DEF Receive, WriterV, mem, fifo, reader, out, HasWork
  <1>5. CASE WriteBlock
    BY <1>5, <1>n, FillsAhead
  <1>6. CASE WriterOpen
    <2>1. /\ UNCHANGED <<buf, index, shm, data, sock, sent>>
          /\ r # id \/ pc[r] # "fwait" => pc'[r] = pc[r]
          /\ r = id /\ pc[r] = "fwait" => pc'[r] = "fread"
      BY <1>6 DEF WriterOpen, mem, reader, out
    <2>2. pc[r] = "fwait" => buf[r] = <<>>
      BY <1>m
    <2> QED
      BY <2>1, <2>2, SameService DEF HasWork
  <1>7. CASE WriterClose
    <2>1. UNCHANGED <<index, shm, data, sock, sent>> /\ pc'[r] = pc[r]
      BY <1>7 DEF WriterClose, mem, reader, out
    <2>2. buf'[r] = buf[r] \/ buf'[r] = <<>>
      BY <1>7 DEF WriterClose
    <2>3. pc[r] = "fread" => buf'[r] = buf[r]
      BY <1>7, <1>m DEF WriterClose, Readable
    <2>4. pc[r] # "dead" => buf'[r] = buf[r]
      BY <1>m, <2>2, <2>3
    <2> QED
      BY <2>1, <2>4, SameService DEF HasWork
  <1>8. ASSUME NEW q \in Readers, ReaderOpen(q)
        PROVE  Served(r)'
    <2>1. UNCHANGED <<buf, index, shm, data, sock, sent>> /\ (r # q => pc'[r] = pc[r])
      BY <1>8 DEF ReaderOpen, mem, reader, out
    <2>2. pc[q] = "fopen" /\ pc'[q] \in {"fread", "fwait"}
      BY <1>8 DEF ReaderOpen
    <2>3. buf[q] = <<>>
      BY <1>m, <2>2
    <2> QED
      BY <2>1, <2>2, <2>3, SameService DEF HasWork
  <1>9. ASSUME NEW q \in Readers, ReaderRead(q) \/ ReaderClose(q)
        PROVE  Served(r)'
    <2>1. CASE q = r
      BY <1>9, <2>1, TakesItsPacket DEF InTime
    <2>2. CASE q # r
      BY <1>9, <2>2, SameService DEF ReaderRead, ReaderClose, mem, out, reader, HasWork
    <2> QED
      BY <2>1, <2>2
  <1>10. ASSUME NEW q \in Readers, ReadBlock(q) \/ ReaderV(q) \/ Connect(q)
         PROVE  Served(r)'
    <2>1. CASE q = r
      BY <1>10, <2>1, TakesItsPacket DEF InTime
    <2>2. CASE q # r
      BY <1>10, <2>2, SameService
      DEF ReadBlock, ReaderV, Connect, mem, fifo, out, reader, HasWork
    <2> QED
      BY <2>1, <2>2
  <1>11. ASSUME NEW q \in Readers, Send(q)
         PROVE  Served(r)'
    <2>1. CASE q = r
      BY <1>11, <2>1, SendsItsPacket
    <2>2. CASE q # r
      <3>1. sock[q] # "refused"
        BY DEF Met
      <3> QED
        BY <1>11, <2>2, <3>1, SameService DEF Send, fifo, reader, HasWork
    <2> QED
      BY <2>1, <2>2
  <1>12. ASSUME NEW q \in Readers, Alarm(q)
         PROVE  FALSE
    BY <1>12 DEF Alarm, InTime
  <1>13. ASSUME NEW p \in Procs, Kill(p)
         PROVE  Served(r)'
    <2>1. p # Writer /\ scen' = scen
      BY <1>13, SameScenario DEF Kill, Die, WriterLives
    <2>2. /\ pc' = [pc EXCEPT ![p] = "dead"]
          /\ UNCHANGED <<index, shm, data, sock, sent>>
      BY <1>13, <2>1 DEF Kill, Die, reader, out
    <2>3. buf'[r] = (IF wopen'[r] \/ ropen'[r] \/ leaked'[r] THEN buf[r] ELSE <<>>)
          /\ (r # p /\ ropen[r] => ropen'[r])
      BY <1>13 DEF Kill, Die
    <2>4. pc'[r] # "dead" => pc'[r] = pc[r] /\ buf'[r] = buf[r]
      BY <1>m, <2>2, <2>3
    <2> QED
      BY <2>2, <2>4, SameService DEF HasWork
  <1> QED
    BY <1>w, <1>1, <1>2, <1>3, <1>4, <1>5, <1>6, <1>7, <1>8, <1>9, <1>10, <1>11, <1>12,
       <1>13
    DEF Next, WriterStep, ReaderStep, Idle

\* At first each reader waits for its packet of the first round.
LEMMA InitRelayed == Init => Relayed
  <1> SUFFICES ASSUME Init, InTime, WriterLives
               PROVE  Met /\ Turn /\ \A r \in Readers : Served(r)
    BY DEF Relayed
  <1>1. Met
    BY Processes DEF Init, Met
  <1>2. Turn
    <2>1. (NPROC * 0 + 0) % NPROC = 0
      BY SizesAssumption, RemainderOf
    <2>2. NPROC * 0 + 0 = 0
      BY SizesAssumption
    <2> QED
      BY <2>1, <2>2, Processes DEF Init, Turn
  <1>3. ASSUME NEW r \in Readers
        PROVE  Served(r)
    <2>1. /\ ~HasWork(r) /\ sent[r] = <<>> /\ pc[r] \in {"reset", "fopen"} /\ Handed = 0
      BY Processes DEF Init, HasWork, Handed
    <2>2. Due(r) = IF r = 0 THEN NPROC ELSE r
      BY <2>1, SizesAssumption DEF Due, Dealt, Readers
    <2>3. 0 < Due(r) /\ Due(r) <= NPROC
      BY <2>2, SizesAssumption DEF Readers
    <2> QED
      BY <2>1, <2>3, SizesAssumption DEF Served
  <1> QED
    BY <1>1, <1>2, <1>3

\* Relayed is inductive.
LEMMA NextRelayed ==
  ASSUME NBLK > NPROC
  PROVE  TypeOK /\ NoneStale /\ Relayed /\ [Next]_vars => Relayed'
  <1> SUFFICES ASSUME TypeOK, NoneStale, Relayed, [Next]_vars, InTime', WriterLives'
               PROVE  (Met /\ Turn /\ \A r \in Readers : Served(r))'
    BY DEF Relayed
  <1>1. InTime /\ WriterLives
    BY SameScenario, DeadStaysDead DEF InTime
  <1>2. Met /\ Turn /\ \A r \in Readers : Served(r)
    BY <1>1 DEF Relayed
  <1>3. Met'
    BY <1>1, <1>2, NextMet
  <1>4. Turn' /\ (WriterWrite \/ Handed' = Handed)
    BY <1>2, <1>3, NextTurn
  <1>5. ASSUME NEW r \in Readers
        PROVE  Served(r)'
    BY <1>1, <1>2, <1>3, <1>4, NextServed
  <1> QED
    BY <1>3, <1>4, <1>5

\* With more blocks than readers, as the program has (10 and 2), each reader sends
\* the packets dealt to it, each once and in order, though nothing tells the writer
\* that a block has been read; for any number of blocks, readers and packets, when
\* both sides close the FIFO in time, whatever readers are killed.
THEOREM SentOnce ==
  ASSUME NBLK > NPROC
  PROVE  Spec => []ExactlyOnce
  <1>1. Relayed => ExactlyOnce
    BY DEF Relayed, ExactlyOnce, Served, InTime
  <1> QED
    BY InitRelayed, NextRelayed, InitNoneStale, NextNoneStale, TypeCorrect, <1>1, PTL DEF Spec

-----------------------------------------------------------------------------
(* The connections of the transfer server: induction over numbers, in a    *)
(* form that names no operator                                             *)

\* A set that has 0, and n + 1 whenever it has n, has every number: otherwise
\* take the shortest interval 0..n of an n it lacks.
LEMMA SetInduction ==
  ASSUME NEW S, 0 \in S, \A n \in Nat : n \in S => n + 1 \in S
  PROVE  Nat \subseteq S
  <1> SUFFICES ASSUME NEW m \in Nat, m \notin S PROVE FALSE
    OBVIOUS
  <1> DEFINE T == {n \in Nat : n \notin S}
             B == {0..n : n \in T}
             R == StrictSubsetOrdering(Nat)
  <1>1. IsWellFoundedOn(R, FiniteSubsetsOf(Nat))
    BY FS_StrictSubsetOrderingWellFounded
  <1>2. B \subseteq FiniteSubsetsOf(Nat) /\ B # {}
    <2>1. \A n \in Nat : 0..n \subseteq Nat /\ IsFiniteSet(0..n)
      BY FS_Interval
    <2>2. 0..m \in B
      OBVIOUS
    <2> QED
      BY <2>1, <2>2 DEF FiniteSubsetsOf
  <1>3. PICK b \in B : \A a \in B : <<a, b>> \notin R
    <2> HIDE DEF R, B
    <2> QED
      BY <1>1, <1>2, WFMin
  <1>4. PICK n \in T : b = 0..n
    OBVIOUS
  <1>5. n # 0
    OBVIOUS
  <1>6. n - 1 \in Nat /\ n - 1 + 1 = n
    BY <1>5
  <1>7. n - 1 \in T
    BY <1>6
  <1>8. 0..n - 1 \in B
    BY <1>7
  <1>9. <<0..n - 1, b>> \in R
    <2>1. 0..n - 1 \subseteq 0..n /\ 0..n - 1 \in SUBSET Nat /\ 0..n \in SUBSET Nat
      BY <1>6
    <2>2. n \in 0..n /\ n \notin 0..n - 1
      OBVIOUS
    <2> QED
      BY <1>4, <2>1, <2>2 DEF StrictSubsetOrdering
  <1> QED
    BY <1>3, <1>8, <1>9

-----------------------------------------------------------------------------
(* The streams of the clients                                              *)

\* The number of packets that c sends.
Many(c) == Len(Payloads[c])

\* The lengths of the packets of c.
LEMMA Streams ==
  ASSUME NEW c \in Clients
  PROVE  /\ Many(c) \in Nat /\ Packets(c) = 1..Many(c)
         /\ \A n \in Packets(c) : /\ Payloads[c][n] \in Nat
                                  /\ MSG_HEADER_LEN + Payloads[c][n] <= PACKAGE_SIZE
  <1> DEFINE R == 0..PACKAGE_SIZE - MSG_HEADER_LEN
  <1>1. Payloads[c] \in Seq(R)
    BY PayloadsAssumption
  <1>2. \A r \in R : r \in Nat /\ MSG_HEADER_LEN + r <= PACKAGE_SIZE
    BY LengthsAssumption
  <1> HIDE DEF R
  <1> QED
    BY <1>1, <1>2 DEF Many, Packets

\* The first bytes of the packets can be added up, one by one,
LEMMA StartExists ==
  ASSUME NEW c \in Clients
  PROVE  \E g \in [1..Many(c) + 1 -> Nat] :
           g[1] = 0 /\ \A n \in 1..Many(c) : g[n + 1] = g[n] + MSG_HEADER_LEN + Payloads[c][n]
  <1> DEFINE N == Many(c)
             F == [1..N + 1 -> Nat]
             Size(n) == MSG_HEADER_LEN + Payloads[c][n]
             Upto(g, k) == g[1] = 0 /\ \A n \in 1..k : g[n + 1] = g[n] + Size(n)
             D == {k \in Nat : k > N \/ \E g \in F : Upto(g, k)}
  <1>1. N \in Nat /\ \A n \in 1..N : Size(n) \in Nat
    BY Streams, LengthsAssumption
  <1> HIDE DEF N, Size
  <1>2. 0 \in D
    <2>1. [n \in 1..N + 1 |-> 0] \in F /\ 1 \in 1..N + 1
      BY <1>1
    <2>2. Upto([n \in 1..N + 1 |-> 0], 0)
      BY <2>1
    <2> HIDE DEF F, Upto
    <2> QED
      BY <2>1, <2>2
  <1>3. \A k \in Nat : k \in D => k + 1 \in D
    <2> SUFFICES ASSUME NEW k \in Nat, k + 1 <= N, k \in D
                 PROVE  \E h \in F : Upto(h, k + 1)
      <3> HIDE DEF F, Upto
      <3> QED
        BY <1>1
    <2>1. PICK g \in F : Upto(g, k)
      <3>1. ~(k > N)
        BY <1>1
      <3> HIDE DEF F, Upto
      <3> QED
        BY <3>1
    <2>2. k + 1 \in 1..N /\ k + 1 \in 1..N + 1 /\ k + 2 \in 1..N + 1 /\ 1 \in 1..N + 1 /\ 1 # k + 2
      BY <1>1
    <2>3. PICK s \in Nat : s = g[k + 1] + Size(k + 1)
      BY <1>1, <2>1, <2>2
    <2>4. PICK h \in F : h = [g EXCEPT ![k + 2] = s]
      BY <2>1, <2>2
    <2>5. h[1] = 0
      BY <2>1, <2>2, <2>4
    <2>6. ASSUME NEW n \in 1..k + 1 PROVE h[n + 1] = h[n] + Size(n)
      <3>1. n \in 1..N + 1 /\ n + 1 \in 1..N + 1 /\ n # k + 2
        BY <1>1, <2>2
      <3>2. h[n] = g[n]
        BY <2>1, <2>4, <3>1
      <3>3. CASE n = k + 1
        <4>1. h[k + 2] = s
          BY <2>1, <2>2, <2>4
        <4>2. n + 1 = k + 2
          BY <3>3
        <4> QED
          BY <2>3, <3>2, <3>3, <4>1, <4>2
      <3>4. CASE n # k + 1
        <4>1. n \in 1..k /\ n + 1 # k + 2
          BY <3>4
        <4>2. h[n + 1] = g[n + 1]
          BY <2>1, <2>4, <3>1, <4>1
        <4> QED
          BY <2>1, <3>2, <4>1, <4>2
      <3> QED
        BY <3>3, <3>4
    <2>7. Upto(h, k + 1)
      BY <2>5, <2>6
    <2> HIDE DEF F, Upto
    <2> QED
      BY <2>7
  <1>4. N \in D
    <2> HIDE DEF D
    <2> QED
      BY <1>1, <1>2, <1>3, SetInduction
  <1>5. PICK g \in F : Upto(g, N)
    BY <1>1, <1>4
  <1>6. ASSUME NEW n \in 1..Many(c)
        PROVE  g[n + 1] = g[n] + MSG_HEADER_LEN + Payloads[c][n]
    <2>1. Payloads[c][n] \in Nat /\ MSG_HEADER_LEN \in Nat /\ Many(c) \in Nat
      BY Streams, LengthsAssumption
    <2>2. g[n] \in Nat
      BY <2>1 DEF N
    <2>3. g[n + 1] = g[n] + Size(n)
      BY <1>5 DEF N
    <2> QED
      BY <2>1, <2>2, <2>3 DEF Size
  <1> QED
    BY <1>5, <1>6 DEF N

\* so that Start, a recursive function, is what its definition says.
LEMMA StartIs ==
  ASSUME NEW c \in Clients
  PROVE  /\ Start(c) \in [1..Many(c) + 1 -> Nat]
         /\ Start(c)[1] = 0
         /\ \A n \in 1..Many(c) : Start(c)[n + 1] = Start(c)[n] + MSG_HEADER_LEN + Payloads[c][n]
  <1> DEFINE N == Many(c)
             Size(n) == MSG_HEADER_LEN + Payloads[c][n]
             Body(g) == [n \in 1..Len(Payloads[c]) + 1 |->
                           IF n = 1 THEN 0 ELSE g[n - 1] + MSG_HEADER_LEN + Payloads[c][n - 1]]
  <1>1. N \in Nat /\ \A n \in 1..N : Size(n) \in Nat
    BY Streams, LengthsAssumption
  <1>2. PICK g \in [1..N + 1 -> Nat] : g[1] = 0 /\ \A n \in 1..N : g[n + 1] = g[n] + Size(n)
    <2>1. \E g \in [1..N + 1 -> Nat] :
            g[1] = 0 /\ \A n \in 1..N : g[n + 1] = g[n] + MSG_HEADER_LEN + Payloads[c][n]
      BY StartExists
    <2>2. PICK g \in [1..N + 1 -> Nat] :
            g[1] = 0 /\ \A n \in 1..N : g[n + 1] = g[n] + MSG_HEADER_LEN + Payloads[c][n]
      BY <2>1
    <2>3. ASSUME NEW n \in 1..N PROVE g[n + 1] = g[n] + Size(n)
      <3>1. n \in 1..N + 1 /\ Payloads[c][n] \in Nat /\ MSG_HEADER_LEN \in Nat
        BY <1>1, Streams, LengthsAssumption
      <3> QED
        BY <2>2, <3>1
    <2> QED
      BY <2>2, <2>3
  <1>3. g = Body(g)
    <2>1. ASSUME NEW n \in 1..N + 1
          PROVE  g[n] = IF n = 1 THEN 0 ELSE g[n - 1] + MSG_HEADER_LEN + Payloads[c][n - 1]
      <3>1. CASE n # 1
        <4>1. n - 1 \in 1..N /\ n - 1 \in 1..N + 1 /\ (n - 1) + 1 = n
          BY <1>1, <3>1
        <4>2. Payloads[c][n - 1] \in Nat /\ MSG_HEADER_LEN \in Nat
          BY <1>1, <4>1, Streams, LengthsAssumption
        <4>3. g[n] = g[n - 1] + Size(n - 1) /\ g[n - 1] \in Nat
          BY <1>2, <4>1
        <4> QED
          BY <3>1, <4>2, <4>3
      <3> QED
        BY <1>2, <3>1
    <2> QED
      BY <1>2, <2>1 DEF Many
  <1>4. Start(c) = Body(Start(c))
    <2>1. Start(c) = CHOOSE h : h = Body(h)
      BY DEF Start
    <2> HIDE DEF Body
    <2> QED
      BY <1>3, <2>1
  <1>5. Start(c)[1] = 0
    <2>1. 1 \in 1..Len(Payloads[c]) + 1
      BY <1>1 DEF Many
    <2> QED
      BY <1>4, <2>1
  <1>6. \A n \in 1..N : Start(c)[n + 1] = Start(c)[n] + MSG_HEADER_LEN + Payloads[c][n]
    <2> SUFFICES ASSUME NEW n \in 1..N
                 PROVE  Start(c)[n + 1] = Start(c)[n] + MSG_HEADER_LEN + Payloads[c][n]
      OBVIOUS
    <2>1. n + 1 \in 1..Len(Payloads[c]) + 1 /\ n + 1 # 1 /\ (n + 1) - 1 = n
      BY <1>1 DEF Many
    <2> QED
      BY <1>4, <2>1
  <1> DEFINE D == {k \in Nat : k > N \/ Start(c)[k + 1] \in Nat}
  <1>7. Nat \subseteq D
    <2>1. 0 \in D
      BY <1>5
    <2>2. ASSUME NEW k \in Nat, k \in D, k + 1 <= N PROVE Start(c)[(k + 1) + 1] \in Nat
      <3>1. k + 1 \in 1..N /\ ~(k > N)
        BY <1>1, <2>2
      <3>2. Start(c)[k + 1] \in Nat /\ Payloads[c][k + 1] \in Nat /\ MSG_HEADER_LEN \in Nat
        BY <2>2, <3>1, Streams, LengthsAssumption
      <3> QED
        BY <1>6, <3>1, <3>2
    <2>3. \A k \in Nat : k \in D => k + 1 \in D
      BY <1>1, <2>2
    <2> HIDE DEF D
    <2> QED
      BY <2>1, <2>3, SetInduction
  <1>8. \A n \in 1..N + 1 : Start(c)[n] \in Nat
    <2> SUFFICES ASSUME NEW n \in 1..N + 1 PROVE Start(c)[n] \in Nat
      OBVIOUS
    <2>1. n - 1 \in Nat /\ ~(n - 1 > N) /\ (n - 1) + 1 = n
      BY <1>1
    <2>2. n - 1 \in D
      BY <1>7, <2>1
    <2> QED
      BY <2>1, <2>2
  <1>9. Start(c) = [n \in 1..N + 1 |-> Start(c)[n]]
    BY <1>4 DEF Many
  <1> HIDE DEF N
  <1>10. Start(c) \in [1..N + 1 -> Nat]
    BY <1>8, <1>9
  <1> QED
    BY <1>5, <1>6, <1>10 DEF N

\* The packets come one after the other.
LEMMA StartGrows ==
  ASSUME NEW c \in Clients, NEW m \in 1..Many(c) + 1, NEW n \in 1..Many(c) + 1, m <= n
  PROVE  Start(c)[m] <= Start(c)[n]
  <1> DEFINE N == Many(c)
             S == Start(c)
             D == {d \in Nat : m + d > N + 1 \/ S[m] <= S[m + d]}
  <1>1. N \in Nat /\ S \in [1..N + 1 -> Nat]
    BY StartIs, Streams
  <1>2. \A k \in 1..N : S[k] <= S[k + 1]
    <2> SUFFICES ASSUME NEW k \in 1..N PROVE S[k] <= S[k + 1]
      OBVIOUS
    <2>1. Payloads[c][k] \in Nat /\ MSG_HEADER_LEN \in Nat
      BY Streams, LengthsAssumption
    <2>2. k \in 1..N + 1 /\ S[k + 1] = S[k] + MSG_HEADER_LEN + Payloads[c][k]
      BY <1>1, StartIs
    <2>3. S[k] \in Nat
      BY <1>1, <2>2
    <2> HIDE DEF S
    <2> QED
      BY <2>1, <2>2, <2>3
  <1> HIDE DEF N, S
  <1>n. m \in 1..N + 1 /\ n \in 1..N + 1
    BY DEF N
  <1>3. 0 \in D
    BY <1>1, <1>n
  <1>4. \A d \in Nat : d \in D => d + 1 \in D
    <2> SUFFICES ASSUME NEW d \in Nat, d \in D, m + (d + 1) <= N + 1
                 PROVE  S[m] <= S[m + (d + 1)]
      BY <1>1, <1>n
    <2>1. m + d \in 1..N /\ m + d \in 1..N + 1 /\ (m + d) + 1 = m + (d + 1) /\ m + (d + 1) \in 1..N + 1
      BY <1>1, <1>n
    <2>2. S[m] <= S[m + d] /\ S[m + d] <= S[m + (d + 1)]
      BY <1>1, <1>2, <1>n, <2>1
    <2>3. S[m] \in Nat /\ S[m + d] \in Nat /\ S[m + (d + 1)] \in Nat
      BY <1>1, <1>n, <2>1
    <2> QED
      BY <2>2, <2>3
  <1>5. n - m \in D
    <2>1. n - m \in Nat
      BY <1>1, <1>n
    <2> HIDE DEF D
    <2> QED
      BY <1>3, <1>4, <2>1, SetInduction
  <1>6. m + (n - m) = n /\ ~(n > N + 1)
    BY <1>1, <1>n
  <1> QED
    BY <1>1, <1>5, <1>6 DEF S

\* Where packets start and end.
LEMMA StartFacts ==
  ASSUME NEW c \in Clients
  PROVE  /\ \A n \in 1..Many(c) + 1 : Start(c)[n] \in Nat
         /\ Start(c)[1] = 0 /\ 1 \in 1..Many(c) + 1 /\ End(c) = Start(c)[Many(c) + 1]
         /\ \A n \in Packets(c) :
              /\ n \in 1..Many(c) + 1 /\ n + 1 \in 1..Many(c) + 1
              /\ Start(c)[n + 1] = Start(c)[n] + MSG_HEADER_LEN + Payloads[c][n]
         /\ \A m, n \in 1..Many(c) + 1 :
              Start(c)[m] < Start(c)[n] => m \in Packets(c) /\ Start(c)[m + 1] <= Start(c)[n]
         /\ \A m, n \in 1..Many(c) + 1 : Start(c)[m] = Start(c)[n] => m = n
  <1>1. Many(c) \in Nat /\ Packets(c) = 1..Many(c) /\ Start(c) \in [1..Many(c) + 1 -> Nat]
    BY Streams, StartIs
  <1>2. \A n \in Packets(c) :
              /\ n \in 1..Many(c) + 1 /\ n + 1 \in 1..Many(c) + 1
              /\ Start(c)[n + 1] = Start(c)[n] + MSG_HEADER_LEN + Payloads[c][n]
    <2>1. \A n \in 1..Many(c) : Start(c)[n + 1] = Start(c)[n] + MSG_HEADER_LEN + Payloads[c][n]
      BY StartIs
    <2>2. \A n \in 1..Many(c) : n \in 1..Many(c) + 1 /\ n + 1 \in 1..Many(c) + 1
      BY <1>1
    <2> QED
      BY <1>1, <2>1, <2>2
  <1>3. ASSUME NEW m \in 1..Many(c) + 1, NEW n \in 1..Many(c) + 1, m < n
        PROVE  m \in Packets(c) /\ Start(c)[m + 1] <= Start(c)[n] /\ Start(c)[m] < Start(c)[n]
    <2>1. m \in Packets(c) /\ m + 1 <= n
      BY <1>1, <1>3
    <2>2. Start(c)[m + 1] <= Start(c)[n]
      BY <1>2, <2>1, StartGrows
    <2>3. Payloads[c][m] \in Nat /\ MSG_HEADER_LEN \in Nat \ {0}
      BY <2>1, Streams, LengthsAssumption
    <2>4. Start(c)[m] \in Nat /\ Start(c)[n] \in Nat /\ Start(c)[m + 1] = Start(c)[m] + MSG_HEADER_LEN + Payloads[c][m]
      BY <1>1, <1>2, <2>1
    <2> QED
      BY <2>1, <2>2, <2>3, <2>4
  <1>4. \A m, n \in 1..Many(c) + 1 :
          Start(c)[m] < Start(c)[n] => m \in Packets(c) /\ Start(c)[m + 1] <= Start(c)[n]
    <2> SUFFICES ASSUME NEW m \in 1..Many(c) + 1, NEW n \in 1..Many(c) + 1, Start(c)[m] < Start(c)[n]
                 PROVE  m < n
      BY <1>3
    <2>1. Start(c)[m] \in Nat /\ Start(c)[n] \in Nat /\ m \in Nat /\ n \in Nat
      BY <1>1
    <2>2. n <= m => Start(c)[n] <= Start(c)[m]
      BY StartGrows
    <2> QED
      BY <2>1, <2>2
  <1>5. \A m, n \in 1..Many(c) + 1 : Start(c)[m] = Start(c)[n] => m = n
    <2> SUFFICES ASSUME NEW m \in 1..Many(c) + 1, NEW n \in 1..Many(c) + 1, m # n
                 PROVE  Start(c)[m] # Start(c)[n]
      OBVIOUS
    <2>1. Start(c)[m] \in Nat /\ Start(c)[n] \in Nat /\ (m < n \/ n < m)
      BY <1>1
    <2>2. m < n => Start(c)[m] < Start(c)[n]
      BY <1>3
    <2>3. n < m => Start(c)[n] < Start(c)[m]
      BY <1>3
    <2> QED
      BY <2>1, <2>2, <2>3
  <1>6. Start(c)[1] = 0 /\ 1 \in 1..Many(c) + 1
    BY <1>1, StartIs
  <1>7. End(c) = Start(c)[Many(c) + 1]
    BY DEF End, Many
  <1>8. \A n \in 1..Many(c) + 1 : Start(c)[n] \in Nat
    BY <1>1
  <1> QED
    BY <1>2, <1>4, <1>5, <1>6, <1>7, <1>8

\* A set of numbers that has any has a least one.
LEMMA LeastNumber ==
  ASSUME NEW T \in SUBSET Nat, T # {}
  PROVE  \E s \in T : \A r \in T : s <= r
  <1> SUFFICES ASSUME \A s \in T : \E r \in T : r < s
               PROVE  FALSE
    OBVIOUS
  <1> DEFINE D == {d \in Nat : \A s \in T : s > d}
  <1>1. 0 \in D
    OBVIOUS
  <1>2. \A d \in Nat : d \in D => d + 1 \in D
    <2> SUFFICES ASSUME NEW d \in Nat, \A s \in T : s > d, NEW t \in T PROVE t > d + 1
      OBVIOUS
    <2>1. PICK r \in T : r < t
      OBVIOUS
    <2>2. r > d
      OBVIOUS
    <2> QED
      BY <2>1, <2>2
  <1>3. Nat \subseteq D
    <2> HIDE DEF D
    <2> QED
      BY <1>1, <1>2, SetInduction
  <1>4. PICK t \in T : TRUE
    OBVIOUS
  <1>5. t \in D
    BY <1>3
  <1> QED
    BY <1>5

-----------------------------------------------------------------------------
(* Where the connections are: the inductive invariant                      *)

\* What a header or a payload in the buffer is, and what is written.
Parts == {NONE} \cup (Clients \X Nat)
Records == [head : Parts, body : Parts]

\* The variables keep their types, and no more is read than has arrived.
ConnTypeOK ==
  /\ fault \in [Clients -> Fault] /\ cut \in [Clients -> Nat]
  /\ client \in [Clients -> {"none", "open", "closed", "reset"}]
  /\ error \in [Clients -> BOOLEAN]
  /\ arrived \in [Clients -> Nat] /\ pos \in [Clients -> Nat]
  /\ \A c \in Clients : pos[c] <= arrived[c]
  /\ backlog \in Seq(Clients)
  /\ thread_pc \in {"accept", "header", "body", "write", "undefined"}
  /\ thread_pc # "accept" => conn_fd \in Clients
  /\ head \in Parts /\ body \in Parts /\ len \in Nat
  /\ written \in [Clients -> Seq(Records)]

\* Packets arrive whole where the network does not cut them.
Delivered(c) ==
  fault[c] # "cut" => cut[c] = 0 /\ \E m \in 1..Many(c) + 1 : arrived[c] = Start(c)[m]

\* Only a connection that may be reset is, and a read returns only that.
Resets(c) ==
  /\ client[c] = "reset" => fault[c] = "reset"
  /\ error[c] => client[c] = "reset"

\* The packets before the n-th are written.
Before(c, n) == \A k \in 1..n - 1 : written[c][k] = Whole(c, k)
Through(c, n) == Len(written[c]) = n - 1 /\ Before(c, n)
\* All that came before a reset is read, and the reset too: only the end is left.
Spent(c) == client[c] = "reset" /\ ~error[c] /\ pos[c] = arrived[c]

\* Where the thread is in the stream of c: between two packets, ...
Between(c) ==
  \E n \in 1..Many(c) + 1 :
    /\ pos[c] = Start(c)[n]
    /\ Through(c, n) \/ (Len(written[c]) = n /\ Before(c, n) /\ Spent(c))
\* ... behind a reset that it took for a header, ...
Astray(c) ==
  \E n \in 1..Many(c) + 1 : pos[c] = Start(c)[n] /\ Through(c, n) /\ Spent(c)
\* ... before the payload of the n-th packet, with its header, ...
AtBody(c) ==
  \E n \in Packets(c) :
    /\ pos[c] = Start(c)[n] + MSG_HEADER_LEN /\ arrived[c] >= Start(c)[n + 1]
    /\ head = <<c, n>> /\ len = Payloads[c][n]
    /\ Through(c, n)
\* ... or behind the n-th packet, with all of it.
AtWrite(c) ==
  \E n \in Packets(c) :
    /\ pos[c] = Start(c)[n + 1]
    /\ head = <<c, n>> /\ body = <<c, n>> /\ len = Payloads[c][n]
    /\ Through(c, n)

Placed(c) ==
  /\ ~(c = conn_fd /\ thread_pc \in {"body", "write"}) => Between(c)
  /\ (c = conn_fd /\ thread_pc = "body") => AtBody(c) \/ Astray(c)
  /\ (c = conn_fd /\ thread_pc = "write") => AtWrite(c) \/ Astray(c)
InPlace == thread_pc # "undefined" => \A c \in Clients : fault[c] # "cut" => Placed(c)

\* The inductive invariant.
ConnIInv ==
  /\ ConnTypeOK
  /\ \A c \in Clients : Delivered(c) /\ Resets(c)
  /\ InPlace

-----------------------------------------------------------------------------
(* The types                                                               *)

LEMMA ConnInitTypes ==
  ASSUME ConnInit
  PROVE  ConnTypeOK
  <1>1. cut \in [Clients -> {0} \cup Cuts] /\ {0} \cup Cuts \subseteq Nat
    BY CutsAssumption DEF ConnInit
  <1>2. cut \in [Clients -> Nat]
    BY <1>1
  <1> QED
    BY <1>2 DEF ConnInit, ConnTypeOK, Fault, Parts

\* A read takes what there is, and no more.
LEMMA ReadFacts ==
  ASSUME ConnTypeOK, conn_fd \in Clients, NEW n \in Nat, ReadSome(n)
  PROVE  /\ Available > 0 /\ Available \in Nat /\ Got(n) \in Nat
         /\ Available >= n => Got(n) = n
         /\ pos' = [pos EXCEPT ![conn_fd] = pos[conn_fd] + Got(n)]
         /\ pos' \in [Clients -> Nat]
         /\ \A c \in Clients : pos'[c] <= arrived[c]
  <1>1. Available \in Nat /\ Available > 0 /\ arrived[conn_fd] \in Nat /\ pos[conn_fd] \in Nat
    BY DEF ReadSome, Available, ConnTypeOK
  <1>2. Got(n) \in Nat /\ Got(n) <= Available /\ (Available >= n => Got(n) = n)
    BY <1>1 DEF Got
  <1>3. pos' = [pos EXCEPT ![conn_fd] = pos[conn_fd] + Got(n)]
    BY DEF ReadSome
  <1>4. pos[conn_fd] + Got(n) \in Nat /\ pos[conn_fd] + Got(n) <= arrived[conn_fd]
    BY <1>1, <1>2 DEF Available
  <1> HIDE DEF Got
  <1>5. pos' \in [Clients -> Nat]
    BY <1>3, <1>4 DEF ConnTypeOK
  <1>6. \A c \in Clients : pos'[c] <= arrived[c]
    BY <1>3, <1>4 DEF ConnTypeOK
  <1> QED
    BY <1>1, <1>2, <1>3, <1>5, <1>6

\* More of the stream arrives: up to the next stop of the network.
LEMMA ArriveFacts ==
  ASSUME ConnTypeOK, NEW c \in Clients, Arrive(c)
  PROVE  /\ arrived' \in [Clients -> Nat]
         /\ \A d \in Clients : arrived'[d] >= arrived[d] /\ (d # c => arrived'[d] = arrived[d])
         /\ Delivered(c) => Delivered(c)'
  <1> DEFINE stops == {Start(c)[n + 1] : n \in Packets(c)} \cup {cut[c]}
             ahead == {s \in stops : s > arrived[c]}
             next == CHOOSE s \in ahead : \A r \in ahead : s <= r
  <1>1. /\ arrived' = [arrived EXCEPT ![c] = next]
        /\ UNCHANGED <<fault, cut>> /\ arrived[c] < End(c)
    BY DEF Arrive
  <1>2. arrived[c] \in Nat /\ cut[c] \in Nat /\ Many(c) \in Nat
    BY Streams DEF ConnTypeOK
  <1>3. stops \subseteq Nat
    BY <1>2, StartFacts
  <1>4. ahead # {}
    <2>1. Many(c) # 0
      <3>1. Many(c) = 0 => End(c) = 0
        BY StartFacts
      <3> QED
        BY <1>1, <1>2, <3>1
    <2>2. Many(c) \in Packets(c)
      BY <1>2, <2>1, Streams
    <2>3. End(c) \in stops
      BY <2>2, StartFacts
    <2> HIDE DEF stops
    <2> QED
      BY <1>1, <2>3
  <1>5. next \in ahead /\ \A r \in ahead : next <= r
    <2>1. ahead \in SUBSET Nat
      BY <1>3
    <2> HIDE DEF ahead
    <2>2. \E s \in ahead : \A r \in ahead : s <= r
      BY <1>4, <2>1, LeastNumber
    <2> QED
      BY <2>2
  <1>6. next \in Nat /\ next > arrived[c]
    <2> HIDE DEF next, stops
    <2> QED
      BY <1>3, <1>5
  <1>7. Delivered(c) => Delivered(c)'
    <2> SUFFICES ASSUME fault[c] # "cut", cut[c] = 0, NEW m \in 1..Many(c) + 1, arrived[c] = Start(c)[m]
                 PROVE  \E n \in 1..Many(c) + 1 : next = Start(c)[n]
      <3>1. arrived'[c] = next
        BY <1>1 DEF ConnTypeOK
      <3> HIDE DEF next
      <3> QED
        BY <1>1, <3>1 DEF Delivered
    <2>1. cut[c] \notin ahead
      BY <1>2
    <2>2. next \in {Start(c)[n + 1] : n \in Packets(c)}
      <3> HIDE DEF next
      <3> QED
        BY <1>5, <2>1
    <2>3. PICK n \in Packets(c) : next = Start(c)[n + 1]
      <3> HIDE DEF next
      <3> QED
        BY <2>2
    <2>4. n + 1 \in 1..Many(c) + 1
      BY StartFacts
    <2> QED
      BY <2>3, <2>4
  <1> HIDE DEF next
  <1>8. arrived' \in [Clients -> Nat]
    BY <1>1, <1>6 DEF ConnTypeOK
  <1>9. \A d \in Clients : arrived'[d] >= arrived[d] /\ (d # c => arrived'[d] = arrived[d])
    BY <1>1, <1>6 DEF ConnTypeOK
  <1> QED
    BY <1>7, <1>8, <1>9

LEMMA ConnNextTypes ==
  ASSUME ConnTypeOK, [ConnNext]_conn_vars
  PROVE  ConnTypeOK'
  <1> USE DEF net
  <1>1. CASE UNCHANGED conn_vars
    BY <1>1 DEF conn_vars, ConnTypeOK
  <1>2. ASSUME NEW c \in Clients, ClientConnects(c)
        PROVE  ConnTypeOK'
    <2>1. backlog' \in Seq(Clients)
      BY <1>2 DEF ClientConnects, ConnTypeOK
    <2> QED
      BY <1>2, <2>1 DEF ClientConnects, ConnTypeOK
  <1>3. ASSUME NEW c \in Clients, Arrive(c)
        PROVE  ConnTypeOK'
    <2>1. /\ arrived' \in [Clients -> Nat]
          /\ \A d \in Clients : arrived'[d] >= arrived[d]
      BY <1>3, ArriveFacts
    <2>2. \A d \in Clients : pos[d] <= arrived'[d]
      BY <2>1 DEF ConnTypeOK
    <2> QED
      BY <1>3, <2>1, <2>2 DEF Arrive, ConnTypeOK
  <1>4. ASSUME NEW c \in Clients, Close(c) \/ Reset(c)
        PROVE  ConnTypeOK'
    BY <1>4 DEF Close, Reset, ConnTypeOK
  <1>5. CASE Accept
    <2>1. Head(backlog) \in Clients /\ Tail(backlog) \in Seq(Clients)
      BY <1>5 DEF Accept, ConnTypeOK
    <2> QED
      BY <1>5, <2>1 DEF Accept, ConnTypeOK
  <1>6. CASE HeaderEnds
    BY <1>6 DEF HeaderEnds, ConnTypeOK
  <1>7. CASE HeaderRead
    <2>1. conn_fd \in Clients /\ MSG_HEADER_LEN \in Nat
      BY <1>7, LengthsAssumption DEF HeaderRead, ConnTypeOK
    <2>2. pos' \in [Clients -> Nat] /\ \A c \in Clients : pos'[c] <= arrived[c]
      BY <1>7, <2>1, ReadFacts DEF HeaderRead
    <2>3. head' \in Parts /\ len' \in Nat
      <3>1. CASE \E n \in Packets(conn_fd) : pos[conn_fd] = Start(conn_fd)[n]
                 /\ head' = <<conn_fd, n>> /\ len' = Payloads[conn_fd][n]
        BY <2>1, <3>1, Streams DEF Parts
      <3>2. CASE head' = NONE /\ len' \in OtherLens
        BY <3>2, CutsAssumption DEF Parts
      <3> QED
        BY <1>7, <3>1, <3>2 DEF HeaderRead
    <2> QED
      BY <1>7, <2>1, <2>2, <2>3 DEF HeaderRead, ReadSome, ConnTypeOK
  <1>8. CASE HeaderFails
    <2>1. len' \in Nat
      BY <1>8, CutsAssumption DEF HeaderFails, ConnTypeOK
    <2> QED
      BY <1>8, <2>1 DEF HeaderFails, ReadFails, ConnTypeOK
  <1>9. CASE NoBody
    BY <1>9 DEF NoBody, ConnTypeOK
  <1>10. CASE BodyRead
    <2>1. conn_fd \in Clients /\ len \in Nat
      BY <1>10 DEF BodyRead, ConnTypeOK
    <2>2. pos' \in [Clients -> Nat] /\ \A c \in Clients : pos'[c] <= arrived[c]
      BY <1>10, <2>1, ReadFacts DEF BodyRead
    <2>3. body' \in Parts /\ thread_pc' \in {"write", "undefined"}
      BY <1>10 DEF BodyRead, Parts, ConnTypeOK
    <2> QED
      BY <1>10, <2>1, <2>2, <2>3 DEF BodyRead, ReadSome, ConnTypeOK
  <1>11. CASE BodyReadsNothing
    BY <1>11 DEF BodyReadsNothing, ReadFails, ConnTypeOK
  <1>12. CASE WriteData
    <2>1. [head |-> head, body |-> body] \in Records
      BY DEF Records, ConnTypeOK
    <2>2. conn_fd \in Clients
      BY <1>12 DEF WriteData, ConnTypeOK
    <2>3. Append(written[conn_fd], [head |-> head, body |-> body]) \in Seq(Records)
      BY <2>1, <2>2 DEF ConnTypeOK
    <2>4. written' \in [Clients -> Seq(Records)]
      BY <1>12, <2>3 DEF WriteData, ConnTypeOK
    <2> QED
      BY <1>12, <2>2, <2>4 DEF WriteData, ConnTypeOK
  <1> QED
    BY <1>1, <1>2, <1>3, <1>4, <1>5, <1>6, <1>7, <1>8, <1>9, <1>10, <1>11, <1>12
    DEF ConnNext, Thread, Client

-----------------------------------------------------------------------------
(* What arrives                                                            *)

LEMMA NextDelivered ==
  ASSUME ConnTypeOK, \A c \in Clients : Delivered(c) /\ Resets(c), [ConnNext]_conn_vars,
         NEW c \in Clients
  PROVE  Delivered(c)' /\ Resets(c)'
  <1> USE DEF net
  <1>1. CASE UNCHANGED conn_vars
    BY <1>1 DEF conn_vars, Delivered, Resets
  <1>2. ASSUME NEW d \in Clients, ClientConnects(d) \/ Close(d)
        PROVE  Delivered(c)' /\ Resets(c)'
    <2>1. UNCHANGED <<fault, cut, error, arrived>>
      BY <1>2 DEF ClientConnects, Close
    <2>2. client'[c] = "reset" => client[c] = "reset"
      BY <1>2 DEF ClientConnects, Close, ConnTypeOK
    <2>3. client[c] = "reset" => client'[c] = "reset"
      BY <1>2 DEF ClientConnects, Close, ConnTypeOK
    <2> QED
      BY <2>1, <2>2, <2>3 DEF Delivered, Resets
  <1>3. ASSUME NEW d \in Clients, Arrive(d)
        PROVE  Delivered(c)' /\ Resets(c)'
    <2>1. /\ Delivered(d) => Delivered(d)'
          /\ c # d => arrived'[c] = arrived[c]
      BY <1>3, ArriveFacts
    <2>2. UNCHANGED <<fault, cut, client, error>>
      BY <1>3 DEF Arrive
    <2> QED
      BY <2>1, <2>2 DEF Delivered, Resets
  <1>4. ASSUME NEW d \in Clients, Reset(d)
        PROVE  Delivered(c)' /\ Resets(c)'
    BY <1>4 DEF Reset, Delivered, Resets, ConnTypeOK
  <1>5. CASE Thread
    <2>1. UNCHANGED <<fault, cut, client, arrived>>
      BY <1>5 DEF Thread, Accept, HeaderEnds, HeaderRead, HeaderFails, NoBody, BodyRead,
                  BodyReadsNothing, WriteData
    <2>2. UNCHANGED error \/ error' = [error EXCEPT ![conn_fd] = FALSE]
      BY <1>5 DEF Thread, Accept, HeaderEnds, HeaderRead, HeaderFails, NoBody, BodyRead,
                  BodyReadsNothing, WriteData, ReadSome, ReadFails
    <2>3. error'[c] => error[c]
      BY <2>2 DEF ConnTypeOK
    <2> QED
      BY <2>1, <2>3 DEF Delivered, Resets
  <1> QED
    BY <1>1, <1>2, <1>3, <1>4, <1>5 DEF ConnNext, Client

-----------------------------------------------------------------------------
(* Where the thread is                                                     *)

\* What a client does, or the network, takes nothing back.
LEMMA NetworkStep ==
  ASSUME ConnTypeOK, NEW d \in Clients, Client(d) \/ Reset(d)
  PROVE  /\ UNCHANGED <<fault, thread_pc, conn_fd, pos, head, body, len, written>>
         /\ \A c \in Clients : arrived'[c] \in Nat /\ arrived'[c] >= arrived[c]
         /\ \A c \in Clients : Spent(c) => Spent(c)'
  <1>1. UNCHANGED <<fault, thread_pc, conn_fd, pos, head, body, len, written>>
    BY DEF Client, ClientConnects, Arrive, Close, Reset
  <1>2. \A c \in Clients : arrived'[c] \in Nat /\ arrived'[c] >= arrived[c]
    <2>1. CASE Arrive(d)
      BY <2>1, ArriveFacts
    <2>2. CASE ~Arrive(d)
      <3>1. arrived' = arrived
        BY <2>2 DEF Client, ClientConnects, Close, Reset
      <3>2. \A c \in Clients : arrived[c] \in Nat
        BY DEF ConnTypeOK
      <3> QED
        BY <3>1, <3>2
    <2> QED
      BY <2>1, <2>2
  <1>3. ASSUME NEW c \in Clients, Spent(c)
        PROVE  Spent(c)'
    <2>1. client[c] = "reset" /\ d # c
      <3>1. client[d] # "reset"
        BY DEF Client, ClientConnects, Arrive, Close, Reset
      <3> QED
        BY <1>3, <3>1 DEF Spent
    <2>2. client'[c] = client[c] /\ error'[c] = error[c]
      BY <2>1 DEF Client, ClientConnects, Arrive, Close, Reset, ConnTypeOK
    <2>3. arrived'[c] = arrived[c]
      <3>1. CASE Arrive(d)
        BY <2>1, <3>1, ArriveFacts
      <3>2. CASE ~Arrive(d)
        BY <3>2 DEF Client, ClientConnects, Close, Reset
      <3> QED
        BY <3>1, <3>2
    <2> QED
      BY <1>1, <1>3, <2>2, <2>3 DEF Spent
  <1> QED
    BY <1>1, <1>2, <1>3

LEMMA NetworkPlaced ==
  ASSUME ConnTypeOK, NEW d \in Clients, Client(d) \/ Reset(d), NEW c \in Clients, Placed(c)
  PROVE  Placed(c)'
  <1>1. /\ UNCHANGED <<thread_pc, conn_fd, pos, head, body, len, written>>
        /\ arrived'[c] \in Nat /\ arrived'[c] >= arrived[c] /\ arrived[c] \in Nat
        /\ Spent(c) => Spent(c)'
    BY NetworkStep DEF ConnTypeOK
  <1>2. \A n : (Before(c, n) => Before(c, n)') /\ (Through(c, n) => Through(c, n)')
    BY <1>1 DEF Before, Through
  <1>3. Between(c) => Between(c)'
    BY <1>1, <1>2 DEF Between
  <1>4. Astray(c) => Astray(c)'
    BY <1>1, <1>2 DEF Astray
  <1>5. AtBody(c) => AtBody(c)'
    <2> SUFFICES ASSUME NEW n \in Packets(c), arrived[c] >= Start(c)[n + 1]
                 PROVE  arrived'[c] >= Start(c)[n + 1]
      BY <1>1, <1>2 DEF AtBody
    <2>1. Start(c)[n + 1] \in Nat
      BY StartFacts
    <2> QED
      BY <1>1, <2>1
  <1>6. AtWrite(c) => AtWrite(c)'
    BY <1>1, <1>2 DEF AtWrite
  <1> QED
    BY <1>1, <1>3, <1>4, <1>5, <1>6 DEF Placed

\* A step of the thread concerns the connection that it has accepted.
LEMMA OthersWait ==
  ASSUME ConnTypeOK, Thread, NEW c \in Clients, c # conn_fd \/ Accept, Between(c)
  PROVE  Between(c)' /\ (c = conn_fd' => thread_pc' = "header")
  <1>1. UNCHANGED <<client, arrived>>
    BY DEF Thread, Accept, HeaderEnds, HeaderRead, HeaderFails, NoBody, BodyRead,
           BodyReadsNothing, WriteData, net
  <1>5. c = conn_fd' => thread_pc' = "header"
    <2>1. CASE Accept
      BY <2>1 DEF Accept
    <2>2. CASE HeaderEnds
      BY <2>2, NoneAssumption DEF HeaderEnds
    <2>3. CASE ~Accept /\ ~HeaderEnds
      BY <2>3 DEF Thread, HeaderRead, HeaderFails, NoBody, BodyRead, BodyReadsNothing, WriteData
    <2> QED
      BY <2>1, <2>2, <2>3
  <1>2. /\ pos' = pos \/ pos' = [pos EXCEPT ![conn_fd] = pos'[conn_fd]]
        /\ error' = error \/ error' = [error EXCEPT ![conn_fd] = FALSE]
        /\ written' = written \/ written' = [written EXCEPT ![conn_fd] = written'[conn_fd]]
    <2>1. ASSUME NEW n, ReadSome(n)
          PROVE  pos' = [pos EXCEPT ![conn_fd] = pos'[conn_fd]] /\ error' = error
      BY <2>1 DEF ReadSome, ConnTypeOK
    <2>2. CASE HeaderRead
      BY <2>1, <2>2 DEF HeaderRead
    <2>3. CASE BodyRead
      BY <2>1, <2>3 DEF BodyRead
    <2>4. CASE HeaderFails \/ BodyReadsNothing
      BY <2>4 DEF HeaderFails, BodyReadsNothing, ReadFails
    <2>5. CASE WriteData
      BY <2>5 DEF WriteData, ConnTypeOK
    <2>6. CASE Accept \/ HeaderEnds \/ NoBody
      BY <2>6 DEF Accept, HeaderEnds, NoBody
    <2> QED
      BY <2>2, <2>3, <2>4, <2>5, <2>6 DEF Thread
  <1>3. Accept => UNCHANGED <<pos, error, written>>
    BY DEF Accept
  <1>4. pos'[c] = pos[c] /\ error'[c] = error[c] /\ written'[c] = written[c]
    BY <1>2, <1>3 DEF ConnTypeOK
  <1>6. Between(c)'
    BY <1>1, <1>4 DEF Between, Through, Before, Spent
  <1> QED
    BY <1>5, <1>6

\* Between two packets a read finds a whole header, and its payload behind it.
LEMMA HeaderReadPlaced ==
  ASSUME ConnTypeOK, HeaderRead, fault[conn_fd] # "cut", Delivered(conn_fd), Between(conn_fd)
  PROVE  AtBody(conn_fd)'
  <1> DEFINE c == conn_fd
  <1>1. c \in Clients /\ MSG_HEADER_LEN \in Nat \ {0}
    BY LengthsAssumption DEF HeaderRead, ConnTypeOK
  <1>2. /\ Available > 0 /\ Available \in Nat
        /\ Available >= MSG_HEADER_LEN => Got(MSG_HEADER_LEN) = MSG_HEADER_LEN
        /\ pos' = [pos EXCEPT ![c] = pos[c] + Got(MSG_HEADER_LEN)]
    BY <1>1, ReadFacts DEF HeaderRead
  <1>3. PICK n \in 1..Many(c) + 1 :
          pos[c] = Start(c)[n] /\ (Through(c, n) \/ Spent(c))
    BY DEF Between
  <1>4. PICK m \in 1..Many(c) + 1 : arrived[c] = Start(c)[m]
    BY <1>1 DEF Delivered
  <1>5. Available = Start(c)[m] - Start(c)[n] /\ Start(c)[m] \in Nat /\ Start(c)[n] \in Nat
    BY <1>1, <1>3, <1>4, StartFacts DEF Available
  <1>6. n \in Packets(c) /\ Start(c)[n + 1] <= Start(c)[m]
    <2>1. Start(c)[n] < Start(c)[m]
      BY <1>2, <1>5
    <2> QED
      BY <1>1, <2>1, StartFacts
  <1>7. /\ Start(c)[n + 1] = Start(c)[n] + MSG_HEADER_LEN + Payloads[c][n]
        /\ Start(c)[n + 1] \in Nat /\ Payloads[c][n] \in Nat
    BY <1>1, <1>6, StartFacts, Streams
  <1>8. Available >= MSG_HEADER_LEN
    BY <1>1, <1>5, <1>6, <1>7
  <1>9. ~Spent(c) /\ Through(c, n)
    <2>1. pos[c] # arrived[c]
      BY <1>2, <1>3, <1>4, <1>5
    <2> QED
      BY <1>3, <2>1 DEF Spent
  <1>10. head' = <<c, n>> /\ len' = Payloads[c][n]
    <2>1. ASSUME NEW k \in Packets(c), pos[c] = Start(c)[k]
          PROVE  k = n
      <3>1. k \in 1..Many(c) + 1 /\ Start(c)[k] = Start(c)[n]
        BY <1>1, <1>3, <2>1, StartFacts
      <3> HIDE DEF c
      <3> QED
        BY <1>1, <3>1, StartFacts
    <2>2. (CHOOSE k \in Packets(c) : pos[c] = Start(c)[k]) = n
      BY <1>3, <1>6, <2>1
    <2> QED
      BY <1>3, <1>6, <1>8, <2>2 DEF HeaderRead
  <1>11. pos'[c] = Start(c)[n] + MSG_HEADER_LEN
    BY <1>1, <1>2, <1>3, <1>8 DEF ConnTypeOK
  <1>12. UNCHANGED <<conn_fd, arrived, written>>
    BY DEF HeaderRead, net
  <1>13. Through(c, n)'
    BY <1>9, <1>12 DEF Through, Before
  <1>14. arrived'[c] >= Start(c)[n + 1]
    BY <1>4, <1>6, <1>12
  <1>15. c' = c
    BY <1>12
  <1> HIDE DEF c
  <1>16. AtBody(c)'
    BY <1>6, <1>10, <1>11, <1>13, <1>14, <1>15 DEF AtBody
  <1> QED
    BY <1>16 DEF c

\* Between two packets a failed read is the reset behind the last of them.
LEMMA HeaderFailsPlaced ==
  ASSUME ConnTypeOK, HeaderFails, Resets(conn_fd), Between(conn_fd)
  PROVE  Astray(conn_fd)'
  <1>1. /\ UNCHANGED <<conn_fd, client, arrived, pos, written>>
        /\ error' = [error EXCEPT ![conn_fd] = FALSE]
        /\ error[conn_fd] /\ Available = 0 /\ conn_fd \in Clients
    BY DEF HeaderFails, ReadFails, net, ConnTypeOK
  <1>2. error'[conn_fd] = FALSE /\ arrived[conn_fd] = pos[conn_fd] /\ client[conn_fd] = "reset"
    BY <1>1 DEF Available, Resets, ConnTypeOK
  <1>3. Spent(conn_fd)'
    BY <1>1, <1>2 DEF Spent
  <1>4. PICK n \in 1..Many(conn_fd) + 1 : pos[conn_fd] = Start(conn_fd)[n] /\ Through(conn_fd, n)
    BY <1>1 DEF Between, Spent
  <1> QED
    BY <1>1, <1>3, <1>4 DEF Astray, Through, Before

\* A whole payload is read, or there is none to read.
LEMMA BodyPlaced ==
  ASSUME ConnTypeOK, NoBody \/ BodyRead \/ BodyReadsNothing, AtBody(conn_fd)
  PROVE  AtWrite(conn_fd)'
  <1>1. /\ UNCHANGED <<conn_fd, head, len, written, arrived>> /\ thread_pc = "body"
        /\ conn_fd \in Clients
    BY DEF NoBody, BodyRead, BodyReadsNothing, net, ConnTypeOK
  <1>2. PICK n \in Packets(conn_fd) :
          /\ pos[conn_fd] = Start(conn_fd)[n] + MSG_HEADER_LEN
          /\ arrived[conn_fd] >= Start(conn_fd)[n + 1]
          /\ head = <<conn_fd, n>> /\ len = Payloads[conn_fd][n]
          /\ Through(conn_fd, n)
    BY DEF AtBody
  <1>3. /\ Start(conn_fd)[n + 1] = pos[conn_fd] + len
        /\ len \in Nat /\ pos[conn_fd] \in Nat /\ arrived[conn_fd] \in Nat
    BY <1>1, <1>2, StartFacts DEF ConnTypeOK
  <1>4. Available >= len
    BY <1>2, <1>3 DEF Available
  <1>5. pos'[conn_fd] = pos[conn_fd] + len /\ body' = head
    <2>1. CASE NoBody
      BY <1>3, <2>1 DEF NoBody
    <2>2. CASE BodyRead
      <3>1. /\ pos' = [pos EXCEPT ![conn_fd] = pos[conn_fd] + Got(len)]
            /\ Got(len) = len
        BY <1>1, <1>3, <1>4, <2>2, ReadFacts DEF BodyRead
      <3> QED
        BY <1>1, <2>2, <3>1 DEF BodyRead, ConnTypeOK
    <2>3. CASE BodyReadsNothing
      <3>1. Available = 0 /\ len # 0
        BY <2>3 DEF BodyReadsNothing, ReadFails, AtEnd
      <3> QED
        BY <1>3, <1>4, <3>1
    <2> QED
      BY <2>1, <2>2, <2>3
  <1>6. Through(conn_fd, n)'
    BY <1>1, <1>2 DEF Through, Before
  <1> QED
    BY <1>1, <1>2, <1>3, <1>5, <1>6 DEF AtWrite

\* Behind a reset there is nothing to read.
LEMMA BodyAstray ==
  ASSUME ConnTypeOK, NoBody \/ BodyRead \/ BodyReadsNothing, Astray(conn_fd)
  PROVE  Astray(conn_fd)'
  <1>1. /\ UNCHANGED <<conn_fd, written, arrived, client>> /\ conn_fd \in Clients
    BY DEF NoBody, BodyRead, BodyReadsNothing, net, ConnTypeOK
  <1>2. Spent(conn_fd)
    BY DEF Astray
  <1>3. Available = 0
    BY <1>1, <1>2 DEF Spent, Available, ConnTypeOK
  <1>4. UNCHANGED <<pos, error>>
    <2>1. CASE NoBody
      BY <2>1 DEF NoBody
    <2>2. CASE BodyRead
      BY <1>3, <2>2 DEF BodyRead, ReadSome
    <2>3. CASE BodyReadsNothing
      BY <1>2, <2>3 DEF BodyReadsNothing, ReadFails, Spent
    <2> QED
      BY <2>1, <2>2, <2>3
  <1> QED
    BY <1>1, <1>4 DEF Astray, Spent, Through, Before

\* The packet written is the next one; or the buffer, once, behind a reset.
LEMMA WritePlaced ==
  ASSUME ConnTypeOK, WriteData, AtWrite(conn_fd) \/ Astray(conn_fd)
  PROVE  Between(conn_fd)'
  <1> DEFINE r == [head |-> head, body |-> body]
             w == written[conn_fd]
  <1>1. UNCHANGED <<conn_fd, client, error, arrived, pos>> /\ conn_fd \in Clients
    BY DEF WriteData, net, ConnTypeOK
  <1>2. w \in Seq(Records) /\ r \in Records
    BY <1>1 DEF Records, ConnTypeOK
  <1>3. written'[conn_fd] = IF MSG_HEADER_LEN + len > PACKAGE_SIZE THEN w ELSE Append(w, r)
    BY <1>1 DEF WriteData, ConnTypeOK
  <1>4. r = [head |-> head, body |-> body]
    OBVIOUS
  <1> HIDE DEF r
  <1>5. /\ Len(Append(w, r)) = Len(w) + 1 /\ Len(w) \in Nat
        /\ Append(w, r)[Len(w) + 1] = r
        /\ \A k \in 1..Len(w) : Append(w, r)[k] = w[k]
    BY <1>2
  <1>6. ASSUME NEW n \in 1..Many(conn_fd) + 1, Through(conn_fd, n)
        PROVE  /\ Len(w) = n - 1
               /\ \A k \in 1..n - 1 : w[k] = Whole(conn_fd, k) /\ Append(w, r)[k] = Whole(conn_fd, k)
    BY <1>5, <1>6 DEF Through, Before
  <1>7. CASE AtWrite(conn_fd)
    <2>1. PICK n \in Packets(conn_fd) :
            /\ pos[conn_fd] = Start(conn_fd)[n + 1]
            /\ head = <<conn_fd, n>> /\ body = <<conn_fd, n>> /\ len = Payloads[conn_fd][n]
            /\ Through(conn_fd, n)
      BY <1>7 DEF AtWrite
    <2>2. n \in 1..Many(conn_fd) + 1 /\ n + 1 \in 1..Many(conn_fd) + 1 /\ n \in Nat
      BY <1>1, <2>1, StartFacts, Streams
    <2>3. written'[conn_fd] = Append(w, r)
      <3>1. len \in Nat /\ MSG_HEADER_LEN + len <= PACKAGE_SIZE
        BY <1>1, <2>1, Streams
      <3>2. MSG_HEADER_LEN \in Nat /\ PACKAGE_SIZE \in Nat
        BY LengthsAssumption
      <3>3. ~(MSG_HEADER_LEN + len > PACKAGE_SIZE)
        BY <3>1, <3>2
      <3> QED
        BY <1>3, <3>3
    <2>4. r = Whole(conn_fd, n)
      BY <1>4, <2>1 DEF Whole
    <2>5. Len(w) = n - 1 /\ \A k \in 1..n - 1 : Append(w, r)[k] = Whole(conn_fd, k)
      BY <1>6, <2>1, <2>2
    <2>6. Len(Append(w, r)) = n /\ Append(w, r)[n] = Whole(conn_fd, n)
      BY <1>5, <2>2, <2>4, <2>5
    <2>7. ASSUME NEW k \in 1..(n + 1) - 1 PROVE Append(w, r)[k] = Whole(conn_fd, k)
      <3>1. k \in 1..n - 1 \/ k = n
        BY <2>2
      <3> QED
        BY <2>5, <2>6, <3>1
    <2>8. (n + 1) - 1 = n
      BY <2>2
    <2>9. Through(conn_fd, n + 1)'
      <3> HIDE DEF w
      <3> QED
        BY <1>1, <2>3, <2>6, <2>7, <2>8 DEF Through, Before, Whole
    <2> HIDE DEF w
    <2> QED
      BY <1>1, <2>1, <2>2, <2>9 DEF Between
  <1>8. CASE Astray(conn_fd)
    <2>1. PICK n \in 1..Many(conn_fd) + 1 :
            pos[conn_fd] = Start(conn_fd)[n] /\ Through(conn_fd, n) /\ Spent(conn_fd)
      BY <1>8 DEF Astray
    <2>2. Spent(conn_fd)'
      BY <1>1, <2>1 DEF Spent
    <2>3. Len(w) = n - 1 /\ \A k \in 1..n - 1 : w[k] = Whole(conn_fd, k) /\ Append(w, r)[k] = Whole(conn_fd, k)
      BY <1>6, <2>1
    <2>4. Len(Append(w, r)) = n
      <3>1. Many(conn_fd) \in Nat
        BY <1>1, Streams
      <3> QED
        BY <1>5, <2>3, <3>1
    <2> HIDE DEF w
    <2>5. Before(conn_fd, n)'
      BY <1>1, <1>3, <2>3 DEF Before, Whole
    <2>6. Len(written'[conn_fd]) = n - 1 \/ Len(written'[conn_fd]) = n
      BY <1>3, <2>3, <2>4
    <2> QED
      BY <1>1, <2>1, <2>2, <2>5, <2>6 DEF Between, Through
  <1> QED
    BY <1>7, <1>8

\* The thread's step keeps to the packets of the connection that it serves.
LEMMA ServedPlaced ==
  ASSUME ConnTypeOK, Thread, ~Accept, thread_pc' # "undefined", conn_fd \in Clients,
         fault[conn_fd] # "cut", Delivered(conn_fd), Resets(conn_fd), Placed(conn_fd)
  PROVE  \A c \in Clients : c = conn_fd => Placed(c)'
  <1> SUFFICES ASSUME NEW c \in Clients, c = conn_fd PROVE Placed(c)'
    OBVIOUS
  <1>1. CASE HeaderEnds
    <2>1. thread_pc = "header" /\ conn_fd' # c
      BY <1>1, NoneAssumption DEF HeaderEnds
    <2>2. Between(c)
      BY <2>1 DEF Placed
    <2>3. Between(c)'
      BY <1>1, <2>2 DEF HeaderEnds, net, Between, Through, Before, Spent
    <2> QED
      BY <2>1, <2>3 DEF Placed
  <1>2. CASE HeaderRead
    <2>1. thread_pc = "header" /\ thread_pc' = "body" /\ conn_fd' = c
      BY <1>2 DEF HeaderRead
    <2>2. Between(conn_fd)
      BY <2>1 DEF Placed
    <2>3. AtBody(conn_fd)'
      BY <1>2, <2>2, HeaderReadPlaced
    <2>4. AtBody(c)'
      BY <2>1, <2>3
    <2> QED
      BY <2>1, <2>4 DEF Placed
  <1>3. CASE HeaderFails
    <2>1. thread_pc = "header" /\ thread_pc' = "body" /\ conn_fd' = c
      BY <1>3 DEF HeaderFails
    <2>2. Between(conn_fd)
      BY <2>1 DEF Placed
    <2>3. Astray(conn_fd)'
      BY <1>3, <2>2, HeaderFailsPlaced
    <2>4. Astray(c)'
      BY <2>1, <2>3
    <2> QED
      BY <2>1, <2>4 DEF Placed
  <1>4. CASE NoBody \/ BodyRead \/ BodyReadsNothing
    <2>1. thread_pc = "body" /\ thread_pc' = "write" /\ conn_fd' = c
      BY <1>4 DEF NoBody, BodyRead, BodyReadsNothing
    <2>2. AtBody(conn_fd) \/ Astray(conn_fd)
      BY <2>1 DEF Placed
    <2>3. AtWrite(conn_fd)' \/ Astray(conn_fd)'
      BY <1>4, <2>2, BodyPlaced, BodyAstray
    <2>4. AtWrite(c)' \/ Astray(c)'
      BY <2>1, <2>3
    <2> QED
      BY <2>1, <2>4 DEF Placed
  <1>5. CASE WriteData
    <2>1. thread_pc = "write" /\ thread_pc' = "header" /\ conn_fd' = c
      BY <1>5 DEF WriteData
    <2>2. AtWrite(conn_fd) \/ Astray(conn_fd)
      BY <2>1 DEF Placed
    <2>3. Between(conn_fd)'
      BY <1>5, <2>2, WritePlaced
    <2>4. Between(c)'
      BY <2>1, <2>3
    <2> QED
      BY <2>1, <2>4 DEF Placed
  <1> QED
    BY <1>1, <1>2, <1>3, <1>4, <1>5 DEF Thread

LEMMA NextInPlace ==
  ASSUME ConnTypeOK, \A c \in Clients : Delivered(c) /\ Resets(c), InPlace, [ConnNext]_conn_vars
  PROVE  InPlace'
  <1>1. CASE UNCHANGED conn_vars
    BY <1>1 DEF conn_vars, net, InPlace, Placed, Between, AtBody, AtWrite, Astray, Through,
                Before, Spent, Whole
  <1>2. ASSUME NEW d \in Clients, Client(d) \/ Reset(d)
        PROVE  InPlace'
    <2>1. UNCHANGED <<fault, thread_pc>>
      BY <1>2, NetworkStep
    <2>2. \A c \in Clients : Placed(c) => Placed(c)'
      BY <1>2, NetworkPlaced
    <2> QED
      BY <2>1, <2>2 DEF InPlace
  <1>3. CASE Thread
    <2> SUFFICES ASSUME thread_pc' # "undefined", NEW c \in Clients, fault'[c] # "cut"
                 PROVE  Placed(c)'
      BY DEF InPlace
    <2>1. thread_pc # "undefined" /\ UNCHANGED fault
      BY <1>3 DEF Thread, Accept, HeaderEnds, HeaderRead, HeaderFails, NoBody, BodyRead,
                  BodyReadsNothing, WriteData, net
    <2>2. Placed(c)
      BY <2>1 DEF InPlace
    <2>3. CASE c # conn_fd \/ Accept
      <3>1. Between(c)
        BY <2>2, <2>3 DEF Placed, Accept
      <3>2. Between(c)' /\ (c = conn_fd' => thread_pc' = "header")
        BY <1>3, <2>3, <3>1, OthersWait
      <3> QED
        BY <3>2 DEF Placed
    <2>4. CASE c = conn_fd /\ ~Accept
      <3>1. conn_fd \in Clients /\ fault[conn_fd] # "cut" /\ Placed(conn_fd)
        BY <2>1, <2>2, <2>4
      <3> QED
        BY <1>3, <2>4, <3>1, ServedPlaced
    <2> QED
      BY <2>3, <2>4
  <1> QED
    BY <1>1, <1>2, <1>3 DEF ConnNext

-----------------------------------------------------------------------------
(* The invariant, and what follows from it                                 *)

LEMMA ConnStarts ==
  ASSUME ConnInit
  PROVE  ConnIInv
  <1>1. \A c \in Clients : /\ Start(c)[1] = 0 /\ 1 \in 1..Many(c) + 1
                           /\ arrived[c] = 0 /\ pos[c] = 0 /\ written[c] = <<>>
                           /\ client[c] = "none" /\ ~error[c]
    BY StartFacts DEF ConnInit
  <1>2. \A c \in Clients : Delivered(c)
    <2>1. \A c \in Clients : fault[c] # "cut" => cut[c] = 0
      BY DEF ConnInit
    <2> QED
      BY <1>1, <2>1 DEF Delivered
  <1>3. \A c \in Clients : Resets(c)
    BY <1>1 DEF Resets
  <1>4. \A c \in Clients : Through(c, 1)
    BY <1>1 DEF Through, Before
  <1>5. \A c \in Clients : Between(c)
    BY <1>1, <1>4 DEF Between
  <1>6. InPlace
    BY <1>5 DEF InPlace, Placed, ConnInit
  <1> QED
    BY <1>2, <1>3, <1>6, ConnInitTypes DEF ConnIInv

LEMMA ConnSteps ==
  ASSUME ConnIInv, [ConnNext]_conn_vars
  PROVE  ConnIInv'
  <1>1. ConnTypeOK'
    BY ConnNextTypes DEF ConnIInv
  <1>2. \A c \in Clients : Delivered(c)' /\ Resets(c)'
    BY NextDelivered DEF ConnIInv
  <1>3. InPlace'
    BY NextInPlace DEF ConnIInv
  <1> QED
    BY <1>1, <1>2, <1>3 DEF ConnIInv

\* For any clients, packets, cuts and resets: the thread is where a connection's
\* packets say it is, however the connections and the steps of the network follow
\* one another.
THEOREM ConnInvariance == ConnSpec => []ConnIInv
  <1>1. ConnInit => ConnIInv
    BY ConnStarts
  <1>2. ConnIInv /\ [ConnNext]_conn_vars => ConnIInv'
    BY ConnSteps
  <1> QED
    BY <1>1, <1>2, PTL DEF ConnSpec

\* The variables of the transfer server's connections keep their types, and the
\* thread never reads more than has arrived.
THEOREM ConnTypeCorrect == ConnSpec => []ConnTypeOK
  <1>1. ConnIInv => ConnTypeOK
    BY DEF ConnIInv
  <1> QED
    BY <1>1, ConnInvariance, PTL

\* The packets written are the first of those sent; or, with one more, their front is.
LEMMA WrittenPrefix ==
  ASSUME ConnTypeOK, NEW c \in Clients, NEW n \in 1..Many(c) + 1, Before(c, n)
  PROVE  /\ Len(written[c]) = n - 1 => IsPrefix(written[c], Sent(c))
         /\ Len(written[c]) = n => IsPrefix(Front(written[c]), Sent(c))
  <1> DEFINE w == written[c]
             t == Sent(c)
  <1>1. Many(c) \in Nat /\ n - 1 \in Nat /\ n - 1 <= Many(c) /\ w \in Seq(Records)
    BY Streams DEF ConnTypeOK
  <1>2. t = [k \in 1..Many(c) |-> Whole(c, k)]
    BY Streams DEF Sent
  <1>3. \A k \in 1..Many(c) : Whole(c, k) \in Records
    BY <1>1 DEF Whole, Records, Parts
  <1>4. t \in Seq(Records) /\ Len(t) = Many(c)
    <2> HIDE DEF t
    <2> QED
      BY <1>1, <1>2, <1>3
  <1>5. \A k \in 1..n - 1 : t[k] = Whole(c, k) /\ w[k] = Whole(c, k)
    BY <1>1, <1>2 DEF Before
  <1> HIDE DEF w, t
  <1>6. SubSeq(t, 1, n - 1) = [k \in 1..n - 1 |-> t[k]]
    BY <1>1, <1>4
  <1>7. ASSUME n - 1 <= Len(w)
        PROVE  SubSeq(w, 1, n - 1) = SubSeq(t, 1, n - 1) /\ Len(SubSeq(w, 1, n - 1)) = n - 1
    <2>1. SubSeq(w, 1, n - 1) = [k \in 1..n - 1 |-> w[k]]
      BY <1>1, <1>7
    <2>2. Len(SubSeq(w, 1, n - 1)) = n - 1
      BY <1>1, <1>7
    <2> QED
      BY <1>5, <1>6, <2>1, <2>2
  <1>8. ASSUME Len(w) = n - 1 PROVE IsPrefix(w, t)
    BY <1>1, <1>4, <1>7, <1>8 DEF IsPrefix
  <1>9. ASSUME Len(w) = n PROVE IsPrefix(Front(w), t)
    <2>1. Front(w) = SubSeq(w, 1, n - 1)
      BY <1>9 DEF Front
    <2>2. Front(w) = SubSeq(t, 1, n - 1) /\ Len(Front(w)) = n - 1
      BY <1>1, <1>7, <1>9, <2>1
    <2>3. SubSeq(Front(w), 1, n - 1) = SubSeq(t, 1, n - 1)
      <3>1. SubSeq(SubSeq(t, 1, n - 1), 1, n - 1) = SubSeq(t, 1, n - 1)
        BY <1>1, <1>4
      <3> QED
        BY <2>2, <3>1
    <2> QED
      BY <1>1, <1>4, <2>2, <2>3 DEF IsPrefix
  <1> QED
    BY <1>8, <1>9 DEF w, t

LEMMA PlacedInStep ==
  ASSUME ConnTypeOK, NEW c \in Clients, Placed(c)
  PROVE  \/ IsPrefix(written[c], Sent(c))
         \/ IsPrefix(Front(written[c]), Sent(c)) /\ client[c] = "reset" /\ ~error[c]
  <1>1. Packets(c) \subseteq 1..Many(c) + 1
    BY StartFacts
  <1>2. PICK n \in 1..Many(c) + 1 :
          Through(c, n) \/ (Len(written[c]) = n /\ Before(c, n) /\ Spent(c))
    BY <1>1 DEF Placed, Between, AtBody, AtWrite, Astray
  <1> QED
    BY <1>2, WrittenPrefix DEF Through, Spent

\* InStep (transfer_server.cpp, thread_main): what is written of a connection that
\* the network does not cut is what its client sent, packet by packet and in order,
\* whatever the connections before it brought; a reset adds at most one packet.
THEOREM PacketsInStep == ConnSpec => []InStep
  <1>1. ASSUME ConnIInv PROVE InStep
    <2> SUFFICES ASSUME thread_pc # "undefined", NEW c \in Clients, fault[c] # "cut"
                 PROVE  /\ fault[c] = "plain" => IsPrefix(written[c], Sent(c))
                        /\ \/ IsPrefix(written[c], Sent(c))
                           \/ IsPrefix(Front(written[c]), Sent(c)) /\ client[c] = "reset" /\ ~error[c]
      BY DEF InStep
    <2>1. Placed(c) /\ Resets(c) /\ ConnTypeOK
      BY <1>1 DEF ConnIInv, InPlace
    <2>2. \/ IsPrefix(written[c], Sent(c))
          \/ IsPrefix(Front(written[c]), Sent(c)) /\ client[c] = "reset" /\ ~error[c]
      BY <2>1, PlacedInStep
    <2>3. client[c] = "reset" => fault[c] = "reset"
      BY <2>1 DEF Resets
    <2> QED
      BY <2>2, <2>3
  <1> QED
    BY <1>1, ConnInvariance, PTL

=============================================================================

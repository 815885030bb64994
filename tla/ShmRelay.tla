------------------------------ MODULE ShmRelay ------------------------------
(***************************************************************************)
(* The relay between the transfer server and its reading processes         *)
(* (share_mem/w_datarecv.cpp with W_SemTable, W_ShmCtl and W_FifoCtl, and   *)
(* SendData of read_proc/transfer_client.cpp).                             *)
(*                                                                         *)
(* The writer, the one thread of the transfer server, puts packet after    *)
(* packet into the blocks of the shared memory, in a ring, and tells the   *)
(* reading processes in turn, each over its FIFO, which block to read.     *)
(* A reader waits for a notice, copies the block and sends it on.  One     *)
(* semaphore per block guards the two copies.  Nothing tells the writer    *)
(* that a block has been read: it is the rendezvous of the two opens of a   *)
(* FIFO that keeps it from running ahead.                                  *)
(*                                                                         *)
(* A FIFO is the kernel's: opening one end blocks until the other is open; *)
(* what was written is lost when both ends are closed; reading an empty    *)
(* FIFO blocks while a writer has it open and gives 0 bytes otherwise;     *)
(* writing one that no reader has open kills the writer (SIGPIPE).  The    *)
(* semaphores are the kernel's too: SEM_UNDO keeps, for each process, what  *)
(* its P and V have changed, and takes it back when the process ends.      *)
(***************************************************************************)
EXTENDS Integers, Sequences

CONSTANTS NBLK,       \* blocks of the shared memory (__shm_block_size)
          NPROC,      \* reading processes (__process_size)
          MaxPkt,     \* bound: packets the writer receives
          Scenarios,  \* the circumstances to consider, see Scenario
          NULL

ASSUME SizesAssumption == NBLK \in Nat \ {0} /\ NPROC \in Nat \ {0} /\ MaxPkt \in Nat
ASSUME NullAssumption == NULL \notin Int

\* attached: have the readers attached the shared memory, and reset the
\*   semaphores, before the first packet?
\* prompt: has whoever still has a FIFO open for one message closed it before
\*   the other side opens it for the next?  Nothing in the code makes it so.
\* alarms: may SIGALRM, armed by each packet sent, arrive while there is work?
\* refused: may the storage server refuse connections?
\* kills: may a process be killed, at any step?
Scenario == [attached : BOOLEAN, prompt : BOOLEAN, alarms : BOOLEAN, refused : BOOLEAN,
             kills : BOOLEAN]
ASSUME ScenarioAssumption == Scenarios \subseteq Scenario

Blocks == 0..NBLK - 1
Readers == 0..NPROC - 1
Writer == NPROC
Procs == 0..NPROC
Bad == -1              \* an index ReadData refuses
Half == -1             \* the packet in a block whose copy was cut short

VARIABLES
  scen,     \* the circumstances of this behaviour
  pc,       \* pc[p]: what process p does next
  hasShm,   \* hasShm[p]: has p attached (W_ShmCtl::HasShm)?
  at,       \* at[p]: the semaphore ResetSem sets next
  index,    \* index[p]: the block p works on
  sem,      \* sem[i]: the value of semaphore i
  adj,      \* adj[p][i]: what SEM_UNDO adds to semaphore i when p ends
  shm,      \* shm[i]: the packet in block i
  cnt,      \* packets the writer has received, and the last one's number
  id,       \* the reader the writer notifies
  buf,      \* buf[r]: the notices in r's FIFO
  wopen,    \* wopen[r]: has the writer r's FIFO open?
  ropen,    \* ropen[r]: has r its FIFO open?
  leaked,   \* leaked[r]: has r lost an open descriptor of its FIFO?
  told,     \* told[r]: the packet r was notified of, NULL if it was not
  data,     \* data[r]: r's copy of the block
  sock,     \* sock[r]: r's socket_fd: none, connected, or of a refused connect
  armed,    \* armed[r]: is r's alarm set?
  sent      \* sent[r]: what r has sent, with what it was notified of

env == <<scen, hasShm, at>>
mem == <<sem, adj, shm>>
fifo == <<buf, wopen, ropen, leaked>>
writer == <<cnt, id>>
reader == <<told, data>>
out == <<sock, armed, sent>>
vars == <<env, pc, index, mem, fifo, writer, reader, out>>

WriterPC == {"recv", "reset", "P", "copy", "V", "fopen", "fwait", "fwrite", "fclose", "dead"}
ReaderPC == {"reset", "fopen", "fwait", "fread", "fclose", "P", "copy", "V",
             "send", "write", "dead"}

Goto(p, label) == pc' = [pc EXCEPT ![p] = label]

Init ==
  /\ scen \in Scenarios
  /\ hasShm = [p \in Procs |-> scen.attached /\ p # Writer]
  /\ pc = [p \in Procs |-> IF p = Writer THEN "recv"
                           ELSE IF scen.attached THEN "fopen" ELSE "reset"]
  /\ at = [p \in Procs |-> 0]
  /\ index = [p \in Procs |-> 0]
  /\ sem = [i \in Blocks |-> 1]
  /\ adj = [p \in Procs |-> [i \in Blocks |-> 0]]
  /\ shm = [i \in Blocks |-> 0]
  /\ cnt = 0
  /\ id = 0
  /\ buf = [r \in Readers |-> <<>>]
  /\ wopen = [r \in Readers |-> FALSE]
  /\ ropen = [r \in Readers |-> FALSE]
  /\ leaked = [r \in Readers |-> FALSE]
  /\ told = [r \in Readers |-> NULL]
  /\ data = [r \in Readers |-> 0]
  /\ sock = [r \in Readers |-> "none"]
  /\ armed = [r \in Readers |-> FALSE]
  /\ sent = [r \in Readers |-> <<>>]

-----------------------------------------------------------------------------
(* The semaphores, used by every process.                                  *)

\* ShmReadInit attaches and ends with ResetSem, which sets the semaphores to 1
\* one after the other, whoever holds them; SETVAL forgets what was to be undone.
ResetSem(p) ==
  /\ pc[p] = "reset"
  /\ \/ /\ at[p] < NBLK
        /\ sem' = [sem EXCEPT ![at[p]] = 1]
        /\ adj' = [q \in Procs |-> [adj[q] EXCEPT ![at[p]] = 0]]
        /\ at' = [at EXCEPT ![p] = @ + 1]
        /\ UNCHANGED <<pc, hasShm>>
     \/ /\ at[p] = NBLK
        /\ hasShm' = [hasShm EXCEPT ![p] = TRUE]
        /\ Goto(p, IF p = Writer THEN "P" ELSE "fopen")
        /\ UNCHANGED <<sem, adj, at>>
  /\ UNCHANGED <<scen, index, shm, fifo, writer, reader, out>>

P(p) ==
  /\ pc[p] = "P"
  /\ sem[index[p]] > 0
  /\ sem' = [sem EXCEPT ![index[p]] = @ - 1]
  /\ adj' = [adj EXCEPT ![p][index[p]] = @ + 1]
  /\ Goto(p, "copy")
  /\ UNCHANGED <<env, index, shm, fifo, writer, reader, out>>

-----------------------------------------------------------------------------
(* The end of a process.                                                   *)

\* Mutant: P and V without SEM_UNDO.
NoUndo(p) == UNCHANGED <<sem, adj>>

\* SEM_UNDO takes back what p did to the semaphores, which stay at 0 or above.
Undo(p) ==
  /\ sem' = [i \in Blocks |-> IF sem[i] + adj[p][i] > 0 THEN sem[i] + adj[p][i] ELSE 0]
  /\ adj' = [adj EXCEPT ![p] = [i \in Blocks |-> 0]]

\* What p has open is closed, and a FIFO that nobody has open is empty.
Die(p) ==
  /\ Goto(p, "dead")
  /\ Undo(p)
  /\ wopen' = [r \in Readers |-> p # Writer /\ wopen[r]]
  /\ ropen' = [r \in Readers |-> r # p /\ ropen[r]]
  /\ leaked' = [r \in Readers |-> r # p /\ leaked[r]]
  /\ buf' = [r \in Readers |-> IF wopen'[r] \/ ropen'[r] \/ leaked'[r] THEN buf[r] ELSE <<>>]

\* p is killed; in the middle of its copy into a block, it may leave half of it.
Kill(p) ==
  /\ scen.kills
  /\ pc[p] # "dead"
  /\ Die(p)
  /\ \/ p = Writer /\ pc[p] = "copy" /\ shm' = [shm EXCEPT ![index[p]] = Half]
     \/ UNCHANGED shm
  /\ UNCHANGED <<env, index, writer, reader, out>>

-----------------------------------------------------------------------------
(* WriteData, called with each packet the transfer server receives.        *)

\* Mutant: the ring is not closed.
ReceiveInALine ==
  /\ pc[Writer] = "recv"
  /\ cnt < MaxPkt
  /\ cnt' = cnt + 1
  /\ index' = [index EXCEPT ![Writer] = @ + 1]
  /\ Goto(Writer, IF hasShm[Writer] THEN "P" ELSE "reset")
  /\ UNCHANGED <<env, mem, fifo, id, reader, out>>

Receive ==
  /\ pc[Writer] = "recv"
  /\ cnt < MaxPkt
  /\ cnt' = cnt + 1
  /\ index' = [index EXCEPT ![Writer] = (@ + 1) % NBLK]
  /\ Goto(Writer, IF hasShm[Writer] THEN "P" ELSE "reset")
  /\ UNCHANGED <<env, mem, fifo, id, reader, out>>

\* W_ShmCtl::Write
WriteBlock ==
  /\ pc[Writer] = "copy"
  /\ shm' = [shm EXCEPT ![index[Writer]] = cnt]
  /\ Goto(Writer, "V")
  /\ UNCHANGED <<env, index, sem, adj, fifo, writer, reader, out>>

\* Mutant: no V after the copy.
WriterWithoutV ==
  /\ pc[Writer] = "V"
  /\ id' = (id + 1) % NPROC
  /\ Goto(Writer, "fopen")
  /\ UNCHANGED <<env, index, mem, fifo, cnt, reader, out>>

\* V, and the choice of the reader to notify.
WriterV ==
  /\ pc[Writer] = "V"
  /\ sem' = [sem EXCEPT ![index[Writer]] = @ + 1]
  /\ adj' = [adj EXCEPT ![Writer][index[Writer]] = @ - 1]
  /\ id' = (id + 1) % NPROC
  /\ Goto(Writer, "fopen")
  /\ UNCHANGED <<env, index, shm, fifo, cnt, reader, out>>

\* Some descriptor of r's FIFO is open for reading.
Readable(r) == ropen[r] \/ leaked[r]

\* Mutant: opens with O_NONBLOCK, which fails when there is no reader; WriteData
\* returns false, and the server goes on to the next packet.
WriterOpenNonBlock ==
  /\ pc[Writer] = "fopen"
  /\ scen.prompt => pc[id] \notin {"fread", "fclose"}
  /\ \/ /\ Readable(id)
        /\ wopen' = [wopen EXCEPT ![id] = TRUE]
        /\ pc' = [pc EXCEPT ![Writer] = "fwrite",
                            ![id] = IF @ = "fwait" THEN "fread" ELSE @]
     \/ /\ ~Readable(id)
        /\ Goto(Writer, "recv")
        /\ UNCHANGED wopen
  /\ UNCHANGED <<env, index, mem, buf, ropen, leaked, writer, reader, out>>

\* FifoWrite: the open.  A reader blocked in its own open has the FIFO open, and
\* goes on.
WriterOpen ==
  /\ pc[Writer] = "fopen"
  /\ scen.prompt => pc[id] \notin {"fread", "fclose"}
  /\ wopen' = [wopen EXCEPT ![id] = TRUE]
  /\ pc' = [pc EXCEPT ![Writer] = IF Readable(id) THEN "fwrite" ELSE "fwait",
                      ![id] = IF @ = "fwait" THEN "fread" ELSE @]
  /\ UNCHANGED <<env, index, mem, buf, ropen, leaked, writer, reader, out>>

\* Mutant: notifies of the block after the one it has written.
WriterNotifiesOfNext ==
  /\ pc[Writer] = "fwrite"
  /\ \/ /\ Readable(id)
        /\ buf' = [buf EXCEPT ![id] =
                      Append(@, [index |-> (index[Writer] + 1) % NBLK, pkt |-> cnt])]
        /\ Goto(Writer, "fclose")
        /\ UNCHANGED <<sem, adj, wopen, ropen, leaked>>
     \/ ~Readable(id) /\ Die(Writer)
  /\ UNCHANGED <<env, index, shm, writer, reader, out>>

\* FifoWrite: the write.
WriterWrite ==
  /\ pc[Writer] = "fwrite"
  /\ \/ /\ Readable(id)
        /\ buf' = [buf EXCEPT ![id] = Append(@, [index |-> index[Writer], pkt |-> cnt])]
        /\ Goto(Writer, "fclose")
        /\ UNCHANGED <<sem, adj, wopen, ropen, leaked>>
     \/ ~Readable(id) /\ Die(Writer)
  /\ UNCHANGED <<env, index, shm, writer, reader, out>>

\* FifoWrite: the close.
WriterClose ==
  /\ pc[Writer] = "fclose"
  /\ wopen' = [wopen EXCEPT ![id] = FALSE]
  /\ buf' = IF Readable(id) THEN buf ELSE [buf EXCEPT ![id] = <<>>]
  /\ Goto(Writer, "recv")
  /\ UNCHANGED <<env, index, mem, ropen, leaked, writer, reader, out>>

-----------------------------------------------------------------------------
(* ReadFileTest: ReadData and SendData for ever.                           *)

\* FifoRead: the open.  A writer blocked in its open goes on.
ReaderOpen(r) ==
  /\ pc[r] = "fopen"
  /\ scen.prompt => ~(pc[Writer] = "fclose" /\ id = r)
  /\ ropen' = [ropen EXCEPT ![r] = TRUE]
  /\ pc' = [pc EXCEPT ![r] = IF wopen[r] THEN "fread" ELSE "fwait",
                      ![Writer] = IF @ = "fwait" /\ id = r THEN "fwrite" ELSE @]
  /\ UNCHANGED <<env, index, mem, buf, wopen, leaked, writer, reader, out>>

\* FifoRead: the read.  With no message and no writer it returns 0, and the
\* index is what the uninitialised buffer says.
ReaderRead(r) ==
  /\ pc[r] = "fread"
  /\ \/ /\ buf[r] # <<>>
        /\ index' = [index EXCEPT ![r] = Head(buf[r]).index]
        /\ told' = [told EXCEPT ![r] = Head(buf[r]).pkt]
        /\ buf' = [buf EXCEPT ![r] = Tail(@)]
     \/ /\ buf[r] = <<>> /\ ~wopen[r]
        /\ \E i \in Blocks \cup {Bad} : index' = [index EXCEPT ![r] = i]
        /\ told' = [told EXCEPT ![r] = NULL]
        /\ UNCHANGED buf
  /\ Goto(r, "fclose")
  /\ UNCHANGED <<env, mem, wopen, ropen, leaked, writer, data, out>>

\* FifoRead: the close; ReadData gives up on an index out of range.
ReaderClose(r) ==
  /\ pc[r] = "fclose"
  /\ ropen' = [ropen EXCEPT ![r] = FALSE]
  /\ buf' = IF wopen[r] \/ leaked[r] THEN buf ELSE [buf EXCEPT ![r] = <<>>]
  /\ Goto(r, IF index[r] = Bad THEN "fopen" ELSE "P")
  /\ UNCHANGED <<env, index, mem, wopen, leaked, writer, reader, out>>

\* W_ShmCtl::Read
ReadBlock(r) ==
  /\ pc[r] = "copy"
  /\ data' = [data EXCEPT ![r] = shm[index[r]]]
  /\ Goto(r, "V")
  /\ UNCHANGED <<env, index, mem, fifo, writer, told, out>>

ReaderV(r) ==
  /\ pc[r] = "V"
  /\ sem' = [sem EXCEPT ![index[r]] = @ + 1]
  /\ adj' = [adj EXCEPT ![r][index[r]] = @ - 1]
  /\ Goto(r, "send")
  /\ UNCHANGED <<env, index, shm, fifo, writer, reader, out>>

\* SendData: Connect2Server, if there is no socket.  A refused connect leaves the
\* new socket in socket_fd; ReadFileTest ignores the failure.
Connect(r) ==
  /\ pc[r] = "send"
  /\ \/ /\ sock[r] # "none"
        /\ Goto(r, "write")
        /\ UNCHANGED sock
     \/ /\ sock[r] = "none"
        /\ sock' = [sock EXCEPT ![r] = "connected"]
        /\ Goto(r, "write")
     \/ /\ sock[r] = "none" /\ scen.refused
        /\ sock' = [sock EXCEPT ![r] = "refused"]
        /\ Goto(r, "fopen")
  /\ UNCHANGED <<env, index, mem, fifo, writer, reader, armed, sent>>

\* SendData: the write, whose result is ignored, and alarm(60).  The write fails
\* if the alarm has closed the socket meanwhile, and kills the reader (SIGPIPE)
\* if the socket was never connected: the descriptors it leaked go with it.
Send(r) ==
  /\ pc[r] = "write"
  /\ \/ /\ sock[r] # "refused"
        /\ sent' = IF sock[r] = "none" THEN sent
                   ELSE [sent EXCEPT ![r] = Append(@, [pkt |-> data[r], told |-> told[r]])]
        /\ armed' = [armed EXCEPT ![r] = TRUE]
        /\ Goto(r, "fopen")
        /\ UNCHANGED <<sem, adj, fifo>>
     \/ sock[r] = "refused" /\ Die(r) /\ UNCHANGED <<sent, armed>>
  /\ UNCHANGED <<env, index, shm, writer, reader, sock>>

\* sig_alarm closes the connection.  A blocked call of the reader fails with
\* EINTR: the open, after which ReadData is called again; the read, after which
\* it is called again and the descriptor stays open; or P, whose failure goes
\* unnoticed.
Alarm(r) ==
  /\ scen.alarms
  /\ armed[r]
  /\ armed' = [armed EXCEPT ![r] = FALSE]
  /\ sock' = [sock EXCEPT ![r] = "none"]
  /\ \/ /\ pc[r] = "fwait"
        /\ Goto(r, "fopen")
        /\ ropen' = [ropen EXCEPT ![r] = FALSE]
        /\ buf' = IF leaked[r] THEN buf ELSE [buf EXCEPT ![r] = <<>>]
        /\ UNCHANGED leaked
     \/ /\ pc[r] = "fread" /\ buf[r] = <<>> /\ wopen[r]
        /\ Goto(r, "fopen")
        /\ ropen' = [ropen EXCEPT ![r] = FALSE]
        /\ leaked' = [leaked EXCEPT ![r] = TRUE]
        /\ UNCHANGED buf
     \/ /\ pc[r] = "P" /\ sem[index[r]] = 0
        /\ Goto(r, "copy")
        /\ UNCHANGED <<buf, ropen, leaked>>
     \/ /\ pc[r] \notin {"fwait", "fread", "P"}
        /\ UNCHANGED <<pc, buf, ropen, leaked>>
  /\ UNCHANGED <<env, index, mem, wopen, writer, reader, sent>>

-----------------------------------------------------------------------------
WriterStep ==
  \/ Receive \/ ResetSem(Writer) \/ P(Writer) \/ WriteBlock \/ WriterV
  \/ WriterOpen \/ WriterWrite \/ WriterClose

ReaderStep(r) ==
  \/ ResetSem(r) \/ ReaderOpen(r) \/ ReaderRead(r) \/ ReaderClose(r)
  \/ P(r) \/ ReadBlock(r) \/ ReaderV(r) \/ Connect(r) \/ Send(r)

WriterDone == pc[Writer] = "dead" \/ (pc[Writer] = "recv" /\ cnt = MaxPkt)

\* No packet is left to receive, or the writer is dead or waits for a dead
\* reader; and the readers wait for a notice or are dead.
Idle ==
  /\ WriterDone \/ (pc[Writer] = "fwait" /\ pc[id] = "dead")
  /\ \A r \in Readers : pc[r] \in {"fwait", "dead"}
  /\ UNCHANGED vars

Next ==
  \/ Idle \/ WriterStep
  \/ \E r \in Readers : ReaderStep(r) \/ Alarm(r)
  \/ \E p \in Procs : Kill(p)

Spec == Init /\ [][Next]_vars

\* The processes run on, each blocked only by the calls modelled above.
FairSpec == Spec /\ WF_vars(WriterStep) /\ \A r \in Readers : WF_vars(ReaderStep(r))

-----------------------------------------------------------------------------
(* Properties                                                              *)

Notice == [index : Blocks, pkt : Nat]
Packet == Nat \cup {Half}
Sending == [pkt : Packet, told : Nat \cup {NULL}]

\* Each process is at one of its steps, and the index it uses on a semaphore and
\* a block is in range.
InRange ==
  /\ pc \in [Procs -> WriterPC \cup ReaderPC]
  /\ pc[Writer] \in WriterPC
  /\ \A r \in Readers : pc[r] \in ReaderPC
  /\ index \in [Procs -> Blocks \cup {Bad}]
  /\ index[Writer] \in Blocks
  /\ \A r \in Readers : pc[r] \in {"P", "copy", "V"} => index[r] \in Blocks

\* The variables have their types.
TypeOK ==
  /\ InRange
  /\ scen \in Scenario
  /\ hasShm \in [Procs -> BOOLEAN]
  /\ at \in [Procs -> 0..NBLK]
  /\ sem \in [Blocks -> Nat]
  /\ adj \in [Procs -> [Blocks -> Int]]
  /\ shm \in [Blocks -> Packet]
  /\ cnt \in Nat
  /\ id \in Readers
  /\ buf \in [Readers -> Seq(Notice)]
  /\ wopen \in [Readers -> BOOLEAN]
  /\ ropen \in [Readers -> BOOLEAN]
  /\ leaked \in [Readers -> BOOLEAN]
  /\ told \in [Readers -> Nat \cup {NULL}]
  /\ data \in [Readers -> Packet]
  /\ sock \in [Readers -> {"none", "connected", "refused"}]
  /\ armed \in [Readers -> BOOLEAN]
  /\ sent \in [Readers -> Seq(Sending)]

\* p has passed P on its block's semaphore and not yet V.
Holds(p, i) == pc[p] \in {"copy", "V"} /\ index[p] = i

\* Nobody resets the semaphores in use, and no signal makes P fail.
Steady == scen.attached /\ ~scen.alarms

\* What the semaphores count: one unit per block, on the semaphore or with the
\* process that copies the block.
SemaphoreCounts ==
  Steady =>
    \A i \in Blocks :
      /\ sem[i] \in {0, 1}
      /\ sem[i] = 1 => \A p \in Procs : ~Holds(p, i)
      /\ sem[i] = 0 => \E p \in Procs : Holds(p, i)

\* Two processes never copy into or out of one block at the same time.
MutualExclusion ==
  Steady => \A p, q \in Procs, i \in Blocks : Holds(p, i) /\ Holds(q, i) => p = q

\* A block is with one process at a time and its semaphore says so: two copies
\* never meet, and a process that is killed inside its copy keeps no block from
\* the others, nor leaves one unguarded by a unit too many.
BlocksGuarded == SemaphoreCounts /\ MutualExclusion

\* The writer's reset comes before any reader can be woken, the readers' before
\* the first packet.
ResetBeforeUse ==
  scen.attached =>
    /\ \A r \in Readers : pc[r] # "reset"
    /\ pc[Writer] = "reset" => ~hasShm[Writer]
    /\ ~hasShm[Writer] =>
         /\ pc[Writer] \in {"recv", "reset", "dead"}
         /\ \A r \in Readers : pc[r] \in {"fopen", "fwait", "dead"} /\ ~wopen[r]

\* What is to be undone is the P of a copy that goes on.
UndoesItsP ==
  Steady => \A p \in Procs, i \in Blocks : adj[p][i] = IF Holds(p, i) THEN 1 ELSE 0

\* The inductive invariant behind the mutual exclusion of the copies.
IInv == TypeOK /\ ResetBeforeUse /\ SemaphoreCounts /\ UndoesItsP /\ MutualExclusion

\* Where processes may be killed, the writer has not been.
WriterLives == scen.kills => pc[Writer] # "dead"

\* Whatever the timing, what a reader sends is never older than the packet it was
\* told of: the block it was told of holds that packet, or a later one the writer
\* has put into the same block since; until the writer is killed, maybe while it
\* writes that block.
NeverStale ==
  Steady /\ WriterLives =>
    \A r \in Readers : \A k \in DOMAIN sent[r] :
      LET s == sent[r][k] IN
        s.told # NULL => s.pkt >= s.told /\ s.pkt % NBLK = s.told % NBLK

\* Block i has packet n, or one put there in a later round.
Current(i, n) == n <= shm[i] /\ shm[i] % NBLK = i /\ n % NBLK = i

\* What is behind NeverStale: the writer is at its place in the ring and what it announces
\* is in the block; a notice stays good in the FIFO and with the reader that took
\* it, and so does what that reader copies.
InRing == index[Writer] = cnt % NBLK

Announced ==
  /\ \A i \in Blocks : shm[i] \in Nat /\ shm[i] <= cnt
  /\ pc[Writer] \in {"V", "fopen", "fwait", "fwrite"} => shm[index[Writer]] = cnt

NoticesHold(r) ==
  /\ \A k \in DOMAIN buf[r] : Current(buf[r][k].index, buf[r][k].pkt)
  /\ pc[r] \in {"fclose", "P", "copy"} /\ told[r] # NULL => Current(index[r], told[r])
  /\ pc[r] \in {"V", "send", "write"} /\ told[r] # NULL =>
       data[r] >= told[r] /\ data[r] % NBLK = told[r] % NBLK
  /\ \A k \in DOMAIN sent[r] :
       LET s == sent[r][k] IN
         s.told # NULL => s.pkt >= s.told /\ s.pkt % NBLK = s.told % NBLK

NoneStale ==
  /\ InRing
  /\ WriterLives => Announced /\ \A r \in Readers : NoticesHold(r)

\* The k-th packet the writer hands to r, when it hands packet n to n % NPROC.
Dealt(r, k) == (IF r = 0 THEN NPROC ELSE r) + (k - 1) * NPROC

\* The writer never looks whether a block has been read, and yet, when both sides
\* close the FIFO in time, each reader sends the packets dealt to it, each once
\* and in order: nothing is overwritten before it is read, lost, repeated or
\* garbled, because the writer's open waits for a reader that is busy.  Readers
\* that are killed do not disturb the others; the death of the writer between its
\* open and its write does.
ExactlyOnce ==
  scen.prompt /\ ~scen.alarms /\ ~scen.refused /\ WriterLives =>
    \A r \in Readers : \A k \in DOMAIN sent[r] : sent[r][k].pkt = Dealt(r, k)

\* The writer is never stuck in a rendezvous, as long as no reader has been killed,
\* by a signal or for writing to a refused socket: it receives all there is to receive, or is
\* killed by its own write.
WriterGoesOn == ~scen.refused /\ ~scen.kills => <>[]WriterDone

\* And then every packet is sent in the end, none of the processes being
\* blocked for ever or killed.
AllSent ==
  scen.prompt /\ ~scen.alarms /\ ~scen.refused /\ ~scen.kills =>
    <>(\A n \in 1..MaxPkt : \E r \in Readers : \E k \in DOMAIN sent[r] : sent[r][k].pkt = n)

\* The relay goes on: the semaphores, the opens of the FIFOs and the sockets, on
\* which the processes wait for each other in turn, form no cycle that stops the
\* writer or, in calm circumstances, keeps a packet from being sent.
RelayGoesOn == WriterGoesOn /\ AllSent
=============================================================================

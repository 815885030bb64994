---------------------------- MODULE PendingFile ----------------------------
(***************************************************************************)
(* The table of unfinished files of the storage server                     *)
(* (storage_server/PendingFile.cpp).  Each of the server's threads serves  *)
(* one connection and hands the packets it reads, in their order, to       *)
(*   SS_SetPendingFileSize    (a packet "N": the file's header),           *)
(*   SS_WriteData2PendingFile (a packet "D": a block of the file),         *)
(*   SS_ClosePendingFile      (a packet "E": the end of the file).         *)
(* The packets of one file come over several connections, so these three   *)
(* run concurrently, in any order, on one shared PendingFile object.       *)
(*                                                                         *)
(* Sizes and offsets count blocks: a data packet carries one block, or     *)
(* none (the empty packet the client sends after a file whose size is a    *)
(* multiple of a packet).  What block k of a file contains is k itself.    *)
(***************************************************************************)
EXTENDS Integers, Sequences

CONSTANTS Threads,      \* threads of the storage server, one per connection
          FileIDs,      \* identities of files (FileID: the sha1 of the content)
          Objects,      \* PendingFile objects that can be allocated
          Fds,          \* descriptor numbers the process can open
          Streams,      \* what the connections may bring: a packet sequence each
          DiskKinds,    \* TRUE in it: a disk on which open and write succeed
          NULL

Packet == [type : {"N"}, id : FileIDs, size : Nat]
             \cup [type : {"D"}, id : FileIDs, offset : Nat, len : {0, 1}]
             \cup [type : {"E"}, id : FileIDs]

ASSUME NullAssumption ==
  NULL \notin Threads \cup FileIDs \cup Objects \cup [file : FileIDs, pos : Nat]
ASSUME FdsAssumption == Fds \subseteq Nat
ASSUME StreamsAssumption == Streams \subseteq [Threads -> Seq(Packet)]
ASSUME DiskAssumption == DiskKinds \subseteq BOOLEAN

NoFd == -1              \* opened_fd of an object that has no open file

VARIABLES
  stream,    \* stream[t]: the packets connection t brings, from first to last
  disk_ok,   \* do open and write always succeed?
  todo,      \* todo[t]: the packets thread t has not finished
  pc,        \* pc[t]: what thread t does next
  fp,        \* fp[t]: the object thread t works on
  st,        \* is object o not yet allocated, live, or deleted?
  file_id, file_size, dl_size, opened_fd,   \* the fields of object o
  flock,     \* the thread that holds o's mutex across steps, or NULL
  fsize_cond,\* the threads that sleep on o's condition
  table,     \* HTable: the objects linked in the hash table
  fds,       \* the process's descriptors: the file and the position, or NULL
  disk,      \* disk[f]: the <<position, block>> pairs stored in file f
  server     \* "up", or "undefined" once an object is used after its deletion

env == <<stream, disk_ok>>
life == <<st, file_id>>
sizes == <<file_size, dl_size>>
objects == <<life, sizes, opened_fd, flock, fsize_cond>>
vars == <<env, todo, pc, fp, objects, table, fds, disk, server>>

PC == {"next", "add", "size", "open", "seek", "write", "count",
       "check", "wait", "unlink", "delete"}

Init ==
  /\ stream \in Streams
  /\ disk_ok \in DiskKinds
  /\ todo = stream
  /\ pc = [t \in Threads |-> "next"]
  /\ fp = [t \in Threads |-> NULL]
  /\ st = [o \in Objects |-> "unborn"]
  /\ file_id = [o \in Objects |-> NULL]
  /\ file_size = [o \in Objects |-> -1]
  /\ dl_size = [o \in Objects |-> 0]
  /\ opened_fd = [o \in Objects |-> NoFd]
  /\ flock = [o \in Objects |-> NULL]
  /\ fsize_cond = [o \in Objects |-> {}]
  /\ table = {}
  /\ fds = [d \in Fds |-> NULL]
  /\ disk = [f \in FileIDs |-> {}]
  /\ server = "up"

-----------------------------------------------------------------------------
Packet0(t) == Head(todo[t])                 \* the packet thread t handles
Goto(t, label) == pc' = [pc EXCEPT ![t] = label]

\* The step that follows GetPendingFile in the handler of a packet.
Handler(p) == CASE p.type = "N" -> "size"
                [] p.type = "D" -> "open"
                [] p.type = "E" -> "check"

\* Thread t is at a step that uses the object it holds ...
Uses(t) == pc[t] \in {"size", "open", "seek", "write", "count", "check", "unlink"}
\* ... and that object has not been deleted; if it has, see UseDeleted.
Enter(t, label) ==
  /\ server = "up"
  /\ pc[t] = label
  /\ st[fp[t]] = "live"

\* pthread_mutex_lock(&fp->flock) can return to t.
FlockFree(t) == flock[fp[t]] = NULL

\* pthread_cond_signal(&fp->fsize_cond): one sleeper, if there is any, goes
\* back to the test of its loop.
SignalAndGoto(t, label) ==
  LET o == fp[t] IN
  \/ /\ fsize_cond[o] = {}
     /\ Goto(t, label)
     /\ UNCHANGED fsize_cond
  \/ \E w \in fsize_cond[o] :
       /\ pc' = [pc EXCEPT ![w] = "check", ![t] = label]
       /\ fsize_cond' = [fsize_cond EXCEPT ![o] = @ \ {w}]

-----------------------------------------------------------------------------
(* GetPendingFile, called first by each of the three handlers.             *)

\* FindPendingFileByHash, under the read lock of the table.
FindPendingFileByHash(t) ==
  /\ server = "up"
  /\ pc[t] = "next"
  /\ todo[t] # <<>>
  /\ \/ \E o \in table :
          /\ file_id[o] = Packet0(t).id
          /\ fp' = [fp EXCEPT ![t] = o]
          /\ Goto(t, Handler(Packet0(t)))
     \/ /\ \A o \in table : file_id[o] # Packet0(t).id
        /\ Goto(t, "add")
        /\ UNCHANGED fp
  /\ UNCHANGED <<env, todo, objects, table, fds, disk, server>>

\* PendingFile::PendingFile; the other fields have the constructor's values in
\* an object that was never allocated.
NewPendingFile(o, f) ==
  /\ st' = [st EXCEPT ![o] = "live"]
  /\ file_id' = [file_id EXCEPT ![o] = f]

\* Mutant: links the new object without a second look at the table.
AddWithoutLooking(t) ==
  /\ server = "up"
  /\ pc[t] = "add"
  /\ LET new == CHOOSE o \in Objects : st[o] = "unborn"
     IN  /\ \E o \in Objects : st[o] = "unborn"
         /\ NewPendingFile(new, Packet0(t).id)
         /\ table' = table \cup {new}
         /\ fp' = [fp EXCEPT ![t] = new]
  /\ Goto(t, Handler(Packet0(t)))
  /\ UNCHANGED <<env, todo, sizes, opened_fd, flock, fsize_cond, fds, disk, server>>

\* AddPendingFile2Hash, under the write lock, with the object just allocated:
\* it is linked unless another thread has linked one in the meantime.
AddPendingFile2Hash(t) ==
  /\ server = "up"
  /\ pc[t] = "add"
  /\ \/ \E o \in table :
          /\ file_id[o] = Packet0(t).id
          /\ fp' = [fp EXCEPT ![t] = o]
          /\ UNCHANGED <<life, table>>
     \/ /\ \A o \in table : file_id[o] # Packet0(t).id
        /\ LET new == CHOOSE o \in Objects : st[o] = "unborn"
           IN  /\ \E o \in Objects : st[o] = "unborn"
               /\ NewPendingFile(new, Packet0(t).id)
               /\ table' = table \cup {new}
               /\ fp' = [fp EXCEPT ![t] = new]
  /\ Goto(t, Handler(Packet0(t)))
  /\ UNCHANGED <<env, todo, sizes, opened_fd, flock, fsize_cond, fds, disk, server>>

-----------------------------------------------------------------------------
\* SS_SetPendingFileSize: one section under flock.
SetPendingFileSize(t) ==
  /\ Enter(t, "size")
  /\ FlockFree(t)
  /\ file_size' = [file_size EXCEPT ![fp[t]] = Packet0(t).size]
  /\ SignalAndGoto(t, "next")
  /\ todo' = [todo EXCEPT ![t] = Tail(@)]
  /\ UNCHANGED <<env, fp, life, dl_size, opened_fd, flock, table, fds, disk, server>>

-----------------------------------------------------------------------------
(* SS_WriteData2PendingFile: a section under flock, lseek and write with   *)
(* no lock, and a second section under flock.                              *)

FreeFds == {d \in Fds : fds[d] = NULL}
LowestFree == {d \in FreeFds : \A e \in FreeFds : d <= e}

\* The first thread that needs the file opens it; open may fail, which leaves
\* opened_fd at -1.
OpenFile(t) ==
  LET o == fp[t] IN
  /\ Enter(t, "open")
  /\ FlockFree(t)
  /\ \/ /\ opened_fd[o] < 0
        /\ \E d \in LowestFree :
             /\ opened_fd' = [opened_fd EXCEPT ![o] = d]
             /\ fds' = [fds EXCEPT ![d] = [file |-> Packet0(t).id, pos |-> 0]]
     \/ /\ opened_fd[o] < 0
        /\ ~disk_ok \/ FreeFds = {}
        /\ UNCHANGED <<opened_fd, fds>>
     \/ /\ opened_fd[o] >= 0
        /\ UNCHANGED <<opened_fd, fds>>
  /\ Goto(t, "seek")
  /\ UNCHANGED <<env, todo, fp, life, sizes, flock, fsize_cond, table, disk, server>>

IsOpen(d) == d \in Fds /\ fds[d] # NULL

\* Mutant: lseek from the current position (SEEK_CUR).
SeekFromCurrent(t) ==
  LET d == opened_fd[fp[t]] IN
  /\ Enter(t, "seek")
  /\ fds' = IF IsOpen(d) THEN [fds EXCEPT ![d].pos = @ + Packet0(t).offset] ELSE fds
  /\ Goto(t, "write")
  /\ UNCHANGED <<env, todo, fp, objects, table, disk, server>>

\* lseek on the shared descriptor; its failure goes unnoticed.
Seek(t) ==
  LET d == opened_fd[fp[t]] IN
  /\ Enter(t, "seek")
  /\ fds' = IF IsOpen(d) THEN [fds EXCEPT ![d].pos = Packet0(t).offset] ELSE fds
  /\ Goto(t, "write")
  /\ UNCHANGED <<env, todo, fp, objects, table, disk, server>>

\* write, at the position the descriptor has by now; its failure goes
\* unnoticed too.
Write(t) ==
  LET d == opened_fd[fp[t]]
      p == Packet0(t)
      at == fds[d].pos
      f == fds[d].file
  IN
  /\ Enter(t, "write")
  /\ \/ /\ IsOpen(d) /\ p.len > 0
        /\ disk' = [disk EXCEPT ![f] =
                      {e \in @ : e[1] # at} \cup {<<at, p.offset>>}]
        /\ fds' = [fds EXCEPT ![d].pos = @ + p.len]
     \/ /\ ~IsOpen(d) \/ p.len = 0 \/ ~disk_ok
        /\ UNCHANGED <<disk, fds>>
  /\ Goto(t, "count")
  /\ UNCHANGED <<env, todo, fp, objects, table, server>>

\* Mutant: counts the bytes and signals nobody.
CountQuietly(t) ==
  /\ Enter(t, "count")
  /\ FlockFree(t)
  /\ dl_size' = [dl_size EXCEPT ![fp[t]] = @ + Packet0(t).len]
  /\ Goto(t, "next")
  /\ todo' = [todo EXCEPT ![t] = Tail(@)]
  /\ UNCHANGED <<env, fp, life, file_size, opened_fd, flock, fsize_cond, table, fds,
                 disk, server>>

\* The second section: the packet's length is counted, written or not.
Count(t) ==
  /\ Enter(t, "count")
  /\ FlockFree(t)
  /\ dl_size' = [dl_size EXCEPT ![fp[t]] = @ + Packet0(t).len]
  /\ SignalAndGoto(t, "next")
  /\ todo' = [todo EXCEPT ![t] = Tail(@)]
  /\ UNCHANGED <<env, fp, life, file_size, opened_fd, flock, table, fds, disk, server>>

-----------------------------------------------------------------------------
(* SS_ClosePendingFile                                                     *)

\* The loop's test fails to let the thread out: pthread_cond_wait.
WaitForData(t) ==
  LET o == fp[t] IN
  /\ Enter(t, "check")
  /\ FlockFree(t)
  /\ file_size[o] # dl_size[o]
  /\ fsize_cond' = [fsize_cond EXCEPT ![o] = @ \cup {t}]
  /\ Goto(t, "wait")
  /\ UNCHANGED <<env, todo, fp, life, sizes, opened_fd, flock, table, fds, disk, server>>

\* Mutant: leaves the loop as soon as the bytes are not fewer than the size,
\* which is -1 until the header comes.
CloseTooSoon(t) ==
  LET o == fp[t]
      d == opened_fd[o] IN
  /\ Enter(t, "check")
  /\ FlockFree(t)
  /\ file_size[o] <= dl_size[o]
  /\ flock' = [flock EXCEPT ![o] = t]
  /\ fds' = IF IsOpen(d) THEN [fds EXCEPT ![d] = NULL] ELSE fds
  /\ Goto(t, "unlink")
  /\ todo' = [todo EXCEPT ![t] = Tail(@)]
  /\ UNCHANGED <<env, fp, life, sizes, opened_fd, fsize_cond, table, disk, server>>

\* Mutant: no close.
NeverClose(t) ==
  LET o == fp[t] IN
  /\ Enter(t, "check")
  /\ FlockFree(t)
  /\ file_size[o] = dl_size[o]
  /\ flock' = [flock EXCEPT ![o] = t]
  /\ Goto(t, "unlink")
  /\ todo' = [todo EXCEPT ![t] = Tail(@)]
  /\ UNCHANGED <<env, fp, life, sizes, opened_fd, fsize_cond, table, fds, disk, server>>

\* The loop ends: close(opened_fd), with flock held from here to Unlink.
CloseFd(t) ==
  LET o == fp[t]
      d == opened_fd[o] IN
  /\ Enter(t, "check")
  /\ FlockFree(t)
  /\ file_size[o] = dl_size[o]
  /\ flock' = [flock EXCEPT ![o] = t]
  /\ fds' = IF IsOpen(d) THEN [fds EXCEPT ![d] = NULL] ELSE fds
  /\ Goto(t, "unlink")
  /\ todo' = [todo EXCEPT ![t] = Tail(@)]
  /\ UNCHANGED <<env, fp, life, sizes, opened_fd, fsize_cond, table, disk, server>>

\* opened_fd = -1, DelPendingFileFromHash under the write lock, unlock flock.
Unlink(t) ==
  LET o == fp[t] IN
  /\ Enter(t, "unlink")
  /\ opened_fd' = [opened_fd EXCEPT ![o] = NoFd]
  /\ flock' = [flock EXCEPT ![o] = NULL]
  /\ table' = table \ {o}
  /\ server' = IF o \in table THEN server ELSE "undefined"
  /\ Goto(t, "delete")
  /\ UNCHANGED <<env, todo, fp, life, sizes, fsize_cond, fds, disk>>

\* delete fp.  Deleting twice, or destroying a condition that has sleepers, is
\* undefined.
Delete(t) ==
  LET o == fp[t] IN
  /\ server = "up"
  /\ pc[t] = "delete"
  /\ server' = IF st[o] = "live" /\ fsize_cond[o] = {}
               THEN server ELSE "undefined"
  /\ st' = [st EXCEPT ![o] = "deleted"]
  /\ Goto(t, "next")
  /\ UNCHANGED <<env, todo, fp, file_id, sizes, opened_fd, flock, fsize_cond, table,
                 fds, disk>>

-----------------------------------------------------------------------------
\* POSIX lets pthread_cond_wait return without a signal.
SpuriousWakeup(t) ==
  LET o == fp[t] IN
  /\ server = "up"
  /\ pc[t] = "wait"
  /\ t \in fsize_cond[o]
  /\ fsize_cond' = [fsize_cond EXCEPT ![o] = @ \ {t}]
  /\ Goto(t, "check")
  /\ UNCHANGED <<env, todo, fp, life, sizes, opened_fd, flock, table, fds, disk, server>>

\* A step on an object another thread has deleted: anything may happen, and
\* the model says nothing of what follows.
UseDeleted(t) ==
  /\ server = "up"
  /\ Uses(t)
  /\ st[fp[t]] = "deleted"
  /\ server' = "undefined"
  /\ UNCHANGED <<env, todo, pc, fp, objects, table, fds, disk>>

\* All packets are handled: the threads are blocked reading their connections.
Idle ==
  /\ \/ server = "undefined"
     \/ \A t \in Threads : pc[t] = "next" /\ todo[t] = <<>>
  /\ UNCHANGED vars

Step(t) ==
  \/ FindPendingFileByHash(t) \/ AddPendingFile2Hash(t)
  \/ SetPendingFileSize(t)
  \/ OpenFile(t) \/ Seek(t) \/ Write(t) \/ Count(t)
  \/ WaitForData(t) \/ CloseFd(t) \/ Unlink(t) \/ Delete(t)
  \/ UseDeleted(t)

Next == Idle \/ \E t \in Threads : Step(t) \/ SpuriousWakeup(t)

Spec == Init /\ [][Next]_vars

\* The kernel runs every runnable thread, a mutex is handed on, and each thread
\* has finitely many packets: weak fairness of each thread's own steps.
FairSpec == Spec /\ \A t \in Threads : WF_vars(Step(t))
-----------------------------------------------------------------------------
(* Properties                                                              *)

\* A thread inside a handler has the packet, and past GetPendingFile an object,
\* that the handler works on.
InHand ==
  \A t \in Threads :
    /\ pc[t] \notin {"next", "unlink", "delete"} => todo[t] # <<>>
    /\ pc[t] \notin {"next", "add"} => fp[t] \in Objects
    /\ pc[t] = "size" => Packet0(t).type = "N"
    /\ pc[t] \in {"open", "seek", "write", "count"} => Packet0(t).type = "D"
    /\ pc[t] \in {"check", "wait"} => Packet0(t).type = "E"

\* The variables have their types, and threads what their handlers need.
TypeOK ==
  /\ stream \in [Threads -> Seq(Packet)]
  /\ disk_ok \in BOOLEAN
  /\ todo \in [Threads -> Seq(Packet)]
  /\ pc \in [Threads -> PC]
  /\ fp \in [Threads -> Objects \cup {NULL}]
  /\ st \in [Objects -> {"unborn", "live", "deleted"}]
  /\ file_id \in [Objects -> FileIDs \cup {NULL}]
  /\ file_size \in [Objects -> Int]
  /\ dl_size \in [Objects -> Nat]
  /\ opened_fd \in [Objects -> Fds \cup {NoFd}]
  /\ flock \in [Objects -> Threads \cup {NULL}]
  /\ fsize_cond \in [Objects -> SUBSET Threads]
  /\ table \subseteq Objects
  /\ fds \in [Fds -> [file : FileIDs, pos : Nat] \cup {NULL}]
  /\ disk \in [FileIDs -> SUBSET (Nat \X Nat)]
  /\ server \in {"up", "undefined"}
  /\ InHand

\* AddPendingFile2Hash looks again under the write lock, so however the threads
\* race to create the object of a file, the table never links two objects of
\* one file, and what it links is not deleted.
OneObjectPerFile ==
  /\ \A o \in table : st[o] = "live"
  /\ \A o1, o2 \in table : file_id[o1] = file_id[o2] => o1 = o2

\* flock is held across a step by the closing thread alone, and the sleepers of
\* a condition are the threads inside pthread_cond_wait on that object.
LocksAndSleepers ==
  \A t \in Threads, o \in Objects :
    /\ flock[o] = t <=> pc[t] = "unlink" /\ fp[t] = o
    /\ t \in fsize_cond[o] <=> pc[t] = "wait" /\ fp[t] = o

\* A thread inside a handler holds an object that was allocated, and the thread
\* about to delete one has unlinked it.
HeldObjects ==
  \A t \in Threads :
    /\ pc[t] \notin {"next", "add"} => st[fp[t]] # "unborn"
    /\ pc[t] = "delete" => fp[t] \notin table

\* Wakeups are not lost: once the bytes counted reach the announced size, if a
\* thread sleeps on the file, some thread has been woken and has yet to finish
\* the close.  SS_SetPendingFileSize and SS_WriteData2PendingFile both signal,
\* and either can be the one that makes the two sizes equal.
NoLostWakeup ==
  server = "up" =>
    \A o \in Objects :
      file_size[o] = dl_size[o] /\ fsize_cond[o] # {} =>
        \E t \in Threads : fp[t] = o /\ pc[t] \in {"check", "unlink", "delete"}

\* The inductive invariant of the proofs.
IInv == TypeOK /\ OneObjectPerFile /\ LocksAndSleepers /\ HeldObjects /\ NoLostWakeup

\* What the connections bring of file f: the places of its packets of a type.
Arrivals(f, type) ==
  UNION {{<<t, i>> : i \in {j \in DOMAIN stream[t] :
                              stream[t][j].id = f /\ stream[t][j].type = type}} :
         t \in Threads}
Arrival(a) == stream[a[1]][a[2]]

\* f is not sent, or it is sent once, each of its blocks in one packet and no
\* packet without data.
PlainUpload(f) ==
  LET blocks == {Arrival(a).offset : a \in Arrivals(f, "D")} IN
  /\ \A ty \in {"N", "E"} : \A a, b \in Arrivals(f, ty) : a = b
  /\ \A a, b \in Arrivals(f, "D") : Arrival(a).offset = Arrival(b).offset => a = b
  /\ \A a \in Arrivals(f, "D") : Arrival(a).len = 1
  /\ \A h \in Arrivals(f, "N") : blocks = 0..Arrival(h).size - 1
AllPlain == \A f \in FileIDs : PlainUpload(f)

\* The blocks of f come over one connection, so one thread writes them.
OneWriter(f) == \A a, b \in Arrivals(f, "D") : a[1] = b[1]

\* SS_ClosePendingFile deletes the object while other threads may hold a
\* pointer they got from GetPendingFile.  When every file is sent once and in
\* packets with data, the sizes are equal only after the last packet of the file
\* is counted, and no thread uses an object after its deletion.
NoUseAfterDelete == server = "undefined" => ~AllPlain

\* The objects whose closer stands between close and the reset of opened_fd.
Closing == {o \in Objects : flock[o] # NULL}

\* Descriptors do not leak and are not shared: an open descriptor belongs to
\* a linked object, of the file it was opened on; and the opened_fd of a linked
\* object not being closed is open, and no other object's.
DescriptorsOwned ==
  \/ /\ \A d \in Fds : fds[d] # NULL =>
          \E o \in table : opened_fd[o] = d /\ file_id[o] = fds[d].file
     /\ \A o \in table \ Closing : opened_fd[o] = NoFd \/ IsOpen(opened_fd[o])
     /\ \A o1, o2 \in table \ Closing :
          opened_fd[o1] = opened_fd[o2] /\ opened_fd[o1] # NoFd => o1 = o2
  \/ ~AllPlain

InPlace(f) == \A e \in disk[f] : e[1] = e[2]

\* "Each writes a different place, no lock is needed" (PendingFile.cpp, line
\* 181), said of every thread that writes a file.
EachWritesItsPlace == \A f \in FileIDs : InPlace(f)

Closed ==
  /\ \A t \in Threads : pc[t] = "next" /\ todo[t] = <<>>
  /\ table = {}
  /\ \A d \in Fds : fds[d] = NULL

\* Every file that is sent once, in packets with data, is closed in the end: no
\* thread is left asleep, no object linked and no descriptor open.
AllClosed == AllPlain => <>[]Closed

\* The abstract upload this implements, when the blocks of a file come over
\* one connection and the disk works; otherwise nothing is promised, and nothing
\* is shown.
Promised == disk_ok /\ \A f \in FileIDs : PlainUpload(f) /\ OneWriter(f)
ObjectsOf(f) == {o \in Objects : file_id[o] = f}
KnownSizes(f) == {file_size[o] : o \in ObjectsOf(f)} \ {-1}
BlocksOf(f) == {e[2] : e \in {x \in disk[f] : x[1] = x[2]}}

AnnouncedSize ==
  [f \in FileIDs |-> IF KnownSizes(f) = {} \/ ~Promised THEN -1
                    ELSE CHOOSE n \in KnownSizes(f) : TRUE]
StoredBlocks == [f \in FileIDs |-> IF Promised THEN BlocksOf(f) ELSE {}]
IsClosed == [f \in FileIDs |-> ObjectsOf(f) \ table # {} /\ Promised]

Store == INSTANCE FileStore WITH
  size <- AnnouncedSize, stored <- StoredBlocks, closed <- IsClosed

\* Each upload goes through the states FileStore allows, and is closed in the
\* end once its blocks are stored.
ImplementsFileStore == Store!Spec
=============================================================================

--------------------------- MODULE StorageServer ---------------------------
(***************************************************************************)
(* The storage server whole: the pool of threads that read connections     *)
(* (StorageConn), each of which hands a message, once it has read its      *)
(* fields, to the table of unfinished files (PendingFile) and reads on     *)
(* when the operation returns.  StorageConn has the operation as one step  *)
(* that waits as long as an end has to; here it is PendingFile's steps,    *)
(* with those of the other threads in between, and what is shown is that   *)
(* the one step is all that the connections can tell.                      *)
(*                                                                         *)
(* Sizes and offsets count bytes, as in StorageConn.                       *)
(***************************************************************************)
EXTENDS Integers, Sequences

CONSTANTS Threads, Conns, FileIDs, Traffics,   \* of StorageConn
          Objects, Fds, DiskKinds,             \* of PendingFile
          NULL

VARIABLES
  traffic, client, arrived, backlog, mlock, conn_pc, conn_fd, pos, msg, fields, handled,
  stream, disk_ok, todo, file_pc, fp, st, file_id, file_size, dl_size, opened_fd,
  flock, fsize_cond, table, fds, disk, server

tableVars == <<disk_ok, file_pc, fp, st, file_id, file_size, dl_size, opened_fd, flock,
               fsize_cond, table, fds, disk, server>>
fileVars == <<stream, todo, tableVars>>
readVars == <<traffic, client, arrived, backlog, mlock, conn_fd, pos, msg, fields>>
vars == <<readVars, conn_pc, handled, fileVars>>

\* A thread brings PendingFile the messages it reads, one at a time.
Files == INSTANCE PendingFile WITH
  pc <- file_pc, Streams <- {[t \in Threads |-> <<>>]}

\* What the server knows of a file: the sizes of its object, until it is deleted.
Known(f) == {o \in Objects : st[o] = "live" /\ file_id[o] = f}
Value(field, f, none) == IF Known(f) = {} THEN none ELSE field[CHOOSE o \in Known(f) : TRUE]

Conn == INSTANCE StorageConn WITH
  pc <- conn_pc,
  file_size <- [f \in FileIDs |-> Value(file_size, f, -1)],
  dl_size <- [f \in FileIDs |-> Value(dl_size, f, 0)]

Init == Files!Init /\ Conn!Init

ProcessStep(c) == UNCHANGED fileVars /\ Conn!ProcessStep(c)

\* The steps of thread_main and of the handlers but for the reads of fields.
Serve(t) ==
  /\ UNCHANGED fileVars
  /\ \/ Conn!Lock(t) \/ Conn!Accept(t) \/ Conn!ReadType(t)
     \/ Conn!Ignore(t) \/ Conn!Skip(t)

\* With the last field, the handler calls the operation.
ReadField(t) ==
  LET call == IF Len(fields[t]) = 1 THEN <<Conn!Handled(t)>> ELSE <<>> IN
  /\ conn_pc[t] = "fields"
  /\ stream' = [stream EXCEPT ![t] = @ \o call]
  /\ todo' = [todo EXCEPT ![t] = @ \o call]
  /\ UNCHANGED tableVars
  /\ Conn!ReadField(t)

\* A step of the operation; when it returns, so does the handler, or it reads the
\* rest of the block.
Operate(t) ==
  /\ Files!Step(t)
  /\ IF file_pc[t] # "next" /\ file_pc'[t] = "next"
     THEN /\ conn_pc' = [conn_pc EXCEPT ![t] =
                           IF Conn!Neglect(Conn!Handled(t)) = 0 THEN "type" ELSE "ignore"]
          /\ handled' = [handled EXCEPT ![conn_fd[t]] = Append(@, msg[t])]
     ELSE UNCHANGED <<conn_pc, handled>>
  /\ UNCHANGED readVars

SpuriousWakeup(t) == Files!SpuriousWakeup(t) /\ UNCHANGED <<readVars, conn_pc, handled>>

ThreadStep(t) == Serve(t) \/ ReadField(t) \/ Operate(t)

\* Nothing more arrives, and no thread is inside an operation.
Idle == UNCHANGED vars /\ Files!Idle /\ Conn!Idle

Next ==
  \/ Idle
  \/ \E t \in Threads : ThreadStep(t) \/ SpuriousWakeup(t)
  \/ \E c \in Conns : ProcessStep(c)

\* As in the two modules, threads and processes run on.
FairSpec ==
  /\ Init /\ [][Next]_vars
  /\ \A t \in Threads : WF_vars(ThreadStep(t))
  /\ \A c \in Conns : WF_vars(ProcessStep(c))

-----------------------------------------------------------------------------
\* Whatever the threads do between the sections of an operation, on one object and
\* one condition, the connections cannot tell it from the one step it is in
\* StorageConn, at SS_SetPendingFileSize's section, at the one that counts the
\* bytes, and at the delete: no end returns before its file's header and data are
\* counted, no operation returns twice or for nothing, and while threads are left
\* none sleeps for ever on a condition that keeps it from its connection.
ImplementsStorageConn == Conn!Spec /\ Conn!PoolServesAll
=============================================================================

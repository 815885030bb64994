------------------------- MODULE PendingFileProofs -------------------------
(***************************************************************************)
(* Proofs about PendingFile for every set of threads, files and objects.   *)
(* The first invariant, IInv, holds for every stream of packets, well      *)
(* formed or not; UploadIInv adds what holds when every file is sent once  *)
(* and in packets with data, and DiskInv what is then on the disk.         *)
(***************************************************************************)
EXTENDS PendingFile, SequenceTheorems, FiniteSetTheorems, TLAPS

\* The packet a thread works on is a packet, and so are the ones after it.
LEMMA PacketInHand ==
  ASSUME TypeOK, NEW t \in Threads, todo[t] # <<>>
  PROVE  /\ Packet0(t).id \in FileIDs
         /\ Packet0(t).type \in {"N", "D", "E"}
         /\ Packet0(t).type = "N" => Packet0(t).size \in Nat
         /\ Packet0(t).type = "D" => Packet0(t).offset \in Nat /\ Packet0(t).len \in {0, 1}
         /\ Tail(todo[t]) \in Seq(Packet)
  <1>1. todo[t] \in Seq(Packet)
    BY DEF TypeOK
  <1>2. Packet0(t) \in Packet /\ Tail(todo[t]) \in Seq(Packet)
    BY <1>1, HeadTailProperties DEF Packet0
  <1> QED
    BY <1>2 DEF Packet

\* The label GetPendingFile leads to is the first one of the packet's handler.
LEMMA HandlerLabel ==
  ASSUME NEW p, p.type \in {"N", "D", "E"}
  PROVE  /\ Handler(p) \in {"size", "open", "check"}
         /\ Handler(p) = "size" <=> p.type = "N"
         /\ Handler(p) = "open" <=> p.type = "D"
         /\ Handler(p) = "check" <=> p.type = "E"
  BY DEF Handler

\* What a signal does: t moves on, and at most one other thread, a sleeper of
\* the object, leaves its condition.
LEMMA SignalStep ==
  ASSUME TypeOK, LocksAndSleepers, NEW t \in Threads, fp[t] \in Objects,
         pc[t] # "wait", NEW label \in PC, SignalAndGoto(t, label)
  PROVE  /\ pc' \in [Threads -> PC]
         /\ fsize_cond' \in [Objects -> SUBSET Threads]
         /\ pc'[t] = label
         /\ \/ /\ fsize_cond[fp[t]] = {}
               /\ fsize_cond' = fsize_cond
               /\ \A u \in Threads \ {t} : pc'[u] = pc[u]
            \/ \E w \in Threads \ {t} :
                 /\ w \in fsize_cond[fp[t]]
                 /\ pc[w] = "wait" /\ fp[w] = fp[t] /\ pc'[w] = "check"
                 /\ fsize_cond' = [fsize_cond EXCEPT ![fp[t]] = @ \ {w}]
                 /\ \A u \in Threads \ {t, w} : pc'[u] = pc[u]
  <1>1. CASE fsize_cond[fp[t]] = {} /\ UNCHANGED fsize_cond /\ Goto(t, label)
    BY <1>1 DEF TypeOK, Goto
  <1>2. CASE \E w \in fsize_cond[fp[t]] :
               /\ pc' = [pc EXCEPT ![w] = "check", ![t] = label]
               /\ fsize_cond' = [fsize_cond EXCEPT ![fp[t]] = @ \ {w}]
    <2>1. PICK w \in fsize_cond[fp[t]] :
               /\ pc' = [pc EXCEPT ![w] = "check", ![t] = label]
               /\ fsize_cond' = [fsize_cond EXCEPT ![fp[t]] = @ \ {w}]
      BY <1>2
    <2>2. w \in Threads /\ pc[w] = "wait" /\ fp[w] = fp[t] /\ w # t
      BY <2>1 DEF TypeOK, LocksAndSleepers
    <2>3. pc' \in [Threads -> PC] /\ fsize_cond' \in [Objects -> SUBSET Threads]
      BY <2>1 DEF TypeOK, PC
    <2> QED
      BY <2>1, <2>2, <2>3 DEF TypeOK
  <1> QED
    BY <1>1, <1>2 DEF SignalAndGoto

-----------------------------------------------------------------------------
(* Type correctness                                                        *)

LEMMA InitType == Init => TypeOK
  BY StreamsAssumption, DiskAssumption
  DEF Init, TypeOK, InHand, PC, NoFd

\* Each step keeps the types.
LEMMA NextType == TypeOK /\ LocksAndSleepers /\ [Next]_vars => TypeOK'
  <1> SUFFICES ASSUME TypeOK, LocksAndSleepers, [Next]_vars
               PROVE  TypeOK'
    OBVIOUS
  <1> USE DEF env, life, sizes, objects
  <1>1. CASE UNCHANGED vars
    BY <1>1 DEF TypeOK, InHand, Packet0, vars
  <1>2. ASSUME NEW t \in Threads, FindPendingFileByHash(t)
        PROVE  TypeOK'
    <2>1. /\ Packet0(t).type \in {"N", "D", "E"}
          /\ todo[t] # <<>>
      BY <1>2, PacketInHand DEF FindPendingFileByHash
    <2>2. pc'[t] \in {"size", "open", "check", "add"} /\ pc' = [pc EXCEPT ![t] = pc'[t]]
      BY <1>2, <2>1, HandlerLabel DEF FindPendingFileByHash, Goto, TypeOK
    <2>3. /\ fp'[t] \in Objects \cup {NULL} /\ fp' = [fp EXCEPT ![t] = fp'[t]]
          /\ pc'[t] # "add" => fp'[t] \in Objects
      BY <1>2, <2>1, HandlerLabel DEF FindPendingFileByHash, Goto, TypeOK
    <2>4. /\ pc'[t] = "size" => Packet0(t).type = "N"
          /\ pc'[t] = "open" => Packet0(t).type = "D"
          /\ pc'[t] = "check" => Packet0(t).type = "E"
      BY <1>2, <2>1, HandlerLabel DEF FindPendingFileByHash, Goto, TypeOK
    <2>5. InHand'
      BY <1>2, <2>1, <2>2, <2>3, <2>4 DEF FindPendingFileByHash, TypeOK, InHand, Packet0
    <2>6. UNCHANGED <<stream, disk_ok, todo, st, file_id, file_size, dl_size, opened_fd, flock,
                      fsize_cond, table, fds, disk, server>>
      BY <1>2 DEF FindPendingFileByHash
    <2>7. pc \in [Threads -> PC] /\ fp \in [Threads -> Objects \cup {NULL}]
      BY DEF TypeOK
    <2>8. pc'[t] \in PC
      BY <2>2 DEF PC
    <2>9. pc' \in [Threads -> PC] /\ fp' \in [Threads -> Objects \cup {NULL}]
      BY <2>2, <2>3, <2>7, <2>8
    <2> QED
      BY <2>5, <2>6, <2>9 DEF TypeOK
  <1>3. ASSUME NEW t \in Threads, AddPendingFile2Hash(t)
        PROVE  TypeOK'
    <2>1. /\ Packet0(t).type \in {"N", "D", "E"}
          /\ Packet0(t).id \in FileIDs
          /\ todo[t] # <<>>
      BY <1>3, PacketInHand DEF AddPendingFile2Hash, TypeOK, InHand
    <2>2. /\ pc'[t] \in {"size", "open", "check"} /\ pc' = [pc EXCEPT ![t] = pc'[t]]
          /\ pc'[t] = "size" => Packet0(t).type = "N"
          /\ pc'[t] = "open" => Packet0(t).type = "D"
          /\ pc'[t] = "check" => Packet0(t).type = "E"
      BY <1>3, <2>1, HandlerLabel DEF AddPendingFile2Hash, Goto, TypeOK
    <2>3. /\ fp'[t] \in Objects /\ fp' = [fp EXCEPT ![t] = fp'[t]]
          /\ st' \in [Objects -> {"unborn", "live", "deleted"}]
          /\ file_id' \in [Objects -> FileIDs \cup {NULL}]
          /\ table' \subseteq Objects
      BY <1>3, <2>1 DEF AddPendingFile2Hash, NewPendingFile, TypeOK
    <2>4. InHand'
      BY <1>3, <2>1, <2>2, <2>3 DEF AddPendingFile2Hash, TypeOK, InHand, Packet0
    <2>5. UNCHANGED <<stream, disk_ok, todo, file_size, dl_size, opened_fd, flock, fsize_cond, fds,
                      disk, server>>
      BY <1>3 DEF AddPendingFile2Hash
    <2>6. pc \in [Threads -> PC] /\ fp \in [Threads -> Objects \cup {NULL}]
      BY DEF TypeOK
    <2>7. pc'[t] \in PC
      BY <2>2 DEF PC
    <2>8. pc' \in [Threads -> PC] /\ fp' \in [Threads -> Objects \cup {NULL}]
      BY <2>2, <2>3, <2>6, <2>7
    <2> QED
      BY <2>3, <2>4, <2>5, <2>8 DEF TypeOK
  <1>4. ASSUME NEW t \in Threads, SetPendingFileSize(t)
        PROVE  TypeOK'
    <2>1. /\ pc[t] = "size" /\ fp[t] \in Objects /\ todo[t] # <<>>
          /\ Packet0(t).size \in Nat /\ Tail(todo[t]) \in Seq(Packet)
      BY <1>4, PacketInHand DEF SetPendingFileSize, Enter, TypeOK, InHand
    <2>2. /\ pc' \in [Threads -> PC] /\ pc'[t] = "next"
          /\ fsize_cond' \in [Objects -> SUBSET Threads]
          /\ \A u \in Threads \ {t} : \/ pc[u] = "wait" /\ pc'[u] = "check"
                                      \/ pc'[u] = pc[u]
      BY <1>4, <2>1, SignalStep DEF SetPendingFileSize, PC
    <2>3. InHand'
      BY <1>4, <2>1, <2>2 DEF SetPendingFileSize, TypeOK, InHand, Packet0
    <2>4. /\ file_size' = [file_size EXCEPT ![fp[t]] = Packet0(t).size]
          /\ todo' = [todo EXCEPT ![t] = Tail(@)]
          /\ UNCHANGED <<stream, disk_ok, fp, st, file_id, dl_size, opened_fd, flock, table, fds, disk,
                         server>>
      BY <1>4 DEF SetPendingFileSize
    <2> QED
      BY <2>1, <2>2, <2>3, <2>4 DEF TypeOK
  <1>5. ASSUME NEW t \in Threads, OpenFile(t)
        PROVE  TypeOK'
    <2>1. /\ pc[t] = "open" /\ fp[t] \in Objects /\ todo[t] # <<>>
          /\ Packet0(t).id \in FileIDs
      BY <1>5, PacketInHand DEF OpenFile, Enter, TypeOK, InHand
    <2>2. /\ opened_fd' \in [Objects -> Fds \cup {NoFd}]
          /\ fds' \in [Fds -> [file : FileIDs, pos : Nat] \cup {NULL}]
      <3>1. CASE UNCHANGED <<opened_fd, fds>>
        BY <3>1 DEF TypeOK
      <3>2. CASE ~UNCHANGED <<opened_fd, fds>>
        <4>1. PICK d \in Fds :
                /\ opened_fd' = [opened_fd EXCEPT ![fp[t]] = d]
                /\ fds' = [fds EXCEPT ![d] = [file |-> Packet0(t).id, pos |-> 0]]
          BY <1>5, <3>2 DEF OpenFile, LowestFree, FreeFds
        <4> QED
          BY <2>1, <4>1 DEF TypeOK
      <3> QED
        BY <3>1, <3>2
    <2>3. InHand'
      BY <1>5, <2>1 DEF OpenFile, Goto, TypeOK, InHand, Packet0
    <2> QED
      BY <1>5, <2>2, <2>3 DEF OpenFile, Goto, TypeOK, PC
  <1>6. ASSUME NEW t \in Threads, Seek(t)
        PROVE  TypeOK'
    <2>1. Packet0(t).offset \in Nat /\ pc[t] = "seek"
      BY <1>6, PacketInHand DEF Seek, Enter, TypeOK, InHand
    <2>2. fds' \in [Fds -> [file : FileIDs, pos : Nat] \cup {NULL}]
      BY <1>6, <2>1 DEF Seek, IsOpen, TypeOK
    <2>3. InHand'
      BY <1>6, <2>1 DEF Seek, Goto, TypeOK, InHand, Packet0
    <2> QED
      BY <1>6, <2>2, <2>3 DEF Seek, Goto, TypeOK, PC
  <1>7. ASSUME NEW t \in Threads, Write(t)
        PROVE  TypeOK'
    <2>1. /\ Packet0(t).offset \in Nat /\ Packet0(t).len \in {0, 1}
          /\ pc[t] = "write"
      BY <1>7, PacketInHand DEF Write, Enter, TypeOK, InHand
    <2>2. /\ fds' \in [Fds -> [file : FileIDs, pos : Nat] \cup {NULL}]
          /\ disk' \in [FileIDs -> SUBSET (Nat \X Nat)]
      <3>1. CASE UNCHANGED <<disk, fds>>
        BY <3>1 DEF TypeOK
      <3>2. CASE ~UNCHANGED <<disk, fds>>
        <4> DEFINE d == opened_fd[fp[t]]
                   e == <<fds[d].pos, Packet0(t).offset>>
        <4>1. /\ d \in Fds
              /\ fds[d] # NULL
              /\ disk' = [disk EXCEPT ![fds[d].file] =
                            {x \in @ : x[1] # fds[d].pos} \cup {e}]
              /\ fds' = [fds EXCEPT ![d].pos = @ + Packet0(t).len]
          BY <1>7, <3>2 DEF Write, IsOpen
        <4>2. fds[d] \in [file : FileIDs, pos : Nat]
          BY <4>1 DEF TypeOK
        <4>3. fds[d].pos + Packet0(t).len \in Nat
          BY <2>1, <4>2
        <4>4. fds' \in [Fds -> [file : FileIDs, pos : Nat] \cup {NULL}]
          BY <4>1, <4>2, <4>3 DEF TypeOK
        <4>5. e \in Nat \X Nat
          BY <2>1, <4>2
        <4>6. disk' \in [FileIDs -> SUBSET (Nat \X Nat)]
          BY <4>1, <4>2, <4>5 DEF TypeOK
        <4> QED
          BY <4>4, <4>6
      <3> QED
        BY <3>1, <3>2
    <2>3. InHand'
      BY <1>7, <2>1 DEF Write, Goto, TypeOK, InHand, Packet0
    <2>4. /\ pc' = [pc EXCEPT ![t] = "count"]
          /\ UNCHANGED <<stream, disk_ok, todo, fp, st, file_id, file_size, dl_size, opened_fd, flock,
                         fsize_cond, table, server>>
      BY <1>7 DEF Write, Goto
    <2> QED
      BY <2>2, <2>3, <2>4 DEF TypeOK, PC
  <1>8. ASSUME NEW t \in Threads, Count(t)
        PROVE  TypeOK'
    <2>1. /\ pc[t] = "count" /\ fp[t] \in Objects /\ todo[t] # <<>>
          /\ Packet0(t).len \in {0, 1} /\ Tail(todo[t]) \in Seq(Packet)
      BY <1>8, PacketInHand DEF Count, Enter, TypeOK, InHand
    <2>2. /\ pc' \in [Threads -> PC] /\ pc'[t] = "next"
          /\ fsize_cond' \in [Objects -> SUBSET Threads]
          /\ \A u \in Threads \ {t} : \/ pc[u] = "wait" /\ pc'[u] = "check"
                                      \/ pc'[u] = pc[u]
      BY <1>8, <2>1, SignalStep DEF Count, PC
    <2>3. InHand'
      BY <1>8, <2>1, <2>2 DEF Count, TypeOK, InHand, Packet0
    <2>4. /\ dl_size' = [dl_size EXCEPT ![fp[t]] = @ + Packet0(t).len]
          /\ todo' = [todo EXCEPT ![t] = Tail(@)]
          /\ UNCHANGED <<stream, disk_ok, fp, st, file_id, file_size, opened_fd, flock, table, fds,
                         disk, server>>
      BY <1>8 DEF Count
    <2>5. dl_size' \in [Objects -> Nat]
      BY <2>1, <2>4 DEF TypeOK
    <2> QED
      BY <2>1, <2>2, <2>3, <2>4, <2>5 DEF TypeOK
  <1>9. ASSUME NEW t \in Threads, WaitForData(t) \/ SpuriousWakeup(t)
        PROVE  TypeOK'
    <2>1. /\ fp[t] \in Objects /\ todo[t] # <<>> /\ Packet0(t).type = "E"
      BY <1>9 DEF WaitForData, SpuriousWakeup, Enter, TypeOK, InHand
    <2>2. /\ \/ /\ fsize_cond' = [fsize_cond EXCEPT ![fp[t]] = @ \cup {t}]
                /\ pc' = [pc EXCEPT ![t] = "wait"]
             \/ /\ fsize_cond' = [fsize_cond EXCEPT ![fp[t]] = @ \ {t}]
                /\ pc' = [pc EXCEPT ![t] = "check"]
          /\ UNCHANGED <<stream, disk_ok, todo, fp, st, file_id, file_size, dl_size, opened_fd, flock,
                         table, fds, disk, server>>
      BY <1>9 DEF WaitForData, SpuriousWakeup, Goto
    <2>3. InHand'
      BY <2>1, <2>2 DEF TypeOK, InHand, Packet0
    <2>4. fsize_cond' \in [Objects -> SUBSET Threads]
      <3>1. CASE fsize_cond' = [fsize_cond EXCEPT ![fp[t]] = @ \cup {t}]
        BY <2>1, <3>1 DEF TypeOK
      <3>2. CASE fsize_cond' = [fsize_cond EXCEPT ![fp[t]] = @ \ {t}]
        BY <2>1, <3>2 DEF TypeOK
      <3> QED
        BY <2>2, <3>1, <3>2
    <2>5. pc' \in [Threads -> PC]
      BY <2>2 DEF TypeOK, PC
    <2> QED
      BY <2>2, <2>3, <2>4, <2>5 DEF TypeOK
  <1>10. ASSUME NEW t \in Threads, CloseFd(t)
         PROVE  TypeOK'
    <2>1. /\ pc[t] = "check" /\ fp[t] \in Objects /\ Tail(todo[t]) \in Seq(Packet)
      BY <1>10, PacketInHand DEF CloseFd, Enter, TypeOK, InHand
    <2>2. /\ flock' \in [Objects -> Threads \cup {NULL}]
          /\ fds' \in [Fds -> [file : FileIDs, pos : Nat] \cup {NULL}]
          /\ pc' = [pc EXCEPT ![t] = "unlink"]
          /\ todo' = [todo EXCEPT ![t] = Tail(@)]
          /\ UNCHANGED <<stream, disk_ok, fp, st, file_id, file_size, dl_size, opened_fd, fsize_cond,
                         table, disk, server>>
      BY <1>10, <2>1 DEF CloseFd, Goto, IsOpen, TypeOK
    <2>3. InHand'
      BY <2>1, <2>2 DEF TypeOK, InHand, Packet0
    <2> QED
      BY <2>1, <2>2, <2>3 DEF TypeOK, PC
  <1>11. ASSUME NEW t \in Threads, Unlink(t)
         PROVE  TypeOK'
    <2>1. pc[t] = "unlink" /\ fp[t] \in Objects
      BY <1>11 DEF Unlink, Enter, TypeOK, InHand
    <2>2. /\ opened_fd' \in [Objects -> Fds \cup {NoFd}]
          /\ flock' \in [Objects -> Threads \cup {NULL}]
          /\ table' \subseteq Objects
          /\ server' \in {"up", "undefined"}
          /\ pc' = [pc EXCEPT ![t] = "delete"]
          /\ UNCHANGED <<stream, disk_ok, todo, fp, st, file_id, file_size, dl_size, fsize_cond, fds,
                         disk>>
      BY <1>11, <2>1 DEF Unlink, Goto, TypeOK
    <2>3. InHand'
      BY <2>1, <2>2 DEF TypeOK, InHand, Packet0
    <2> QED
      BY <2>2, <2>3 DEF TypeOK, PC
  <1>12. ASSUME NEW t \in Threads, Delete(t)
         PROVE  TypeOK'
    <2>1. pc[t] = "delete" /\ fp[t] \in Objects
      BY <1>12 DEF Delete, TypeOK, InHand
    <2>2. /\ st' \in [Objects -> {"unborn", "live", "deleted"}]
          /\ server' \in {"up", "undefined"}
          /\ pc' = [pc EXCEPT ![t] = "next"]
          /\ UNCHANGED <<stream, disk_ok, todo, fp, file_id, file_size, dl_size, opened_fd, flock,
                         fsize_cond, table, fds, disk>>
      BY <1>12, <2>1 DEF Delete, Goto, TypeOK
    <2>3. InHand'
      BY <2>1, <2>2 DEF TypeOK, InHand, Packet0
    <2> QED
      BY <2>2, <2>3 DEF TypeOK, PC
  <1>13. ASSUME NEW t \in Threads, UseDeleted(t)
         PROVE  TypeOK'
    BY <1>13 DEF UseDeleted, TypeOK, InHand, Packet0
  <1> QED
    BY <1>1, <1>2, <1>3, <1>4, <1>5, <1>6, <1>7, <1>8, <1>9, <1>10, <1>11, <1>12, <1>13
    DEF Next, Step, Idle

-----------------------------------------------------------------------------
(* The inductive invariant                                                 *)

\* Each step keeps the object a thread holds allocated, and the object a thread
\* is about to delete out of the table; and the table keeps one object per
\* file, because AddPendingFile2Hash looks again before it links.
LEMMA NextObjects ==
  IInv /\ [Next]_vars => OneObjectPerFile' /\ HeldObjects'
  <1> SUFFICES ASSUME TypeOK, OneObjectPerFile, LocksAndSleepers, HeldObjects, [Next]_vars
               PROVE  OneObjectPerFile' /\ HeldObjects'
    BY DEF IInv
  <1> USE DEF env, life, sizes, objects
  <1>1. CASE UNCHANGED vars
    BY <1>1 DEF OneObjectPerFile, HeldObjects, vars
  <1>2. ASSUME NEW t \in Threads, FindPendingFileByHash(t)
        PROVE  OneObjectPerFile' /\ HeldObjects'
    <2>1. UNCHANGED <<st, file_id, table>>
      BY <1>2 DEF FindPendingFileByHash
    <2>2. \/ pc' = [pc EXCEPT ![t] = "add"] /\ fp' = fp
          \/ /\ pc'[t] \in {"size", "open", "check"} /\ pc' = [pc EXCEPT ![t] = pc'[t]]
             /\ \E o \in table : fp' = [fp EXCEPT ![t] = o]
      BY <1>2, PacketInHand, HandlerLabel DEF FindPendingFileByHash, Goto, TypeOK
    <2> QED
      BY <2>1, <2>2 DEF OneObjectPerFile, HeldObjects, TypeOK
  <1>3. ASSUME NEW t \in Threads, AddPendingFile2Hash(t)
        PROVE  OneObjectPerFile' /\ HeldObjects'
    <2>0. Packet0(t).type \in {"N", "D", "E"}
      BY <1>3, PacketInHand DEF AddPendingFile2Hash, TypeOK, InHand
    <2>1. pc'[t] \in {"size", "open", "check"} /\ pc' = [pc EXCEPT ![t] = pc'[t]]
      BY <1>3, <2>0, HandlerLabel DEF AddPendingFile2Hash, Goto, TypeOK
    <2>2. CASE /\ \E o \in table : fp' = [fp EXCEPT ![t] = o]
               /\ UNCHANGED <<st, file_id, table>>
      BY <2>1, <2>2 DEF OneObjectPerFile, HeldObjects, TypeOK
    <2>3. CASE /\ \A o \in table : file_id[o] # Packet0(t).id
               /\ \E new \in Objects :
                    /\ st[new] = "unborn"
                    /\ st' = [st EXCEPT ![new] = "live"]
                    /\ file_id' = [file_id EXCEPT ![new] = Packet0(t).id]
                    /\ table' = table \cup {new}
                    /\ fp' = [fp EXCEPT ![t] = new]
      <3>1. PICK new \in Objects :
              /\ st[new] = "unborn"
              /\ st' = [st EXCEPT ![new] = "live"]
              /\ file_id' = [file_id EXCEPT ![new] = Packet0(t).id]
              /\ table' = table \cup {new}
              /\ fp' = [fp EXCEPT ![t] = new]
        BY <2>3
      <3>2. new \notin table
        BY <3>1 DEF OneObjectPerFile
      <3>3. OneObjectPerFile'
        BY <2>3, <3>1, <3>2 DEF OneObjectPerFile, TypeOK
      <3>4. HeldObjects'
        BY <2>1, <3>1 DEF HeldObjects, TypeOK, InHand
      <3> QED
        BY <3>3, <3>4
    <2> QED
      BY <1>3, <2>2, <2>3 DEF AddPendingFile2Hash, NewPendingFile
  <1>4. ASSUME NEW t \in Threads, SetPendingFileSize(t) \/ Count(t)
        PROVE  OneObjectPerFile' /\ HeldObjects'
    <2>1. /\ fp[t] \in Objects /\ pc[t] \in {"size", "count"}
          /\ SignalAndGoto(t, "next")
          /\ UNCHANGED <<fp, st, file_id, table>>
      BY <1>4 DEF SetPendingFileSize, Count, Enter, TypeOK, InHand
    <2>2. /\ pc'[t] = "next"
          /\ \A u \in Threads \ {t} : \/ pc[u] = "wait" /\ pc'[u] = "check"
                                      \/ pc'[u] = pc[u]
      BY <2>1, SignalStep DEF PC
    <2> QED
      BY <2>1, <2>2 DEF OneObjectPerFile, HeldObjects
  <1>5. ASSUME NEW t \in Threads,
               \/ OpenFile(t) \/ Seek(t) \/ Write(t) \/ WaitForData(t)
               \/ CloseFd(t) \/ SpuriousWakeup(t)
        PROVE  OneObjectPerFile' /\ HeldObjects'
    <2>1. /\ pc[t] \in {"open", "seek", "write", "check", "wait"}
          /\ \E label \in {"seek", "write", "count", "wait", "unlink", "check"} :
               pc' = [pc EXCEPT ![t] = label]
          /\ UNCHANGED <<fp, st, file_id, table>>
      BY <1>5 DEF OpenFile, Seek, Write, WaitForData, CloseFd, SpuriousWakeup, Enter, Goto
    <2> QED
      BY <2>1 DEF OneObjectPerFile, HeldObjects, TypeOK
  <1>6. ASSUME NEW t \in Threads, Unlink(t)
        PROVE  OneObjectPerFile' /\ HeldObjects'
    <2>1. /\ pc[t] = "unlink" /\ pc' = [pc EXCEPT ![t] = "delete"]
          /\ table' = table \ {fp[t]}
          /\ UNCHANGED <<fp, st, file_id>>
      BY <1>6 DEF Unlink, Enter, Goto
    <2> QED
      BY <2>1 DEF OneObjectPerFile, HeldObjects, TypeOK
  <1>7. ASSUME NEW t \in Threads, Delete(t)
        PROVE  OneObjectPerFile' /\ HeldObjects'
    <2>1. /\ pc[t] = "delete" /\ pc' = [pc EXCEPT ![t] = "next"]
          /\ st' = [st EXCEPT ![fp[t]] = "deleted"]
          /\ UNCHANGED <<fp, file_id, table>>
      BY <1>7 DEF Delete, Goto
    <2>2. fp[t] \notin table
      BY <2>1 DEF HeldObjects
    <2>3. OneObjectPerFile'
      BY <2>1, <2>2 DEF OneObjectPerFile, TypeOK
    <2>4. HeldObjects'
      BY <2>1 DEF HeldObjects, TypeOK, InHand
    <2> QED
      BY <2>3, <2>4
  <1>8. ASSUME NEW t \in Threads, UseDeleted(t)
        PROVE  OneObjectPerFile' /\ HeldObjects'
    BY <1>8 DEF UseDeleted, OneObjectPerFile, HeldObjects
  <1> QED
    BY <1>1, <1>2, <1>3, <1>4, <1>5, <1>6, <1>7, <1>8 DEF Next, Step, Idle

\* Each step keeps flock with the closing thread and the sleepers where the
\* threads sleep.
LEMMA NextLocks == IInv /\ [Next]_vars => LocksAndSleepers'
  <1> SUFFICES ASSUME TypeOK, LocksAndSleepers, HeldObjects, [Next]_vars
               PROVE  LocksAndSleepers'
    BY DEF IInv
  <1> USE NullAssumption DEF env, life, sizes, objects
  <1>1. CASE UNCHANGED vars
    BY <1>1 DEF LocksAndSleepers, vars
  <1>2. ASSUME NEW t \in Threads, FindPendingFileByHash(t) \/ AddPendingFile2Hash(t)
        PROVE  LocksAndSleepers'
    <2>1. Packet0(t).type \in {"N", "D", "E"}
      BY <1>2, PacketInHand
      DEF FindPendingFileByHash, AddPendingFile2Hash, TypeOK, InHand
    <2>2. /\ pc[t] \in {"next", "add"}
          /\ pc'[t] \in {"size", "open", "check", "add"} /\ pc' = [pc EXCEPT ![t] = pc'[t]]
          /\ \A u \in Threads \ {t} : fp'[u] = fp[u]
          /\ UNCHANGED <<flock, fsize_cond>>
      BY <1>2, <2>1, HandlerLabel
      DEF FindPendingFileByHash, AddPendingFile2Hash, Goto, TypeOK
    <2>3. ASSUME NEW u \in Threads, NEW o \in Objects
          PROVE  /\ flock'[o] = u <=> pc'[u] = "unlink" /\ fp'[u] = o
                 /\ u \in fsize_cond'[o] <=> pc'[u] = "wait" /\ fp'[u] = o
      <3>1. CASE u = t
        BY <2>2, <3>1 DEF LocksAndSleepers
      <3>2. CASE u # t
        BY <2>2, <3>2 DEF LocksAndSleepers, TypeOK
      <3> QED
        BY <3>1, <3>2
    <2> QED
      BY <2>3 DEF LocksAndSleepers
  <1>3. ASSUME NEW t \in Threads, SetPendingFileSize(t) \/ Count(t)
        PROVE  LocksAndSleepers'
    <2>1. /\ fp[t] \in Objects /\ pc[t] \in {"size", "count"}
          /\ SignalAndGoto(t, "next")
          /\ UNCHANGED <<fp, flock>>
      BY <1>3 DEF SetPendingFileSize, Count, Enter, TypeOK, InHand
    <2>2. /\ pc'[t] = "next"
          /\ \/ /\ fsize_cond' = fsize_cond
                /\ \A u \in Threads \ {t} : pc'[u] = pc[u]
             \/ \E w \in Threads \ {t} :
                  /\ pc[w] = "wait" /\ fp[w] = fp[t] /\ pc'[w] = "check"
                  /\ fsize_cond' = [fsize_cond EXCEPT ![fp[t]] = @ \ {w}]
                  /\ \A u \in Threads \ {t, w} : pc'[u] = pc[u]
      BY <2>1, SignalStep DEF PC
    <2>3. CASE fsize_cond' = fsize_cond /\ \A u \in Threads \ {t} : pc'[u] = pc[u]
      BY <2>1, <2>2, <2>3 DEF LocksAndSleepers
    <2>4. ASSUME NEW w \in Threads \ {t},
                 pc[w] = "wait", fp[w] = fp[t], pc'[w] = "check",
                 fsize_cond' = [fsize_cond EXCEPT ![fp[t]] = @ \ {w}],
                 \A u \in Threads \ {t, w} : pc'[u] = pc[u]
          PROVE  LocksAndSleepers'
      <3> SUFFICES ASSUME NEW u \in Threads, NEW o \in Objects
                   PROVE  /\ flock'[o] = u <=> pc'[u] = "unlink" /\ fp'[u] = o
                          /\ u \in fsize_cond'[o] <=> pc'[u] = "wait" /\ fp'[u] = o
        BY DEF LocksAndSleepers
      <3>1. flock'[o] = u <=> pc'[u] = "unlink" /\ fp'[u] = o
        BY <2>1, <2>2, <2>4 DEF LocksAndSleepers
      <3>2. u \in fsize_cond'[o] <=> u \in fsize_cond[o] /\ ~(o = fp[t] /\ u = w)
        BY <2>1, <2>4 DEF TypeOK
      <3>3. u \in fsize_cond'[o] <=> pc'[u] = "wait" /\ fp'[u] = o
        BY <2>1, <2>2, <2>4, <3>2 DEF LocksAndSleepers
      <3> QED
        BY <3>1, <3>3
    <2> QED
      BY <2>2, <2>3, <2>4
  <1>4. ASSUME NEW t \in Threads, OpenFile(t) \/ Seek(t) \/ Write(t)
        PROVE  LocksAndSleepers'
    <2>1. /\ pc[t] \in {"open", "seek", "write"}
          /\ \E label \in {"seek", "write", "count"} : pc' = [pc EXCEPT ![t] = label]
          /\ UNCHANGED <<fp, flock, fsize_cond>>
      BY <1>4 DEF OpenFile, Seek, Write, Enter, Goto
    <2> QED
      BY <2>1 DEF LocksAndSleepers, TypeOK
  <1>5. ASSUME NEW t \in Threads, WaitForData(t)
        PROVE  LocksAndSleepers'
    <2>1. /\ fp[t] \in Objects /\ pc[t] = "check" /\ pc' = [pc EXCEPT ![t] = "wait"]
          /\ fsize_cond' = [fsize_cond EXCEPT ![fp[t]] = @ \cup {t}]
          /\ UNCHANGED <<fp, flock>>
      BY <1>5 DEF WaitForData, Enter, Goto, TypeOK, InHand
    <2> QED
      BY <2>1 DEF LocksAndSleepers, TypeOK
  <1>6. ASSUME NEW t \in Threads, SpuriousWakeup(t)
        PROVE  LocksAndSleepers'
    <2>1. /\ fp[t] \in Objects /\ pc[t] = "wait" /\ pc' = [pc EXCEPT ![t] = "check"]
          /\ fsize_cond' = [fsize_cond EXCEPT ![fp[t]] = @ \ {t}]
          /\ UNCHANGED <<fp, flock>>
      BY <1>6 DEF SpuriousWakeup, Goto, TypeOK, InHand
    <2> QED
      BY <2>1 DEF LocksAndSleepers, TypeOK
  <1>7. ASSUME NEW t \in Threads, CloseFd(t)
        PROVE  LocksAndSleepers'
    <2>1. /\ fp[t] \in Objects /\ pc[t] = "check" /\ pc' = [pc EXCEPT ![t] = "unlink"]
          /\ flock[fp[t]] = NULL /\ flock' = [flock EXCEPT ![fp[t]] = t]
          /\ UNCHANGED <<fp, fsize_cond>>
      BY <1>7 DEF CloseFd, Enter, FlockFree, Goto, TypeOK, InHand
    <2> QED
      BY <2>1 DEF LocksAndSleepers, TypeOK
  <1>8. ASSUME NEW t \in Threads, Unlink(t)
        PROVE  LocksAndSleepers'
    <2>1. /\ fp[t] \in Objects /\ pc[t] = "unlink" /\ pc' = [pc EXCEPT ![t] = "delete"]
          /\ flock' = [flock EXCEPT ![fp[t]] = NULL]
          /\ UNCHANGED <<fp, fsize_cond>>
      BY <1>8 DEF Unlink, Enter, Goto, TypeOK, InHand
    <2> QED
      BY <2>1 DEF LocksAndSleepers, TypeOK
  <1>9. ASSUME NEW t \in Threads, Delete(t)
        PROVE  LocksAndSleepers'
    <2>1. /\ pc[t] = "delete" /\ pc' = [pc EXCEPT ![t] = "next"]
          /\ UNCHANGED <<fp, flock, fsize_cond>>
      BY <1>9 DEF Delete, Goto
    <2> QED
      BY <2>1 DEF LocksAndSleepers, TypeOK
  <1>10. ASSUME NEW t \in Threads, UseDeleted(t)
         PROVE  LocksAndSleepers'
    BY <1>10 DEF UseDeleted, LocksAndSleepers
  <1> QED
    BY <1>1, <1>2, <1>3, <1>4, <1>5, <1>6, <1>7, <1>8, <1>9, <1>10 DEF Next, Step, Idle

\* Each step that makes the two sizes of a file with a sleeper equal wakes a
\* thread, and a woken thread stays awake while they are equal.
LEMMA NextWakeup == IInv /\ [Next]_vars => NoLostWakeup'
  <1> SUFFICES ASSUME TypeOK, LocksAndSleepers, HeldObjects, NoLostWakeup, [Next]_vars,
                      server' = "up", NEW o \in Objects,
                      file_size'[o] = dl_size'[o], fsize_cond'[o] # {}
               PROVE  \E u \in Threads : fp'[u] = o /\ pc'[u] \in {"check", "unlink", "delete"}
    BY DEF IInv, NoLostWakeup
  <1> DEFINE Awake(u) == fp[u] = o /\ pc[u] \in {"check", "unlink", "delete"}
  <1> USE DEF env, life, sizes, objects
  <1>1. CASE UNCHANGED vars
    BY <1>1 DEF NoLostWakeup, vars
  <1>2. ASSUME NEW t \in Threads, FindPendingFileByHash(t) \/ AddPendingFile2Hash(t)
        PROVE  \E u \in Threads : Awake(u)'
    <2>1. /\ pc[t] \in {"next", "add"} /\ server = "up"
          /\ \A u \in Threads \ {t} : fp'[u] = fp[u] /\ pc'[u] = pc[u]
          /\ UNCHANGED <<file_size, dl_size, fsize_cond>>
      BY <1>2 DEF FindPendingFileByHash, AddPendingFile2Hash, Goto, TypeOK
    <2> QED
      BY <2>1 DEF NoLostWakeup
  <1>3. ASSUME NEW t \in Threads, SetPendingFileSize(t) \/ Count(t)
        PROVE  \E u \in Threads : Awake(u)'
    <2>1. /\ fp[t] \in Objects /\ pc[t] \in {"size", "count"} /\ server = "up"
          /\ SignalAndGoto(t, "next")
          /\ \A x \in Objects \ {fp[t]} : file_size'[x] = file_size[x] /\ dl_size'[x] = dl_size[x]
          /\ UNCHANGED fp
      BY <1>3 DEF SetPendingFileSize, Count, Enter, TypeOK, InHand
    <2>2. \/ /\ fsize_cond[fp[t]] = {}
             /\ fsize_cond' = fsize_cond
             /\ \A u \in Threads \ {t} : pc'[u] = pc[u]
          \/ \E w \in Threads \ {t} :
               /\ pc[w] = "wait" /\ fp[w] = fp[t] /\ pc'[w] = "check"
               /\ fsize_cond' = [fsize_cond EXCEPT ![fp[t]] = @ \ {w}]
               /\ \A u \in Threads \ {t, w} : pc'[u] = pc[u]
      BY <2>1, SignalStep DEF PC
    <2>3. CASE o = fp[t]
      BY <2>1, <2>2, <2>3
    <2>4. CASE o # fp[t]
      <3>1. fsize_cond'[o] = fsize_cond[o]
        BY <2>2, <2>4 DEF TypeOK
      <3>2. PICK u \in Threads : Awake(u)
        BY <2>1, <2>4, <3>1 DEF NoLostWakeup
      <3> QED
        BY <2>1, <2>2, <3>2
    <2> QED
      BY <2>3, <2>4
  <1>4. ASSUME NEW t \in Threads, OpenFile(t) \/ Seek(t) \/ Write(t) \/ UseDeleted(t)
        PROVE  \E u \in Threads : Awake(u)'
    <2>1. /\ pc'[t] = pc[t] \/ pc[t] \in {"open", "seek", "write"}
          /\ server = "up"
          /\ \A u \in Threads \ {t} : pc'[u] = pc[u]
          /\ UNCHANGED <<fp, file_size, dl_size, fsize_cond>>
      BY <1>4 DEF OpenFile, Seek, Write, UseDeleted, Enter, Goto, TypeOK
    <2> QED
      BY <2>1 DEF NoLostWakeup
  <1>5. ASSUME NEW t \in Threads, WaitForData(t)
        PROVE  \E u \in Threads : Awake(u)'
    <2>1. /\ fp[t] \in Objects /\ server = "up"
          /\ file_size[fp[t]] # dl_size[fp[t]]
          /\ fsize_cond' = [fsize_cond EXCEPT ![fp[t]] = @ \cup {t}]
          /\ \A u \in Threads \ {t} : pc'[u] = pc[u]
          /\ UNCHANGED <<fp, file_size, dl_size>>
      BY <1>5 DEF WaitForData, Enter, Goto, TypeOK, InHand
    <2>2. o # fp[t] /\ fsize_cond'[o] = fsize_cond[o]
      BY <2>1 DEF TypeOK
    <2> QED
      BY <2>1, <2>2 DEF NoLostWakeup
  <1>6. ASSUME NEW t \in Threads, SpuriousWakeup(t)
        PROVE  \E u \in Threads : Awake(u)'
    <2>1. /\ fp[t] \in Objects /\ server = "up" /\ pc[t] = "wait"
          /\ fsize_cond' = [fsize_cond EXCEPT ![fp[t]] = @ \ {t}]
          /\ \A u \in Threads \ {t} : pc'[u] = pc[u]
          /\ UNCHANGED <<fp, file_size, dl_size>>
      BY <1>6 DEF SpuriousWakeup, Goto, TypeOK, InHand
    <2>2. fsize_cond[o] # {}
      BY <2>1 DEF TypeOK
    <2> QED
      BY <2>1, <2>2 DEF NoLostWakeup
  <1>7. ASSUME NEW t \in Threads, CloseFd(t) \/ Unlink(t)
        PROVE  \E u \in Threads : Awake(u)'
    <2>1. /\ server = "up" /\ pc'[t] \in {"unlink", "delete"}
          /\ \A u \in Threads \ {t} : pc'[u] = pc[u]
          /\ UNCHANGED <<fp, file_size, dl_size, fsize_cond>>
      BY <1>7 DEF CloseFd, Unlink, Enter, Goto, TypeOK
    <2> QED
      BY <2>1 DEF NoLostWakeup
  <1>8. ASSUME NEW t \in Threads, Delete(t)
        PROVE  \E u \in Threads : Awake(u)'
    <2>1. /\ server = "up" /\ fsize_cond[fp[t]] = {}
          /\ \A u \in Threads \ {t} : pc'[u] = pc[u]
          /\ UNCHANGED <<fp, file_size, dl_size, fsize_cond>>
      BY <1>8 DEF Delete, Goto, TypeOK
    <2>2. o # fp[t]
      BY <2>1
    <2> QED
      BY <2>1, <2>2 DEF NoLostWakeup
  <1> QED
    BY <1>1, <1>2, <1>3, <1>4, <1>5, <1>6, <1>7, <1>8 DEF Next, Step, Idle

LEMMA InitInvariant == Init => IInv
  <1> SUFFICES ASSUME Init PROVE IInv
    OBVIOUS
  <1>1. TypeOK
    BY InitType
  <1>2. OneObjectPerFile /\ HeldObjects /\ NoLostWakeup
    BY DEF Init, OneObjectPerFile, HeldObjects, NoLostWakeup
  <1>3. LocksAndSleepers
    BY NullAssumption DEF Init, LocksAndSleepers
  <1> QED
    BY <1>1, <1>2, <1>3 DEF IInv

\* The inductive invariant holds in every reachable state.
THEOREM Invariance == Spec => []IInv
  <1>1. IInv /\ [Next]_vars => IInv'
    BY NextType, NextObjects, NextLocks, NextWakeup DEF IInv
  <1> QED
    BY InitInvariant, <1>1, PTL DEF Spec

-----------------------------------------------------------------------------
(* What follows from it                                                    *)

\* The variables keep their types: a thread inside a handler always has the
\* packet and the object the handler dereferences.
THEOREM TypeCorrect == Spec => []TypeOK
  BY Invariance, PTL DEF IInv

\* However many threads race to create the object of a file, at most one object
\* of the file is linked at a time, and no linked object is deleted.
THEOREM TableUnique == Spec => []OneObjectPerFile
  BY Invariance, PTL DEF IInv

\* A thread that waits for a file to be complete never sleeps through the event:
\* this holds for every stream of packets and any number of closers.
THEOREM WakeupsNotLost == Spec => []NoLostWakeup
  BY Invariance, PTL DEF IInv

-----------------------------------------------------------------------------
(* Plain uploads: every file is sent once, in packets with data.  Here an    *)
(* object is deleted only when nobody needs it any more, and the inductive   *)
(* invariant says why: its count is the number of data packets handled, so   *)
(* the two sizes are equal only when the packet that ends the file is the    *)
(* last one.                                                                 *)

\* How many packets thread t has finished.
Done(t) == Len(stream[t]) - Len(todo[t])
\* The packet at place a is handled.
Handled(a) == a[2] <= Done(a[1])

\* What is left of a stream is its end.
InOrder ==
  \A t \in Threads :
    /\ Len(todo[t]) <= Len(stream[t])
    /\ \A i \in 1..Len(todo[t]) : todo[t][i] = stream[t][Done(t) + i]

\* The object a thread holds is its packet's.
WorksOnItsFile ==
  \A t \in Threads :
    pc[t] \notin {"next", "add", "unlink", "delete"} => file_id[fp[t]] = Packet0(t).id

\* An object is its file's from its allocation on, and has the constructor's
\* values before it is used.
Born ==
  \A o \in Objects :
    /\ st[o] = "unborn" <=> file_id[o] = NULL
    /\ st[o] = "unborn" => file_size[o] = -1 /\ dl_size[o] = 0 /\ opened_fd[o] = NoFd

Placed == InOrder /\ WorksOnItsFile /\ Born

\* The data packets of f that are counted in, and: all packets of f are handled.
Counted(f) == {a \in Arrivals(f, "D") : Handled(a)}
AllIn(f) == \A t \in Threads : \A i \in DOMAIN stream[t] : stream[t][i].id = f => i <= Done(t)

\* A file has one object, ever: nobody allocates another after the first is gone.
OneObjectEver ==
  \A o1, o2 \in Objects : file_id[o1] = file_id[o2] /\ file_id[o1] # NULL => o1 = o2
\* No packet of a file is handled before the file has an object.
Untouched ==
  \A f \in FileIDs : ObjectsOf(f) = {} =>
    \A t \in Threads : \A i \in DOMAIN stream[t] : stream[t][i].id = f => i > Done(t)
\* The bytes counted are as many as the data packets handled (each has one block),
\* and the size is unknown or the header's.
Counts ==
  \A o \in Objects : st[o] # "unborn" =>
    /\ IsFiniteSet(Counted(file_id[o]))
    /\ dl_size[o] = Cardinality(Counted(file_id[o]))
    /\ \/ file_size[o] = -1
       \/ \E h \in Arrivals(file_id[o], "N") : Handled(h) /\ file_size[o] = Arrival(h).size
\* An object is closed, or unlinked, only when all packets of its file are in.
ClosedWhenIn ==
  \A o \in Objects : st[o] # "unborn" /\ (o \notin table \/ flock[o] # NULL) => AllIn(file_id[o])
\* One thread alone closes an object, and finds it linked and not deleted.
OneCloser ==
  /\ \A t \in Threads :
       /\ pc[t] = "unlink" => fp[t] \in table
       /\ pc[t] = "delete" => st[fp[t]] = "live"
  /\ \A t, u \in Threads :
       pc[t] \in {"unlink", "delete"} /\ pc[u] \in {"unlink", "delete"} /\ fp[t] = fp[u] => t = u

\* What holds of uploads each of whose files is sent once, in packets with data.
UploadFacts ==
  OneObjectEver /\ Untouched /\ Counts /\ ClosedWhenIn /\ OneCloser /\ server = "up"
UploadInv == AllPlain => UploadFacts

\* Each open descriptor is the opened_fd of one linked object nobody is closing,
\* the object of the file it was opened on.
OwnedFds ==
  LET open == table \ Closing IN
  /\ \A d \in Fds : fds[d] # NULL =>
       \E o \in open : opened_fd[o] = d /\ file_id[o] = fds[d].file
  /\ \A o \in open : opened_fd[o] = NoFd \/ IsOpen(opened_fd[o])
  /\ \A o1, o2 \in open :
       opened_fd[o1] = opened_fd[o2] /\ opened_fd[o1] # NoFd => o1 = o2
FdInv == AllPlain => OwnedFds

-----------------------------------------------------------------------------
\* The places of the packets of a file and a type.
LEMMA ArrivalPlace ==
  ASSUME NEW f, NEW ty, NEW a
  PROVE  a \in Arrivals(f, ty) <=>
           \E t \in Threads : \E i \in DOMAIN stream[t] :
             a = <<t, i>> /\ stream[t][i].id = f /\ stream[t][i].type = ty
  BY DEF Arrivals

\* The packet a thread works on is the next of its stream, and not handled yet.
LEMMA AtHand ==
  ASSUME TypeOK, InOrder, NEW t \in Threads, todo[t] # <<>>
  PROVE  /\ Done(t) \in Nat
         /\ Done(t) + 1 \in DOMAIN stream[t]
         /\ stream[t][Done(t) + 1] = Packet0(t)
         /\ ~AllIn(Packet0(t).id)
  <1>1. stream[t] \in Seq(Packet) /\ todo[t] \in Seq(Packet)
    BY DEF TypeOK
  <1>2. /\ Len(stream[t]) \in Nat /\ Len(todo[t]) \in Nat \ {0}
        /\ DOMAIN stream[t] = 1..Len(stream[t])
        /\ Head(todo[t]) = todo[t][1]
    BY <1>1
  <1>3. Len(todo[t]) <= Len(stream[t]) /\ todo[t][1] = stream[t][Done(t) + 1]
    BY <1>2 DEF InOrder
  <1>4. \A n, m \in Nat : m <= n /\ m # 0 => n - m \in Nat /\ n - m + 1 \in 1..n
    OBVIOUS
  <1>5. Done(t) \in Nat /\ Done(t) + 1 \in 1..Len(stream[t])
    BY <1>2, <1>3, <1>4 DEF Done
  <1>6. ~(Done(t) + 1 <= Done(t))
    BY <1>5
  <1> QED
    BY <1>2, <1>3, <1>5, <1>6 DEF Packet0, AllIn

\* A handler's last step adds one packet to those its thread has handled.
LEMMA FinishPacket ==
  ASSUME TypeOK, InOrder, NEW t \in Threads, todo[t] # <<>>,
         todo' = [todo EXCEPT ![t] = Tail(@)], stream' = stream
  PROVE  /\ InOrder'
         /\ Done(t)' = Done(t) + 1
         /\ \A u \in Threads : u # t => Done(u)' = Done(u)
  <1>1. \A u \in Threads : stream[u] \in Seq(Packet) /\ todo[u] \in Seq(Packet)
    BY DEF TypeOK
  <1>2. \A u \in Threads : Len(stream[u]) \in Nat /\ Len(todo[u]) \in Nat
    BY <1>1
  <1>3. \A u \in Threads : u # t => todo'[u] = todo[u]
    BY DEF TypeOK
  <1>4. todo'[t] = Tail(todo[t])
    BY DEF TypeOK
  <1>5. /\ Len(todo'[t]) = Len(todo[t]) - 1
        /\ \A i \in 1..Len(todo'[t]) : todo'[t][i] = todo[t][i + 1]
    BY <1>1, <1>4, HeadTailProperties
  <1>6. Done(t)' = Done(t) + 1
    <2>1. Done(t)' = Len(stream[t]) - (Len(todo[t]) - 1)
      BY <1>5 DEF Done
    <2>2. Len(stream[t]) \in Nat /\ Len(todo[t]) \in Nat
      BY <1>2
    <2>3. \A n, m \in Nat : n - (m - 1) = (n - m) + 1
      OBVIOUS
    <2> QED
      BY <2>1, <2>2, <2>3 DEF Done
  <1>7. \A u \in Threads : u # t => Done(u)' = Done(u)
    BY <1>3 DEF Done
  <1>8. ASSUME NEW u \in Threads
        PROVE  /\ Len(todo'[u]) <= Len(stream[u])
               /\ \A i \in 1..Len(todo'[u]) : todo'[u][i] = stream[u][Done(u)' + i]
    <2>1. CASE u # t
      BY <1>3, <1>7, <2>1 DEF InOrder
    <2>2. CASE u = t
      <3>1. Len(todo[t]) <= Len(stream[t])
        BY DEF InOrder
      <3>2. ASSUME NEW i \in 1..Len(todo'[t])
            PROVE  todo'[t][i] = stream[t][Done(t)' + i]
        <4>1. i + 1 \in 1..Len(todo[t])
          BY <1>2, <1>5
        <4>2. todo[t][i + 1] = stream[t][Done(t) + (i + 1)]
          BY <4>1 DEF InOrder
        <4>3. Done(t) \in Int
          BY <1>2 DEF Done
        <4>4. Done(t)' + i = Done(t) + (i + 1)
          BY <1>6, <4>3
        <4> QED
          BY <1>5, <4>2, <4>4
      <3> QED
        BY <1>2, <1>5, <2>2, <3>1, <3>2
    <2> QED
      BY <2>1, <2>2
  <1> QED
    BY <1>6, <1>7, <1>8 DEF InOrder

\* What that does to the packets of a file.
LEMMA FinishedArrivals ==
  ASSUME TypeOK, InOrder, NEW t \in Threads, todo[t] # <<>>,
         todo' = [todo EXCEPT ![t] = Tail(@)], stream' = stream, NEW f
  PROVE  /\ AllIn(f) => AllIn(f)'
         /\ \A ty : \A a \in Arrivals(f, ty) : Handled(a) => Handled(a)'
         /\ {a \in Arrivals(f, "D") : Handled(a)'} =
              IF Packet0(t).id = f /\ Packet0(t).type = "D"
              THEN Counted(f) \cup {<<t, Done(t) + 1>>} ELSE Counted(f)
         /\ <<t, Done(t) + 1>> \notin Counted(f)
  <1>1. /\ Done(t)' = Done(t) + 1 /\ Done(t) \in Nat
        /\ \A u \in Threads : u # t => Done(u)' = Done(u)
        /\ Done(t) + 1 \in DOMAIN stream[t] /\ stream[t][Done(t) + 1] = Packet0(t)
    BY FinishPacket, AtHand
  <1>2. \A u \in Threads : \A i \in Int : i <= Done(u) => i <= Done(u)'
    BY <1>1
  <1>3. \A u \in Threads : \A i \in DOMAIN stream[u] : i \in Int
    BY DEF TypeOK
  <1>4. AllIn(f) => AllIn(f)'
    BY <1>2, <1>3 DEF AllIn
  <1>5. \A ty : \A a \in Arrivals(f, ty) : Handled(a) => Handled(a)'
    BY <1>2, <1>3, ArrivalPlace DEF Handled
  <1>7. ASSUME NEW u \in Threads, NEW i \in DOMAIN stream[u]
        PROVE  Handled(<<u, i>>)' <=> Handled(<<u, i>>) \/ <<u, i>> = <<t, Done(t) + 1>>
    <2>1. CASE u # t
      BY <1>1, <2>1 DEF Handled
    <2>2. CASE u = t
      BY <1>1, <1>3, <2>2 DEF Handled
    <2> QED
      BY <2>1, <2>2
  <1>8. \A a \in Arrivals(f, "D") : Handled(a)' <=> Handled(a) \/ a = <<t, Done(t) + 1>>
    BY <1>7, ArrivalPlace
  <1>9. <<t, Done(t) + 1>> \in Arrivals(f, "D") <=> Packet0(t).id = f /\ Packet0(t).type = "D"
    BY <1>1, ArrivalPlace
  <1>10. <<t, Done(t) + 1>> \notin Counted(f)
    BY <1>1 DEF Counted, Handled
  <1>11. {a \in Arrivals(f, "D") : Handled(a)'} =
           IF Packet0(t).id = f /\ Packet0(t).type = "D"
           THEN Counted(f) \cup {<<t, Done(t) + 1>>} ELSE Counted(f)
    BY <1>8, <1>9 DEF Counted
  <1> QED
    BY <1>4, <1>5, <1>10, <1>11

\* A step that finishes no packet leaves the packets that are handled.
LEMMA SamePackets ==
  ASSUME UNCHANGED <<stream, todo>>
  PROVE  /\ InOrder => InOrder'
         /\ AllPlain' = AllPlain
         /\ \A t : Packet0(t)' = Packet0(t)
         /\ \A t : Done(t)' = Done(t)
         /\ \A f : /\ AllIn(f)' = AllIn(f)
                   /\ Counted(f)' = Counted(f)
                   /\ \A ty : Arrivals(f, ty)' = Arrivals(f, ty)
         /\ \A a : Handled(a)' = Handled(a) /\ Arrival(a)' = Arrival(a)
  <1>1. \A t : Done(t)' = Done(t)
    BY DEF Done
  <1>2. \A f, ty : Arrivals(f, ty)' = Arrivals(f, ty)
    BY DEF Arrivals
  <1>3. \A a : Handled(a)' = Handled(a) /\ Arrival(a)' = Arrival(a)
    BY <1>1 DEF Handled, Arrival
  <1> QED
    BY <1>1, <1>2, <1>3 DEF InOrder, AllPlain, PlainUpload, Packet0, AllIn, Counted

-----------------------------------------------------------------------------
\* The streams are given at the start, so whether they are plain is too.
LEMMA PlainKept == [Next]_vars => AllPlain' = AllPlain
  <1>1. [Next]_vars => stream' = stream
    BY DEF Next, Step, Idle, vars, env, FindPendingFileByHash, AddPendingFile2Hash,
           SetPendingFileSize, OpenFile, Seek, Write, Count, WaitForData, CloseFd,
           Unlink, Delete, UseDeleted, SpuriousWakeup
  <1>2. stream' = stream => AllPlain' = AllPlain
    BY DEF AllPlain, PlainUpload, Arrivals, Arrival
  <1> QED
    BY <1>1, <1>2

\* Each step keeps the streams in order, the objects their files, and what is not
\* allocated untouched.
LEMMA NextPlaced == IInv /\ Placed /\ [Next]_vars => Placed'
  <1> SUFFICES ASSUME TypeOK, HeldObjects, LocksAndSleepers,
                      InOrder, WorksOnItsFile, Born, [Next]_vars
               PROVE  Placed'
    BY DEF IInv, Placed
  <1> USE DEF env, life, sizes, objects
  <1>1. CASE UNCHANGED vars
    BY <1>1, SamePackets DEF vars, Placed, WorksOnItsFile, Born
  <1>2. ASSUME NEW t \in Threads, FindPendingFileByHash(t)
        PROVE  Placed'
    <2>1. /\ UNCHANGED <<stream, todo, file_id, st, file_size, dl_size, opened_fd>>
          /\ \A u \in Threads : u # t => pc'[u] = pc[u] /\ fp'[u] = fp[u]
          /\ pc'[t] = "add" \/ file_id[fp'[t]] = Packet0(t).id
      BY <1>2 DEF FindPendingFileByHash, Goto, TypeOK
    <2> QED
      BY <2>1, SamePackets DEF Placed, WorksOnItsFile, Born
  <1>3. ASSUME NEW t \in Threads, AddPendingFile2Hash(t)
        PROVE  Placed'
    <2>1. /\ UNCHANGED <<stream, todo, file_size, dl_size, opened_fd>>
          /\ \A u \in Threads : u # t => pc'[u] = pc[u] /\ fp'[u] = fp[u]
          /\ Packet0(t).id \in FileIDs
      BY <1>3, PacketInHand DEF AddPendingFile2Hash, Goto, TypeOK, InHand
    <2>2. CASE /\ UNCHANGED <<life, table>>
               /\ \E o \in table : file_id[o] = Packet0(t).id /\ fp' = [fp EXCEPT ![t] = o]
      <3>1. file_id'[fp'[t]] = Packet0(t).id
        BY <2>2 DEF TypeOK
      <3> QED
        BY <2>1, <2>2, <3>1, SamePackets DEF Placed, WorksOnItsFile, Born
    <2>3. CASE \E o \in Objects : /\ st[o] = "unborn"
                                  /\ st' = [st EXCEPT ![o] = "live"]
                                  /\ file_id' = [file_id EXCEPT ![o] = Packet0(t).id]
                                  /\ fp' = [fp EXCEPT ![t] = o]
      <3>1. PICK new \in Objects : /\ st[new] = "unborn"
                                   /\ st' = [st EXCEPT ![new] = "live"]
                                   /\ file_id' = [file_id EXCEPT ![new] = Packet0(t).id]
                                   /\ fp' = [fp EXCEPT ![t] = new]
        BY <2>3
      <3>2. \A u \in Threads : /\ u # t /\ pc[u] \notin {"next", "add"} =>
                                    fp[u] # new /\ file_id'[fp[u]] = file_id[fp[u]]
        BY <3>1 DEF HeldObjects, TypeOK, InHand
      <3>3. file_id'[fp'[t]] = Packet0(t).id
        BY <3>1 DEF TypeOK
      <3>4. WorksOnItsFile'
        BY <2>1, <3>2, <3>3, SamePackets DEF WorksOnItsFile
      <3>5. Born'
        BY <2>1, <3>1, NullAssumption DEF Born, TypeOK
      <3> QED
        BY <2>1, <3>4, <3>5, SamePackets DEF Placed
    <2> QED
      BY <1>3, <2>2, <2>3 DEF AddPendingFile2Hash, NewPendingFile
  <1>4. ASSUME NEW t \in Threads, SetPendingFileSize(t) \/ Count(t)
        PROVE  Placed'
    <2>1. /\ fp[t] \in Objects /\ pc[t] \in {"size", "count"} /\ st[fp[t]] = "live"
          /\ todo[t] # <<>>
          /\ SignalAndGoto(t, "next")
          /\ todo' = [todo EXCEPT ![t] = Tail(@)]
          /\ UNCHANGED <<stream, fp, st, file_id, opened_fd>>
          /\ \A o \in Objects \ {fp[t]} : file_size'[o] = file_size[o] /\ dl_size'[o] = dl_size[o]
      BY <1>4 DEF SetPendingFileSize, Count, Enter, TypeOK, InHand
    <2>2. /\ pc'[t] = "next"
          /\ \A u \in Threads \ {t} : \/ pc[u] = "wait" /\ pc'[u] = "check"
                                      \/ pc'[u] = pc[u]
      BY <2>1, SignalStep DEF PC
    <2>3. \A u \in Threads \ {t} : Packet0(u)' = Packet0(u)
      BY <2>1 DEF Packet0, TypeOK
    <2>4. WorksOnItsFile'
      BY <2>1, <2>2, <2>3 DEF WorksOnItsFile
    <2>5. Born'
      BY <2>1 DEF Born, TypeOK
    <2> QED
      BY <2>1, <2>4, <2>5, FinishPacket DEF Placed
  <1>5. ASSUME NEW t \in Threads,
               OpenFile(t) \/ Seek(t) \/ Write(t) \/ WaitForData(t) \/ SpuriousWakeup(t)
        PROVE  Placed'
    <2>1. /\ pc[t] \in {"open", "seek", "write", "check", "wait"} /\ fp[t] \in Objects
          /\ \A u \in Threads \ {t} : pc'[u] = pc[u]
          /\ UNCHANGED <<stream, todo, fp, st, file_id, file_size, dl_size>>
      BY <1>5
      DEF OpenFile, Seek, Write, WaitForData, SpuriousWakeup, Enter, Goto, TypeOK, InHand
    <2>2. \A o \in Objects : o # fp[t] => opened_fd'[o] = opened_fd[o]
      BY <1>5 DEF OpenFile, Seek, Write, WaitForData, SpuriousWakeup, TypeOK
    <2>3. st[fp[t]] # "unborn"
      BY <2>1 DEF HeldObjects
    <2> QED
      BY <2>1, <2>2, <2>3, SamePackets DEF Placed, WorksOnItsFile, Born
  <1>6. ASSUME NEW t \in Threads, CloseFd(t)
        PROVE  Placed'
    <2>1. /\ pc[t] = "check" /\ pc'[t] = "unlink"
          /\ \A u \in Threads \ {t} : pc'[u] = pc[u]
          /\ todo[t] # <<>>
          /\ todo' = [todo EXCEPT ![t] = Tail(@)]
          /\ UNCHANGED <<stream, fp, st, file_id, file_size, dl_size, opened_fd>>
      BY <1>6 DEF CloseFd, Enter, Goto, TypeOK, InHand
    <2>2. \A u \in Threads \ {t} : Packet0(u)' = Packet0(u)
      BY <2>1 DEF Packet0, TypeOK
    <2> QED
      <3>1. InOrder'
        BY <2>1, FinishPacket
      <3>2. WorksOnItsFile'
        BY <2>1, <2>2 DEF WorksOnItsFile
      <3>3. Born'
        BY <2>1 DEF Born
      <3> QED
        BY <3>1, <3>2, <3>3 DEF Placed
  <1>7. ASSUME NEW t \in Threads, Unlink(t) \/ UseDeleted(t)
        PROVE  Placed'
    <2>1. /\ pc'[t] = "delete" \/ pc'[t] = pc[t]
          /\ \A u \in Threads \ {t} : pc'[u] = pc[u]
          /\ UNCHANGED <<stream, todo, fp, st, file_id, file_size, dl_size>>
          /\ \A o \in Objects : opened_fd'[o] \in {opened_fd[o], NoFd}
      BY <1>7 DEF Unlink, UseDeleted, Enter, Goto, TypeOK
    <2> QED
      BY <2>1, SamePackets DEF Placed, WorksOnItsFile, Born
  <1>8. ASSUME NEW t \in Threads, Delete(t)
        PROVE  Placed'
    <2>1. /\ pc'[t] = "next" /\ pc[t] = "delete" /\ fp[t] \in Objects
          /\ \A u \in Threads \ {t} : pc'[u] = pc[u]
          /\ st' = [st EXCEPT ![fp[t]] = "deleted"]
          /\ UNCHANGED <<stream, todo, fp, file_id, file_size, dl_size, opened_fd>>
      BY <1>8 DEF Delete, Goto, TypeOK, InHand
    <2>2. Born'
      BY <2>1 DEF Born, HeldObjects, TypeOK
    <2> QED
      BY <2>1, <2>2, SamePackets DEF Placed, WorksOnItsFile
  <1> QED
    BY <1>1, <1>2, <1>3, <1>4, <1>5, <1>6, <1>7, <1>8 DEF Next, Step, Idle

\* As long as a packet of a file is not handled, the file's object is linked and
\* nobody is closing it.
LEMMA OpenWhileInHand ==
  ASSUME TypeOK, Placed, ClosedWhenIn, NEW t \in Threads, todo[t] # <<>>,
         NEW o \in Objects, file_id[o] = Packet0(t).id
  PROVE  o \in table /\ flock[o] = NULL
  <1>1. Packet0(t).id \in FileIDs /\ ~AllIn(Packet0(t).id)
    BY PacketInHand, AtHand DEF Placed
  <1>2. st[o] # "unborn"
    BY <1>1, NullAssumption DEF Placed, Born
  <1> QED
    BY <1>1, <1>2 DEF ClosedWhenIn

\* The sizes of a file are equal only when all its packets but the one that ends
\* it are handled: the blocks counted are as many as the offsets the header
\* announces, and each of them is a different one.
LEMMA AllInAtClose ==
  ASSUME TypeOK, InOrder, Counts, AllPlain, NEW o \in Objects, st[o] # "unborn",
         file_id[o] \in FileIDs, file_size[o] = dl_size[o],
         NEW t \in Threads, todo[t] # <<>>,
         Packet0(t).id = file_id[o], Packet0(t).type = "E",
         todo' = [todo EXCEPT ![t] = Tail(@)], UNCHANGED <<stream, file_id>>
  PROVE  AllIn(file_id[o])'
  <1> DEFINE f == file_id[o]
             C == Counted(f)
  <1>1. PlainUpload(f)
    BY DEF AllPlain
  <1>2. PICK h \in Arrivals(f, "N") : Handled(h) /\ dl_size[o] = Arrival(h).size
    <2>1. dl_size[o] \in Nat
      BY DEF TypeOK
    <2>2. file_size[o] # -1
      BY <2>1
    <2> QED
      BY <2>2 DEF Counts
  <1> DEFINE n == Arrival(h).size
  <1>3. IsFiniteSet(C) /\ Cardinality(C) = n /\ n \in Nat
    BY <1>2 DEF Counts, TypeOK
  <1>4. {Arrival(a).offset : a \in Arrivals(f, "D")} = 0..n - 1
    BY <1>1, <1>2 DEF PlainUpload
  <1>5. \A a, b \in Arrivals(f, "D") : Arrival(a).offset = Arrival(b).offset => a = b
    BY <1>1 DEF PlainUpload
  <1>6. C \subseteq Arrivals(f, "D")
    BY DEF Counted
  <1> DEFINE g == [a \in C |-> Arrival(a).offset]
  <1>7. g \in Injection(C, 0..n - 1)
    <2>1. g \in [C -> 0..n - 1]
      BY <1>4, <1>6
    <2>2. \A a, b \in C : g[a] = g[b] => a = b
      BY <1>5, <1>6
    <2> QED
      BY <2>1, <2>2, Zenon DEF Injection, IsInjective
  <1>8. IsFiniteSet(0..n - 1) /\ Cardinality(0..n - 1) = n
    <2>1. 0 \in Int /\ n - 1 \in Int
      BY <1>3
    <2>2. IsFiniteSet(0..n - 1)
      BY <2>1, FS_Interval
    <2>3. Cardinality(0..n - 1) = IF 0 > n - 1 THEN 0 ELSE n - 1 - 0 + 1
      BY <2>1, FS_Interval
    <2> HIDE DEF n
    <2> QED
      BY <1>3, <2>2, <2>3
  <1>9. g \in Surjection(C, 0..n - 1)
    BY <1>3, <1>7, <1>8, FS_Injection
  <1>10. \A a \in Arrivals(f, "D") : Handled(a)
    <2> SUFFICES ASSUME NEW a \in Arrivals(f, "D")
                 PROVE  Handled(a)
      OBVIOUS
    <2>1. Arrival(a).offset \in 0..n - 1
      BY <1>4
    <2>2. PICK c \in C : g[c] = Arrival(a).offset
      BY <1>9, <2>1 DEF Surjection
    <2>3. c = a
      BY <1>5, <1>6, <2>2
    <2> QED
      BY <2>3 DEF Counted
  <1>11. \A a \in Arrivals(f, "N") : Handled(a)
    BY <1>1, <1>2 DEF PlainUpload
  <1> DEFINE e == <<t, Done(t) + 1>>
  <1>12. /\ e \in Arrivals(f, "E") /\ Done(t)' = Done(t) + 1
    <2>1. Done(t)' = Done(t) + 1
      BY FinishPacket
    <2>2. Done(t) + 1 \in DOMAIN stream[t] /\ stream[t][Done(t) + 1] = Packet0(t)
      BY AtHand
    <2> QED
      BY <2>1, <2>2, ArrivalPlace
  <1>13. \A a \in Arrivals(f, "E") : a = e
    BY <1>1, <1>12 DEF PlainUpload
  <1>14. Done(t) + 1 <= Done(t)'
    BY <1>12, AtHand
  <1> SUFFICES ASSUME NEW u \in Threads, NEW i \in DOMAIN stream[u], stream[u][i].id = f
               PROVE  i <= Done(u)'
    BY DEF AllIn
  <1>15. stream[u][i].type \in {"N", "D", "E"}
    <2>1. stream[u] \in Seq(Packet)
      BY DEF TypeOK
    <2>2. stream[u][i] \in Packet
      BY <2>1
    <2> QED
      BY <2>2 DEF Packet
  <1>16. CASE stream[u][i].type = "E"
    <2>1. <<u, i>> \in Arrivals(f, "E")
      BY <1>16, ArrivalPlace
    <2>2. <<u, i>> = e
      BY <1>13, <2>1
    <2> QED
      BY <1>14, <2>2
  <1>17. CASE stream[u][i].type \in {"N", "D"}
    <2>1. PICK ty \in {"N", "D"} : <<u, i>> \in Arrivals(f, ty)
      BY <1>17, ArrivalPlace
    <2>2. Handled(<<u, i>>)
      BY <1>10, <1>11, <2>1
    <2>3. Handled(<<u, i>>)'
      BY <2>1, <2>2, FinishedArrivals
    <2> QED
      BY <2>3 DEF Handled
  <1> QED
    BY <1>15, <1>16, <1>17

-----------------------------------------------------------------------------
\* A step that finishes no packet and allocates, links, unlinks, locks and
\* deletes no object keeps the facts about uploads if its threads do not begin
\* to close.
LEMMA QuietStep ==
  ASSUME UploadFacts,
         UNCHANGED <<stream, todo, st, file_id, file_size, dl_size, flock, table, server>>,
         \A u \in Threads : pc'[u] \in {"unlink", "delete"} => pc'[u] = pc[u] /\ fp'[u] = fp[u]
  PROVE  UploadFacts'
  <1>1. OneObjectEver' /\ Untouched' /\ Counts' /\ ClosedWhenIn'
    BY SamePackets
    DEF UploadFacts, OneObjectEver, Untouched, Counts, ClosedWhenIn, ObjectsOf
  <1>2. OneCloser'
    BY DEF UploadFacts, OneCloser
  <1> QED
    BY <1>1, <1>2 DEF UploadFacts

\* A file some packet of which is handled has an object, also after one more.
LEMMA FinishUntouched ==
  ASSUME TypeOK, InOrder, Untouched, NEW t \in Threads, todo[t] # <<>>,
         NEW o \in Objects, file_id[o] = Packet0(t).id,
         todo' = [todo EXCEPT ![t] = Tail(@)], UNCHANGED <<stream, file_id>>
  PROVE  Untouched'
  <1>1. ASSUME NEW g \in FileIDs, ObjectsOf(g)' = {},
               NEW u \in Threads, NEW i \in DOMAIN stream[u], stream[u][i].id = g
        PROVE  i > Done(u)'
    <2>1. ObjectsOf(g) = {} /\ g # Packet0(t).id
      BY <1>1 DEF ObjectsOf
    <2>2. i > Done(u)
      BY <1>1, <2>1 DEF Untouched
    <2>3. CASE u # t
      BY <2>2, <2>3, FinishPacket
    <2>4. CASE u = t
      <3>1. /\ Done(t)' = Done(t) + 1 /\ Done(t) \in Nat
            /\ stream[t][Done(t) + 1] = Packet0(t)
        BY FinishPacket, AtHand
      <3>2. i # Done(t) + 1
        BY <1>1, <2>1, <2>4, <3>1
      <3>3. i \in Nat
        BY DEF TypeOK
      <3> QED
        BY <2>2, <2>4, <3>1, <3>2, <3>3
    <2> QED
      BY <2>3, <2>4
  <1> QED
    BY <1>1 DEF Untouched

\* The bytes counted are those of the data packets handled, and the size is -1 or
\* the header's, also after one more packet.
LEMMA FinishCounts ==
  ASSUME TypeOK, InOrder, Born, OneObjectEver, Counts, AllPlain,
         NEW t \in Threads, todo[t] # <<>>,
         NEW o \in Objects, file_id[o] = Packet0(t).id, Packet0(t).id \in FileIDs,
         \/ /\ Packet0(t).type = "N"
            /\ file_size' = [file_size EXCEPT ![o] = Packet0(t).size]
            /\ dl_size' = dl_size
         \/ /\ Packet0(t).type = "D"
            /\ dl_size' = [dl_size EXCEPT ![o] = @ + Packet0(t).len]
            /\ file_size' = file_size
         \/ Packet0(t).type = "E" /\ UNCHANGED <<file_size, dl_size>>,
         todo' = [todo EXCEPT ![t] = Tail(@)], UNCHANGED <<stream, st, file_id>>
  PROVE  Counts'
  <1>0. PICK k : k = Done(t) + 1
    OBVIOUS
  <1> DEFINE e == <<t, k>>
  <1>1. /\ \A g, ty : Arrivals(g, ty)' = Arrivals(g, ty)
        /\ \A a : Arrival(a)' = Arrival(a)
    BY DEF Arrivals, Arrival
  <1>2. /\ Done(t) + 1 \in DOMAIN stream[t] /\ stream[t][Done(t) + 1] = Packet0(t)
        /\ Done(t)' = Done(t) + 1 /\ Done(t) \in Nat
    BY AtHand, FinishPacket
  <1>2a. k \in DOMAIN stream[t] /\ stream[t][k] = Packet0(t) /\ k <= Done(t)'
    BY <1>0, <1>2
  <1>3. /\ e \in Arrivals(Packet0(t).id, Packet0(t).type)
        /\ Arrival(e) = Packet0(t) /\ Handled(e)'
    <2>1. e \in Arrivals(Packet0(t).id, Packet0(t).type)
      BY <1>2a, ArrivalPlace
    <2> QED
      BY <1>2a, <2>1 DEF Arrival, Handled
  <1> DEFINE CountedNext(g) == {a \in Arrivals(g, "D") : Handled(a)'}
  <1>4. ASSUME NEW x \in Objects, st[x] # "unborn"
        PROVE  /\ IsFiniteSet(CountedNext(file_id[x]))
               /\ dl_size'[x] = Cardinality(CountedNext(file_id[x]))
               /\ \/ file_size'[x] = -1
                  \/ \E h \in Arrivals(file_id[x], "N") :
                       Handled(h)' /\ file_size'[x] = Arrival(h).size
    <2> DEFINE g == file_id[x]
    <2>1. /\ IsFiniteSet(Counted(g)) /\ dl_size[x] = Cardinality(Counted(g))
          /\ \/ file_size[x] = -1
             \/ \E h \in Arrivals(g, "N") : Handled(h) /\ file_size[x] = Arrival(h).size
      BY <1>4 DEF Counts
    <2>2. \A y : /\ CountedNext(y) = IF Packet0(t).id = y /\ Packet0(t).type = "D"
                                     THEN Counted(y) \cup {e} ELSE Counted(y)
                 /\ e \notin Counted(y)
                 /\ \A h \in Arrivals(y, "N") : Handled(h) => Handled(h)'
      BY <1>0, FinishedArrivals
    <2> HIDE DEF CountedNext
    <2>4. x = o <=> g = Packet0(t).id
      BY <1>4, NullAssumption DEF OneObjectEver, Born
    <2>5. \/ file_size'[x] = -1
          \/ \E h \in Arrivals(g, "N") : Handled(h)' /\ file_size'[x] = Arrival(h).size
      <3>1. CASE x = o /\ Packet0(t).type = "N"
        <4>1. file_size'[x] = Arrival(e).size /\ e \in Arrivals(g, "N") /\ Handled(e)'
          BY <1>3, <2>4, <3>1 DEF TypeOK
        <4> QED
          BY <4>1, Zenon
      <3>2. CASE ~(x = o /\ Packet0(t).type = "N")
        <4>1. file_size'[x] = file_size[x]
          BY <3>2 DEF TypeOK
        <4> QED
          BY <2>1, <2>2, <4>1
      <3> QED
        BY <3>1, <3>2
    <2>6. CASE x = o /\ Packet0(t).type = "D"
      <3>1. Packet0(t).len = 1
        <4>1. Arrival(e).len = 1
          BY <1>3, <2>6 DEF AllPlain, PlainUpload
        <4> QED
          BY <1>3, <4>1
      <3>2. dl_size'[x] = dl_size[x] + 1
        BY <2>6, <3>1 DEF TypeOK
      <3>3. /\ IsFiniteSet(Counted(g) \cup {e})
            /\ Cardinality(Counted(g) \cup {e}) = Cardinality(Counted(g)) + 1
        BY <2>1, <2>2, FS_AddElement
      <3>4. CountedNext(g) = Counted(g) \cup {e}
        BY <2>2, <2>4, <2>6
      <3> QED
        BY <2>1, <2>5, <3>2, <3>3, <3>4
    <2>7. CASE ~(x = o /\ Packet0(t).type = "D")
      <3>1. dl_size'[x] = dl_size[x]
        BY <2>7 DEF TypeOK
      <3>2. CountedNext(g) = Counted(g)
        BY <2>2, <2>4, <2>7
      <3> QED
        BY <2>1, <2>5, <3>1, <3>2
    <2> QED
      BY <2>6, <2>7
  <1> QED
    BY <1>1, <1>4 DEF Counts, Counted

\* Each step keeps the facts about uploads: an object is closed when the last
\* packet of its file is in, so no packet finds it closed and no thread still
\* holds it when it is deleted.
LEMMA NextUpload == IInv /\ Placed /\ UploadInv /\ [Next]_vars => UploadInv'
  <1> SUFFICES ASSUME TypeOK, OneObjectPerFile, LocksAndSleepers, HeldObjects, Placed,
                      AllPlain', UploadInv, [Next]_vars
               PROVE  UploadFacts'
    BY DEF IInv, UploadInv
  <1> USE DEF env, life, sizes, objects
  <1>a. AllPlain /\ UploadFacts
    BY PlainKept DEF UploadInv
  <1>b. InOrder /\ WorksOnItsFile /\ Born
    BY DEF Placed
  <1>c. OneObjectEver /\ Untouched /\ Counts /\ ClosedWhenIn /\ OneCloser /\ server = "up"
    BY <1>a DEF UploadFacts
  <1>1. CASE UNCHANGED vars
    BY <1>1, <1>a, QuietStep DEF vars
  <1>2. ASSUME NEW t \in Threads, FindPendingFileByHash(t)
        PROVE  UploadFacts'
    <2>1. /\ UNCHANGED <<stream, todo, st, file_id, file_size, dl_size, flock, table, server>>
          /\ \A u \in Threads : u # t => pc'[u] = pc[u] /\ fp'[u] = fp[u]
      BY <1>2 DEF FindPendingFileByHash, Goto, TypeOK
    <2>2. pc'[t] \in {"size", "open", "check", "add"}
      BY <1>2, PacketInHand, HandlerLabel DEF FindPendingFileByHash, Goto, TypeOK
    <2> QED
      BY <1>a, <2>1, <2>2, QuietStep
  <1>3. ASSUME NEW t \in Threads, AddPendingFile2Hash(t)
        PROVE  UploadFacts'
    <2>1. /\ UNCHANGED <<stream, todo, file_size, dl_size, flock, server>>
          /\ \A u \in Threads : u # t => pc'[u] = pc[u] /\ fp'[u] = fp[u]
          /\ Packet0(t).id \in FileIDs /\ todo[t] # <<>>
      BY <1>3, PacketInHand DEF AddPendingFile2Hash, Goto, TypeOK, InHand
    <2>2. pc'[t] \in {"size", "open", "check"}
      BY <1>3, <2>1, PacketInHand, HandlerLabel DEF AddPendingFile2Hash, Goto, TypeOK
    <2>3. CASE UNCHANGED <<life, table>>
      BY <1>a, <2>1, <2>2, <2>3, QuietStep
    <2>4. CASE /\ \A o \in table : file_id[o] # Packet0(t).id
               /\ \E o \in Objects : /\ st[o] = "unborn"
                                     /\ st' = [st EXCEPT ![o] = "live"]
                                     /\ file_id' = [file_id EXCEPT ![o] = Packet0(t).id]
                                     /\ table' = table \cup {o}
                                     /\ fp' = [fp EXCEPT ![t] = o]
      <3> DEFINE f == Packet0(t).id
      <3>1. PICK new \in Objects : /\ st[new] = "unborn"
                                   /\ st' = [st EXCEPT ![new] = "live"]
                                   /\ file_id' = [file_id EXCEPT ![new] = f]
                                   /\ table' = table \cup {new}
                                   /\ fp' = [fp EXCEPT ![t] = new]
        BY <2>4
      <3>2. ObjectsOf(f) = {}
        BY <1>c, <2>1, <2>4, OpenWhileInHand DEF ObjectsOf
      <3>3. /\ file_id'[new] = f /\ st'[new] = "live" /\ new \in table'
            /\ \A o \in Objects : o # new => /\ file_id'[o] = file_id[o] /\ st'[o] = st[o]
                                             /\ (o \in table') = (o \in table)
        BY <3>1 DEF TypeOK
      <3>4. OneObjectEver'
        BY <1>c, <3>2, <3>3 DEF OneObjectEver, ObjectsOf
      <3>5. Untouched'
        <4>1. \A g \in FileIDs : ObjectsOf(g)' = {} => ObjectsOf(g) = {}
          BY <1>b, <2>1, <3>1, <3>3, NullAssumption DEF ObjectsOf, Born
        <4> QED
          BY <1>c, <2>1, <4>1, SamePackets DEF Untouched
      <3>6. Counts'
        <4>1. Counted(f) = {}
          <5>1. \A u \in Threads : \A i \in DOMAIN stream[u] :
                  stream[u][i].id = f => ~(i <= Done(u))
            <6>1. ASSUME NEW u \in Threads, NEW i \in DOMAIN stream[u], stream[u][i].id = f
                  PROVE  ~(i <= Done(u))
              <7>1. i > Done(u)
                BY <1>c, <2>1, <3>2, <6>1 DEF Untouched
              <7>2. i \in Nat /\ Len(todo[u]) \in Nat /\ Len(stream[u]) \in Nat
                BY DEF TypeOK
              <7>3. Done(u) \in Int
                BY <7>2 DEF Done
              <7> QED
                BY <7>1, <7>2, <7>3
            <6> QED
              BY <6>1
          <5> QED
            BY <5>1, ArrivalPlace DEF Counted, Handled
        <4>2. dl_size[new] = 0 /\ file_size[new] = -1
          BY <1>b, <3>1 DEF Born
        <4>3. ASSUME NEW o \in Objects, st'[o] # "unborn"
              PROVE  /\ IsFiniteSet(Counted(file_id'[o]))
                     /\ dl_size[o] = Cardinality(Counted(file_id'[o]))
                     /\ \/ file_size[o] = -1
                        \/ \E h \in Arrivals(file_id'[o], "N") :
                             Handled(h) /\ file_size[o] = Arrival(h).size
          <5>1. CASE o = new
            BY <3>3, <4>1, <4>2, <5>1, FS_EmptySet
          <5>2. CASE o # new
            BY <1>c, <3>3, <4>3, <5>2 DEF Counts
          <5> QED
            BY <5>1, <5>2
        <4>4. \A x : /\ Counted(x)' = Counted(x) /\ Handled(x)' = Handled(x)
                     /\ Arrival(x)' = Arrival(x) /\ Arrivals(x, "N")' = Arrivals(x, "N")
          BY <2>1, SamePackets
        <4> QED
          BY <2>1, <4>3, <4>4 DEF Counts
      <3>7. ClosedWhenIn'
        <4>1. flock[new] = NULL
          <5>1. \A u \in Threads : flock[new] # u
            BY <3>1 DEF LocksAndSleepers, HeldObjects
          <5> QED
            BY <5>1 DEF TypeOK
        <4> QED
          BY <1>c, <2>1, <3>3, <4>1, SamePackets DEF ClosedWhenIn
      <3>8. OneCloser'
        <4>1. \A u \in Threads : pc'[u] \in {"unlink", "delete"} =>
                u # t /\ pc'[u] = pc[u] /\ fp'[u] = fp[u] /\ fp[u] \in Objects /\ fp[u] # new
          <5> SUFFICES ASSUME NEW u \in Threads, pc'[u] \in {"unlink", "delete"}
                       PROVE  u # t /\ pc'[u] = pc[u] /\ fp'[u] = fp[u]
                              /\ fp[u] \in Objects /\ fp[u] # new
            OBVIOUS
          <5>1. u # t
            BY <2>2
          <5>2. pc'[u] = pc[u] /\ fp'[u] = fp[u]
            BY <2>1, <5>1
          <5>3. fp[u] \in Objects /\ st[fp[u]] # "unborn"
            BY <5>2 DEF HeldObjects, TypeOK, InHand
          <5> QED
            BY <3>1, <5>1, <5>2, <5>3
        <4> QED
          BY <1>c, <3>3, <4>1 DEF OneCloser
      <3> QED
        BY <1>c, <2>1, <3>4, <3>5, <3>6, <3>7, <3>8 DEF UploadFacts
    <2> QED
      BY <1>3, <2>3, <2>4 DEF AddPendingFile2Hash, NewPendingFile
  <1>4. ASSUME NEW t \in Threads, SetPendingFileSize(t) \/ Count(t)
        PROVE  UploadFacts'
    <2> DEFINE o == fp[t]
               f == file_id[o]
    <2>1. /\ o \in Objects /\ pc[t] \in {"size", "count"} /\ st[o] = "live"
          /\ todo[t] # <<>>
          /\ SignalAndGoto(t, "next")
          /\ todo' = [todo EXCEPT ![t] = Tail(@)]
          /\ UNCHANGED <<stream, fp, st, file_id, flock, table, server>>
      BY <1>4 DEF SetPendingFileSize, Count, Enter, TypeOK, InHand
    <2>2. \A u \in Threads : pc'[u] \in {"unlink", "delete"} => pc'[u] = pc[u]
      BY <2>1, SignalStep DEF PC
    <2>3. f = Packet0(t).id /\ f \in FileIDs
      BY <1>b, <2>1, PacketInHand DEF WorksOnItsFile
    <2>4. OneObjectEver' /\ OneCloser'
      BY <1>c, <2>1, <2>2 DEF OneObjectEver, OneCloser
    <2>5. Untouched'
      BY <1>b, <1>c, <2>1, <2>3, FinishUntouched
    <2>6. ClosedWhenIn'
      BY <1>b, <1>c, <2>1, FinishedArrivals DEF ClosedWhenIn
    <2>7. Counts'
      <3>1. \/ /\ Packet0(t).type = "N"
               /\ file_size' = [file_size EXCEPT ![o] = Packet0(t).size]
               /\ dl_size' = dl_size
            \/ /\ Packet0(t).type = "D"
               /\ dl_size' = [dl_size EXCEPT ![o] = @ + Packet0(t).len]
               /\ file_size' = file_size
        BY <1>4 DEF SetPendingFileSize, Count, Enter, TypeOK, InHand
      <3> QED
        BY <1>a, <1>b, <1>c, <2>1, <2>3, <3>1, FinishCounts
    <2> QED
      BY <1>c, <2>1, <2>4, <2>5, <2>6, <2>7 DEF UploadFacts
  <1>5. ASSUME NEW t \in Threads,
               OpenFile(t) \/ Seek(t) \/ Write(t) \/ WaitForData(t) \/ SpuriousWakeup(t)
        PROVE  UploadFacts'
    <2>1. /\ UNCHANGED <<stream, todo, fp, st, file_id, file_size, dl_size, flock, table, server>>
          /\ \A u \in Threads : pc'[u] = pc[u] \/ pc'[u] \in {"seek", "write", "count", "wait", "check"}
      BY <1>5 DEF OpenFile, Seek, Write, WaitForData, SpuriousWakeup, Enter, Goto, TypeOK
    <2> QED
      BY <1>a, <2>1, QuietStep
  <1>6. ASSUME NEW t \in Threads, CloseFd(t)
        PROVE  UploadFacts'
    <2> DEFINE o == fp[t]
               f == file_id[o]
    <2>1. /\ o \in Objects /\ pc[t] = "check" /\ st[o] = "live"
          /\ todo[t] # <<>> /\ Packet0(t).type = "E"
          /\ file_size[o] = dl_size[o]
          /\ flock' = [flock EXCEPT ![o] = t]
          /\ pc' = [pc EXCEPT ![t] = "unlink"]
          /\ todo' = [todo EXCEPT ![t] = Tail(@)]
          /\ UNCHANGED <<stream, fp, st, file_id, file_size, dl_size, table, server>>
      BY <1>6 DEF CloseFd, Enter, Goto, TypeOK, InHand
    <2>2. f = Packet0(t).id /\ f \in FileIDs
      BY <1>b, <2>1, PacketInHand DEF WorksOnItsFile
    <2>3. AllIn(f)'
      BY <1>a, <1>b, <1>c, <2>1, <2>2, AllInAtClose
    <2>4. o \in table /\ flock[o] = NULL
      BY <1>b, <1>c, <2>1, <2>2, OpenWhileInHand
    <2>5. OneObjectEver'
      BY <1>c, <2>1 DEF OneObjectEver
    <2>6. Untouched'
      BY <1>b, <1>c, <2>1, <2>2, FinishUntouched
    <2>7. ClosedWhenIn'
      BY <1>b, <1>c, <2>1, <2>3, FinishedArrivals DEF ClosedWhenIn, TypeOK
    <2>8. Counts'
      BY <1>a, <1>b, <1>c, <2>1, <2>2, FinishCounts
    <2>9. OneCloser'
      <3>1. \A u \in Threads : pc[u] \in {"unlink", "delete"} => fp[u] # o
        BY <2>1, <2>4, NullAssumption DEF LocksAndSleepers, HeldObjects
      <3> QED
        BY <1>c, <2>1, <2>4, <3>1 DEF OneCloser, TypeOK
    <2> QED
      BY <1>c, <2>1, <2>5, <2>6, <2>7, <2>8, <2>9 DEF UploadFacts
  <1>7. ASSUME NEW t \in Threads, Unlink(t)
        PROVE  UploadFacts'
    <2> DEFINE o == fp[t]
    <2>1. /\ o \in Objects /\ pc[t] = "unlink" /\ st[o] = "live" /\ o \in table
          /\ flock' = [flock EXCEPT ![o] = NULL]
          /\ pc' = [pc EXCEPT ![t] = "delete"]
          /\ table' = table \ {o}
          /\ UNCHANGED <<stream, todo, fp, st, file_id, file_size, dl_size, server>>
      BY <1>7, <1>c DEF Unlink, Enter, Goto, TypeOK, InHand, OneCloser
    <2>2. AllIn(file_id[o])
      BY <1>c, <2>1, NullAssumption DEF ClosedWhenIn, LocksAndSleepers
    <2>3. OneObjectEver' /\ Untouched' /\ Counts'
      BY <1>c, <2>1, SamePackets DEF OneObjectEver, Untouched, Counts, ObjectsOf
    <2>4. ClosedWhenIn'
      BY <1>c, <2>1, <2>2, SamePackets DEF ClosedWhenIn, TypeOK
    <2>5. OneCloser'
      BY <1>c, <2>1 DEF OneCloser, TypeOK
    <2> QED
      BY <1>c, <2>1, <2>3, <2>4, <2>5 DEF UploadFacts
  <1>8. ASSUME NEW t \in Threads, Delete(t)
        PROVE  UploadFacts'
    <2> DEFINE o == fp[t]
    <2>1. /\ o \in Objects /\ pc[t] = "delete" /\ st[o] = "live" /\ o \notin table
          /\ pc' = [pc EXCEPT ![t] = "next"]
          /\ st' = [st EXCEPT ![o] = "deleted"]
          /\ UNCHANGED <<stream, todo, fp, file_id, file_size, dl_size, flock, table>>
      BY <1>8, <1>c DEF Delete, Goto, TypeOK, InHand, OneCloser, HeldObjects
    <2>2. fsize_cond[o] = {}
      <3> SUFFICES ASSUME NEW w \in fsize_cond[o]
                   PROVE  FALSE
        OBVIOUS
      <3>1. w \in Threads /\ pc[w] = "wait" /\ fp[w] = o
        BY <2>1 DEF LocksAndSleepers, TypeOK
      <3>2. todo[w] # <<>> /\ file_id[o] = Packet0(w).id
        BY <1>b, <3>1 DEF TypeOK, InHand, WorksOnItsFile
      <3> QED
        BY <1>c, <2>1, <3>1, <3>2, OpenWhileInHand
    <2>3. server' = "up"
      BY <1>8, <1>c, <2>1, <2>2 DEF Delete
    <2>4. OneObjectEver' /\ Untouched' /\ Counts' /\ ClosedWhenIn'
      <3>1. \A x \in Objects : st'[x] = "unborn" <=> st[x] = "unborn"
        BY <2>1 DEF TypeOK
      <3> QED
        BY <1>c, <2>1, <3>1, SamePackets
        DEF OneObjectEver, Untouched, Counts, ClosedWhenIn, ObjectsOf
    <2>5. OneCloser'
      BY <1>c, <2>1 DEF OneCloser, TypeOK
    <2> QED
      BY <2>3, <2>4, <2>5 DEF UploadFacts
  <1>9. ASSUME NEW t \in Threads, UseDeleted(t)
        PROVE  FALSE
    <2>1. pc[t] = "unlink" \/ (Uses(t) /\ pc[t] # "unlink")
      BY <1>9 DEF UseDeleted, Uses
    <2>2. st[fp[t]] = "deleted" /\ fp[t] \in Objects /\ fp[t] \notin table
      BY <1>9 DEF UseDeleted, Uses, OneObjectPerFile, TypeOK, InHand
    <2>3. CASE pc[t] = "unlink"
      BY <1>c, <2>2, <2>3 DEF OneCloser
    <2>4. CASE Uses(t) /\ pc[t] # "unlink"
      <3>1. todo[t] # <<>> /\ file_id[fp[t]] = Packet0(t).id
        BY <1>b, <2>4 DEF Uses, TypeOK, InHand, WorksOnItsFile
      <3> QED
        BY <1>c, <2>2, <3>1, OpenWhileInHand
    <2> QED
      BY <2>1, <2>3, <2>4
  <1> QED
    BY <1>1, <1>2, <1>3, <1>4, <1>5, <1>6, <1>7, <1>8, <1>9 DEF Next, Step, Idle

-----------------------------------------------------------------------------
\* A step that opens, closes, links, unlinks and locks nothing.
LEMMA QuietFds ==
  ASSUME OwnedFds, UNCHANGED <<opened_fd, table, flock, file_id>>,
         \A d \in Fds : /\ fds'[d] = NULL <=> fds[d] = NULL
                        /\ fds[d] # NULL => fds'[d].file = fds[d].file
  PROVE  OwnedFds'
  BY DEF OwnedFds, Closing, IsOpen

\* Each step keeps the descriptors owned: a file is opened on an object nobody
\* closes, and closed on the one object that has the descriptor.
LEMMA NextFds == IInv /\ Placed /\ UploadInv /\ FdInv /\ [Next]_vars => FdInv'
  <1> SUFFICES ASSUME TypeOK, OneObjectPerFile, LocksAndSleepers, HeldObjects, Placed,
                      AllPlain', UploadInv, FdInv, [Next]_vars
               PROVE  OwnedFds'
    BY DEF IInv, FdInv
  <1> USE DEF env, life, sizes, objects
  <1>a. AllPlain /\ UploadFacts /\ OwnedFds
    BY PlainKept DEF UploadInv, FdInv
  <1>b. WorksOnItsFile /\ Born /\ ClosedWhenIn /\ table \subseteq Objects
    BY <1>a DEF Placed, UploadFacts, TypeOK
  <1>1. CASE UNCHANGED vars
    BY <1>1, <1>a, QuietFds DEF vars
  <1>2. ASSUME NEW t \in Threads,
               \/ FindPendingFileByHash(t) \/ SetPendingFileSize(t) \/ Count(t)
               \/ WaitForData(t) \/ Delete(t) \/ UseDeleted(t) \/ SpuriousWakeup(t)
        PROVE  OwnedFds'
    <2>1. UNCHANGED <<opened_fd, table, flock, file_id, fds>>
      BY <1>2 DEF FindPendingFileByHash, SetPendingFileSize, Count, WaitForData, Delete,
                  UseDeleted, SpuriousWakeup
    <2> QED
      BY <1>a, <2>1, QuietFds
  <1>3. ASSUME NEW t \in Threads, Seek(t) \/ Write(t)
        PROVE  OwnedFds'
    <2>1. /\ UNCHANGED <<opened_fd, table, flock, file_id>>
          /\ \/ fds' = fds
             \/ \E d \in Fds, n \in Nat : fds[d] # NULL /\ fds' = [fds EXCEPT ![d].pos = n]
      <3>1. todo[t] # <<>> /\ Packet0(t).offset \in Nat /\ Packet0(t).len \in Nat
        <4>1. todo[t] # <<>> /\ Packet0(t).type = "D"
          BY <1>3 DEF Seek, Write, Enter, TypeOK, InHand
        <4>2. Packet0(t).offset \in Nat /\ Packet0(t).len \in {0, 1}
          BY <4>1, PacketInHand
        <4> QED
          BY <4>1, <4>2
      <3>2. \A d \in Fds : fds[d] # NULL => fds[d].pos + Packet0(t).len \in Nat
        BY <3>1 DEF TypeOK
      <3>3. CASE Seek(t)
        BY <3>1, <3>3 DEF Seek, IsOpen
      <3>4. CASE Write(t)
        BY <3>2, <3>4 DEF Write, IsOpen
      <3> QED
        BY <1>3, <3>3, <3>4
    <2>2. CASE fds' = fds
      BY <1>a, <2>1, <2>2, QuietFds
    <2>3. ASSUME NEW d \in Fds, NEW n \in Nat, fds[d] # NULL, fds' = [fds EXCEPT ![d].pos = n]
          PROVE  OwnedFds'
      <3>1. fds[d] \in [file : FileIDs, pos : Nat] /\ DOMAIN fds = Fds
        BY <2>3 DEF TypeOK
      <3>2. fds'[d] = [file |-> fds[d].file, pos |-> n]
        BY <2>3, <3>1
      <3>3. fds'[d] # NULL
        BY <3>1, <3>2, NullAssumption
      <3>4. \A e \in Fds : e # d => fds'[e] = fds[e]
        BY <2>3, <3>1
      <3> QED
        BY <1>a, <2>1, <2>3, <3>2, <3>3, <3>4, QuietFds
    <2> QED
      BY <2>1, <2>2, <2>3
  <1>4. ASSUME NEW t \in Threads, AddPendingFile2Hash(t)
        PROVE  OwnedFds'
    <2>1. UNCHANGED <<opened_fd, flock, fds>>
      BY <1>4 DEF AddPendingFile2Hash
    <2>2. CASE UNCHANGED <<life, table>>
      BY <1>a, <2>1, <2>2, QuietFds
    <2>3. CASE \E o \in Objects : /\ st[o] = "unborn"
                                  /\ file_id' = [file_id EXCEPT ![o] = Packet0(t).id]
                                  /\ table' = table \cup {o}
      <3>1. PICK new \in Objects : /\ st[new] = "unborn"
                                   /\ file_id' = [file_id EXCEPT ![new] = Packet0(t).id]
                                   /\ table' = table \cup {new}
        BY <2>3
      <3>2. new \notin table /\ opened_fd[new] = NoFd
        BY <1>b, <3>1 DEF Born, OneObjectPerFile
      <3>3. \A o \in table : file_id'[o] = file_id[o]
        BY <1>b, <3>1, <3>2 DEF TypeOK
      <3> QED
        BY <1>a, <2>1, <3>1, <3>2, <3>3 DEF OwnedFds, Closing, IsOpen
    <2> QED
      BY <1>4, <2>2, <2>3 DEF AddPendingFile2Hash, NewPendingFile
  <1>5. ASSUME NEW t \in Threads, OpenFile(t)
        PROVE  OwnedFds'
    <2> DEFINE o == fp[t]
    <2>1. /\ o \in Objects /\ todo[t] # <<>> /\ flock[o] = NULL
          /\ Packet0(t).id = file_id[o] /\ o \in table
          /\ UNCHANGED <<table, flock, file_id, fp>>
      <3>1. /\ pc[t] = "open" /\ o \in Objects /\ todo[t] # <<>>
            /\ UNCHANGED <<table, flock, file_id, fp>>
        BY <1>5 DEF OpenFile, Enter, TypeOK, InHand
      <3>2. Packet0(t).id = file_id[o]
        BY <1>b, <3>1 DEF WorksOnItsFile
      <3> QED
        BY <1>b, <3>1, <3>2, OpenWhileInHand
    <2>2. CASE UNCHANGED <<opened_fd, fds>>
      BY <1>a, <2>1, <2>2, QuietFds
    <2>3. CASE ~UNCHANGED <<opened_fd, fds>>
      <3>1. PICK d \in Fds :
              /\ opened_fd[o] < 0 /\ fds[d] = NULL
              /\ opened_fd' = [opened_fd EXCEPT ![o] = d]
              /\ fds' = [fds EXCEPT ![d] = [file |-> Packet0(t).id, pos |-> 0]]
        BY <1>5, <2>3 DEF OpenFile, LowestFree, FreeFds
      <3>2. /\ opened_fd[o] \notin Fds /\ d # NoFd
            /\ opened_fd'[o] = d
            /\ \A x \in Objects : x # o => opened_fd'[x] = opened_fd[x]
        <4>1. \A e \in Fds : ~(e < 0)
          BY FdsAssumption
        <4>2. opened_fd \in [Objects -> Fds \cup {NoFd}] /\ o \in Objects
          BY <2>1 DEF TypeOK
        <4>3. opened_fd[o] \notin Fds
          BY <3>1, <4>1
        <4>4. d # NoFd
          BY FdsAssumption DEF NoFd
        <4> QED
          BY <3>1, <4>2, <4>3, <4>4
      <3>3. /\ fds'[d] # NULL /\ fds'[d].file = file_id[o]
            /\ \A e \in Fds : e # d => fds'[e] = fds[e]
        <4>1. fds'[d] = [file |-> Packet0(t).id, pos |-> 0]
          BY <3>1 DEF TypeOK
        <4>2. Packet0(t).id \in FileIDs
          BY <2>1, PacketInHand
        <4>3. fds'[d] \in [file : FileIDs, pos : Nat]
          BY <4>1, <4>2
        <4> QED
          BY <2>1, <3>1, <4>1, <4>3, NullAssumption DEF TypeOK
      <3>4. \A x \in table \ Closing : opened_fd[x] # d
        BY <1>a, <3>1, <3>2 DEF OwnedFds, IsOpen
      <3>5. o \in table \ Closing /\ Closing' = Closing /\ table' = table
        BY <2>1 DEF Closing
      <3> DEFINE open == table \ Closing
      <3>6. open' = open /\ o \in open /\ open \subseteq Objects
        BY <1>b, <3>5
      <3>7. /\ \A e \in Fds : fds[e] # NULL =>
                \E x \in open : opened_fd[x] = e /\ file_id[x] = fds[e].file
            /\ \A x \in open : opened_fd[x] = NoFd \/ IsOpen(opened_fd[x])
            /\ \A x, y \in open :
                 opened_fd[x] = opened_fd[y] /\ opened_fd[x] # NoFd => x = y
        BY <1>a DEF OwnedFds
      <3> HIDE DEF open
      <3>8. ASSUME NEW e \in Fds, fds'[e] # NULL
            PROVE  \E x \in open : opened_fd'[x] = e /\ file_id[x] = fds'[e].file
        <4>1. CASE e = d
          BY <3>2, <3>3, <3>6, <4>1
        <4>2. CASE e # d
          <5>1. fds[e] # NULL /\ fds'[e] = fds[e]
            BY <3>3, <3>8, <4>2
          <5>2. PICK x \in open : opened_fd[x] = e /\ file_id[x] = fds[e].file
            BY <3>7, <5>1
          <5>3. opened_fd'[x] = opened_fd[x]
            BY <3>2, <3>6, <5>2
          <5> QED
            BY <5>1, <5>2, <5>3
        <4> QED
          BY <4>1, <4>2
      <3>9. \A x \in open : opened_fd'[x] = NoFd \/ IsOpen(opened_fd[x])' \/ x = o
        BY <3>2, <3>3, <3>6, <3>7 DEF IsOpen
      <3>10. IsOpen(opened_fd[o])'
        BY <2>1, <3>2, <3>3 DEF IsOpen
      <3>11. \A x, y \in open :
               opened_fd'[x] = opened_fd'[y] /\ opened_fd'[x] # NoFd => x = y
        BY <3>2, <3>4, <3>6, <3>7 DEF open
      <3> QED
        BY <2>1, <3>5, <3>8, <3>9, <3>10, <3>11 DEF OwnedFds, open, IsOpen
    <2> QED
      BY <2>2, <2>3
  <1>6. ASSUME NEW t \in Threads, CloseFd(t)
        PROVE  OwnedFds'
    <2> DEFINE o == fp[t]
               d == opened_fd[o]
    <2>1. /\ o \in Objects /\ flock[o] = NULL
          /\ flock' = [flock EXCEPT ![o] = t]
          /\ fds' = IF IsOpen(d) THEN [fds EXCEPT ![d] = NULL] ELSE fds
          /\ UNCHANGED <<table, opened_fd, file_id>>
      BY <1>6 DEF CloseFd, Enter, FlockFree, TypeOK, InHand
    <2>2. Closing' = Closing \cup {o} /\ o \notin Closing
      BY <2>1, NullAssumption DEF Closing, TypeOK
    <2>3. o \in table
      <3>1. pc[t] = "check" /\ todo[t] # <<>> /\ Packet0(t).id = file_id[o]
        BY <1>6, <1>b DEF CloseFd, Enter, TypeOK, InHand, WorksOnItsFile
      <3> QED
        BY <1>b, <2>1, <3>1, OpenWhileInHand
    <2>4. \A x \in table \ Closing : x # o => opened_fd[x] # d \/ d = NoFd
      BY <1>a, <2>2, <2>3 DEF OwnedFds
    <2>5. \A e \in Fds : IF e = d THEN fds'[e] = NULL ELSE fds'[e] = fds[e]
      BY <2>1 DEF IsOpen, TypeOK
    <2> HIDE DEF d
    <2>6. (table \ Closing)' = (table \ Closing) \ {o}
      BY <2>1, <2>2
    <2> DEFINE open == table \ Closing
    <2>7. /\ \A e \in Fds : fds[e] # NULL =>
               \E x \in open : opened_fd[x] = e /\ file_id[x] = fds[e].file
          /\ \A x \in open : opened_fd[x] = NoFd \/ IsOpen(opened_fd[x])
          /\ \A x, y \in open :
               opened_fd[x] = opened_fd[y] /\ opened_fd[x] # NoFd => x = y
      BY <1>a DEF OwnedFds
    <2>8. \A x \in open' : x \in open /\ x # o
      BY <2>6
    <2>9. \A e \in Fds : fds'[e] # NULL =>
            \E x \in open' : opened_fd[x] = e /\ file_id[x] = fds'[e].file
      BY <2>5, <2>6, <2>7 DEF d
    <2>10. \A x \in open' : opened_fd[x] = NoFd \/ IsOpen(opened_fd[x])'
      BY <2>1, <2>4, <2>5, <2>7, <2>8 DEF IsOpen
    <2> QED
      BY <2>1, <2>7, <2>8, <2>9, <2>10 DEF OwnedFds
  <1>7. ASSUME NEW t \in Threads, Unlink(t)
        PROVE  OwnedFds'
    <2> DEFINE o == fp[t]
    <2>1. /\ o \in Objects /\ pc[t] = "unlink"
          /\ opened_fd' = [opened_fd EXCEPT ![o] = NoFd]
          /\ flock' = [flock EXCEPT ![o] = NULL]
          /\ table' = table \ {o}
          /\ UNCHANGED <<file_id, fds>>
      BY <1>7 DEF Unlink, Enter, TypeOK, InHand
    <2>2. o \in Closing
      BY <2>1, NullAssumption DEF Closing, LocksAndSleepers
    <2>3. table' \ Closing' = table \ Closing
      BY <1>b, <2>1, <2>2 DEF Closing, TypeOK
    <2>4. \A x \in table \ Closing : opened_fd'[x] = opened_fd[x]
      BY <1>b, <2>1, <2>2 DEF TypeOK
    <2> QED
      BY <1>a, <2>1, <2>3, <2>4 DEF OwnedFds, IsOpen
  <1> QED
    BY <1>1, <1>2, <1>3, <1>4, <1>5, <1>6, <1>7 DEF Next, Step, Idle

\* All of it holds at the start.
LEMMA InitUpload == Init => Placed /\ UploadInv /\ FdInv
  <1> SUFFICES ASSUME Init PROVE Placed /\ UploadFacts /\ OwnedFds
    BY DEF UploadInv, FdInv
  <1>1. TypeOK
    BY InitType
  <1>2. \A t \in Threads : Done(t) = 0 /\ Len(stream[t]) \in Nat
    <2>1. \A t \in Threads : stream[t] \in Seq(Packet) /\ todo[t] = stream[t]
      BY <1>1 DEF Init, TypeOK
    <2>2. ASSUME NEW t \in Threads
          PROVE  Done(t) = 0 /\ Len(stream[t]) \in Nat
      <3>1. Len(stream[t]) \in Nat
        BY <2>1, LenProperties
      <3>2. Done(t) = Len(stream[t]) - Len(stream[t])
        BY <2>1 DEF Done
      <3> QED
        BY <3>1, <3>2
    <2> QED
      BY <2>2
  <1>3. Placed
    BY <1>1, <1>2 DEF Init, Placed, InOrder, WorksOnItsFile, Born
  <1>4. Untouched
    BY <1>1, <1>2 DEF Untouched, TypeOK
  <1>5. UploadFacts
    BY <1>4 DEF Init, UploadFacts, OneObjectEver, Counts, ClosedWhenIn, OneCloser
  <1>6. OwnedFds
    BY DEF Init, OwnedFds
  <1> QED
    BY <1>3, <1>5, <1>6

\* The inductive invariant of the two theorems below.
UploadIInv == IInv /\ Placed /\ UploadInv /\ FdInv

\* It holds in every reachable state, for every set of streams.
THEOREM UploadInvariance == Spec => []UploadIInv
  <1>1. Init => UploadIInv
    BY InitInvariant, InitUpload DEF UploadIInv
  <1>2. UploadIInv /\ [Next]_vars => UploadIInv'
    BY NextType, NextObjects, NextLocks, NextWakeup, NextPlaced, NextUpload, NextFds
    DEF UploadIInv, IInv
  <1> QED
    BY <1>1, <1>2, PTL DEF Spec

\* When every file is sent once and in packets with data, no thread ever uses an
\* object after its deletion, deletes it twice or destroys a condition with a
\* sleeper, however many connections the packets come over and in whatever order.
THEOREM DeletedOnlyWhenDone == Spec => []NoUseAfterDelete
  <1>1. UploadIInv => NoUseAfterDelete
    BY DEF UploadIInv, UploadInv, UploadFacts, NoUseAfterDelete
  <1> QED
    BY <1>1, UploadInvariance, PTL

\* Under the same condition descriptors neither leak nor are shared.
THEOREM DescriptorsKept == Spec => []DescriptorsOwned
  <1>1. UploadIInv => DescriptorsOwned
    BY DEF UploadIInv, FdInv, OwnedFds, DescriptorsOwned
  <1> QED
    BY <1>1, UploadInvariance, PTL

-----------------------------------------------------------------------------
(* FileStore: the invariant adds what is on the disk.                        *)

\* The process has a descriptor left when a thread opens a file.
DescriptorsSuffice ==
  \A t \in Threads : pc[t] = "open" /\ opened_fd[fp[t]] = NoFd => FreeFds # {}

\* From open to write a thread's object has a descriptor, and from lseek to
\* write its position is the thread's own.
FdInHand ==
  \A t \in Threads :
    /\ pc[t] \in {"seek", "write"} => opened_fd[fp[t]] # NoFd
    /\ pc[t] = "write" => fds[opened_fd[fp[t]]].pos = Packet0(t).offset

\* Each block on the disk is in its place and was sent, and the blocks of the
\* packets handled, or written and not yet counted, are on the disk.
Placement ==
  /\ \A f \in FileIDs : \A e \in disk[f] :
       e[1] = e[2] /\ \E a \in Arrivals(f, "D") : Arrival(a).offset = e[2]
  /\ \A f \in FileIDs : \A a \in Counted(f) :
       <<Arrival(a).offset, Arrival(a).offset>> \in disk[f]
  /\ \A t \in Threads : pc[t] = "count" =>
       <<Packet0(t).offset, Packet0(t).offset>> \in disk[Packet0(t).id]

\* The size of a file that is closed is known.
SizeKnown ==
  \A o \in Objects :
    st[o] # "unborn" /\ (o \notin table \/ flock[o] # NULL) => file_size[o] # -1

\* What holds of uploads when the disk works and one thread writes each file.
DiskFacts == FdInHand /\ Placement /\ SizeKnown
DiskInv == Promised => DiskFacts

\* The streams and the disk are given at the start.
LEMMA PromiseKept == [Next]_vars => Promised' = Promised
  <1>1. [Next]_vars => stream' = stream /\ disk_ok' = disk_ok
    BY DEF Next, Step, Idle, vars, env, FindPendingFileByHash, AddPendingFile2Hash,
           SetPendingFileSize, OpenFile, Seek, Write, Count, WaitForData, CloseFd,
           Unlink, Delete, UseDeleted, SpuriousWakeup
  <1>2. stream' = stream /\ disk_ok' = disk_ok => Promised' = Promised
    BY DEF Promised, PlainUpload, OneWriter, Arrivals, Arrival
  <1> QED
    BY <1>1, <1>2

\* What a thread with a data packet in hand can rely on.
LEMMA DataInHand ==
  ASSUME UploadIInv, Promised,
         NEW t \in Threads, pc[t] \in {"open", "seek", "write", "count"}
  PROVE  /\ fp[t] \in Objects /\ fp[t] \in table \ Closing
         /\ file_id[fp[t]] = Packet0(t).id /\ Packet0(t).id \in FileIDs
         /\ todo[t] # <<>> /\ Packet0(t).type = "D"
         /\ Packet0(t).offset \in Nat /\ Packet0(t).len = 1
         /\ \A u \in Threads :
              pc[u] \in {"open", "seek", "write", "count"} /\ fp[u] = fp[t] => u = t
         /\ opened_fd[fp[t]] # NoFd =>
              /\ opened_fd[fp[t]] \in Fds /\ fds[opened_fd[fp[t]]] # NULL
              /\ fds[opened_fd[fp[t]]].file = Packet0(t).id
              /\ \A u \in Threads :
                   pc[u] \in {"open", "seek", "write", "count"} /\ u # t =>
                     opened_fd[fp[u]] # opened_fd[fp[t]]
  <1>a. /\ TypeOK /\ Placed /\ InOrder /\ WorksOnItsFile /\ AllPlain /\ UploadFacts /\ OwnedFds
        /\ ClosedWhenIn
    BY DEF UploadIInv, IInv, Placed, UploadInv, FdInv, UploadFacts, AllPlain, Promised
  <1> DEFINE Has(u) == pc[u] \in {"open", "seek", "write", "count"}
  <1>1. ASSUME NEW u \in Threads, Has(u)
        PROVE  /\ fp[u] \in Objects /\ todo[u] # <<>>
               /\ Packet0(u).type = "D" /\ Packet0(u).id \in FileIDs
               /\ Packet0(u).offset \in Nat
               /\ file_id[fp[u]] = Packet0(u).id
               /\ fp[u] \in table \ Closing
               /\ <<u, Done(u) + 1>> \in Arrivals(Packet0(u).id, "D")
               /\ Arrival(<<u, Done(u) + 1>>) = Packet0(u)
    <2>1. fp[u] \in Objects /\ todo[u] # <<>> /\ Packet0(u).type = "D"
      BY <1>a, <1>1 DEF TypeOK, InHand
    <2>2. file_id[fp[u]] = Packet0(u).id
      BY <1>a, <1>1 DEF WorksOnItsFile
    <2>3. fp[u] \in table /\ flock[fp[u]] = NULL
      BY <1>a, <2>1, <2>2, OpenWhileInHand
    <2>4. Done(u) + 1 \in DOMAIN stream[u] /\ stream[u][Done(u) + 1] = Packet0(u)
      BY <1>a, <2>1, AtHand
    <2>5. <<u, Done(u) + 1>> \in Arrivals(Packet0(u).id, "D")
      BY <2>1, <2>4, ArrivalPlace
    <2>6. Packet0(u).id \in FileIDs /\ Packet0(u).offset \in Nat
      BY <1>a, <2>1, PacketInHand
    <2> QED
      BY <2>1, <2>2, <2>3, <2>4, <2>5, <2>6 DEF Closing, Arrival
  <1>2. Has(t)
    OBVIOUS
  <1>3. Packet0(t).len = 1
    <2>1. Arrival(<<t, Done(t) + 1>>).len = 1
      BY <1>1, <1>a, <1>2 DEF AllPlain, PlainUpload
    <2> QED
      BY <1>1, <1>2, <2>1
  <1>4. \A u \in Threads : Has(u) /\ fp[u] = fp[t] => u = t
    <2> SUFFICES ASSUME NEW u \in Threads, Has(u), fp[u] = fp[t]
                 PROVE  u = t
      OBVIOUS
    <2>1. Packet0(u).id = Packet0(t).id
      BY <1>1, <1>2
    <2> DEFINE f == Packet0(t).id
               a == <<u, Done(u) + 1>>
               b == <<t, Done(t) + 1>>
    <2>2. f \in FileIDs /\ a \in Arrivals(f, "D") /\ b \in Arrivals(f, "D")
      BY <1>1, <1>2, <2>1
    <2>3. OneWriter(f)
      BY <2>2 DEF Promised
    <2>4. a[1] = b[1]
      BY <2>2, <2>3 DEF OneWriter
    <2> QED
      BY <2>4
  <1>5. opened_fd[fp[t]] # NoFd =>
              /\ opened_fd[fp[t]] \in Fds /\ fds[opened_fd[fp[t]]] # NULL
              /\ fds[opened_fd[fp[t]]].file = Packet0(t).id
    <2> SUFFICES ASSUME opened_fd[fp[t]] # NoFd
                 PROVE  /\ opened_fd[fp[t]] \in Fds /\ fds[opened_fd[fp[t]]] # NULL
                        /\ fds[opened_fd[fp[t]]].file = Packet0(t).id
      OBVIOUS
    <2>1. fp[t] \in table \ Closing /\ file_id[fp[t]] = Packet0(t).id
      BY <1>1, <1>2
    <2>2. opened_fd[fp[t]] \in Fds /\ fds[opened_fd[fp[t]]] # NULL
      BY <1>a, <2>1 DEF OwnedFds, IsOpen
    <2>3. PICK o \in table \ Closing :
            opened_fd[o] = opened_fd[fp[t]] /\ file_id[o] = fds[opened_fd[fp[t]]].file
      BY <1>a, <2>2 DEF OwnedFds
    <2>4. o = fp[t]
      BY <1>a, <2>1, <2>3 DEF OwnedFds
    <2> QED
      BY <2>1, <2>2, <2>3, <2>4
  <1>6. \A u \in Threads : Has(u) /\ u # t =>
          opened_fd[fp[u]] # opened_fd[fp[t]] \/ opened_fd[fp[t]] = NoFd
    <2> SUFFICES ASSUME NEW u \in Threads, Has(u), u # t, opened_fd[fp[t]] # NoFd,
                        opened_fd[fp[u]] = opened_fd[fp[t]]
                 PROVE  FALSE
      OBVIOUS
    <2>1. fp[u] \in table \ Closing /\ fp[t] \in table \ Closing
      BY <1>1, <1>2
    <2>2. fp[u] = fp[t]
      BY <1>a, <2>1 DEF OwnedFds
    <2> QED
      BY <1>4, <2>2
  <1> QED
    BY <1>1, <1>2, <1>3, <1>4, <1>5, <1>6

-----------------------------------------------------------------------------
\* No step of another thread disturbs the descriptor between a thread's open and
\* its write.
LEMMA OthersKeepFd ==
  ASSUME UploadIInv, Promised, DiskFacts,
         NEW u \in Threads, pc[u] \in {"seek", "write"},
         NEW t \in Threads \ {u}, Step(t) \/ SpuriousWakeup(t)
  PROVE  /\ opened_fd'[fp[u]] = opened_fd[fp[u]]
         /\ fds'[opened_fd[fp[u]]] = fds[opened_fd[fp[u]]]
         /\ fp'[u] = fp[u] /\ pc'[u] = pc[u] /\ todo'[u] = todo[u] /\ stream' = stream
  <1> USE DEF env, life, sizes, objects
  <1> DEFINE d == opened_fd[fp[u]]
  <1>a. /\ TypeOK /\ InOrder /\ WorksOnItsFile /\ Born /\ LocksAndSleepers
        /\ AllPlain /\ UploadFacts /\ OwnedFds
    BY DEF UploadIInv, IInv, Placed, UploadInv, FdInv, AllPlain, Promised
  <1>b. d # NoFd
    BY DEF DiskFacts, FdInHand
  <1>c. /\ fp[u] \in Objects /\ fp[u] \in table \ Closing /\ todo[u] # <<>>
        /\ file_id[fp[u]] = Packet0(u).id
        /\ d \in Fds /\ fds[d] # NULL
        /\ \A v \in Threads :
             pc[v] \in {"open", "seek", "write", "count"} /\ v # u =>
               fp[v] # fp[u] /\ opened_fd[fp[v]] # d
    BY <1>b, DataInHand
  <1>1. CASE \/ FindPendingFileByHash(t) \/ AddPendingFile2Hash(t)
             \/ WaitForData(t) \/ Delete(t) \/ UseDeleted(t) \/ SpuriousWakeup(t)
    BY <1>1, <1>a
    DEF FindPendingFileByHash, AddPendingFile2Hash, WaitForData, Delete, UseDeleted,
        SpuriousWakeup, Goto, TypeOK
  <1>2. CASE SetPendingFileSize(t) \/ Count(t)
    <2>1. /\ fp[t] \in Objects /\ pc[t] \in {"size", "count"}
          /\ SignalAndGoto(t, "next")
          /\ UNCHANGED <<stream, fp, opened_fd, fds>> /\ todo'[u] = todo[u]
      BY <1>2, <1>a DEF SetPendingFileSize, Count, Enter, TypeOK, InHand
    <2>2. pc'[u] = pc[u]
      BY <2>1, <1>a, SignalStep DEF PC
    <2> QED
      BY <2>1, <2>2
  <1>3. CASE OpenFile(t)
    <2>1. /\ pc[t] = "open" /\ UNCHANGED <<stream, fp, todo>> /\ pc'[u] = pc[u]
      BY <1>3, <1>a DEF OpenFile, Enter, Goto, TypeOK
    <2>2. fp[t] # fp[u]
      BY <1>c, <2>1
    <2>3. \/ UNCHANGED <<opened_fd, fds>>
          \/ \E e \in Fds : /\ fds[e] = NULL
                            /\ opened_fd' = [opened_fd EXCEPT ![fp[t]] = e]
                            /\ fds' = [fds EXCEPT ![e] = [file |-> Packet0(t).id, pos |-> 0]]
      BY <1>3 DEF OpenFile, LowestFree, FreeFds
    <2>4. opened_fd'[fp[u]] = opened_fd[fp[u]] /\ fds'[d] = fds[d]
      BY <1>a, <1>c, <2>2, <2>3 DEF TypeOK
    <2> QED
      BY <2>1, <2>4
  <1>4. CASE Seek(t) \/ Write(t)
    <2>1. /\ pc[t] \in {"seek", "write"} /\ UNCHANGED <<stream, fp, todo, opened_fd>>
          /\ pc'[u] = pc[u]
      BY <1>4, <1>a DEF Seek, Write, Enter, Goto, TypeOK
    <2>2. opened_fd[fp[t]] # d
      BY <1>c, <2>1
    <2>3. fds' = fds \/ \E n : fds' = [fds EXCEPT ![opened_fd[fp[t]]].pos = n]
      BY <1>4 DEF Seek, Write
    <2>4. fds'[d] = fds[d]
      BY <1>a, <1>c, <2>2, <2>3 DEF TypeOK
    <2> QED
      BY <2>1, <2>4
  <1>5. CASE CloseFd(t)
    <2>1. /\ pc[t] = "check" /\ fp[t] \in Objects /\ todo[t] # <<>> /\ Packet0(t).type = "E"
          /\ st[fp[t]] = "live" /\ flock[fp[t]] = NULL
          /\ file_size[fp[t]] = dl_size[fp[t]]
          /\ UNCHANGED <<stream, fp, opened_fd, file_id>>
          /\ pc'[u] = pc[u] /\ todo'[u] = todo[u]
          /\ todo' = [todo EXCEPT ![t] = Tail(@)]
          /\ fds' = fds \/ fds' = [fds EXCEPT ![opened_fd[fp[t]]] = NULL]
      BY <1>5, <1>a DEF CloseFd, Enter, FlockFree, Goto, TypeOK, InHand
    <2>2. file_id[fp[t]] = Packet0(t).id /\ Packet0(t).id \in FileIDs
      BY <1>a, <2>1, PacketInHand DEF WorksOnItsFile
    <2>3. fp[t] \in table \ Closing
      BY <1>a, <2>1, <2>2, OpenWhileInHand DEF Closing, Placed, UploadFacts
    <2>4. fp[t] # fp[u]
      <3> SUFFICES ASSUME fp[t] = fp[u]
                   PROVE  FALSE
        OBVIOUS
      <3>1. AllIn(file_id[fp[t]])'
        BY <1>a, <2>1, <2>2, AllInAtClose DEF UploadFacts
      <3>2. /\ Done(u) + 1 \in DOMAIN stream[u] /\ Done(u) \in Nat
            /\ stream[u][Done(u) + 1].id = file_id[fp[t]]
        BY <1>a, <1>c, AtHand
      <3>3. Done(u)' = Done(u)
        BY <1>a, <2>1, FinishPacket
      <3>4. \A i \in DOMAIN stream[u] : stream[u][i].id = file_id[fp[t]] => i <= Done(u)'
        BY <2>1, <3>1 DEF AllIn
      <3>5. Done(u) + 1 <= Done(u)
        BY <3>2, <3>3, <3>4
      <3> QED
        BY <3>2, <3>5
    <2>5. opened_fd[fp[t]] # d
      BY <1>a, <1>b, <1>c, <2>3, <2>4 DEF OwnedFds
    <2>6. fds'[d] = fds[d]
      BY <1>a, <1>c, <2>1, <2>5 DEF TypeOK
    <2> QED
      BY <2>1, <2>6
  <1>6. CASE Unlink(t)
    <2>1. /\ pc[t] = "unlink" /\ fp[t] \in Objects /\ UNCHANGED <<stream, fp, todo, fds>>
          /\ pc'[u] = pc[u]
          /\ opened_fd' = [opened_fd EXCEPT ![fp[t]] = NoFd]
      BY <1>6, <1>a DEF Unlink, Enter, Goto, TypeOK, InHand
    <2>2. fp[t] \in Closing
      BY <1>a, <2>1, NullAssumption DEF LocksAndSleepers, Closing
    <2> QED
      BY <1>a, <1>c, <2>1, <2>2 DEF TypeOK
  <1> QED
    BY <1>1, <1>2, <1>3, <1>4, <1>5, <1>6 DEF Step

\* Each step keeps the positions: with one writer per file nobody seeks between a
\* thread's lseek and its write.
LEMMA NextFdInHand ==
  ASSUME UploadIInv, Promised, DiskFacts, DescriptorsSuffice, [Next]_vars
  PROVE  FdInHand'
  <1> SUFFICES ASSUME NEW u \in Threads, pc'[u] \in {"seek", "write"}
               PROVE  /\ opened_fd'[fp'[u]] # NoFd
                      /\ pc'[u] = "write" => fds'[opened_fd'[fp'[u]]].pos = (Packet0(u)').offset
    BY DEF FdInHand
  <1> USE DEF env, life, sizes, objects
  <1>a. TypeOK /\ FdInHand
    BY DEF UploadIInv, IInv, DiskFacts
  <1>1. CASE UNCHANGED vars
    BY <1>1, <1>a DEF FdInHand, Packet0, vars
  <1>2. ASSUME NEW t \in Threads, Step(t) \/ SpuriousWakeup(t), t # u
        PROVE  /\ opened_fd'[fp'[u]] # NoFd
               /\ pc'[u] = "write" => fds'[opened_fd'[fp'[u]]].pos = (Packet0(u)').offset
    <2>1. pc[u] \in {"seek", "write"}
      <3>1. CASE SetPendingFileSize(t) \/ Count(t)
        <4>1. fp[t] \in Objects /\ pc[t] \in {"size", "count"} /\ SignalAndGoto(t, "next")
          BY <3>1, <1>a DEF SetPendingFileSize, Count, Enter, TypeOK, InHand
        <4>2. pc'[u] = pc[u] \/ pc'[u] = "check"
          BY <1>2, <1>a, <4>1, SignalStep DEF PC, UploadIInv, IInv
        <4> QED
          BY <4>2
      <3>2. CASE ~(SetPendingFileSize(t) \/ Count(t))
        <4>1. pc' = pc \/ \E label : pc' = [pc EXCEPT ![t] = label]
          BY <1>2, <3>2
          DEF Step, FindPendingFileByHash, AddPendingFile2Hash, OpenFile, Seek, Write,
              WaitForData, CloseFd, Unlink, Delete, UseDeleted, SpuriousWakeup, Goto
        <4> QED
          BY <1>2, <1>a, <4>1 DEF TypeOK
      <3> QED
        BY <3>1, <3>2
    <2>2. /\ opened_fd'[fp[u]] = opened_fd[fp[u]]
          /\ fds'[opened_fd[fp[u]]] = fds[opened_fd[fp[u]]]
          /\ fp'[u] = fp[u] /\ pc'[u] = pc[u] /\ todo'[u] = todo[u]
      BY <1>2, <2>1, OthersKeepFd
    <2> QED
      BY <1>a, <2>1, <2>2 DEF FdInHand, Packet0
  <1>3. CASE OpenFile(u)
    <2>1. /\ pc[u] = "open" /\ pc'[u] = "seek" /\ fp' = fp /\ fp[u] \in Objects
      BY <1>3, <1>a DEF OpenFile, Enter, Goto, TypeOK, InHand
    <2>2. opened_fd'[fp[u]] # NoFd
      <3>1. FreeFds # {} \/ opened_fd[fp[u]] # NoFd
        BY <2>1 DEF DescriptorsSuffice
      <3>2. disk_ok
        BY DEF Promised
      <3>3. \/ \E d \in Fds : opened_fd' = [opened_fd EXCEPT ![fp[u]] = d]
            \/ opened_fd' = opened_fd /\ (opened_fd[fp[u]] >= 0 \/ opened_fd[fp[u]] # NoFd)
        BY <1>3, <3>1, <3>2 DEF OpenFile, LowestFree, FreeFds
      <3>4. \A d \in Fds : d # NoFd
        BY FdsAssumption DEF NoFd
      <3>5. CASE \E d \in Fds : opened_fd' = [opened_fd EXCEPT ![fp[u]] = d]
        BY <1>a, <2>1, <3>4, <3>5 DEF TypeOK
      <3>6. CASE opened_fd' = opened_fd /\ (opened_fd[fp[u]] >= 0 \/ opened_fd[fp[u]] # NoFd)
        BY <3>6 DEF NoFd
      <3> QED
        BY <3>3, <3>5, <3>6
    <2> QED
      BY <2>1, <2>2
  <1>4. CASE Seek(u)
    <2> DEFINE d == opened_fd[fp[u]]
    <2>1. /\ pc[u] = "seek" /\ UNCHANGED <<fp, opened_fd, todo>>
          /\ fds' = IF IsOpen(d) THEN [fds EXCEPT ![d].pos = Packet0(u).offset] ELSE fds
      BY <1>4 DEF Seek, Enter
    <2>2. d # NoFd
      BY <1>a, <2>1 DEF FdInHand
    <2>3. d \in Fds /\ fds[d] # NULL
      BY <2>1, <2>2, DataInHand
    <2>4. fds[d] \in [file : FileIDs, pos : Nat] /\ fds \in [Fds -> [file : FileIDs, pos : Nat] \cup {NULL}]
      BY <1>a, <2>3 DEF TypeOK
    <2>5. fds'[d].pos = Packet0(u).offset
      BY <2>1, <2>3, <2>4 DEF IsOpen
    <2> QED
      BY <2>1, <2>2, <2>5 DEF Packet0
  <1>5. CASE UseDeleted(u)
    BY <1>5, <1>a DEF UseDeleted, FdInHand, Packet0
  <1>6. CASE \/ FindPendingFileByHash(u) \/ AddPendingFile2Hash(u) \/ SetPendingFileSize(u)
             \/ Write(u) \/ Count(u) \/ WaitForData(u) \/ CloseFd(u) \/ Unlink(u)
             \/ Delete(u) \/ SpuriousWakeup(u)
    <2>1. pc'[u] \notin {"seek", "write"}
      <3>1. CASE FindPendingFileByHash(u) \/ AddPendingFile2Hash(u)
        <4>1. Packet0(u).type \in {"N", "D", "E"}
          BY <1>a, <3>1, PacketInHand
          DEF FindPendingFileByHash, AddPendingFile2Hash, TypeOK, InHand
        <4> QED
          BY <1>a, <3>1, <4>1, HandlerLabel
          DEF FindPendingFileByHash, AddPendingFile2Hash, Goto, TypeOK
      <3>2. CASE SetPendingFileSize(u) \/ Count(u)
        <4>1. fp[u] \in Objects /\ pc[u] \in {"size", "count"} /\ SignalAndGoto(u, "next")
          BY <3>2, <1>a DEF SetPendingFileSize, Count, Enter, TypeOK, InHand
        <4> QED
          BY <1>a, <4>1, SignalStep DEF PC, UploadIInv, IInv
      <3>3. CASE \/ Write(u) \/ WaitForData(u) \/ CloseFd(u) \/ Unlink(u)
                 \/ Delete(u) \/ SpuriousWakeup(u)
        BY <3>3, <1>a
        DEF Write, WaitForData, CloseFd, Unlink, Delete, SpuriousWakeup, Goto, TypeOK
      <3> QED
        BY <1>6, <3>1, <3>2, <3>3
    <2> QED
      BY <2>1
  <1> QED
    BY <1>1, <1>2, <1>3, <1>4, <1>5, <1>6 DEF Next, Step, Idle

-----------------------------------------------------------------------------
\* A write puts the block where it belongs, and disturbs no other.
LEMMA WriteInPlace ==
  ASSUME UploadIInv, Promised, DiskFacts, NEW t \in Threads, Write(t)
  PROVE  LET f == Packet0(t).id
             k == Packet0(t).offset
         IN  /\ f \in FileIDs /\ k \in Nat
             /\ disk' = [disk EXCEPT ![f] = @ \cup {<<k, k>>}]
  <1> DEFINE f == Packet0(t).id
             k == Packet0(t).offset
             d == opened_fd[fp[t]]
  <1>1. pc[t] = "write"
    BY DEF Write, Enter
  <1>2. d # NoFd /\ fds[d].pos = k
    BY <1>1 DEF DiskFacts, FdInHand
  <1>3. /\ d \in Fds /\ fds[d] # NULL /\ fds[d].file = f
        /\ f \in FileIDs /\ k \in Nat /\ Packet0(t).len = 1
    BY <1>1, <1>2, DataInHand
  <1>4. disk_ok
    BY DEF Promised
  <1>5. disk' = [disk EXCEPT ![f] = {e \in @ : e[1] # k} \cup {<<k, k>>}]
    BY <1>2, <1>3, <1>4 DEF Write, IsOpen
  <1>6. \A e \in disk[f] : e[1] = e[2] /\ e \in Nat \X Nat
    BY <1>3 DEF DiskFacts, Placement, UploadIInv, IInv, TypeOK
  <1>7. {e \in disk[f] : e[1] # k} \cup {<<k, k>>} = disk[f] \cup {<<k, k>>}
    BY <1>6
  <1> QED
    BY <1>3, <1>5, <1>7

\* Each step keeps the blocks where they belong.
LEMMA NextPlacement ==
  ASSUME UploadIInv, Promised, DiskFacts, [Next]_vars
  PROVE  Placement'
  <1> USE DEF env, life, sizes, objects
  <1>a. TypeOK /\ InOrder /\ Placement /\ LocksAndSleepers
    BY DEF UploadIInv, IInv, DiskFacts, Placed
  <1>1. CASE /\ UNCHANGED <<stream, todo, disk>>
             /\ \A t \in Threads : pc'[t] = "count" => pc[t] = "count"
    <2>1. /\ \A f, ty : Arrivals(f, ty)' = Arrivals(f, ty)
          /\ \A f : Counted(f)' = Counted(f)
          /\ \A a : Arrival(a)' = Arrival(a)
          /\ \A u : Packet0(u)' = Packet0(u)
      BY <1>1, SamePackets
    <2> QED
      BY <1>1, <1>a, <2>1 DEF Placement
  <1>2. CASE UNCHANGED vars
    BY <1>1, <1>2 DEF vars
  <1>3. ASSUME NEW t \in Threads, Step(t) \/ SpuriousWakeup(t),
               ~SetPendingFileSize(t), ~Count(t), ~CloseFd(t), ~Write(t)
        PROVE  Placement'
    <2>1. UNCHANGED <<stream, todo, disk>>
      BY <1>3 DEF Step, FindPendingFileByHash, AddPendingFile2Hash, OpenFile, Seek,
                  WaitForData, Unlink, Delete, UseDeleted, SpuriousWakeup
    <2>2. pc'[t] # "count" \/ pc'[t] = pc[t]
      <3>1. CASE FindPendingFileByHash(t) \/ AddPendingFile2Hash(t)
        <4>1. Packet0(t).type \in {"N", "D", "E"}
          BY <1>a, <3>1, PacketInHand
          DEF FindPendingFileByHash, AddPendingFile2Hash, TypeOK, InHand
        <4> QED
          BY <1>a, <3>1, <4>1, HandlerLabel
          DEF FindPendingFileByHash, AddPendingFile2Hash, Goto, TypeOK
      <3>2. CASE ~(FindPendingFileByHash(t) \/ AddPendingFile2Hash(t))
        BY <1>3, <1>a, <3>2
        DEF Step, OpenFile, Seek, WaitForData, Unlink, Delete, UseDeleted, SpuriousWakeup,
            Goto, TypeOK
      <3> QED
        BY <3>1, <3>2
    <2>3. \A u \in Threads : u # t => pc'[u] = pc[u]
      BY <1>3, <1>a DEF Step, FindPendingFileByHash, AddPendingFile2Hash, OpenFile, Seek,
                  WaitForData, Unlink, Delete, UseDeleted, SpuriousWakeup, Goto, TypeOK
    <2> QED
      BY <1>1, <2>1, <2>2, <2>3
  <1>4. ASSUME NEW t \in Threads, Write(t)
        PROVE  Placement'
    <2>1. PICK f \in FileIDs, k \in Nat : f = Packet0(t).id /\ k = Packet0(t).offset
      BY <1>4, WriteInPlace
    <2>2. disk' = [disk EXCEPT ![f] = @ \cup {<<k, k>>}]
      BY <1>4, <2>1, WriteInPlace
    <2>3. /\ pc[t] = "write" /\ UNCHANGED <<stream, todo>>
          /\ \A u \in Threads : u # t => pc'[u] = pc[u]
      BY <1>4, <1>a DEF Write, Enter, Goto, TypeOK
    <2>4. /\ \A g, ty : Arrivals(g, ty)' = Arrivals(g, ty)
          /\ \A g : Counted(g)' = Counted(g)
          /\ \A a : Arrival(a)' = Arrival(a)
          /\ \A u : Packet0(u)' = Packet0(u)
      BY <2>3, SamePackets
    <2>5. \A g \in FileIDs : \A e : e \in disk'[g] <=> e \in disk[g] \/ (g = f /\ e = <<k, k>>)
      BY <1>a, <2>2 DEF TypeOK
    <2>6. \E a \in Arrivals(f, "D") : Arrival(a).offset = k
      <3>1. todo[t] # <<>> /\ Packet0(t).type = "D"
        BY <2>3, DataInHand
      <3>2. Done(t) + 1 \in DOMAIN stream[t] /\ stream[t][Done(t) + 1] = Packet0(t)
        BY <1>a, <3>1, AtHand
      <3>3. <<t, Done(t) + 1>> \in Arrivals(f, "D")
        BY <2>1, <3>1, <3>2, ArrivalPlace
      <3> QED
        BY <2>1, <3>2, <3>3 DEF Arrival
    <2>7. \A g \in FileIDs : \A e \in disk'[g] :
            e[1] = e[2] /\ \E a \in Arrivals(g, "D") : Arrival(a).offset = e[2]
      BY <1>a, <2>5, <2>6 DEF Placement
    <2>8. \A g \in FileIDs : \A a \in Counted(g) :
            <<Arrival(a).offset, Arrival(a).offset>> \in disk'[g]
      BY <1>a, <2>5 DEF Placement
    <2>9. ASSUME NEW u \in Threads, pc'[u] = "count"
          PROVE  <<Packet0(u).offset, Packet0(u).offset>> \in disk'[Packet0(u).id]
      <3>1. CASE u = t
        BY <2>1, <2>5, <3>1
      <3>2. CASE u # t
        <4>1. pc[u] = "count"
          BY <2>3, <2>9, <3>2
        <4>2. Packet0(u).id \in FileIDs
          BY <4>1, DataInHand
        <4> QED
          BY <1>a, <2>5, <4>1, <4>2 DEF Placement
      <3> QED
        BY <3>1, <3>2
    <2> QED
      BY <2>4, <2>7, <2>8, <2>9 DEF Placement
  <1>5. ASSUME NEW t \in Threads, SetPendingFileSize(t) \/ Count(t) \/ CloseFd(t)
        PROVE  Placement'
    <2>1. /\ pc[t] \in {"size", "count", "check"} /\ fp[t] \in Objects /\ todo[t] # <<>>
          /\ Packet0(t).type = "D" => pc[t] = "count"
          /\ todo' = [todo EXCEPT ![t] = Tail(@)]
          /\ UNCHANGED <<stream, disk>>
      BY <1>5, <1>a DEF SetPendingFileSize, Count, CloseFd, Enter, TypeOK, InHand
    <2>2. \A u \in Threads : pc'[u] = "count" => u # t /\ pc[u] = "count"
      <3>1. CASE SetPendingFileSize(t) \/ Count(t)
        <4>1. SignalAndGoto(t, "next")
          BY <3>1 DEF SetPendingFileSize, Count
        <4> QED
          BY <1>a, <2>1, <3>1, <4>1, SignalStep DEF PC, SetPendingFileSize, Count, Enter
      <3>2. CASE CloseFd(t)
        BY <1>a, <3>2 DEF CloseFd, Goto, TypeOK
      <3> QED
        BY <1>5, <3>1, <3>2
    <2>3. \A u \in Threads : u # t => Packet0(u)' = Packet0(u)
      BY <1>a, <2>1 DEF TypeOK, Packet0
    <2>4. /\ \A g, ty : Arrivals(g, ty)' = Arrivals(g, ty)
          /\ \A a : Arrival(a)' = Arrival(a)
      BY <2>1 DEF Arrivals, Arrival
    <2>5. ASSUME NEW g \in FileIDs, NEW a \in {x \in Arrivals(g, "D") : Handled(x)'}
          PROVE  <<Arrival(a).offset, Arrival(a).offset>> \in disk[g]
      <3>1. CASE a \in Counted(g)
        BY <1>a, <3>1 DEF Placement
      <3>2. CASE a \notin Counted(g)
        <4>1. /\ Packet0(t).id = g /\ Packet0(t).type = "D"
              /\ a = <<t, Done(t) + 1>>
          BY <1>a, <2>1, <2>5, <3>2, FinishedArrivals
        <4>2. stream[t][Done(t) + 1] = Packet0(t)
          BY <1>a, <2>1, AtHand
        <4>3. Arrival(a) = Packet0(t)
          BY <4>1, <4>2 DEF Arrival
        <4> QED
          BY <1>a, <2>1, <4>1, <4>3 DEF Placement
      <3> QED
        BY <3>1, <3>2
    <2>6. \A g \in FileIDs : \A a \in Counted(g)' :
            <<Arrival(a)'.offset, Arrival(a)'.offset>> \in disk'[g]
      BY <2>1, <2>4, <2>5 DEF Counted
    <2>7. \A u \in Threads : pc'[u] = "count" =>
            <<(Packet0(u)').offset, (Packet0(u)').offset>> \in disk'[(Packet0(u)').id]
      BY <1>a, <2>1, <2>2, <2>3 DEF Placement
    <2> QED
      BY <1>a, <2>1, <2>4, <2>6, <2>7 DEF Placement
  <1> QED
    BY <1>2, <1>3, <1>4, <1>5 DEF Next, Idle

\* A size, once both sizes agree, stays known.
LEMMA NextSizeKnown ==
  ASSUME UploadIInv, Promised, DiskFacts, [Next]_vars
  PROVE  SizeKnown'
  <1> USE DEF env, life, sizes, objects
  <1>a. TypeOK /\ SizeKnown /\ LocksAndSleepers /\ HeldObjects
    BY DEF UploadIInv, IInv, DiskFacts
  <1>1. CASE /\ UNCHANGED <<table, flock, file_size>>
             /\ \A o \in Objects : st'[o] = "unborn" <=> st[o] = "unborn"
    BY <1>1, <1>a DEF SizeKnown
  <1>2. CASE UNCHANGED vars
    BY <1>1, <1>2 DEF vars
  <1>3. ASSUME NEW t \in Threads,
               \/ FindPendingFileByHash(t) \/ OpenFile(t) \/ Seek(t) \/ Write(t) \/ Count(t)
               \/ WaitForData(t) \/ Delete(t) \/ UseDeleted(t) \/ SpuriousWakeup(t)
        PROVE  SizeKnown'
    <2>1. UNCHANGED <<table, flock, file_size>>
      BY <1>3 DEF FindPendingFileByHash, OpenFile, Seek, Write, Count, WaitForData, Delete,
                  UseDeleted, SpuriousWakeup
    <2>2. \A o \in Objects : st'[o] = "unborn" <=> st[o] = "unborn"
      <3>1. CASE Delete(t)
        BY <1>a, <3>1 DEF Delete, TypeOK, InHand, HeldObjects
      <3>2. CASE ~Delete(t)
        BY <1>3, <3>2 DEF FindPendingFileByHash, OpenFile, Seek, Write, Count, WaitForData,
                  UseDeleted, SpuriousWakeup
      <3> QED
        BY <3>1, <3>2
    <2> QED
      BY <1>1, <2>1, <2>2
  <1>4. ASSUME NEW t \in Threads, AddPendingFile2Hash(t)
        PROVE  SizeKnown'
    <2>1. UNCHANGED <<flock, file_size>>
      BY <1>4 DEF AddPendingFile2Hash
    <2>2. CASE UNCHANGED <<life, table>>
      BY <1>1, <2>1, <2>2
    <2>3. CASE \E o \in Objects : /\ st[o] = "unborn" /\ st' = [st EXCEPT ![o] = "live"]
                                  /\ table' = table \cup {o}
      <3>1. PICK new \in Objects : /\ st[new] = "unborn" /\ st' = [st EXCEPT ![new] = "live"]
                                   /\ table' = table \cup {new}
        BY <2>3
      <3>2. flock[new] = NULL
        <4>1. \A u \in Threads : flock[new] # u
          BY <1>a, <3>1 DEF LocksAndSleepers, HeldObjects
        <4> QED
          BY <1>a, <4>1 DEF TypeOK
      <3> QED
        BY <1>a, <2>1, <3>1, <3>2 DEF SizeKnown, TypeOK
    <2> QED
      BY <1>4, <2>2, <2>3 DEF AddPendingFile2Hash, NewPendingFile
  <1>5. ASSUME NEW t \in Threads, SetPendingFileSize(t)
        PROVE  SizeKnown'
    <2>1. /\ fp[t] \in Objects /\ todo[t] # <<>> /\ Packet0(t).type = "N"
          /\ file_size' = [file_size EXCEPT ![fp[t]] = Packet0(t).size]
          /\ UNCHANGED <<table, flock, st>>
      BY <1>5, <1>a DEF SetPendingFileSize, Enter, TypeOK, InHand
    <2>2. Packet0(t).size \in Nat
      BY <1>a, <2>1, PacketInHand
    <2> QED
      BY <1>a, <2>1, <2>2 DEF SizeKnown, TypeOK
  <1>6. ASSUME NEW t \in Threads, CloseFd(t)
        PROVE  SizeKnown'
    <2>1. /\ fp[t] \in Objects /\ file_size[fp[t]] = dl_size[fp[t]]
          /\ flock' = [flock EXCEPT ![fp[t]] = t]
          /\ UNCHANGED <<table, file_size, st>>
      BY <1>6, <1>a DEF CloseFd, Enter, TypeOK, InHand
    <2>2. file_size[fp[t]] # -1
      <3>1. dl_size[fp[t]] \in Nat
        BY <1>a, <2>1 DEF TypeOK
      <3> QED
        BY <2>1, <3>1
    <2> QED
      BY <1>a, <2>1, <2>2 DEF SizeKnown, TypeOK
  <1>7. ASSUME NEW t \in Threads, Unlink(t)
        PROVE  SizeKnown'
    <2>1. /\ fp[t] \in Objects /\ pc[t] = "unlink" /\ st[fp[t]] = "live"
          /\ flock' = [flock EXCEPT ![fp[t]] = NULL]
          /\ table' = table \ {fp[t]}
          /\ UNCHANGED <<file_size, st>>
      BY <1>7, <1>a DEF Unlink, Enter, TypeOK, InHand
    <2>2. file_size[fp[t]] # -1
      BY <1>a, <2>1, NullAssumption DEF SizeKnown, LocksAndSleepers
    <2> QED
      BY <1>a, <2>1, <2>2 DEF SizeKnown, TypeOK
  <1> QED
    BY <1>2, <1>3, <1>4, <1>5, <1>6, <1>7 DEF Next, Step, Idle

-----------------------------------------------------------------------------
(* The upload FileStore specifies                                          *)

\* At the start nothing is announced, stored or closed.
LEMMA InitStore == Init => Store!Init
  <1> SUFFICES ASSUME Init PROVE Store!Init
    OBVIOUS
  <1>1. \A f \in FileIDs : ObjectsOf(f) = {} /\ BlocksOf(f) = {}
    BY NullAssumption DEF Init, ObjectsOf, BlocksOf
  <1>2. \A f \in FileIDs : KnownSizes(f) = {}
    BY <1>1 DEF KnownSizes
  <1> QED
    BY <1>1, <1>2 DEF Store!Init, AnnouncedSize, StoredBlocks, IsClosed

\* The header announces the size, once.
LEMMA SetSizeAnnounces ==
  ASSUME UploadIInv, Promised, Promised', NEW t \in Threads, SetPendingFileSize(t)
  PROVE  Store!Next
  <1> USE DEF env, life, sizes, objects
  <1>a. /\ TypeOK /\ InOrder /\ WorksOnItsFile /\ Born /\ AllPlain
        /\ OneObjectEver /\ Counts /\ HeldObjects
    BY DEF UploadIInv, IInv, Placed, UploadInv, UploadFacts, AllPlain, Promised
  <1> DEFINE o == fp[t]
  <1>1. /\ pc[t] = "size" /\ o \in Objects /\ todo[t] # <<>> /\ Packet0(t).type = "N"
        /\ st[o] = "live"
        /\ file_size' = [file_size EXCEPT ![o] = Packet0(t).size]
        /\ UNCHANGED <<file_id, table, disk, fp, stream, disk_ok>>
    BY <1>a DEF SetPendingFileSize, Enter, TypeOK, InHand
  <1>2. PICK f \in FileIDs, n \in Nat :
          f = Packet0(t).id /\ n = Packet0(t).size /\ file_id[o] = f
    BY <1>a, <1>1, PacketInHand DEF WorksOnItsFile
  <1>3. ObjectsOf(f) = {o}
    BY <1>a, <1>1, <1>2, NullAssumption DEF ObjectsOf, OneObjectEver
  <1>4. file_size[o] = -1
    <2> SUFFICES ASSUME NEW h \in Arrivals(f, "N"), Handled(h)
                 PROVE  FALSE
      BY <1>a, <1>1, <1>2 DEF Counts
    <2>1. /\ Done(t) \in Nat
          /\ Done(t) + 1 \in DOMAIN stream[t] /\ stream[t][Done(t) + 1] = Packet0(t)
      BY <1>a, <1>1, AtHand
    <2>2. <<t, Done(t) + 1>> \in Arrivals(f, "N")
      BY <1>1, <1>2, <2>1, ArrivalPlace
    <2>3. h = <<t, Done(t) + 1>>
      BY <1>a, <2>2 DEF AllPlain, PlainUpload
    <2> QED
      BY <2>1, <2>3 DEF Handled
  <1>5. KnownSizes(f) = {}
    BY <1>3, <1>4 DEF KnownSizes
  <1>6. \A g \in FileIDs : ObjectsOf(g)' = ObjectsOf(g) /\ (g # f => o \notin ObjectsOf(g))
    BY <1>1, <1>2 DEF ObjectsOf
  <1>7. (KnownSizes(f))' = {n}
    <2>1. KnownSizes(f)' = {file_size'[x] : x \in ObjectsOf(f)'} \ {-1}
      BY DEF KnownSizes
    <2>2. ObjectsOf(f)' = {o}
      BY <1>3, <1>6
    <2>3. file_size'[o] = n /\ n # -1
      BY <1>1, <1>2, <1>a DEF TypeOK
    <2> QED
      BY <2>1, <2>2, <2>3
  <1>8. ASSUME NEW g \in FileIDs, g # f
        PROVE  KnownSizes(g)' = KnownSizes(g)
    <2>1. ObjectsOf(g)' = ObjectsOf(g) /\ ObjectsOf(g) \subseteq Objects
      BY <1>6 DEF ObjectsOf
    <2>2. \A x \in ObjectsOf(g) : file_size'[x] = file_size[x]
      BY <1>1, <1>6, <1>8, <1>a, <2>1 DEF TypeOK
    <2> QED
      BY <2>1, <2>2 DEF KnownSizes
  <1>9. AnnouncedSize[f] = -1 /\ AnnouncedSize'[f] = n
    BY <1>5, <1>7 DEF AnnouncedSize
  <1>10. AnnouncedSize' = [AnnouncedSize EXCEPT ![f] = n]
    <2>1. \A g \in FileIDs : g # f => AnnouncedSize'[g] = AnnouncedSize[g]
      <3> SUFFICES ASSUME NEW g \in FileIDs, g # f
                   PROVE  AnnouncedSize'[g] = AnnouncedSize[g]
        OBVIOUS
      <3>1. PICK K : K = KnownSizes(g)
        OBVIOUS
      <3>2. KnownSizes(g)' = K
        BY <1>8, <3>1
      <3>3. AnnouncedSize[g] = IF K = {} \/ ~Promised THEN -1 ELSE CHOOSE m \in K : TRUE
        BY <3>1 DEF AnnouncedSize
      <3>4. AnnouncedSize'[g] = IF K = {} \/ ~Promised' THEN -1 ELSE CHOOSE m \in K : TRUE
        BY <3>2 DEF AnnouncedSize
      <3> QED
        BY <3>3, <3>4
    <2>2. /\ DOMAIN AnnouncedSize' = FileIDs /\ DOMAIN AnnouncedSize = FileIDs
          /\ AnnouncedSize' = [g \in FileIDs |-> AnnouncedSize'[g]]
      BY DEF AnnouncedSize
    <2>3. AnnouncedSize = [g \in FileIDs |-> AnnouncedSize[g]]
      BY DEF AnnouncedSize
    <2> QED
      BY <1>9, <2>1, <2>2, <2>3
  <1>11. StoredBlocks' = StoredBlocks /\ IsClosed' = IsClosed
    <2>1. StoredBlocks' = StoredBlocks
      BY <1>1 DEF StoredBlocks, BlocksOf
    <2>2. IsClosed' = IsClosed
      BY <1>1 DEF IsClosed, ObjectsOf
    <2> QED
      BY <2>1, <2>2
  <1>12. Store!Announce(f)
    BY <1>2, <1>9, <1>10, <1>11 DEF Store!Announce
  <1> QED
    BY <1>12 DEF Store!Next

\* A write stores a block of a file that is not closed.
LEMMA WriteStores ==
  ASSUME UploadIInv, Promised, Promised', DiskFacts, NEW t \in Threads, Write(t)
  PROVE  Store!Next \/ UNCHANGED Store!fsVars
  <1> USE DEF env, life, sizes, objects
  <1>1. PICK f \in FileIDs, k \in Nat : f = Packet0(t).id /\ k = Packet0(t).offset
    BY WriteInPlace
  <1>2. disk' = [disk EXCEPT ![f] = @ \cup {<<k, k>>}]
    BY <1>1, WriteInPlace
  <1>3. UNCHANGED <<file_id, table, file_size>>
    BY DEF Write
  <1>4. AnnouncedSize' = AnnouncedSize /\ IsClosed' = IsClosed
    BY <1>3 DEF AnnouncedSize, IsClosed, KnownSizes, ObjectsOf
  <1>5. StoredBlocks' = [StoredBlocks EXCEPT ![f] = @ \cup {k}]
    <2>1. disk \in [FileIDs -> SUBSET (Nat \X Nat)]
      BY DEF UploadIInv, IInv, TypeOK
    <2>2. BlocksOf(f)' = BlocksOf(f) \cup {k}
      <3>1. disk'[f] = disk[f] \cup {<<k, k>>}
        BY <1>2, <2>1
      <3>2. {x \in disk'[f] : x[1] = x[2]} = {x \in disk[f] : x[1] = x[2]} \cup {<<k, k>>}
        BY <3>1
      <3>3. BlocksOf(f)' = {e[2] : e \in {x \in disk'[f] : x[1] = x[2]}}
        BY DEF BlocksOf
      <3>4. <<k, k>>[2] = k
        OBVIOUS
      <3> QED
        BY <3>2, <3>3, <3>4 DEF BlocksOf
    <2>3. \A g \in FileIDs : g # f => BlocksOf(g)' = BlocksOf(g)
      BY <1>2, <2>1 DEF BlocksOf
    <2> QED
      BY <2>2, <2>3 DEF StoredBlocks
  <1>6. ~IsClosed[f]
    <2>1. /\ fp[t] \in table /\ fp[t] \in Objects /\ file_id[fp[t]] = f
      BY <1>1, DataInHand DEF Write, Enter
    <2>2. \A o \in ObjectsOf(f) : o = fp[t]
      BY <2>1, NullAssumption
      DEF ObjectsOf, UploadIInv, UploadInv, UploadFacts, OneObjectEver, AllPlain, Promised
    <2> QED
      BY <2>1, <2>2 DEF IsClosed
  <1>7. CASE k \in StoredBlocks[f]
    BY <1>4, <1>5, <1>7 DEF Store!fsVars, StoredBlocks
  <1>8. CASE k \notin StoredBlocks[f]
    <2>1. StoredBlocks'[f] = StoredBlocks[f] \cup {k}
      BY <1>5 DEF StoredBlocks
    <2>2. Store!Store(f)
      BY <1>4, <1>5, <1>6, <1>8, <2>1 DEF Store!Store
    <2> QED
      BY <2>2 DEF Store!Next
  <1> QED
    BY <1>7, <1>8

\* The unlink closes the file: its size is known and all its blocks are stored.
LEMMA UnlinkCloses ==
  ASSUME UploadIInv, Promised, Promised', DiskFacts, NEW t \in Threads, Unlink(t)
  PROVE  Store!Next
  <1> USE DEF env, life, sizes, objects
  <1>a. /\ TypeOK /\ Born /\ AllPlain /\ LocksAndSleepers
        /\ OneObjectEver /\ Counts /\ ClosedWhenIn /\ OneCloser /\ Placement /\ SizeKnown
    BY DEF UploadIInv, IInv, Placed, UploadInv, UploadFacts, AllPlain, Promised, DiskFacts
  <1>1. /\ pc[t] = "unlink" /\ fp[t] \in Objects /\ st[fp[t]] = "live" /\ fp[t] \in table
        /\ table' = table \ {fp[t]}
        /\ UNCHANGED <<file_id, file_size, disk>>
    BY <1>a DEF Unlink, Enter, TypeOK, InHand, OneCloser
  <1>2. PICK o \in Objects : o = fp[t]
    BY <1>1
  <1>3. PICK f \in FileIDs : f = file_id[o]
    BY <1>a, <1>1, <1>2 DEF TypeOK, Born
  <1>4. flock[o] # NULL
    BY <1>a, <1>1, <1>2, NullAssumption DEF LocksAndSleepers
  <1>5. AllIn(f) /\ file_size[o] # -1
    BY <1>a, <1>1, <1>2, <1>3, <1>4 DEF ClosedWhenIn, SizeKnown
  <1>6. PICK h \in Arrivals(f, "N") : file_size[o] = Arrival(h).size
    BY <1>a, <1>1, <1>2, <1>3, <1>5 DEF Counts
  <1>7. PICK n \in Nat : n = file_size[o]
    <2>1. Arrival(h) \in Packet /\ Arrival(h).type = "N"
      BY <1>a, ArrivalPlace DEF Arrival, TypeOK
    <2> QED
      BY <1>6, <2>1 DEF Packet
  <1>8. ObjectsOf(f) = {o}
    BY <1>a, <1>2, <1>3, NullAssumption DEF ObjectsOf, OneObjectEver
  <1>9. AnnouncedSize[f] = n
    <2>1. KnownSizes(f) = {n}
      BY <1>7, <1>8 DEF KnownSizes
    <2> QED
      BY <2>1 DEF AnnouncedSize
  <1>10. BlocksOf(f) = 0..n - 1
    <2>1. {Arrival(a).offset : a \in Arrivals(f, "D")} = 0..n - 1
      BY <1>a, <1>6, <1>7 DEF AllPlain, PlainUpload
    <2>2. \A e \in disk[f] : e[1] = e[2] /\ e[2] \in 0..n - 1
      BY <1>a, <2>1 DEF Placement
    <2>3. \A k \in 0..n - 1 : <<k, k>> \in disk[f]
      <3> SUFFICES ASSUME NEW k \in 0..n - 1 PROVE <<k, k>> \in disk[f]
        OBVIOUS
      <3>1. PICK a \in Arrivals(f, "D") : Arrival(a).offset = k
        BY <2>1
      <3>2. Handled(a)
        BY <1>5, ArrivalPlace DEF AllIn, Handled
      <3> QED
        BY <1>a, <3>1, <3>2 DEF Placement, Counted
    <2> QED
      BY <2>2, <2>3 DEF BlocksOf
  <1>11. IsClosed' = [IsClosed EXCEPT ![f] = TRUE] /\ ~IsClosed[f]
    <2>1. \A g \in FileIDs : ObjectsOf(g)' = ObjectsOf(g)
      BY <1>1 DEF ObjectsOf
    <2>2. \A g \in FileIDs : g # f => ObjectsOf(g) \ table' = ObjectsOf(g) \ table
      BY <1>1, <1>2, <1>3 DEF ObjectsOf
    <2>3. ObjectsOf(f) \ table' = {o} /\ ObjectsOf(f) \ table = {}
      BY <1>1, <1>2, <1>8
    <2> QED
      BY <2>1, <2>2, <2>3 DEF IsClosed
  <1>12. AnnouncedSize' = AnnouncedSize /\ StoredBlocks' = StoredBlocks
    BY <1>1 DEF AnnouncedSize, StoredBlocks, KnownSizes, ObjectsOf, BlocksOf
  <1>13. StoredBlocks[f] = 0..AnnouncedSize[f] - 1 /\ AnnouncedSize[f] >= 0
    BY <1>9, <1>10 DEF StoredBlocks
  <1>14. Store!Close(f)
    BY <1>11, <1>12, <1>13 DEF Store!Close
  <1> QED
    BY <1>14 DEF Store!Next

\* A new object announces, stores and closes nothing.
LEMMA AddIsSilent ==
  ASSUME UploadIInv, Promised, Promised', NEW t \in Threads, AddPendingFile2Hash(t)
  PROVE  UNCHANGED Store!fsVars
  <1> USE DEF env, life, sizes, objects
  <1>a. TypeOK /\ Born
    BY DEF UploadIInv, IInv, Placed
  <1>1. UNCHANGED <<file_size, disk>>
    BY DEF AddPendingFile2Hash
  <1>2. StoredBlocks' = StoredBlocks
    BY <1>1 DEF StoredBlocks, BlocksOf
  <1>3. CASE UNCHANGED <<life, table>>
    BY <1>1, <1>2, <1>3 DEF Store!fsVars, AnnouncedSize, IsClosed, KnownSizes, ObjectsOf
  <1>4. CASE \E o \in Objects : /\ st[o] = "unborn"
                                /\ file_id' = [file_id EXCEPT ![o] = Packet0(t).id]
                                /\ table' = table \cup {o}
    <2>1. PICK new \in Objects : /\ st[new] = "unborn"
                                 /\ file_id' = [file_id EXCEPT ![new] = Packet0(t).id]
                                 /\ table' = table \cup {new}
      BY <1>4
    <2>2. file_id[new] = NULL /\ file_size[new] = -1
      BY <1>a, <2>1 DEF Born
    <2>3. \A g \in FileIDs : ObjectsOf(g) \subseteq ObjectsOf(g)' /\ ObjectsOf(g)' \subseteq ObjectsOf(g) \cup {new}
                              /\ new \notin ObjectsOf(g) /\ ObjectsOf(g) \subseteq Objects
      BY <1>a, <2>1, <2>2, NullAssumption DEF ObjectsOf, TypeOK
    <2>4. \A g \in FileIDs : KnownSizes(g)' = KnownSizes(g)
      BY <1>1, <2>2, <2>3 DEF KnownSizes
    <2>5. \A g \in FileIDs : ObjectsOf(g)' \ table' = ObjectsOf(g) \ table
      BY <2>1, <2>3
    <2> QED
      <3>1. AnnouncedSize' = AnnouncedSize
        <4> SUFFICES ASSUME NEW g \in FileIDs
                     PROVE  AnnouncedSize'[g] = AnnouncedSize[g]
          BY DEF AnnouncedSize
        <4>1. PICK K : K = KnownSizes(g)
          OBVIOUS
        <4>2. KnownSizes(g)' = K
          BY <2>4, <4>1
        <4>3. AnnouncedSize[g] = IF K = {} \/ ~Promised THEN -1 ELSE CHOOSE m \in K : TRUE
          BY <4>1 DEF AnnouncedSize
        <4>4. AnnouncedSize'[g] = IF K = {} \/ ~Promised' THEN -1 ELSE CHOOSE m \in K : TRUE
          BY <4>2 DEF AnnouncedSize
        <4> QED
          BY <4>3, <4>4
      <3>2. IsClosed' = IsClosed
        BY <2>5 DEF IsClosed
      <3> QED
        BY <1>2, <3>1, <3>2 DEF Store!fsVars
  <1> QED
    BY <1>3, <1>4 DEF AddPendingFile2Hash, NewPendingFile

\* Each step is a step of FileStore or leaves its variables unchanged.
LEMMA NextStore ==
  UploadIInv /\ DiskInv /\ [Next]_vars => [Store!Next]_(Store!fsVars)
  <1> SUFFICES ASSUME UploadIInv, DiskInv, [Next]_vars
               PROVE  Store!Next \/ UNCHANGED Store!fsVars
    OBVIOUS
  <1> USE DEF env, life, sizes, objects
  <1>1. CASE ~Promised
    <2>1. ~Promised'
      BY <1>1, PromiseKept
    <2> QED
      BY <1>1, <2>1 DEF Store!fsVars, AnnouncedSize, StoredBlocks, IsClosed
  <1>2. CASE Promised
    <2>1. Promised' /\ DiskFacts
      BY <1>2, PromiseKept DEF DiskInv
    <2>2. CASE UNCHANGED <<file_id, file_size, table, disk>>
      BY <1>2, <2>1, <2>2
      DEF Store!fsVars, AnnouncedSize, StoredBlocks, IsClosed, KnownSizes, ObjectsOf, BlocksOf
    <2>3. CASE UNCHANGED vars
      BY <2>2, <2>3 DEF vars
    <2>4. ASSUME NEW t \in Threads,
                 \/ FindPendingFileByHash(t) \/ OpenFile(t) \/ Seek(t) \/ Count(t)
                 \/ WaitForData(t) \/ CloseFd(t) \/ Delete(t) \/ UseDeleted(t)
                 \/ SpuriousWakeup(t)
          PROVE  Store!Next \/ UNCHANGED Store!fsVars
      BY <2>2, <2>4 DEF FindPendingFileByHash, OpenFile, Seek, Count, WaitForData, CloseFd,
                        Delete, UseDeleted, SpuriousWakeup
    <2>5. ASSUME NEW t \in Threads,
                 \/ AddPendingFile2Hash(t) \/ SetPendingFileSize(t) \/ Write(t) \/ Unlink(t)
          PROVE  Store!Next \/ UNCHANGED Store!fsVars
      BY <1>2, <2>1, <2>5, AddIsSilent, SetSizeAnnounces, WriteStores, UnlinkCloses
    <2> QED
      BY <2>3, <2>4, <2>5 DEF Next, Step, Idle
  <1> QED
    BY <1>1, <1>2

\* The facts hold at the start.
LEMMA InitDisk == Init => DiskInv
  <1> SUFFICES ASSUME Init PROVE DiskFacts
    BY DEF DiskInv
  <1>1. TypeOK
    BY InitType
  <1>2. \A f \in FileIDs : Counted(f) = {}
    <2>1. \A t \in Threads : Done(t) = 0
      <3> SUFFICES ASSUME NEW t \in Threads PROVE Done(t) = 0
        OBVIOUS
      <3>1. Len(stream[t]) \in Nat
        BY <1>1, LenProperties DEF TypeOK
      <3>2. Done(t) = Len(stream[t]) - Len(stream[t])
        BY DEF Init, Done
      <3> QED
        BY <3>1, <3>2
    <2>2. \A t \in Threads : \A i \in DOMAIN stream[t] : ~(i <= Done(t))
      BY <1>1, <2>1 DEF TypeOK
    <2> QED
      BY <2>2, ArrivalPlace DEF Counted, Handled
  <1> QED
    BY <1>2 DEF Init, DiskFacts, FdInHand, Placement, SizeKnown

\* The facts hold in every reachable state.
THEOREM DiskInvariance == Spec /\ []DescriptorsSuffice => [](UploadIInv /\ DiskInv)
  <1>1. Init => DiskInv
    BY InitDisk
  <1>2. UploadIInv /\ DiskInv /\ DescriptorsSuffice /\ [Next]_vars => DiskInv'
    <2> SUFFICES ASSUME UploadIInv, DiskInv, DescriptorsSuffice, [Next]_vars, Promised'
                 PROVE  DiskFacts'
      BY DEF DiskInv
    <2>1. Promised /\ DiskFacts
      BY PromiseKept DEF DiskInv
    <2> QED
      BY <2>1, NextFdInHand, NextPlacement, NextSizeKnown DEF DiskFacts
  <1> QED
    BY <1>1, <1>2, UploadInvariance, PTL DEF Spec

\* PendingFile implements FileStore, its liveness left aside: for every plain
\* upload whose blocks come over one connection, on a disk that works and with
\* descriptors left to open, the size is announced once, blocks are stored only in
\* files that are not closed, and a file is closed with exactly its blocks in it.
THEOREM ImplementsFileStoreSafely ==
  Spec /\ []DescriptorsSuffice => Store!Init /\ [][Store!Next]_(Store!fsVars)
  BY InitStore, NextStore, DiskInvariance, PTL DEF Spec
============================================================================

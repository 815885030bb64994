---------------------------- MODULE BlockTables ----------------------------
(***************************************************************************)
(* The two tables by which processes may share the blocks of the shared    *)
(* memory and find each other: W_RouteCtl (share_mem/w_route_ctl.cpp),     *)
(* with a semaphore for each item, and CScheduleManager                    *)
(* (share_mem/schedule_mng.cpp), with a semaphore for each table.          *)
(*                                                                         *)
(* They are part of the library, and the programs share blocks without     *)
(* them.  A process here calls them in the only order that they are good   *)
(* for: it asks for a block, takes it by a second call, uses it, and marks *)
(* it; and it registers itself, once.  What a call does between P and V is  *)
(* one step.                                                               *)
(***************************************************************************)
EXTENDS Integers, FiniteSets

CONSTANTS Procs,
          __shm_block_size,    \* blocks: _chunk_num of the schedule manager
          __process_size,      \* items for processes: its _proc_num
          MaxPackets,          \* bound: packets written
          NULL

ASSUME SizesAssumption ==
  {__shm_block_size, __process_size, MaxPackets} \subseteq Nat \ {0}
ASSUME ProcsAssumption == IsFiniteSet(Procs) /\ NULL \notin Procs

Blocks == 0..__shm_block_size - 1
\* register_proc may use one item more than there are.
Slots == 0..__process_size

VARIABLES
  table,       \* "route" or "schedule"
  part,        \* "mem": blocks are shared, "proc": processes register
  crowd,       \* "alone": one process of a kind, or registering, at a time; or "any"
  pc,
  role,        \* of a process: "writer" or "reader"
  mem,         \* the items of the blocks: is it free (FREE), is it ready (DATA_READY)?
  at,          \* the index of a loop over the items
  held,        \* the block a process was given, or NULL
  data,        \* the packet in a block, 0 for none
  packets,     \* the packets written
  read,        \* read[k]: how often packet k was read
  conf,        \* the segment whose id __proc_file has, NULL if there is no file
  seg,         \* the segment that a process has attached, NULL for none
  removed,     \* the segments removed
  item,        \* item[s][n]: the process in item n of segment s
  real         \* _real_proc_num

given == <<table, part, crowd, role>>
blocks == <<mem, at, held, data, packets, read>>
procs == <<conf, seg, removed, item, real>>
vars == <<given, pc, blocks, procs>>

Goto(p, label) == pc' = [pc EXCEPT ![p] = label]
Others(p) == Procs \ {p}

\* InitMemTable, InitPidTable, and the end of init.  The segment of the route
\* tables is there, and named by what names no process.
Init ==
  /\ table \in {"route", "schedule"}
  /\ part \in {"mem", "proc"}
  /\ crowd \in {"alone", "any"}
  /\ role \in [Procs -> {"writer", "reader"}]
  /\ part = "proc" => \A p \in Procs : role[p] = "writer"
  /\ pc = [p \in Procs |-> "idle"]
  /\ mem = [b \in Blocks |-> [free |-> TRUE, ready |-> FALSE]]
  /\ at = [p \in Procs |-> 0]
  /\ held = [p \in Procs |-> NULL]
  /\ data = [b \in Blocks |-> 0]
  /\ packets = 0
  /\ read = [k \in 1..MaxPackets |-> 0]
  /\ conf = NULL
  /\ seg = [p \in Procs |-> NULL]
  /\ removed = {}
  /\ item = [s \in Procs \cup {NULL} |-> [n \in Slots |-> NULL]]
  /\ real = [p \in Procs |-> 0]

-----------------------------------------------------------------------------
(* Blocks                                                                  *)

\* Mutant: get_free_mem does not look at data_state.
FitsByState(p, b) ==
  IF role[p] = "writer" THEN mem[b].free
  ELSE mem[b].ready /\ (table = "schedule" => mem[b].free)

\* The tests of GetFreeMem and GetDataReadyMem, get_free_mem and get_data_ready_mem.
Fits(p, b) ==
  IF role[p] = "writer" THEN mem[b].free /\ (table = "schedule" => ~mem[b].ready)
  ELSE mem[b].ready /\ (table = "schedule" => mem[b].free)

Ask(p) ==
  /\ part = "mem" /\ pc[p] = "idle"
  /\ crowd = "alone" => \A q \in Others(p) : role[q] = role[p] => pc[q] = "idle"
  /\ role[p] = "writer" => packets < MaxPackets
  /\ Goto(p, "scan")
  /\ at' = [at EXCEPT ![p] = 0]
  /\ UNCHANGED <<given, mem, held, data, packets, read, procs>>

\* GetFreeMem, GetDataReadyMem: an item, between its P and V.
ScanItem(p) ==
  /\ table = "route" /\ pc[p] = "scan"
  /\ IF at[p] \notin Blocks THEN Goto(p, "idle") /\ UNCHANGED <<at, held>>
     ELSE IF Fits(p, at[p])
       THEN held' = [held EXCEPT ![p] = at[p]] /\ Goto(p, "take") /\ UNCHANGED at
       ELSE at' = [at EXCEPT ![p] = @ + 1] /\ UNCHANGED <<pc, held>>
  /\ UNCHANGED <<given, mem, data, packets, read, procs>>

\* get_free_mem, get_data_ready_mem: the whole table, under its lock.
ScanTable(p) ==
  /\ table = "schedule" /\ pc[p] = "scan"
  /\ LET fit == {b \in Blocks : Fits(p, b)}
     IN \/ fit = {} /\ Goto(p, "idle") /\ UNCHANGED held
        \/ \E b \in fit :
             /\ \A c \in fit : b <= c
             /\ held' = [held EXCEPT ![p] = b]
             /\ Goto(p, "take")
  /\ UNCHANGED <<given, mem, at, data, packets, read, procs>>

\* SetMemItem with neither flag set, or set_mem_run_state(BUSY).
Take(p) ==
  /\ pc[p] = "take"
  /\ mem' = [mem EXCEPT ![held[p]] =
               [free |-> FALSE, ready |-> IF table = "route" THEN FALSE ELSE @.ready]]
  /\ Goto(p, "use")
  /\ UNCHANGED <<given, at, held, data, packets, read, procs>>

\* The writer writes a packet into the block, the reader reads the one there.
Use(p) ==
  /\ pc[p] = "use"
  /\ IF role[p] = "writer"
       THEN /\ packets < MaxPackets
            /\ packets' = packets + 1
            /\ data' = [data EXCEPT ![held[p]] = packets']
            /\ UNCHANGED read
       ELSE /\ read' = [k \in DOMAIN read |->
                          IF k = data[held[p]] THEN read[k] + 1 ELSE read[k]]
            /\ UNCHANGED <<data, packets>>
  /\ Goto(p, "mark")
  /\ UNCHANGED <<given, mem, at, held, procs>>

\* SetMemItem: ready for the reader, or free again.
MarkItem(p) ==
  /\ table = "route" /\ pc[p] = "mark"
  /\ mem' = [mem EXCEPT ![held[p]] =
               [free |-> role[p] = "reader", ready |-> role[p] = "writer"]]
  /\ held' = [held EXCEPT ![p] = NULL]
  /\ Goto(p, "idle")
  /\ UNCHANGED <<given, at, data, packets, read, procs>>

\* set_mem_data_state ...
MarkData(p) ==
  /\ table = "schedule" /\ pc[p] = "mark"
  /\ mem' = [mem EXCEPT ![held[p]].ready = (role[p] = "writer")]
  /\ Goto(p, "free")
  /\ UNCHANGED <<given, at, held, data, packets, read, procs>>

\* ... and set_mem_run_state(FREE).
MarkFree(p) ==
  /\ pc[p] = "free"
  /\ mem' = [mem EXCEPT ![held[p]].free = TRUE]
  /\ held' = [held EXCEPT ![p] = NULL]
  /\ Goto(p, "idle")
  /\ UNCHANGED <<given, at, data, packets, read, procs>>

-----------------------------------------------------------------------------
(* Processes                                                               *)

\* A process begins to register.
Enter(p) ==
  /\ part = "proc" /\ pc[p] = "idle"
  /\ crowd = "alone" => \A q \in Others(p) : pc[q] \in {"idle", "registered", "refused"}
  /\ Goto(p, IF table = "route" THEN "search" ELSE "look")
  /\ UNCHANGED <<given, blocks, procs>>

\* AddPidItem: an item is read between its P and V ...
AddSearch(p) ==
  /\ pc[p] = "search"
  /\ IF at[p] >= __process_size THEN Goto(p, "refused") /\ UNCHANGED at
     ELSE IF item[NULL][at[p]] = NULL THEN Goto(p, "set") /\ UNCHANGED at
     ELSE at' = [at EXCEPT ![p] = @ + 1] /\ UNCHANGED pc
  /\ UNCHANGED <<given, mem, held, data, packets, read, procs>>

\* ... and one without a process written between another P and V.
AddSet(p) ==
  /\ pc[p] = "set"
  /\ item' = [item EXCEPT ![NULL][at[p]] = p]
  /\ Goto(p, "registered")
  /\ UNCHANGED <<given, blocks, conf, seg, removed, real>>

\* isProExist: a segment that was removed is attached at (void *) -1, which is
\* not NULL.
IsProExist(p) ==
  /\ pc[p] = "look"
  /\ IF conf = NULL THEN Goto(p, "create") /\ UNCHANGED seg
     ELSE seg' = [seg EXCEPT ![p] = conf] /\ Goto(p, "count")
  /\ UNCHANGED <<given, blocks, conf, removed, item, real>>

\* init: shmget and shmat.
CreateTable(p) ==
  /\ pc[p] = "create"
  /\ seg' = [seg EXCEPT ![p] = p]
  /\ Goto(p, "name")
  /\ UNCHANGED <<given, blocks, conf, removed, item, real>>

\* Mutant: the file cannot be written, which init does not look at.
WriteFails(p) ==
  /\ pc[p] = "name"
  /\ Goto(p, "count")
  /\ UNCHANGED <<given, blocks, procs>>

WriteProShmid(p) ==
  /\ pc[p] = "name"
  /\ conf' = p
  /\ Goto(p, "count")
  /\ UNCHANGED <<given, blocks, seg, removed, item, real>>

Attached(s) == Cardinality({q \in Procs : seg[q] = s})

\* register_proc: its item is the last of those who have the table attached.  It
\* does not look whether shmctl, or shmat, has failed.
Count(p) ==
  /\ pc[p] = "count"
  /\ real' = [real EXCEPT ![p] = Attached(seg[p]) - 1]
  /\ IF seg[p] \in removed THEN \E end \in {"crashed", "refused"} : Goto(p, end)
     ELSE Goto(p, IF real'[p] > __process_size THEN "refused" ELSE "register")
  /\ UNCHANGED <<given, blocks, conf, seg, removed, item>>

Register(p) ==
  /\ pc[p] = "register"
  /\ item' = [item EXCEPT ![seg[p]][real[p]] = p]
  /\ Goto(p, "registered")
  /\ UNCHANGED <<given, blocks, conf, seg, removed, real>>

\* ~CScheduleManager: the last one out removes the segment, and not the file.
Leave(p) ==
  /\ crowd = "any" /\ table = "schedule" /\ pc[p] = "registered"
  /\ seg' = [seg EXCEPT ![p] = NULL]
  /\ removed' = IF Attached(seg[p]) = 1 THEN removed \cup {seg[p]} ELSE removed
  /\ Goto(p, "left")
  /\ UNCHANGED <<given, blocks, conf, item, real>>

Step(p) ==
  \/ Ask(p) \/ ScanItem(p) \/ ScanTable(p) \/ Take(p) \/ Use(p)
  \/ MarkItem(p) \/ MarkData(p) \/ MarkFree(p)
  \/ Enter(p) \/ AddSearch(p) \/ AddSet(p) \/ IsProExist(p) \/ CreateTable(p)
  \/ WriteProShmid(p) \/ Count(p) \/ Register(p) \/ Leave(p)

Next == \E p \in Procs : Step(p)

Spec == Init /\ [][Next]_vars

-----------------------------------------------------------------------------
(* Properties                                                              *)

\* With one writer and one reader at a time, asking and taking by two calls is
\* enough: no packet is read twice, and none is overwritten before it is read.
ReadOnce ==
  crowd = "alone" =>
    \A k \in 1..packets :
      /\ read[k] <= 1
      /\ read[k] = 0 => \E b \in Blocks : data[b] = k

\* Processes that register one after the other, and stay, have an item each, in
\* one table.
EachHasItsItem ==
  crowd = "alone" =>
    \A p \in Procs : pc[p] = "registered" =>
      \E n \in Slots : item[IF table = "route" THEN NULL ELSE conf][n] = p
=============================================================================

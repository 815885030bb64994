------------------------------ MODULE IpcSetup ------------------------------
(***************************************************************************)
(* How the processes of the relay come to share memory and semaphores:     *)
(* shm_app (w_new_shm.cpp) creates them and writes their ids to files under *)
(* conf/, the processes read the files and attach when they first need to  *)
(* (W_DataRecv::ShmReadInit), and the scripts prepare.sh, auto_run.sh,     *)
(* kill_proc.sh and clear.sh start and stop it all.                        *)
(*                                                                         *)
(* The kernel keeps segments and semaphore sets by id and key.  The first  *)
(* id it gives after a boot is 0; 0 is also what the code takes for "no id".*)
(* A removed segment lives on, without its key, until the last process     *)
(* that has it attached ends; a removed semaphore set is gone at once.     *)
(*                                                                         *)
(* The same module stands for the tables of W_RouteCtl, whose segments     *)
(* (W_ShmTable) have no key: see Scenario.                                 *)
(***************************************************************************)
EXTENDS Integers, FiniteSets

CONSTANTS Procs,      \* transfer.exe and the reading processes
          MaxId,      \* bound: ids the kernel gives
          MaxRuns,    \* bound: runs of scripts and reboots
          Firsts,     \* the first id after a boot: 0, or 1 if others use ids
          Scenarios

ASSUME BoundsAssumption == MaxId \in Nat /\ MaxRuns \in Nat /\ Firsts \subseteq {0, 1}

\* table: is it about a table of W_RouteCtl, and not about the blocks?
\* killsAll: does field 6 of ps aux, as clear.sh cuts it, hold the pid?  It
\*   depends on the lengths of the user's name and of the pid.
\* again: may prepare.sh be run while processes are up?
\* bare: may auto_run.sh, which does not run shm_app, be used?
Scenario == [table : BOOLEAN, killsAll : BOOLEAN, again : BOOLEAN, bare : BOOLEAN]
ASSUME ScenarioAssumption == Scenarios \subseteq Scenario

Kinds == {"shm", "sem"}
Ids == 0..MaxId
Gone == -2          \* of an id: nothing has it
Marked == -1        \* removed, but attached by some process
Private == 0        \* IPC_PRIVATE
Unset == -1         \* shmaddr before shmat
Nothing == [id |-> 0, key |-> 0]

VARIABLES
  scen,     \* the circumstances of this behaviour
  kernel,   \* kernel[k][i]: the key of the object i of kind k, Marked or Gone
  next,     \* next[k]: the id the kernel gives next
  now,      \* time(NULL)
  conf,     \* conf[k]: the id and key in the file, 0 for what it does not have
  op,       \* what the operator's script does next, and to which kind
  app,      \* app[k]: shmid and shmkey, semid and semkey of shm_app
  made,     \* has shm_app made the semaphore set?
  runs,     \* runs of scripts, and reboots
  pc,       \* pc[p]: what process p does next
  held,     \* held[p]: p's shmid and shmkey
  mem,      \* mem[p]: the segment p has attached
  lock      \* lock[p]: p's semid

os == <<kernel, next>>
proc == <<pc, held, mem, lock>>
shmapp == <<app, made>>
vars == <<scen, os, now, conf, op, shmapp, runs, proc>>

Do(what, k) == op' = [do |-> what, of |-> k]
Idle == op.do = "idle"

IsTable(k) == scen.table /\ k = "shm"
\* What W_ShmTable::ReadShmid asks of its file, and what the others ask of theirs.
ValidTable(c) == c.id # 0
Valid(k, c) == IF IsTable(k) THEN ValidTable(c) ELSE c.id # 0 /\ c.key # 0
Exists(k, i) == kernel[k][i] # Gone

Init ==
  /\ scen \in Scenarios
  /\ kernel = [k \in Kinds |-> [i \in Ids |-> Gone]]
  /\ next \in [Kinds -> Firsts]
  /\ now = 1
  /\ conf = [k \in Kinds |-> Nothing]
  /\ op = [do |-> "idle", of |-> "shm"]
  /\ app = [k \in Kinds |-> Nothing]
  /\ made = FALSE
  /\ runs = 0
  /\ pc = [p \in Procs |-> "down"]
  /\ held = [p \in Procs |-> Nothing]
  /\ mem = [p \in Procs |-> Unset]
  /\ lock = [p \in Procs |-> 0]

-----------------------------------------------------------------------------
(* prepare.sh: shm_app, then the processes.                                *)

\* Mutant: starts the processes, and leaves shm_app for later.
PrepareStartsFirst ==
  /\ Idle /\ runs < MaxRuns
  /\ \E S \in SUBSET Procs : pc' = [p \in Procs |-> IF p \in S THEN "call" ELSE pc[p]]
  /\ runs' = runs + 1
  /\ now' \in {now, now + 1}
  /\ Do(IF scen.table THEN "get" ELSE "key", "shm")
  /\ app' = [k \in Kinds |-> Nothing]
  /\ made' = FALSE
  /\ UNCHANGED <<scen, os, conf, held, mem, lock>>

\* prepare.sh runs shm_app: NewShm and NewSem2, or, for the tables, NewSem.
Prepare ==
  /\ Idle /\ runs < MaxRuns
  /\ scen.again \/ \A p \in Procs : pc[p] = "down"
  /\ runs' = runs + 1
  /\ now' \in {now, now + 1}
  /\ Do(IF scen.table THEN "get" ELSE "key", "shm")
  /\ app' = [k \in Kinds |-> Nothing]
  /\ made' = FALSE
  /\ UNCHANGED <<scen, os, conf, proc>>

\* Mutant: takes the time for a key whatever the file says.
CreateFreshKey ==
  /\ op.do = "key"
  /\ app' = [app EXCEPT ![op.of] = [id |-> 0, key |-> now]]
  /\ Do(IF op.of = "shm" THEN "get" ELSE "open", op.of)
  /\ UNCHANGED <<scen, os, now, conf, made, runs, proc>>

\* CreateShmkey and CreateSemkey: the key in the file, or the time.  The id in the
\* file stays in shmid or semid either way.
CreateKey ==
  /\ op.do = "key"
  /\ app' = [app EXCEPT ![op.of] =
                IF Valid(op.of, conf[op.of]) THEN conf[op.of]
                ELSE [conf[op.of] EXCEPT !.key = now]]
  /\ Do(IF op.of = "shm" THEN "get" ELSE "open", op.of)
  /\ UNCHANGED <<scen, os, now, conf, made, runs, proc>>

\* The kernel makes an object with a new id, which shm_app keeps.
New(k, key) ==
  /\ next[k] <= MaxId
  /\ kernel' = [kernel EXCEPT ![k][next[k]] = key]
  /\ next' = [next EXCEPT ![k] = @ + 1]
  /\ app' = [app EXCEPT ![k].id = next[k]]

\* shmget and semget with IPC_CREAT in CreateShm and CreateSem.
Get ==
  LET k == op.of
      same == {i \in Ids : app[k].key # Private /\ kernel[k][i] = app[k].key}
  IN /\ op.do = "get" /\ ~IsTable(k)
     /\ \/ \E i \in same : app' = [app EXCEPT ![k].id = i] /\ UNCHANGED os
        \/ same = {} /\ New(k, app[k].key)
     /\ made' = (k = "sem")
     /\ Do("open", k)
     /\ UNCHANGED <<scen, now, conf, runs, proc>>

\* W_ShmTable::CreateShm: each call makes a segment, without a key.
CreateTable ==
  /\ op.do = "get" /\ IsTable(op.of)
  /\ New("shm", Private)
  /\ Do("open", "shm")
  /\ UNCHANGED <<scen, now, conf, made, runs, proc>>

\* WriteShmid and WriteSemid: the open empties the file.
OpenConf ==
  /\ op.do = "open"
  /\ conf' = [conf EXCEPT ![op.of] = Nothing]
  /\ Do("id", op.of)
  /\ UNCHANGED <<scen, os, now, shmapp, runs, proc>>

\* The line of the id, flushed by its endl.
WriteId ==
  /\ op.do = "id"
  /\ conf' = [conf EXCEPT ![op.of].id = app[op.of].id]
  /\ IF IsTable(op.of) THEN Do("key", "sem") ELSE Do("line", op.of)
  /\ UNCHANGED <<scen, os, now, shmapp, runs, proc>>

\* Mutant: the key is left out, as in W_ShmTable.
WriteNoKey ==
  /\ op.do = "line"
  /\ \/ op.of = "shm" /\ Do("key", "sem")
     \/ op.of = "sem" /\ Do(IF made THEN "start" ELSE "get", "sem")
  /\ UNCHANGED <<scen, os, now, conf, shmapp, runs, proc>>

\* The line of the key.  WriteInit writes the file of the semaphores before
\* CreateSem and again in it.
WriteKey ==
  /\ op.do = "line"
  /\ conf' = [conf EXCEPT ![op.of].key = app[op.of].key]
  /\ \/ op.of = "shm" /\ Do("key", "sem")
     \/ op.of = "sem" /\ Do(IF made THEN "start" ELSE "get", "sem")
  /\ UNCHANGED <<scen, os, now, shmapp, runs, proc>>

\* The processes start; those that are up already run on.
Start ==
  /\ op.do = "start"
  /\ \E S \in SUBSET {p \in Procs : pc[p] = "down"} :
        pc' = [p \in Procs |-> IF p \in S THEN "call" ELSE pc[p]]
  /\ Do("idle", "shm")
  /\ UNCHANGED <<scen, os, now, conf, shmapp, runs, held, mem, lock>>

\* auto_run.sh starts the processes on what was set up before.
AutoRun ==
  /\ Idle /\ scen.bare /\ runs < MaxRuns
  /\ runs' = runs + 1
  /\ Do("start", "shm")
  /\ UNCHANGED <<scen, os, now, conf, shmapp, proc>>

-----------------------------------------------------------------------------
(* kill_proc.sh, clear.sh, a reboot.                                       *)

\* The kernel's segments once only the processes of m have any attached.
Settled(seg, m) ==
  [i \in Ids |-> IF seg[i] = Marked /\ \A p \in Procs : m[p] # i THEN Gone ELSE seg[i]]

\* The processes of S end, and what they held is undone or let go.
End(S) ==
  LET m == [p \in Procs |-> IF p \in S THEN Unset ELSE mem[p]]
  IN /\ pc' = [p \in Procs |-> IF p \in S THEN "down" ELSE pc[p]]
     /\ held' = [p \in Procs |-> IF p \in S THEN Nothing ELSE held[p]]
     /\ mem' = m
     /\ lock' = [p \in Procs |-> IF p \in S THEN 0 ELSE lock[p]]
     /\ kernel' = [kernel EXCEPT !["shm"] = Settled(@, m)]

\* Mutant: kills nothing.
KillNone ==
  /\ Idle /\ runs < MaxRuns
  /\ runs' = runs + 1
  /\ \E next_ \in {"idle", "rm"} : Do(next_, "shm")
  /\ UNCHANGED <<scen, os, now, conf, shmapp, proc>>

\* Both scripts kill what field 6 names; clear.sh goes on to ipcrm.
KillProcesses ==
  /\ Idle /\ runs < MaxRuns
  /\ runs' = runs + 1
  /\ \E S \in SUBSET Procs : (scen.killsAll => S = Procs) /\ End(S)
  /\ \E next_ \in {"idle", "rm"} : Do(next_, "shm")
  /\ UNCHANGED <<scen, next, now, conf, shmapp>>

\* clear.sh: ipcrm -m, then ipcrm -s, of all the user has.
Remove ==
  /\ op.do = "rm"
  /\ IF op.of = "shm"
       THEN /\ kernel' = [kernel EXCEPT !["shm"] =
                 Settled([i \in Ids |-> IF @[i] = Gone THEN Gone ELSE Marked], mem)]
            /\ Do("rm", "sem")
       ELSE /\ kernel' = [kernel EXCEPT !["sem"] = [i \in Ids |-> Gone]]
            /\ Do("idle", "shm")
  /\ UNCHANGED <<scen, next, now, conf, shmapp, runs, proc>>

\* The files under conf/ outlive the kernel's objects.
Reboot ==
  /\ Idle /\ runs < MaxRuns
  /\ runs' = runs + 1
  /\ kernel' = [k \in Kinds |-> [i \in Ids |-> Gone]]
  /\ next' \in [Kinds -> Firsts]
  /\ pc' = [p \in Procs |-> "down"]
  /\ held' = [p \in Procs |-> Nothing]
  /\ mem' = [p \in Procs |-> Unset]
  /\ lock' = [p \in Procs |-> 0]
  /\ UNCHANGED <<scen, now, conf, op, shmapp>>

-----------------------------------------------------------------------------
(* A process: WriteData and ReadData attach when they find no shm.         *)

Step(p, label) == pc' = [pc EXCEPT ![p] = label]

\* W_ShmCtl::HasShm
HasShm(p) == held[p].id # 0 /\ held[p].key # 0

\* W_ShmCtl::ReadShmid, W_ShmTable::ReadShmid
ReadShmid(p) ==
  /\ pc[p] = "call" /\ ~HasShm(p)
  /\ held' = [held EXCEPT ![p] = conf["shm"]]
  /\ Step(p, IF Valid("shm", conf["shm"]) THEN "attach" ELSE "call")
  /\ UNCHANGED <<scen, os, now, conf, op, shmapp, runs, mem, lock>>

\* AttachMem: shmctl and shmat fail for an id nothing has.
AttachMem(p) ==
  /\ pc[p] = "attach"
  /\ \/ /\ Exists("shm", held[p].id)
        /\ mem' = [mem EXCEPT ![p] = held[p].id]
        /\ Step(p, "readsem")
     \/ /\ ~Exists("shm", held[p].id)
        /\ Step(p, "call")
        /\ UNCHANGED mem
  /\ UNCHANGED <<scen, os, now, conf, op, shmapp, runs, held, lock>>

\* W_SemTable::ReadSemid; W_RouteCtl does not reset the semaphores.
ReadSemid(p) ==
  /\ pc[p] = "readsem"
  /\ lock' = [lock EXCEPT ![p] = conf["sem"].id]
  /\ Step(p, IF ~Valid("sem", conf["sem"]) THEN "call"
             ELSE IF scen.table THEN "ready" ELSE "reset")
  /\ UNCHANGED <<scen, os, now, conf, op, shmapp, runs, held, mem>>

\* ResetSem fails for an id nothing has.
ResetSem(p) ==
  /\ pc[p] = "reset"
  /\ Step(p, IF Exists("sem", lock[p]) THEN "ready" ELSE "call")
  /\ UNCHANGED <<scen, os, now, conf, op, shmapp, runs, held, mem, lock>>

\* The next call finds shmid and shmkey set, and goes on to the blocks, attached
\* or not.
SkipInit(p) ==
  /\ pc[p] = "call" /\ ~scen.table /\ HasShm(p)
  /\ Step(p, IF mem[p] = Unset THEN "wild" ELSE "ready")
  /\ UNCHANGED <<scen, os, now, conf, op, shmapp, runs, held, mem, lock>>

-----------------------------------------------------------------------------
Operator ==
  \/ CreateKey \/ Get \/ CreateTable \/ OpenConf \/ WriteId \/ WriteKey \/ Start \/ Remove

Process(p) ==
  \/ ReadShmid(p) \/ AttachMem(p) \/ ReadSemid(p) \/ ResetSem(p) \/ SkipInit(p)

Next ==
  \/ Prepare \/ AutoRun \/ KillProcesses \/ Reboot \/ Operator
  \/ \E p \in Procs : Process(p)

Spec == Init /\ [][Next]_vars

\* A script that runs goes on to its end, and a process that is up is called
\* again and again: WriteData for each packet, ReadData in a loop.
FairSpec == Spec /\ WF_vars(Operator) /\ \A p \in Procs : WF_vars(Process(p))

-----------------------------------------------------------------------------
(* Properties                                                              *)

\* The scripts are used as readme.txt says, and clear.sh ends the processes.
Orderly == scen.killsAll /\ ~scen.again /\ ~scen.bare

\* Processes that use the blocks share one segment and one semaphore set that
\* exists, though each found them by itself, at its own time, through the files:
\* over reboots, clears and new setups no process is left on old ones.
ShareMemoryAndLocks ==
  Orderly =>
    \A p, q \in Procs :
      (pc[p] = "ready" /\ pc[q] = "ready") =>
        mem[p] = mem[q] /\ lock[p] = lock[q] /\ Exists("sem", lock[p])

\* No process copies through an address it never attached, also when shm_app is
\* run again, and rewrites the files, while processes read them.
NoWildCopy ==
  (scen.killsAll /\ ~scen.bare) => \A p \in Procs : pc[p] # "wild"

\* However often the setup is made, over kills and reboots, the user has one
\* segment and one semaphore set at a time, found again by the key in the file,
\* as long as the kernel does not give the id 0.
OneOfEach ==
  ~scen.table =>
    \A k \in Kinds :
      ~Exists(k, 0) => Cardinality({i \in Ids : kernel[k][i] \notin {Gone, Marked}}) <= 1

\* Every process that prepare.sh starts gets to its blocks, or is ended, also when
\* the setup is made again, as long as no object has the id 0, which the code
\* takes for no id.
AttachesUnlessIdIsZero ==
  \A p \in Procs :
    (scen.killsAll /\ ~scen.bare /\ pc[p] = "call" /\ \A k \in Kinds : ~Exists(k, 0))
      ~> pc[p] \in {"ready", "down"}
=============================================================================

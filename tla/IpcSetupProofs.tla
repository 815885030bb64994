--------------------------- MODULE IpcSetupProofs ---------------------------
(***************************************************************************)
(* Proofs about IpcSetup, for every set of processes, however many ids the *)
(* kernel gives and scripts are run.                                       *)
(*                                                                         *)
(* A process goes wrong when it finds an id in a file that the kernel no   *)
(* longer has.  The invariant says at which steps of the scripts that can  *)
(* be: only while no process is up (FilesAreTrue).  In orderly use a file  *)
(* does not change while a process is up, so all have what it says (Agree).*)
(* And a key is never lost between the file, shm_app and the kernel (Found),*)
(* so that the next setup comes to what there is.                          *)
(***************************************************************************)
EXTENDS IpcSetup, FiniteSetTheorems, TLAPS

Ended == {"idle", "rm"}
Dos == Ended \cup {"key", "get", "open", "id", "line", "start"}
Entry == [id : Ids, key : Nat]

TypeOK ==
  /\ scen \in Scenario
  /\ kernel \in [Kinds -> [Ids -> Int]] /\ next \in [Kinds -> Nat]
  /\ now \in Nat /\ runs \in Nat
  /\ conf \in [Kinds -> Entry] /\ app \in [Kinds -> Entry] /\ made \in BOOLEAN
  /\ op \in [do : Dos, of : Kinds]
  /\ pc \in [Procs -> {"down", "call", "attach", "readsem", "reset", "ready", "wild"}]
  /\ held \in [Procs -> Entry] /\ mem \in [Procs -> Ids \cup {Unset}]
  /\ lock \in [Procs -> Ids]

Live(k, i) == kernel[k][i] \notin {Gone, Marked}
AnyUp == \E p \in Procs : pc[p] # "down"

\* The script is behind CreateShm; conf["shm"] has been written anew.
BehindShm ==
  \/ op.of = "shm" /\ op.do \in {"id", "line"}
  \/ op.of = "sem" /\ op.do \in {"key", "get", "open", "id", "line"}
  \/ op.do = "start"

\* What a process may read in a file the kernel has.
FilesAreTrue ==
  /\ op.do = "rm" => ~AnyUp
  /\ (AnyUp \/ BehindShm) => (conf["shm"].id # 0 => Live("shm", conf["shm"].id))
  /\ (op.of = "shm" /\ op.do \in {"open", "id", "line"}) => Live("shm", app["shm"].id)

\* How far a process is, and what it has.
Attaching(p) ==
  /\ pc[p] = "attach" => Live("shm", held[p].id)
  /\ pc[p] \in {"readsem", "reset", "ready"} => mem[p] # Unset
  /\ pc[p] = "call" /\ HasShm(p) => mem[p] # Unset
  /\ pc[p] = "down" => ~HasShm(p) /\ mem[p] = Unset
  /\ pc[p] # "wild"

WildInv ==
  (scen.killsAll /\ ~scen.bare) => FilesAreTrue /\ \A p \in Procs : Attaching(p)

\* In orderly use processes run while no script does.
Agree(p) ==
  /\ pc[p] # "down" => op.do = "idle"
  /\ pc[p] = "attach" => held[p].id = conf["shm"].id
  /\ mem[p] # Unset => mem[p] = conf["shm"].id
  /\ pc[p] \in {"reset", "ready"} \/ (pc[p] = "call" /\ mem[p] # Unset) =>
       lock[p] = conf["sem"].id
SemsAreTrue ==
  /\ AnyUp \/ op.do = "start" => Live("sem", conf["sem"].id)
  /\ (op.of = "sem" /\ made /\ op.do \in {"open", "id", "line"}) => Live("sem", app["sem"].id)
  /\ (op.of = "sem" /\ op.do = "line") => conf["sem"].id = app["sem"].id
OrderInv == Orderly => SemsAreTrue /\ \A p \in Procs : Agree(p)

\* shm_app makes the semaphores last.
MadeLast ==
  made => op.do \in Ended \cup {"start"} \/ (op.of = "sem" /\ op.do \in {"open", "id", "line"})

IInv == TypeOK /\ MadeLast /\ WildInv /\ OrderInv

-----------------------------------------------------------------------------
(* Types                                                                   *)

LEMMA FirstIds == Firsts \subseteq Nat
  BY BoundsAssumption

LEMMA InitType == Init => TypeOK
  <1>1. 0 \in Ids
    BY BoundsAssumption DEF Ids
  <1>2. Nothing \in Entry
    BY <1>1 DEF Nothing, Entry
  <1> SUFFICES ASSUME Init PROVE TypeOK
    OBVIOUS
  <1>3. next \in [Kinds -> Nat]
    BY FirstIds DEF Init
  <1>4. kernel \in [Kinds -> [Ids -> Int]] /\ scen \in Scenario
    BY ScenarioAssumption DEF Init, Gone
  <1>5. conf \in [Kinds -> Entry] /\ app \in [Kinds -> Entry] /\ held \in [Procs -> Entry]
    BY <1>2 DEF Init
  <1>6. op \in [do : Dos, of : Kinds]
    BY DEF Init, Dos, Ended, Kinds
  <1> QED
    BY <1>1, <1>3, <1>4, <1>5, <1>6 DEF Init, TypeOK

\* The kernel makes an object: its key is what was asked for, and the others stay.
LEMMA NewObject ==
  ASSUME TypeOK, NEW k \in Kinds, NEW key \in Nat, New(k, key)
  PROVE  /\ kernel' \in [Kinds -> [Ids -> Int]] /\ next' \in [Kinds -> Nat]
         /\ app' \in [Kinds -> Entry]
         /\ Live(k, app[k].id)' /\ \A j \in Kinds \ {k} : app'[j] = app[j]
         /\ \A j \in Kinds, i \in Ids : Live(j, i) => Live(j, i)'
  <1> DEFINE n == next[k]
  <1>1. n \in Nat /\ n <= MaxId /\ MaxId \in Nat
    BY BoundsAssumption DEF TypeOK, New
  <1>2. n \in Ids
    BY <1>1 DEF Ids
  <1>3. /\ kernel' = [kernel EXCEPT ![k][n] = key] /\ next' = [next EXCEPT ![k] = @ + 1]
        /\ app' = [app EXCEPT ![k].id = n]
    BY DEF New
  <1>4. kernel \in [Kinds -> [Ids -> Int]] /\ next \in [Kinds -> Nat] /\ app \in [Kinds -> Entry]
    BY DEF TypeOK
  <1> HIDE DEF n
  <1>5. kernel' \in [Kinds -> [Ids -> Int]] /\ next' \in [Kinds -> Nat]
    BY <1>1, <1>2, <1>3, <1>4
  <1>6. app' \in [Kinds -> Entry] /\ app'[k].id = n /\ \A j \in Kinds \ {k} : app'[j] = app[j]
    BY <1>2, <1>3, <1>4 DEF Entry
  <1>7. kernel'[k][n] = key
    BY <1>2, <1>3, <1>4
  <1>8. \A j \in Kinds, i \in Ids : kernel'[j][i] = kernel[j][i] \/ kernel'[j][i] = key
    BY <1>2, <1>3, <1>4
  <1>9. key \notin {Gone, Marked}
    BY DEF Gone, Marked
  <1>10. Live(k, app[k].id)'
    BY <1>6, <1>7, <1>9 DEF Live
  <1>11. \A j \in Kinds, i \in Ids : Live(j, i) => Live(j, i)'
    BY <1>8, <1>9 DEF Live
  <1> QED
    BY <1>5, <1>6, <1>10, <1>11

LEMMA NextType ==
  ASSUME TypeOK, [Next]_vars
  PROVE  TypeOK'
  <1> USE DEF os, proc, shmapp, Do, Step
  <1>1. /\ 0 \in Ids /\ Nothing \in Entry /\ {"shm", "sem"} = Kinds
        /\ op.do \in Dos /\ op.of \in Kinds
    BY BoundsAssumption DEF Ids, Nothing, Entry, Kinds, TypeOK
  <1>2. CASE UNCHANGED vars
    BY <1>2 DEF vars, TypeOK
  <1>3. CASE Prepare
    <2>1. op' \in [do : Dos, of : Kinds]
      BY <1>3, <1>1 DEF Prepare, Dos, Ended
    <2>2. app' \in [Kinds -> Entry]
      BY <1>3, <1>1 DEF Prepare
    <2>3. now' \in Nat /\ runs' \in Nat
      BY <1>3 DEF Prepare, TypeOK
    <2> QED
      BY <1>3, <1>1, <2>1, <2>2, <2>3 DEF Prepare, TypeOK, Dos, Ended
  <1>4. CASE AutoRun
    <2>1. op' \in [do : Dos, of : Kinds]
      BY <1>4, <1>1 DEF AutoRun, Dos, Ended
    <2>2. runs' \in Nat
      BY <1>4 DEF AutoRun, TypeOK
    <2> QED
      BY <1>4, <1>1, <2>1, <2>2 DEF AutoRun, TypeOK, Dos, Ended
  <1>5. CASE CreateKey
    <2>1. op' \in [do : Dos, of : Kinds]
      BY <1>5, <1>1 DEF CreateKey, Dos, Ended
    <2>2. conf[op.of] \in Entry /\ [conf[op.of] EXCEPT !.key = now] \in Entry
      BY <1>1 DEF TypeOK, Entry
    <2>3. app' \in [Kinds -> Entry]
      BY <1>5, <1>1, <2>2 DEF CreateKey, TypeOK
    <2> QED
      BY <1>5, <1>1, <2>1, <2>2, <2>3 DEF CreateKey, TypeOK, Dos, Ended
  <1>6. CASE Get
    <2>1. op' \in [do : Dos, of : Kinds] /\ made' \in BOOLEAN
      BY <1>6, <1>1 DEF Get, Dos, Ended
    <2>2. CASE New(op.of, app[op.of].key)
      <3>1. app[op.of].key \in Nat
        BY <1>1 DEF TypeOK, Entry
      <3>2. /\ kernel' \in [Kinds -> [Ids -> Int]] /\ next' \in [Kinds -> Nat]
            /\ app' \in [Kinds -> Entry]
        BY <1>1, <2>2, <3>1, NewObject
      <3> QED
        BY <1>6, <2>1, <3>2 DEF Get, TypeOK
    <2>3. CASE ~New(op.of, app[op.of].key)
      <3>1. PICK i \in Ids : app' = [app EXCEPT ![op.of].id = i]
        BY <1>6, <2>3 DEF Get
      <3>2. app' \in [Kinds -> Entry]
        BY <1>1, <3>1 DEF TypeOK, Entry
      <3>3. UNCHANGED <<kernel, next>>
        BY <1>6, <2>3 DEF Get
      <3> QED
        BY <1>6, <2>1, <3>2, <3>3 DEF Get, TypeOK
    <2> QED
      BY <2>2, <2>3
  <1>7. CASE CreateTable
    <2>1. op' \in [do : Dos, of : Kinds]
      BY <1>7, <1>1 DEF CreateTable, Dos, Ended
    <2>2. New("shm", Private) /\ Private \in Nat
      BY <1>7 DEF CreateTable, Private
    <2>3. /\ kernel' \in [Kinds -> [Ids -> Int]] /\ next' \in [Kinds -> Nat]
          /\ app' \in [Kinds -> Entry]
      BY <1>1, <2>2, NewObject
    <2> QED
      BY <1>7, <2>1, <2>3 DEF CreateTable, TypeOK
  <1>8. CASE OpenConf
    <2>1. op' \in [do : Dos, of : Kinds]
      BY <1>8, <1>1 DEF OpenConf, Dos, Ended
    <2>2. conf' \in [Kinds -> Entry]
      BY <1>8, <1>1 DEF OpenConf, TypeOK
    <2> QED
      BY <1>8, <1>1, <2>1, <2>2 DEF OpenConf, TypeOK, Dos, Ended
  <1>9. CASE WriteId
    <2>1. op' \in [do : Dos, of : Kinds]
      BY <1>9, <1>1 DEF WriteId, Dos, Ended
    <2>2. app[op.of].id \in Ids
      BY <1>1 DEF TypeOK, Entry
    <2>3. conf' \in [Kinds -> Entry]
      BY <1>9, <1>1, <2>2 DEF WriteId, TypeOK, Entry
    <2> QED
      BY <1>9, <1>1, <2>1, <2>2, <2>3 DEF WriteId, TypeOK, Dos, Ended
  <1>10. CASE WriteKey
    <2>1. op' \in [do : Dos, of : Kinds]
      BY <1>10, <1>1 DEF WriteKey, Dos, Ended
    <2>2. app[op.of].key \in Nat
      BY <1>1 DEF TypeOK, Entry
    <2>3. conf' \in [Kinds -> Entry]
      BY <1>10, <1>1, <2>2 DEF WriteKey, TypeOK, Entry
    <2> QED
      BY <1>10, <1>1, <2>1, <2>2, <2>3 DEF WriteKey, TypeOK, Dos, Ended
  <1>11. CASE Start
    <2>1. op' \in [do : Dos, of : Kinds]
      BY <1>11, <1>1 DEF Start, Dos, Ended
    <2>2. pc' \in [Procs -> {"down", "call", "attach", "readsem", "reset", "ready", "wild"}]
      BY <1>11 DEF Start, TypeOK
    <2> QED
      BY <1>11, <1>1, <2>1, <2>2 DEF Start, TypeOK, Dos, Ended
  <1>12. CASE KillProcesses
    <2>1. op' \in [do : Dos, of : Kinds] /\ runs' \in Nat
      BY <1>12, <1>1 DEF KillProcesses, Dos, Ended, TypeOK
    <2>2. PICK S \in SUBSET Procs : End(S)
      BY <1>12 DEF KillProcesses
    <2>3. /\ pc' \in [Procs -> {"down", "call", "attach", "readsem", "reset", "ready", "wild"}]
          /\ held' \in [Procs -> Entry] /\ mem' \in [Procs -> Ids \cup {Unset}]
          /\ lock' \in [Procs -> Ids]
      BY <1>1, <2>2 DEF End, TypeOK
    <2>4. kernel' \in [Kinds -> [Ids -> Int]]
      BY <1>1, <2>2 DEF End, Settled, TypeOK, Gone
    <2> QED
      BY <1>12, <2>1, <2>3, <2>4 DEF KillProcesses, TypeOK
  <1>13. CASE Remove
    <2>1. op' \in [do : Dos, of : Kinds]
      BY <1>13, <1>1 DEF Remove, Dos, Ended
    <2>2. kernel' \in [Kinds -> [Ids -> Int]]
      <3>1. CASE op.of = "shm"
        BY <1>13, <1>1, <3>1 DEF Remove, Settled, TypeOK, Gone, Marked
      <3>2. CASE op.of # "shm"
        BY <1>13, <1>1, <3>2 DEF Remove, TypeOK, Gone
      <3> QED
        BY <3>1, <3>2
    <2> QED
      BY <1>13, <2>1, <2>2 DEF Remove, TypeOK
  <1>14. CASE Reboot
    <2>1. kernel' \in [Kinds -> [Ids -> Int]]
      BY <1>14 DEF Reboot, Gone
    <2>2. next' \in [Kinds -> Firsts] /\ runs' \in Nat
      BY <1>14 DEF Reboot, TypeOK
    <2>3. next' \in [Kinds -> Nat]
      BY <2>2, FirstIds
    <2>4. pc' \in [Procs -> {"down", "call", "attach", "readsem", "reset", "ready", "wild"}] /\ held' \in [Procs -> Entry]
      BY <1>14, <1>1 DEF Reboot
    <2>5. mem' \in [Procs -> Ids \cup {Unset}] /\ lock' \in [Procs -> Ids]
      BY <1>14, <1>1 DEF Reboot
    <2> QED
      BY <1>14, <1>1, <2>1, <2>2, <2>3, <2>4, <2>5 DEF Reboot, TypeOK, Dos, Ended
  <1>15. ASSUME NEW p \in Procs, ReadShmid(p) PROVE TypeOK'
    <2>1. pc' \in [Procs -> {"down", "call", "attach", "readsem", "reset", "ready", "wild"}]
      BY <1>15 DEF ReadShmid, TypeOK
    <2>2. held' \in [Procs -> Entry]
      BY <1>15, <1>1 DEF ReadShmid, TypeOK
    <2> QED
      BY <1>15, <1>1, <2>1, <2>2 DEF ReadShmid, TypeOK, Dos, Ended
  <1>16. ASSUME NEW p \in Procs, AttachMem(p) PROVE TypeOK'
    <2>1. pc' \in [Procs -> {"down", "call", "attach", "readsem", "reset", "ready", "wild"}]
      BY <1>16 DEF AttachMem, TypeOK
    <2>2. held[p].id \in Ids
      BY DEF TypeOK, Entry
    <2>3. mem' \in [Procs -> Ids \cup {Unset}]
      BY <1>16, <2>2 DEF AttachMem, TypeOK
    <2> QED
      BY <1>16, <1>1, <2>1, <2>2, <2>3 DEF AttachMem, TypeOK, Dos, Ended
  <1>17. ASSUME NEW p \in Procs, ReadSemid(p) PROVE TypeOK'
    <2>1. pc' \in [Procs -> {"down", "call", "attach", "readsem", "reset", "ready", "wild"}]
      BY <1>17 DEF ReadSemid, TypeOK
    <2>2. conf["sem"].id \in Ids
      BY <1>1 DEF TypeOK, Entry
    <2>3. lock' \in [Procs -> Ids]
      BY <1>17, <2>2 DEF ReadSemid, TypeOK
    <2> QED
      BY <1>17, <1>1, <2>1, <2>2, <2>3 DEF ReadSemid, TypeOK, Dos, Ended
  <1>18. ASSUME NEW p \in Procs, ResetSem(p) PROVE TypeOK'
    <2>1. pc' \in [Procs -> {"down", "call", "attach", "readsem", "reset", "ready", "wild"}]
      BY <1>18 DEF ResetSem, TypeOK
    <2> QED
      BY <1>18, <1>1, <2>1 DEF ResetSem, TypeOK, Dos, Ended
  <1>19. ASSUME NEW p \in Procs, SkipInit(p) PROVE TypeOK'
    <2>1. pc' \in [Procs -> {"down", "call", "attach", "readsem", "reset", "ready", "wild"}]
      BY <1>19 DEF SkipInit, TypeOK
    <2> QED
      BY <1>19, <1>1, <2>1 DEF SkipInit, TypeOK, Dos, Ended
  <1> QED
    BY <1>2, <1>3, <1>4, <1>5, <1>6, <1>7, <1>8, <1>9, <1>10, <1>11, <1>12, <1>13, <1>14, <1>15, <1>16, <1>17, <1>18, <1>19 DEF Next, Operator, Process

LEMMA NextMade ==
  ASSUME TypeOK, MadeLast, [Next]_vars
  PROVE  MadeLast'
  <1>1. op \in [do : Dos, of : Kinds] /\ Kinds = {"shm", "sem"}
    BY DEF TypeOK, Kinds
  <1>2. CASE UNCHANGED <<op, shmapp>>
    BY <1>2 DEF MadeLast, shmapp
  <1> USE DEF Do, shmapp, Ended
  <1>3. CASE Prepare \/ AutoRun \/ KillProcesses \/ Reboot
    <2>1. CASE Prepare
      BY <2>1 DEF Prepare, MadeLast
    <2>2. CASE AutoRun
      BY <2>2 DEF AutoRun, MadeLast
    <2>3. CASE KillProcesses
      BY <2>3 DEF KillProcesses, MadeLast
    <2>4. CASE Reboot
      BY <2>4 DEF Reboot, MadeLast
    <2> QED
      BY <1>3, <2>1, <2>2, <2>3, <2>4
  <1>4. CASE Operator
    <2>1. CASE CreateKey
      BY <2>1 DEF CreateKey, MadeLast
    <2>2. CASE Get
      <3>1. op' = [do |-> "open", of |-> op.of] /\ (made' <=> op.of = "sem")
        BY <2>2 DEF Get
      <3> QED
        BY <3>1 DEF MadeLast
    <2>3. CASE CreateTable
      BY <2>3 DEF CreateTable, MadeLast
    <2>4. CASE OpenConf
      BY <2>4 DEF OpenConf, MadeLast
    <2>5. CASE WriteId
      <3>1. made' = made /\ op.do = "id" /\ (IsTable(op.of) => op.of = "shm")
        BY <2>5 DEF WriteId, IsTable
      <3>2. made => op.of = "sem"
        BY <3>1 DEF MadeLast
      <3>3. made => op' = [do |-> "line", of |-> op.of]
        BY <2>5, <3>1, <3>2 DEF WriteId
      <3> QED
        BY <3>1, <3>2, <3>3 DEF MadeLast
    <2>6. CASE WriteKey
      <3>1. made' = made /\ op.do = "line"
        BY <2>6 DEF WriteKey
      <3>2. made => op.of = "sem"
        BY <3>1 DEF MadeLast
      <3>3. made => op'.do = "start"
        BY <2>6, <3>2 DEF WriteKey
      <3> QED
        BY <3>1, <3>3 DEF MadeLast
    <2>7. CASE Start
      BY <2>7 DEF Start, MadeLast
    <2>8. CASE Remove
      BY <2>8 DEF Remove, MadeLast
    <2> QED
      BY <1>4, <2>1, <2>2, <2>3, <2>4, <2>5, <2>6, <2>7, <2>8 DEF Operator
  <1>5. ASSUME NEW p \in Procs, Process(p) PROVE UNCHANGED <<op, shmapp>>
    BY <1>5 DEF Process, ReadShmid, AttachMem, ReadSemid, ResetSem, SkipInit
  <1> QED
    BY <1>2, <1>3, <1>4, <1>5 DEF Next, vars

-----------------------------------------------------------------------------
(* Files and processes                                                     *)

\* What the steps of the scripts leave alone, and what of the kernel they leave.
LEMMA ScriptSteps ==
  ASSUME TypeOK, CreateKey \/ Get \/ CreateTable \/ OpenConf \/ WriteId \/ WriteKey
  PROVE  /\ UNCHANGED <<scen, pc, held, mem, lock>>
         /\ \A k \in Kinds, i \in Ids : Live(k, i) => Live(k, i)'
  <1> USE DEF proc, os
  <1>1. op.of \in Kinds /\ "shm" \in Kinds /\ app[op.of].key \in Nat
    BY DEF TypeOK, Entry, Kinds
  <1>2. CASE CreateKey \/ OpenConf \/ WriteId \/ WriteKey
    BY <1>2 DEF CreateKey, OpenConf, WriteId, WriteKey, Live
  <1>3. CASE Get
    <2>1. CASE New(op.of, app[op.of].key)
      <3>1. \A k \in Kinds, i \in Ids : Live(k, i) => Live(k, i)'
        BY <1>1, <2>1, NewObject
      <3> QED
        BY <1>3, <3>1 DEF Get
    <2>2. CASE ~New(op.of, app[op.of].key)
      BY <1>3, <2>2 DEF Get, Live
    <2> QED
      BY <2>1, <2>2
  <1>4. CASE CreateTable
    <2>1. New("shm", Private) /\ Private \in Nat
      BY <1>4 DEF CreateTable, Private
    <2>2. \A k \in Kinds, i \in Ids : Live(k, i) => Live(k, i)'
      BY <1>1, <2>1, NewObject
    <2> QED
      BY <1>4, <2>2 DEF CreateTable
  <1> QED
    BY <1>2, <1>3, <1>4

\* CreateShm and CreateSem come to an object that the kernel has.
LEMMA GetsLive ==
  ASSUME TypeOK, Get \/ CreateTable
  PROVE  Live(op.of, app[op.of].id)' /\ op' = [do |-> "open", of |-> op.of]
  <1>1. op.of \in Kinds /\ "shm" \in Kinds /\ app[op.of].key \in Nat
    BY DEF TypeOK, Entry, Kinds
  <1>2. PICK k : k = op.of
    OBVIOUS
  <1>3. op' = [do |-> "open", of |-> k]
    <2>1. CASE Get
      BY <1>2, <2>1 DEF Get, Do
    <2>2. CASE CreateTable
      BY <1>2, <2>2 DEF CreateTable, IsTable, Do
    <2> QED
      BY <2>1, <2>2
  <1>4. CASE New(k, app[k].key) \/ CreateTable
    <2>1. PICK key \in Nat : New(k, key)
      BY <1>1, <1>2, <1>4 DEF CreateTable, IsTable, Private
    <2>2. Live(k, app[k].id)'
      BY <1>1, <1>2, <2>1, NewObject
    <2> QED
      BY <1>2, <1>3, <2>2
  <1>5. CASE Get /\ ~New(k, app[k].key)
    <2>1. PICK i \in Ids : /\ kernel[k][i] = app[k].key /\ app' = [app EXCEPT ![k].id = i]
                           /\ UNCHANGED kernel
      BY <1>2, <1>5 DEF Get, os
    <2>2. app'[k].id = i
      BY <1>1, <1>2, <2>1 DEF TypeOK, Entry
    <2>3. kernel'[k][i] \notin {Gone, Marked}
      BY <1>1, <1>2, <2>1 DEF Gone, Marked
    <2>4. Live(k, app[k].id)'
      BY <2>2, <2>3 DEF Live
    <2> QED
      BY <1>2, <1>3, <2>4
  <1> QED
    BY <1>2, <1>4, <1>5

\* Nothing changes for a process while the kernel keeps what it has.
LEMMA AttachingStays ==
  ASSUME TypeOK, NEW p \in Procs, Attaching(p),
         pc'[p] = pc[p], held'[p] = held[p], mem'[p] = mem[p],
         \A i \in Ids : Live("shm", i) => Live("shm", i)'
  PROVE  Attaching(p)'
  <1>1. held[p].id \in Ids
    BY DEF TypeOK, Entry
  <1>2. HasShm(p)' <=> HasShm(p)
    BY DEF HasShm
  <1>3. pc[p] = "attach" => Live("shm", held[p].id)'
    <2>1. PICK i \in Ids : i = held[p].id
      BY <1>1
    <2>2. pc[p] = "attach" => Live("shm", i)'
      BY <2>1 DEF Attaching
    <2> QED
      BY <2>1, <2>2 DEF Live
  <1> QED
    BY <1>2, <1>3 DEF Attaching

\* kill_proc.sh, clear.sh and a reboot end every process.
LEMMA AllEnd ==
  ASSUME TypeOK, scen.killsAll, KillProcesses \/ Reboot
  PROVE  /\ ~AnyUp' /\ \A p \in Procs : Attaching(p)'
         /\ \A p \in Procs : pc'[p] = "down" /\ mem'[p] = Unset
         /\ op'.do \in Ended
  <1>1. \A p \in Procs : pc'[p] = "down" /\ held'[p] = Nothing /\ mem'[p] = Unset
    <2>1. CASE KillProcesses
      BY <2>1 DEF KillProcesses, End
    <2>2. CASE Reboot
      BY <2>2 DEF Reboot
    <2> QED
      BY <2>1, <2>2
  <1>2. op'.do \in Ended
    BY DEF KillProcesses, Reboot, Do, Idle, Ended
  <1>3. \A p \in Procs : Attaching(p)'
    BY <1>1 DEF Attaching, HasShm, Nothing
  <1>4. ~AnyUp'
    BY <1>1 DEF AnyUp
  <1> QED
    BY <1>1, <1>2, <1>3, <1>4

LEMMA NextWild ==
  ASSUME TypeOK, WildInv, [Next]_vars
  PROVE  WildInv'
  <1> USE DEF os, proc, shmapp, Do, Step
  <1>1. scen' = scen
    BY DEF Next, Operator, Process, Prepare, AutoRun, KillProcesses, Reboot, CreateKey, Get,
           CreateTable, OpenConf, WriteId, WriteKey, Start, Remove, ReadShmid, AttachMem,
           ReadSemid, ResetSem, SkipInit, vars
  <1> SUFFICES ASSUME scen.killsAll, ~scen.bare
               PROVE  FilesAreTrue' /\ \A q \in Procs : Attaching(q)'
    BY <1>1 DEF WildInv
  <1>2. FilesAreTrue /\ \A q \in Procs : Attaching(q)
    BY DEF WildInv
  <1>3. /\ op.of \in Kinds /\ op.do \in Dos /\ Kinds = {"shm", "sem"}
        /\ conf \in [Kinds -> Entry] /\ app \in [Kinds -> Entry]
        /\ \A k \in Kinds : conf[k].id \in Ids /\ app[k].id \in Ids
    BY DEF TypeOK, Kinds, Entry
  <1>4. CASE UNCHANGED vars
    BY <1>2, <1>4 DEF vars, FilesAreTrue, AnyUp, BehindShm, Attaching, HasShm, Live
  <1>5. CASE Prepare
    <2>1. /\ UNCHANGED <<kernel, conf, pc, held, mem>>
          /\ op'.of = "shm" /\ op'.do \in {"get", "key"}
      BY <1>5 DEF Prepare
    <2>2. \A q \in Procs : Attaching(q)'
      BY <1>2, <2>1 DEF Attaching, HasShm, Live
    <2>3. FilesAreTrue'
      BY <1>2, <2>1 DEF FilesAreTrue, AnyUp, BehindShm, Live
    <2> QED
      BY <2>2, <2>3
  <1>6. CASE AutoRun
    BY <1>6 DEF AutoRun
  <1>7. CASE KillProcesses \/ Reboot
    <2>1. ~AnyUp' /\ (\A q \in Procs : Attaching(q)') /\ op'.do \in Ended
      BY <1>7, AllEnd
    <2>2. FilesAreTrue'
      BY <2>1 DEF FilesAreTrue, BehindShm, Ended
    <2> QED
      BY <2>1, <2>2
  <1>8. CASE CreateKey \/ Get \/ CreateTable \/ OpenConf \/ WriteId \/ WriteKey
    <2>1. /\ UNCHANGED <<pc, held, mem>>
          /\ \A k \in Kinds, i \in Ids : Live(k, i) => Live(k, i)'
      BY <1>8, ScriptSteps
    <2>2. \A q \in Procs : Attaching(q)'
      BY <1>2, <1>3, <2>1, AttachingStays
    <2>3. AnyUp' <=> AnyUp
      BY <2>1 DEF AnyUp
    <2>4. op'.do # "rm" /\ op.do # "rm"
      BY <1>8 DEF CreateKey, Get, CreateTable, OpenConf, WriteId, WriteKey
    <2>5. ASSUME conf'["shm"].id = conf["shm"].id, AnyUp \/ BehindShm, conf["shm"].id # 0
          PROVE  Live("shm", conf["shm"].id)'
      <3>1. PICK i \in Ids : i = conf["shm"].id
        BY <1>3
      <3>2. Live("shm", i)'
        BY <1>2, <1>3, <2>1, <2>5, <3>1 DEF FilesAreTrue
      <3> QED
        BY <2>5, <3>1, <3>2 DEF Live
    <2>6. ASSUME app'["shm"].id = app["shm"].id, op.of = "shm", op.do \in {"open", "id", "line"}
          PROVE  Live("shm", app["shm"].id)'
      <3>1. PICK i \in Ids : i = app["shm"].id
        BY <1>3
      <3>2. Live("shm", i)'
        BY <1>2, <1>3, <2>1, <2>6, <3>1 DEF FilesAreTrue
      <3> QED
        BY <2>6, <3>1, <3>2 DEF Live
    <2>7. CASE CreateKey
      <3>1. /\ conf' = conf /\ op'.of = op.of /\ op.do = "key"
            /\ op'.do = IF op.of = "shm" THEN "get" ELSE "open"
        BY <2>7 DEF CreateKey
      <3> QED
        BY <1>3, <2>2, <2>3, <2>4, <2>5, <3>1 DEF FilesAreTrue, BehindShm
    <2>8. CASE Get \/ CreateTable
      <3>1. /\ conf' = conf /\ op.do = "get"
            /\ op' = [do |-> "open", of |-> op.of] /\ Live(op.of, app[op.of].id)'
        BY <2>8, GetsLive DEF Get, CreateTable
      <3>2. op.of = "shm" => Live("shm", app["shm"].id)'
        BY <3>1 DEF Live
      <3> QED
        BY <1>3, <2>2, <2>3, <2>4, <2>5, <3>1, <3>2 DEF FilesAreTrue, BehindShm
    <2>9. CASE OpenConf
      <3>1. /\ conf' = [conf EXCEPT ![op.of] = Nothing] /\ app' = app /\ op.do = "open"
            /\ op' = [do |-> "id", of |-> op.of]
        BY <2>9 DEF OpenConf
      <3>2. op.of = "shm" => conf'["shm"].id = 0
        BY <1>3, <3>1 DEF Nothing
      <3>3. op.of = "sem" => conf'["shm"] = conf["shm"] /\ BehindShm
        BY <1>3, <3>1 DEF BehindShm
      <3> QED
        BY <1>3, <2>2, <2>3, <2>4, <2>5, <2>6, <3>1, <3>2, <3>3 DEF FilesAreTrue, BehindShm
    <2>10. CASE WriteId
      <3>1. /\ conf' = [conf EXCEPT ![op.of].id = app[op.of].id] /\ app' = app /\ op.do = "id"
            /\ op' = IF IsTable(op.of) THEN [do |-> "key", of |-> "sem"]
                     ELSE [do |-> "line", of |-> op.of]
        BY <2>10 DEF WriteId
      <3>2. op.of = "shm" => conf'["shm"].id = app["shm"].id /\ Live("shm", app["shm"].id)'
        BY <1>3, <2>6, <3>1 DEF Entry
      <3>3. op.of = "shm" => Live("shm", conf["shm"].id)'
        BY <3>1, <3>2 DEF Live
      <3>4. op.of = "sem" => conf'["shm"] = conf["shm"] /\ BehindShm /\ op'.of = "sem"
        BY <1>3, <3>1 DEF BehindShm
      <3> QED
        BY <1>3, <2>2, <2>3, <2>4, <2>5, <3>1, <3>2, <3>3, <3>4 DEF FilesAreTrue
    <2>11. CASE WriteKey
      <3>1. /\ conf' = [conf EXCEPT ![op.of].key = app[op.of].key] /\ op.do = "line"
            /\ op'.of = "sem"
        BY <1>3, <2>11 DEF WriteKey
      <3>2. conf'["shm"].id = conf["shm"].id
        BY <1>3, <3>1 DEF Entry
      <3>3. BehindShm
        BY <1>3, <3>1 DEF BehindShm
      <3> QED
        BY <2>2, <2>3, <2>4, <2>5, <3>1, <3>2, <3>3 DEF FilesAreTrue
    <2> QED
      BY <1>8, <2>7, <2>8, <2>9, <2>10, <2>11
  <1>9. CASE Start
    <2>1. /\ UNCHANGED <<kernel, conf, held, mem>> /\ op.do = "start" /\ op'.do = "idle"
          /\ \A q \in Procs : pc'[q] = pc[q] \/ (pc[q] = "down" /\ pc'[q] = "call")
      BY <1>9 DEF Start, TypeOK
    <2>2. \A q \in Procs : Attaching(q)'
      BY <1>2, <2>1 DEF Attaching, HasShm, Live
    <2>3. conf["shm"].id # 0 => Live("shm", conf["shm"].id)
      BY <1>2, <2>1 DEF FilesAreTrue, BehindShm
    <2>4. FilesAreTrue'
      BY <2>1, <2>3 DEF FilesAreTrue, BehindShm, Live
    <2> QED
      BY <2>2, <2>4
  <1>10. CASE Remove
    <2>1. op.do = "rm" /\ op'.do \in Ended /\ UNCHANGED <<pc, held, mem>>
      BY <1>10 DEF Remove, Ended
    <2>2. \A q \in Procs : pc[q] = "down"
      BY <1>2, <2>1 DEF FilesAreTrue, AnyUp
    <2>3. \A q \in Procs : Attaching(q)'
      BY <1>2, <2>1, <2>2 DEF Attaching, HasShm
    <2>4. FilesAreTrue'
      BY <2>1, <2>2 DEF FilesAreTrue, AnyUp, BehindShm, Ended
    <2> QED
      BY <2>3, <2>4
  <1>11. ASSUME NEW p \in Procs, Process(p)
         PROVE  FilesAreTrue' /\ \A q \in Procs : Attaching(q)'
    <2>1. /\ UNCHANGED <<kernel, conf, op, app>> /\ pc[p] # "down"
          /\ \A q \in Procs \ {p} : pc'[q] = pc[q] /\ held'[q] = held[q] /\ mem'[q] = mem[q]
      BY <1>11 DEF Process, ReadShmid, AttachMem, ReadSemid, ResetSem, SkipInit, TypeOK
    <2>2. AnyUp
      BY <2>1 DEF AnyUp
    <2>3. FilesAreTrue'
      BY <1>2, <2>1, <2>2 DEF FilesAreTrue, BehindShm, Live
    <2>4. ASSUME NEW q \in Procs \ {p} PROVE Attaching(q)'
      BY <1>2, <2>1 DEF Attaching, HasShm, Live
    <2>5. /\ pc \in [Procs -> {"down", "call", "attach", "readsem", "reset", "ready", "wild"}]
          /\ held \in [Procs -> Entry] /\ mem \in [Procs -> Ids \cup {Unset}]
          /\ held[p].id \in Ids
      BY DEF TypeOK, Entry
    <2>6. Attaching(p)'
      <3>1. CASE ReadShmid(p)
        <4>1. /\ held'[p] = conf["shm"] /\ mem' = mem
              /\ pc'[p] = IF Valid("shm", conf["shm"]) THEN "attach" ELSE "call"
          BY <2>5, <3>1 DEF ReadShmid
        <4>2. Valid("shm", conf["shm"]) => conf["shm"].id # 0
          BY DEF Valid, ValidTable
        <4>3. Valid("shm", conf["shm"]) => Live("shm", conf["shm"].id)
          BY <1>2, <2>2, <4>2 DEF FilesAreTrue
        <4>4. ~Valid("shm", conf["shm"]) => ~HasShm(p)'
          BY <4>1 DEF Valid, ValidTable, HasShm
        <4> QED
          BY <2>1, <4>1, <4>3, <4>4 DEF Attaching, Live
      <3>2. CASE AttachMem(p)
        <4>1. pc[p] = "attach" /\ held' = held
          BY <3>2 DEF AttachMem
        <4>2. Exists("shm", held[p].id)
          BY <1>2, <4>1 DEF Attaching, Live, Exists
        <4>3. pc'[p] = "readsem" /\ mem'[p] = held[p].id
          BY <2>5, <3>2, <4>2 DEF AttachMem
        <4>4. held[p].id # Unset
          BY <2>5, BoundsAssumption DEF Ids, Unset
        <4> QED
          BY <4>3, <4>4 DEF Attaching
      <3>3. CASE ReadSemid(p)
        <4>1. pc[p] = "readsem" /\ UNCHANGED <<held, mem>> /\ pc'[p] \in {"call", "ready", "reset"}
          BY <2>5, <3>3 DEF ReadSemid
        <4> QED
          BY <1>2, <4>1 DEF Attaching
      <3>4. CASE ResetSem(p)
        <4>1. pc[p] = "reset" /\ UNCHANGED <<held, mem>> /\ pc'[p] \in {"call", "ready"}
          BY <2>5, <3>4 DEF ResetSem
        <4> QED
          BY <1>2, <4>1 DEF Attaching
      <3>5. CASE SkipInit(p)
        <4>1. /\ pc[p] = "call" /\ HasShm(p) /\ UNCHANGED <<held, mem>>
              /\ pc'[p] = IF mem[p] = Unset THEN "wild" ELSE "ready"
          BY <2>5, <3>5 DEF SkipInit
        <4> QED
          BY <1>2, <4>1 DEF Attaching
      <3> QED
        BY <1>11, <3>1, <3>2, <3>3, <3>4, <3>5 DEF Process
    <2> QED
      BY <2>3, <2>4, <2>6
  <1> QED
    BY <1>4, <1>5, <1>6, <1>7, <1>8, <1>9, <1>10, <1>11 DEF Next, Operator

\* Nothing is wrong with a process that is down.
LEMMA DownAgrees ==
  ASSUME NEW p \in Procs, pc'[p] = "down", mem'[p] = Unset
  PROVE  Agree(p)'
  BY DEF Agree

LEMMA NextOrder ==
  ASSUME TypeOK, MadeLast, WildInv, OrderInv, [Next]_vars
  PROVE  OrderInv'
  <1> USE DEF os, proc, shmapp, Do, Step
  <1>1. scen' = scen
    BY DEF Next, Operator, Process, Prepare, AutoRun, KillProcesses, Reboot, CreateKey, Get,
           CreateTable, OpenConf, WriteId, WriteKey, Start, Remove, ReadShmid, AttachMem,
           ReadSemid, ResetSem, SkipInit, vars
  <1> SUFFICES ASSUME scen.killsAll, ~scen.again, ~scen.bare
               PROVE  SemsAreTrue' /\ \A q \in Procs : Agree(q)'
    BY <1>1 DEF OrderInv, Orderly
  <1>2. SemsAreTrue /\ \A q \in Procs : Agree(q) /\ Attaching(q)
    BY DEF OrderInv, WildInv, Orderly
  <1>3. /\ op.of \in Kinds /\ op.do \in Dos /\ Kinds = {"shm", "sem"}
        /\ conf \in [Kinds -> Entry] /\ app \in [Kinds -> Entry]
        /\ \A k \in Kinds : conf[k].id \in Ids /\ app[k].id \in Ids
    BY DEF TypeOK, Kinds, Entry
  <1>4. ASSUME op.do # "idle", NEW q \in Procs PROVE pc[q] = "down" /\ mem[q] = Unset
    BY <1>2, <1>4 DEF Agree, Attaching
  <1>5. CASE UNCHANGED vars
    BY <1>2, <1>5 DEF vars, SemsAreTrue, AnyUp, Agree, Live
  <1>6. CASE Prepare
    <2>1. /\ \A q \in Procs : pc[q] = "down" /\ mem[q] = Unset
          /\ UNCHANGED <<pc, mem>> /\ op'.of = "shm" /\ op'.do \in {"get", "key"}
      BY <1>2, <1>6 DEF Prepare, Attaching
    <2>2. \A q \in Procs : Agree(q)'
      BY <2>1, DownAgrees
    <2> QED
      BY <2>1, <2>2 DEF SemsAreTrue, AnyUp
  <1>7. CASE AutoRun
    BY <1>7 DEF AutoRun
  <1>8. CASE KillProcesses \/ Reboot
    <2>1. /\ ~AnyUp' /\ op'.do \in Ended
          /\ \A q \in Procs : pc'[q] = "down" /\ mem'[q] = Unset
      BY <1>8, AllEnd
    <2>2. \A q \in Procs : Agree(q)'
      BY <2>1, DownAgrees
    <2> QED
      BY <2>1, <2>2 DEF SemsAreTrue, Ended
  <1>9. CASE CreateKey \/ Get \/ CreateTable \/ OpenConf \/ WriteId \/ WriteKey
    <2>1. /\ UNCHANGED <<pc, mem>>
          /\ \A k \in Kinds, i \in Ids : Live(k, i) => Live(k, i)'
      BY <1>9, ScriptSteps
    <2>2. op.do # "idle"
      BY <1>9 DEF CreateKey, Get, CreateTable, OpenConf, WriteId, WriteKey
    <2>3. ~AnyUp'
      BY <1>4, <2>1, <2>2 DEF AnyUp
    <2>4. \A q \in Procs : Agree(q)'
      BY <1>4, <2>1, <2>2, DownAgrees
    <2>5. ASSUME app' = app, made, op.of = "sem", op.do \in {"open", "id", "line"}
          PROVE  Live("sem", app["sem"].id)'
      <3>1. PICK i \in Ids : i = app["sem"].id
        BY <1>3
      <3>2. Live("sem", i)'
        BY <1>2, <1>3, <2>1, <2>5, <3>1 DEF SemsAreTrue
      <3> QED
        BY <2>5, <3>1, <3>2 DEF Live
    <2>6. CASE CreateKey
      <3>1. op.do = "key" /\ op'.do \in {"get", "open"} /\ made' = made
        BY <2>6 DEF CreateKey
      <3>2. ~made'
        BY <3>1 DEF MadeLast, Ended
      <3> QED
        BY <2>3, <2>4, <3>1, <3>2 DEF SemsAreTrue
    <2>7. CASE Get \/ CreateTable
      <3>1. op' = [do |-> "open", of |-> op.of] /\ Live(op.of, app[op.of].id)'
        BY <2>7, GetsLive
      <3>2. op.of = "sem" => Live("sem", app["sem"].id)'
        BY <3>1 DEF Live
      <3> QED
        BY <2>3, <2>4, <3>1, <3>2 DEF SemsAreTrue
    <2>8. CASE OpenConf
      <3>1. app' = app /\ made' = made /\ op.do = "open" /\ op' = [do |-> "id", of |-> op.of]
        BY <2>8 DEF OpenConf
      <3> QED
        BY <2>3, <2>4, <2>5, <3>1 DEF SemsAreTrue
    <2>9. CASE WriteId
      <3>1. /\ conf' = [conf EXCEPT ![op.of].id = app[op.of].id] /\ app' = app /\ made' = made
            /\ op.do = "id"
            /\ op' = IF IsTable(op.of) THEN [do |-> "key", of |-> "sem"]
                     ELSE [do |-> "line", of |-> op.of]
        BY <2>9 DEF WriteId
      <3>2. op.of = "sem" => conf'["sem"].id = app'["sem"].id
        BY <1>3, <3>1 DEF Entry
      <3>3. op'.do \in {"key", "line"} /\ (op'.do = "line" => op'.of = op.of)
        BY <3>1
      <3>4. (op'.of = "sem" /\ made' /\ op'.do \in {"open", "id", "line"})
              => Live("sem", app["sem"].id)'
        BY <2>5, <3>1, <3>3
      <3>5. (op'.of = "sem" /\ op'.do = "line") => conf'["sem"].id = app'["sem"].id
        BY <3>2, <3>3
      <3> QED
        BY <2>3, <2>4, <3>3, <3>4, <3>5 DEF SemsAreTrue
    <2>10. CASE WriteKey
      <3>1. /\ conf' = [conf EXCEPT ![op.of].key = app[op.of].key] /\ app' = app /\ made' = made
            /\ op.do = "line"
        BY <2>10 DEF WriteKey
      <3>2. /\ op'.do \in {"key", "get", "start"}
            /\ op'.do = "start" => made /\ op.of = "sem"
        BY <1>3, <2>10 DEF WriteKey
      <3>3. conf'["sem"].id = conf["sem"].id
        BY <1>3, <3>1 DEF Entry
      <3>4. op'.do = "start" => Live("sem", app["sem"].id)'
        BY <2>5, <3>1, <3>2
      <3>5. op'.do = "start" => conf'["sem"].id = app'["sem"].id
        BY <1>2, <3>1, <3>2, <3>3 DEF SemsAreTrue
      <3>6. op'.do = "start" => Live("sem", conf["sem"].id)'
        BY <3>4, <3>5 DEF Live
      <3> QED
        BY <2>3, <2>4, <3>2, <3>6 DEF SemsAreTrue
    <2> QED
      BY <1>9, <2>6, <2>7, <2>8, <2>9, <2>10
  <1>10. CASE Start
    <2>1. /\ UNCHANGED <<kernel, conf, mem>> /\ op.do = "start" /\ op'.do = "idle"
          /\ \A q \in Procs : pc'[q] \in {pc[q], "call"}
      BY <1>10 DEF Start, TypeOK
    <2>2. \A q \in Procs : pc[q] = "down" /\ mem[q] = Unset
      BY <1>4, <2>1
    <2>3. \A q \in Procs : Agree(q)'
      BY <2>1, <2>2 DEF Agree
    <2>4. Live("sem", conf["sem"].id)'
      BY <1>2, <2>1 DEF SemsAreTrue, Live
    <2> QED
      BY <2>1, <2>3, <2>4 DEF SemsAreTrue
  <1>11. CASE Remove
    <2>1. op.do = "rm" /\ op'.do \in Ended /\ UNCHANGED <<pc, mem>>
      BY <1>11 DEF Remove, Ended
    <2>2. \A q \in Procs : pc[q] = "down" /\ mem[q] = Unset
      BY <1>4, <2>1
    <2>3. \A q \in Procs : Agree(q)'
      BY <2>1, <2>2, DownAgrees
    <2> QED
      BY <2>1, <2>2, <2>3 DEF SemsAreTrue, AnyUp, Ended
  <1>12. ASSUME NEW p \in Procs, Process(p)
         PROVE  SemsAreTrue' /\ \A q \in Procs : Agree(q)'
    <2>1. /\ UNCHANGED <<kernel, conf, op, app, made>> /\ pc[p] # "down"
          /\ \A q \in Procs \ {p} : pc'[q] = pc[q] /\ held'[q] = held[q] /\ mem'[q] = mem[q]
                                    /\ lock'[q] = lock[q]
      BY <1>12 DEF Process, ReadShmid, AttachMem, ReadSemid, ResetSem, SkipInit, TypeOK
    <2>2. AnyUp
      BY <2>1 DEF AnyUp
    <2>3. SemsAreTrue'
      BY <1>2, <2>1, <2>2 DEF SemsAreTrue, Live
    <2>4. ASSUME NEW q \in Procs \ {p} PROVE Agree(q)'
      BY <1>2, <2>1 DEF Agree
    <2>5. /\ pc \in [Procs -> {"down", "call", "attach", "readsem", "reset", "ready", "wild"}]
          /\ held \in [Procs -> Entry] /\ mem \in [Procs -> Ids \cup {Unset}]
          /\ lock \in [Procs -> Ids]
      BY DEF TypeOK
    <2>6. Agree(p) /\ Attaching(p) /\ op.do = "idle"
      BY <1>2, <2>1 DEF Agree
    <2>7. Agree(p)'
      <3>1. CASE ReadShmid(p)
        <4>1. /\ pc[p] = "call" /\ held'[p] = conf["shm"] /\ UNCHANGED <<mem, lock>>
              /\ pc'[p] \in {"attach", "call"}
          BY <2>5, <3>1 DEF ReadShmid
        <4> QED
          BY <2>1, <2>6, <4>1 DEF Agree
      <3>2. CASE AttachMem(p)
        <4>1. pc[p] = "attach" /\ held' = held
          BY <3>2 DEF AttachMem
        <4>2. Exists("shm", held[p].id)
          BY <2>6, <4>1 DEF Attaching, Live, Exists
        <4>3. pc'[p] = "readsem" /\ mem'[p] = held[p].id
          BY <2>5, <3>2, <4>2 DEF AttachMem
        <4> QED
          BY <2>1, <2>6, <4>1, <4>3 DEF Agree
      <3>3. CASE ReadSemid(p)
        <4>1. /\ pc[p] = "readsem" /\ mem' = mem /\ pc'[p] \in {"call", "ready", "reset"}
              /\ lock'[p] = conf["sem"].id
          BY <2>5, <3>3 DEF ReadSemid
        <4> QED
          BY <2>1, <2>6, <4>1 DEF Agree
      <3>4. CASE ResetSem(p)
        <4>1. pc[p] = "reset" /\ UNCHANGED <<mem, lock>> /\ pc'[p] \in {"call", "ready"}
          BY <2>5, <3>4 DEF ResetSem
        <4> QED
          BY <2>1, <2>6, <4>1 DEF Agree
      <3>5. CASE SkipInit(p)
        <4>1. /\ pc[p] = "call" /\ HasShm(p) /\ UNCHANGED <<mem, lock>>
              /\ pc'[p] \in {"wild", "ready"}
          BY <2>5, <3>5 DEF SkipInit
        <4>2. mem[p] # Unset
          BY <2>6, <4>1 DEF Attaching
        <4> QED
          BY <2>1, <2>6, <4>1, <4>2 DEF Agree
      <3> QED
        BY <1>12, <3>1, <3>2, <3>3, <3>4, <3>5 DEF Process
    <2> QED
      BY <2>3, <2>4, <2>7
  <1> QED
    BY <1>5, <1>6, <1>7, <1>8, <1>9, <1>10, <1>11, <1>12 DEF Next, Operator

-----------------------------------------------------------------------------
(* The results                                                             *)

\* At first nothing is set up and no process is up.
LEMMA InitInv == Init => IInv
  <1> SUFFICES ASSUME Init PROVE IInv
    OBVIOUS
  <1>1. TypeOK
    BY InitType
  <1>2. /\ op = [do |-> "idle", of |-> "shm"] /\ made = FALSE
        /\ \A p \in Procs : pc[p] = "down" /\ held[p] = Nothing /\ mem[p] = Unset
    BY DEF Init
  <1>3. MadeLast
    BY <1>2 DEF MadeLast
  <1>4. ~AnyUp /\ ~BehindShm
    BY <1>2 DEF AnyUp, BehindShm
  <1>5. FilesAreTrue /\ SemsAreTrue
    BY <1>2, <1>4 DEF FilesAreTrue, SemsAreTrue
  <1>6. \A p \in Procs : Attaching(p) /\ Agree(p)
    BY <1>2 DEF Attaching, Agree, HasShm, Nothing
  <1> QED
    BY <1>1, <1>3, <1>5, <1>6 DEF IInv, WildInv, OrderInv

\* The types, and what the files, the kernel and the processes have in common, hold
\* in every reachable state.
THEOREM Invariance == Spec => []IInv
  <1>1. IInv /\ [Next]_vars => IInv'
    BY NextType, NextMade, NextWild, NextOrder DEF IInv
  <1> QED
    BY InitInv, <1>1, PTL DEF Spec

\* No process copies through an address it never attached, as long as the scripts
\* end every process and auto_run.sh is not used without shm_app: also when
\* prepare.sh is run again under running processes.
THEOREM NoWildCopies == Spec => []NoWildCopy
  <1>1. IInv => NoWildCopy
    BY DEF IInv, WildInv, Attaching, NoWildCopy
  <1> QED
    BY Invariance, <1>1, PTL

\* In orderly use the processes that use the blocks have one segment and one
\* semaphore set, and the kernel has the set.
THEOREM SharesAll == Spec => []ShareMemoryAndLocks
  <1>1. ASSUME IInv, Orderly, NEW p \in Procs, NEW q \in Procs, pc[p] = "ready", pc[q] = "ready"
        PROVE  mem[p] = mem[q] /\ lock[p] = lock[q] /\ Exists("sem", lock[p])
    <2>1. /\ SemsAreTrue /\ Agree(p) /\ Agree(q)
          /\ Attaching(p) /\ Attaching(q)
      BY <1>1 DEF IInv, OrderInv, WildInv, Orderly
    <2>2. mem[p] = conf["shm"].id /\ mem[q] = conf["shm"].id
      BY <1>1, <2>1 DEF Agree, Attaching
    <2>3. lock[p] = conf["sem"].id /\ lock[q] = conf["sem"].id
      BY <1>1, <2>1 DEF Agree
    <2>4. Live("sem", conf["sem"].id)
      BY <1>1, <2>1 DEF SemsAreTrue, AnyUp
    <2> QED
      BY <2>2, <2>3, <2>4 DEF Live, Exists
  <1>2. IInv => ShareMemoryAndLocks
    BY <1>1 DEF ShareMemoryAndLocks
  <1> QED
    BY Invariance, <1>2, PTL

-----------------------------------------------------------------------------
(* One object of each kind                                                 *)

\* shm_app is at work on kind k: it has the key, and goes on to write the file.
AtWork(k) == op.of = k /\ op.do \in {"get", "open", "id", "line"}

\* Where the id and the key of kind k are kept: by shm_app at work, else in the file.
Kept(k) == IF AtWork(k) THEN app[k] ELSE conf[k]

\* The key is a time, also in the kernel; and unless an object has the id 0, what
\* the kernel has of kind k is what is kept.
Found(k) ==
  /\ AtWork(k) => app[k].key # 0
  /\ op.of = k /\ op.do = "line" => conf[k].id = app[k].id
  /\ \A i \in Ids : Live(k, i) => kernel[k][i] # Private
  /\ ~Live(k, 0) => \A i \in Ids : Live(k, i) => Kept(k) = [id |-> i, key |-> kernel[k][i]]

\* The inductive invariant behind OneOfEach.
FoundInv == now # 0 /\ (~scen.table => \A k \in Kinds : Found(k))

\* The kernel's live objects of kind k are as they were, or gone; so is what is kept.
LEMMA FoundStays ==
  ASSUME NEW k \in Kinds, Found(k), Kept(k)' = Kept(k),
         AtWork(k)' => app'[k].key # 0,
         op'.of = k /\ op'.do = "line" => conf'[k].id = app'[k].id,
         \A i \in Ids : Live(k, i)' => kernel'[k][i] = kernel[k][i],
         \A i \in Ids : Live(k, i)' <=> Live(k, i)
  PROVE  Found(k)'
  <1>1. 0 \in Ids
    BY BoundsAssumption DEF Ids
  <1>2. \A i \in Ids : Live(k, i)' => kernel'[k][i] # Private
    BY DEF Found
  <1>3. ~Live(k, 0)' => \A i \in Ids : Live(k, i)' => Kept(k)' = [id |-> i, key |-> kernel'[k][i]]
    BY <1>1 DEF Found
  <1> QED
    BY <1>2, <1>3 DEF Found

\* No object of kind k is live, and no script is at work.
LEMMA FoundNone ==
  ASSUME NEW k \in Kinds, ~AtWork(k)', \A i \in Ids : ~Live(k, i)'
  PROVE  Found(k)'
  BY DEF Found, AtWork

\* What is kept is taken, if it is valid, and else a new key.
LEMMA KeepsTheKey ==
  ASSUME TypeOK, ~scen.table, now # 0, CreateKey, NEW k \in Kinds, k = op.of, Found(k)
  PROVE  Found(k)'
  <1>t. /\ conf[k] \in Entry /\ conf[k].id \in Ids /\ conf[k].key \in Nat
        /\ op \in [do : Dos, of : Kinds] /\ app \in [Kinds -> Entry] /\ 0 \in Ids
    BY BoundsAssumption DEF TypeOK, Entry, Ids
  <1>1. /\ op.do = "key" /\ op'.of = k /\ op'.do \in {"get", "open"} /\ UNCHANGED <<kernel, conf>>
    BY DEF CreateKey, Do, os
  <1>2. PICK e : e = IF Valid(k, conf[k]) THEN conf[k] ELSE [conf[k] EXCEPT !.key = now]
    OBVIOUS
  <1>3. app'[k] = e
    BY <1>t, <1>2 DEF CreateKey
  <1>4. Valid(k, conf[k]) <=> conf[k].id # 0 /\ conf[k].key # 0
    BY DEF Valid, IsTable
  <1>5. e.key # 0
    BY <1>t, <1>2, <1>4 DEF Entry
  <1>6. /\ Kept(k)' = e /\ Kept(k) = conf[k] /\ AtWork(k)'
    BY <1>1, <1>3 DEF Kept, AtWork
  <1>7. ASSUME ~Live(k, 0), NEW i \in Ids, Live(k, i)
        PROVE  e = [id |-> i, key |-> kernel[k][i]]
    <2>1. conf[k] = [id |-> i, key |-> kernel[k][i]] /\ kernel[k][i] # 0
      BY <1>6, <1>7 DEF Found, Private
    <2>2. i # 0
      BY <1>7
    <2> QED
      BY <1>2, <1>4, <2>1, <2>2
  <1>8. \A i \in Ids : Live(k, i)' <=> Live(k, i)
    BY <1>1 DEF Live
  <1>9. Live(k, 0)' <=> Live(k, 0)
    BY <1>1 DEF Live
  <1> QED
    BY <1>1, <1>3, <1>5, <1>6, <1>7, <1>8, <1>9 DEF Found

\* The object that has the key is the one there is, or a new one is.
LEMMA GetsTheOne ==
  ASSUME TypeOK, ~scen.table, Get, NEW k \in Kinds, k = op.of, Found(k)
  PROVE  Found(k)'
  <1>t. /\ app \in [Kinds -> Entry] /\ app[k] \in Entry /\ app[k].key \in Nat /\ 0 \in Ids
        /\ kernel \in [Kinds -> [Ids -> Int]]
    BY BoundsAssumption DEF TypeOK, Entry, Ids
  <1>1. /\ op.do = "get" /\ op' = [do |-> "open", of |-> k] /\ UNCHANGED conf
    BY DEF Get, Do
  <1>2. AtWork(k) /\ AtWork(k)' /\ Kept(k) = app[k] /\ Kept(k)' = app'[k]
    BY <1>1 DEF AtWork, Kept
  <1>3. app[k].key # 0
    BY <1>2 DEF Found
  <1>4. ASSUME NEW n \in Ids, kernel[k][n] = app[k].key, app' = [app EXCEPT ![k].id = n],
               UNCHANGED os
        PROVE  Found(k)'
    <2>1. Live(k, n) /\ kernel' = kernel
      BY <1>t, <1>4 DEF Live, Gone, Marked, os
    <2>2. app'[k] = [app[k] EXCEPT !.id = n]
      BY <1>t, <1>4
    <2>3. app'[k].key # 0
      BY <1>3, <1>t, <2>2 DEF Entry
    <2>4. ~Live(k, 0) => app[k] = [id |-> n, key |-> kernel[k][n]]
      BY <1>2, <2>1 DEF Found
    <2>5. ~Live(k, 0) => app'[k] = app[k]
      BY <2>2, <2>4
    <2>6. (Live(k, 0)' <=> Live(k, 0)) /\ \A i \in Ids : Live(k, i)' <=> Live(k, i)
      BY <2>1 DEF Live
    <2>7. ~Live(k, 0)' => \A i \in Ids : Live(k, i)' => Kept(k)' = [id |-> i, key |-> kernel'[k][i]]
      BY <1>2, <2>1, <2>5, <2>6 DEF Found
    <2>8. \A i \in Ids : Live(k, i)' => kernel'[k][i] # Private
      BY <2>1, <2>6 DEF Found
    <2> QED
      BY <1>1, <2>3, <2>7, <2>8 DEF Found
  <1>5. ASSUME \A i \in Ids : kernel[k][i] # app[k].key, New(k, app[k].key)
        PROVE  Found(k)'
    <2>1. PICK n \in Ids : n = next[k]
      BY <1>5, BoundsAssumption DEF New, Ids, TypeOK
    <2>2. /\ kernel' = [kernel EXCEPT ![k][n] = app[k].key] /\ app' = [app EXCEPT ![k].id = n]
      BY <1>5, <2>1 DEF New
    <2>3. /\ kernel'[k][n] = app[k].key
          /\ \A i \in Ids : i # n => kernel'[k][i] = kernel[k][i]
      BY <1>t, <2>2
    <2>4. app'[k] = [id |-> n, key |-> app[k].key]
      BY <1>t, <2>2 DEF Entry
    <2>5. Live(k, n)' /\ \A i \in Ids : i # n => (Live(k, i)' <=> Live(k, i))
      BY <1>t, <2>3 DEF Live, Gone, Marked
    <2>6. ASSUME ~Live(k, 0)', NEW i \in Ids, Live(k, i)'
          PROVE  i = n
      <3>1. SUFFICES ASSUME i # n
                     PROVE  FALSE
        OBVIOUS
      <3>2. n # 0
        BY <2>5, <2>6
      <3>3. ~Live(k, 0) /\ Live(k, i)
        BY <1>t, <2>5, <2>6, <3>1, <3>2
      <3>4. app[k] = [id |-> i, key |-> kernel[k][i]]
        BY <1>2, <3>3 DEF Found
      <3> QED
        BY <1>5, <3>4
    <2>7. ~Live(k, 0)' => \A i \in Ids : Live(k, i)' => Kept(k)' = [id |-> i, key |-> kernel'[k][i]]
      BY <1>2, <2>3, <2>4, <2>6
    <2>8. \A i \in Ids : Live(k, i)' => kernel'[k][i] # Private
      BY <1>3, <2>3, <2>5 DEF Found, Private
    <2>9. app'[k].key # 0
      BY <1>3, <2>4
    <2> QED
      BY <1>1, <2>7, <2>8, <2>9 DEF Found
  <1> QED
    BY <1>3, <1>4, <1>5 DEF Get, Private

\* The file is written with what shm_app has.
LEMMA WritesWhatItHas ==
  ASSUME TypeOK, ~scen.table, OpenConf \/ WriteId \/ WriteKey, NEW k \in Kinds, Found(k)
  PROVE  Found(k)'
  <1>t. /\ app \in [Kinds -> Entry] /\ conf \in [Kinds -> Entry]
        /\ op.of \in Kinds /\ Kinds = {"shm", "sem"}
    BY DEF TypeOK, Kinds
  <1>1. /\ UNCHANGED <<kernel, app>> /\ AtWork(op.of)
    BY DEF OpenConf, WriteId, WriteKey, os, shmapp, AtWork
  <1>2. \A i \in Ids : (Live(k, i)' <=> Live(k, i)) /\ kernel'[k][i] = kernel[k][i]
    BY <1>1 DEF Live
  <1>3. CASE k # op.of
    <2>1. conf'[k] = conf[k]
      BY <1>t, <1>3 DEF OpenConf, WriteId, WriteKey
    <2>2. ~AtWork(k)
      BY <1>3 DEF AtWork
    <2>3. ~AtWork(k)'
      BY <1>t, <1>3 DEF AtWork, OpenConf, WriteId, WriteKey, Do, IsTable
    <2>4. Kept(k)' = Kept(k)
      BY <2>1, <2>2, <2>3 DEF Kept
    <2> QED
      BY <1>2, <2>3, <2>4, FoundStays DEF AtWork
  <1>4. CASE k = op.of
    <2>1. Kept(k) = app[k] /\ app[k].key # 0
      BY <1>1, <1>4 DEF Kept, Found
    <2>2. CASE OpenConf
      <3>1. op' = [do |-> "id", of |-> k]
        BY <1>4, <2>2 DEF OpenConf, Do
      <3>2. Kept(k)' = Kept(k)
        BY <1>1, <2>1, <3>1 DEF Kept, AtWork
      <3> QED
        BY <1>1, <1>2, <2>1, <3>1, <3>2, FoundStays
    <2>3. CASE WriteId
      <3>1. op' = [do |-> "line", of |-> k]
        BY <1>4, <2>3 DEF WriteId, Do, IsTable
      <3>2. Kept(k)' = Kept(k)
        BY <1>1, <2>1, <3>1 DEF Kept, AtWork
      <3>3. conf'[k].id = app'[k].id
        BY <1>t, <1>1, <1>4, <2>3 DEF WriteId, Entry
      <3> QED
        BY <1>1, <1>2, <2>1, <3>1, <3>2, <3>3, FoundStays
    <2>4. CASE WriteKey
      <3>1. conf' = [conf EXCEPT ![k].key = app[k].key] /\ op.do = "line" /\ conf[k].id = app[k].id
        BY <1>4, <2>4 DEF WriteKey, Found
      <3>2. conf'[k] = app[k]
        BY <1>t, <3>1 DEF Entry
      <3>3. op'.do # "line"
        BY <1>t, <2>4 DEF WriteKey, Do
      <3>4. Kept(k)' = Kept(k)
        BY <1>1, <2>1, <3>2 DEF Kept
      <3> QED
        BY <1>1, <1>2, <2>1, <3>3, <3>4, FoundStays
    <2> QED
      BY <2>2, <2>3, <2>4
  <1> QED
    BY <1>3, <1>4

\* What the kernel has of a kind is what is kept of it, whatever step is taken.
LEMMA NextFound ==
  ASSUME TypeOK, ~scen.table, now # 0, NEW k \in Kinds, Found(k), [Next]_vars
  PROVE  Found(k)'
  <1> USE DEF os, proc, shmapp, Do, Step
  <1>t. /\ op.of \in Kinds /\ Kinds = {"shm", "sem"} /\ kernel \in [Kinds -> [Ids -> Int]]
        /\ app \in [Kinds -> Entry]
    BY DEF TypeOK, Kinds
  <1>1. ASSUME UNCHANGED <<kernel, conf>>, ~AtWork(k), ~AtWork(k)'
        PROVE  Found(k)'
    <2>1. Kept(k)' = Kept(k)
      BY <1>1 DEF Kept
    <2>2. \A i \in Ids : (Live(k, i)' <=> Live(k, i)) /\ kernel'[k][i] = kernel[k][i]
      BY <1>1 DEF Live
    <2> QED
      BY <1>1, <2>1, <2>2, FoundStays DEF AtWork
  <1>2. CASE UNCHANGED <<kernel, conf, op, app>>
    <2>1. \A i \in Ids : (Live(k, i)' <=> Live(k, i)) /\ kernel'[k][i] = kernel[k][i]
      BY <1>2 DEF Live
    <2>2. (AtWork(k)' <=> AtWork(k)) /\ Kept(k)' = Kept(k)
      BY <1>2 DEF AtWork, Kept
    <2>3. /\ AtWork(k)' => app'[k].key # 0
          /\ op'.of = k /\ op'.do = "line" => conf'[k].id = app'[k].id
      BY <1>2, <2>2 DEF Found
    <2> QED
      BY <2>1, <2>2, <2>3, FoundStays
  <1>3. CASE Prepare \/ AutoRun \/ Start
    <2>1. UNCHANGED <<kernel, conf>> /\ op.do \in {"idle", "start"} /\ op'.do \in {"idle", "start", "key"}
      BY <1>3 DEF Prepare, AutoRun, Start, Idle
    <2> QED
      BY <1>1, <2>1 DEF AtWork
  <1>4. CASE CreateKey
    <2>1. CASE k = op.of
      BY <1>4, <2>1, KeepsTheKey
    <2>2. CASE k # op.of
      <3>1. UNCHANGED <<kernel, conf>> /\ op'.of = op.of
        BY <1>4 DEF CreateKey
      <3> QED
        BY <1>1, <2>2, <3>1 DEF AtWork
    <2> QED
      BY <2>1, <2>2
  <1>5. CASE Get
    <2>1. CASE k = op.of
      BY <1>5, <2>1, GetsTheOne
    <2>2. CASE k # op.of
      <3>1. UNCHANGED conf /\ op' = [do |-> "open", of |-> op.of]
        BY <1>5 DEF Get
      <3>2. ~AtWork(k) /\ ~AtWork(k)'
        BY <2>2, <3>1 DEF AtWork
      <3>3. \A i \in Ids : kernel'[k][i] = kernel[k][i]
        BY <1>5, <1>t, <2>2 DEF Get, New
      <3>4. Kept(k)' = Kept(k)
        BY <3>1, <3>2 DEF Kept
      <3>5. \A i \in Ids : Live(k, i)' <=> Live(k, i)
        BY <3>3 DEF Live
      <3> QED
        BY <3>2, <3>3, <3>4, <3>5, FoundStays DEF AtWork
    <2> QED
      BY <2>1, <2>2
  <1>6. CASE CreateTable
    BY <1>6 DEF CreateTable, IsTable
  <1>7. CASE OpenConf \/ WriteId \/ WriteKey
    BY <1>7, WritesWhatItHas
  <1>8. CASE KillProcesses
    <2>1. UNCHANGED conf /\ op.do = "idle" /\ op'.do \in {"idle", "rm"}
      BY <1>8 DEF KillProcesses, Idle
    <2>2. ~AtWork(k) /\ ~AtWork(k)'
      BY <2>1 DEF AtWork
    <2>3. Kept(k)' = Kept(k)
      BY <2>1, <2>2 DEF Kept
    <2>4. PICK m : kernel' = [kernel EXCEPT !["shm"] = Settled(@, m)]
      BY <1>8 DEF KillProcesses, End
    <2>5. \A i \in Ids : \/ kernel'[k][i] = kernel[k][i]
                         \/ kernel[k][i] = Marked /\ kernel'[k][i] = Gone
      BY <1>t, <2>4 DEF Settled
    <2>6. \A i \in Ids : (Live(k, i)' <=> Live(k, i)) /\ (Live(k, i)' => kernel'[k][i] = kernel[k][i])
      BY <2>5 DEF Live
    <2> QED
      BY <2>2, <2>3, <2>6, FoundStays DEF AtWork
  <1>9. CASE Remove
    <2>1. UNCHANGED conf /\ op.do = "rm" /\ op'.do \in {"idle", "rm"}
      BY <1>9 DEF Remove
    <2>2. ~AtWork(k) /\ ~AtWork(k)'
      BY <2>1 DEF AtWork
    <2>3. CASE op.of = k
      <3>1. \A i \in Ids : kernel'[k][i] \in {Gone, Marked}
        <4>1. CASE k = "shm"
          <5>1. kernel' = [kernel EXCEPT !["shm"] =
                    Settled([i \in Ids |-> IF @[i] = Gone THEN Gone ELSE Marked], mem)]
            BY <1>9, <2>3, <4>1 DEF Remove
          <5> QED
            BY <1>t, <4>1, <5>1 DEF Settled
        <4>2. CASE k = "sem"
          BY <1>9, <1>t, <2>3, <4>2 DEF Remove
        <4> QED
          BY <1>t, <4>1, <4>2
      <3> QED
        BY <2>2, <3>1, FoundNone DEF Live
    <2>4. CASE op.of # k
      <3>1. kernel'[k] = kernel[k]
        BY <1>9, <1>t, <2>4 DEF Remove
      <3>2. Kept(k)' = Kept(k)
        BY <2>1, <2>2 DEF Kept
      <3>3. \A i \in Ids : Live(k, i)' <=> Live(k, i)
        BY <3>1 DEF Live
      <3> QED
        BY <2>2, <3>1, <3>2, <3>3, FoundStays DEF AtWork
    <2> QED
      BY <2>3, <2>4
  <1>10. CASE Reboot
    <2>1. op' = op /\ op.do = "idle" /\ \A i \in Ids : kernel'[k][i] = Gone
      BY <1>10 DEF Reboot, Idle
    <2> QED
      BY <2>1, FoundNone DEF AtWork, Live
  <1>11. ASSUME NEW p \in Procs, Process(p)
         PROVE  UNCHANGED <<kernel, conf, op, app>>
    BY <1>11 DEF Process, ReadShmid, AttachMem, ReadSemid, ResetSem, SkipInit
  <1> QED
    BY <1>2, <1>3, <1>4, <1>5, <1>6, <1>7, <1>8, <1>9, <1>10, <1>11 DEF Next, Operator, vars

\* The clock does not come to 0, and the circumstances stay.
LEMMA NextNow ==
  ASSUME TypeOK, now # 0, [Next]_vars
  PROVE  now' # 0 /\ scen' = scen
  <1>1. CASE Prepare
    <2>1. now' \in {now, now + 1} /\ now \in Nat /\ scen' = scen
      BY <1>1 DEF Prepare, TypeOK
    <2> QED
      BY <2>1
  <1>2. CASE ~Prepare
    BY <1>2 DEF Next, Operator, Process, vars, AutoRun, KillProcesses, Reboot, CreateKey, Get,
       CreateTable, OpenConf, WriteId, WriteKey, Start, Remove, ReadShmid, AttachMem,
       ReadSemid, ResetSem, SkipInit
  <1> QED
    BY <1>1, <1>2

\* The user has one segment and one semaphore set at a time, for any number of
\* setups, kills, clears and reboots, as long as the kernel does not give the id 0.
THEOREM FindsTheOne == Spec => []OneOfEach
  <1>1. Init => FoundInv
    <2> SUFFICES ASSUME Init, NEW k \in Kinds
                 PROVE  now # 0 /\ Found(k)
      BY DEF FoundInv, Kinds
    <2>1. now = 1 /\ op.do = "idle" /\ \A i \in Ids : kernel[k][i] = Gone
      BY DEF Init
    <2> QED
      BY <2>1 DEF Found, AtWork, Live
  <1>2. TypeOK /\ FoundInv /\ [Next]_vars => FoundInv'
    <2> SUFFICES ASSUME TypeOK, FoundInv, [Next]_vars
                 PROVE  FoundInv'
      OBVIOUS
    <2>1. now' # 0 /\ scen' = scen
      BY NextNow DEF FoundInv
    <2>2. ASSUME ~scen.table, NEW k \in Kinds
          PROVE  Found(k)'
      BY <2>2, NextFound DEF FoundInv
    <2> QED
      BY <2>1, <2>2 DEF FoundInv
  <1>3. FoundInv => OneOfEach
    <2> SUFFICES ASSUME FoundInv, ~scen.table, NEW k \in Kinds, ~Exists(k, 0)
                 PROVE  Cardinality({i \in Ids : kernel[k][i] \notin {Gone, Marked}}) <= 1
      BY DEF OneOfEach
    <2>1. ~Live(k, 0) /\ Found(k)
      BY DEF Live, Exists, FoundInv
    <2>2. \A i \in Ids : Live(k, i) => Kept(k) = [id |-> i, key |-> kernel[k][i]]
      BY <2>1 DEF Found
    <2>3. \A i, j \in Ids : Live(k, i) /\ Live(k, j) => i = j
      <3>1. ASSUME NEW i \in Ids, NEW j \in Ids, Live(k, i), Live(k, j)
            PROVE  i = j
        <4>1. /\ Kept(k) = [id |-> i, key |-> kernel[k][i]]
              /\ Kept(k) = [id |-> j, key |-> kernel[k][j]]
          BY <2>2, <3>1
        <4>2. Kept(k).id = i /\ Kept(k).id = j
          BY <4>1
        <4> QED
          BY <4>2
      <3> QED
        BY <3>1
    <2>4. PICK L : L = {i \in Ids : kernel[k][i] \notin {Gone, Marked}}
      OBVIOUS
    <2>5. L = {} \/ \E i \in Ids : L = {i}
      BY <2>3, <2>4 DEF Live
    <2>6. Cardinality(L) <= 1
      <3>1. L = {} => Cardinality(L) = 0
        BY FS_EmptySet
      <3>2. ASSUME NEW i \in Ids, L = {i}
            PROVE  Cardinality(L) = 1
        BY <3>2, FS_Singleton
      <3> QED
        BY <2>5, <3>1, <3>2
    <2> QED
      BY <2>4, <2>6
  <1>4. IInv => TypeOK
    BY DEF IInv
  <1> QED
    BY Invariance, <1>1, <1>2, <1>3, <1>4, PTL DEF Spec
=============================================================================

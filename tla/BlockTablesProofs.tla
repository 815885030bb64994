------------------------- MODULE BlockTablesProofs -------------------------
(***************************************************************************)
(* Proofs about BlockTables, for every number of processes, blocks, items  *)
(* and packets.                                                            *)
(*                                                                         *)
(* ReadOnce: with one process of a kind at a time, what the flags of a     *)
(* block say tells who holds it (Flags), so a block that fits is nobody's, *)
(* and each packet not read is in one block that is yet to be read (Fresh).*)
(* EachHasItsItem: in the route table an item found free stays free        *)
(* (RouteItems); in the schedule manager the number of those attached      *)
(* grows with each who registers (ManagerItems).                           *)
(***************************************************************************)
EXTENDS BlockTables, FiniteSetTheorems, TLAPS

BlockPC == {"scan", "take", "use", "mark", "free"}
SettingPC == {"search", "set", "look", "create", "name", "count", "register"}
Labels == {"idle", "registered", "refused", "crashed", "left"} \cup BlockPC \cup SettingPC

TypeOK ==
  /\ table \in {"route", "schedule"} /\ part \in {"mem", "proc"}
  /\ crowd \in {"alone", "any"} /\ role \in [Procs -> {"writer", "reader"}]
  /\ pc \in [Procs -> Labels]
  /\ mem \in [Blocks -> [free : BOOLEAN, ready : BOOLEAN]]
  /\ at \in [Procs -> Nat]
  /\ data \in [Blocks -> Nat]
  /\ packets \in 0..MaxPackets /\ read \in [1..MaxPackets -> Nat]
  /\ held \in [Procs -> Blocks \cup {NULL}]
  /\ \A p \in Procs : pc[p] \in BlockPC \ {"scan"} => held[p] \in Blocks
  /\ conf \in Procs \cup {NULL}
  /\ seg \in [Procs -> Procs \cup {NULL}]
  /\ item \in [Procs \cup {NULL} -> [Slots -> Procs \cup {NULL}]]
  /\ real \in [Procs -> Int]

\* Blocks are shared, or processes register.
Parts ==
  \A p \in Procs :
    /\ part = "mem" => pc[p] \in {"idle"} \cup BlockPC
    /\ part = "proc" => pc[p] \notin BlockPC
    /\ pc[p] \in SettingPC \cup {"registered"} => part = "proc"
    /\ pc[p] \in {"search", "set"} => table = "route"
    /\ pc[p] \in {"look", "create", "name", "count", "register"} => table = "schedule"
    /\ pc[p] = "free" => table = "schedule"

-----------------------------------------------------------------------------
(* The invariant of the blocks                                             *)

Holds(p, b) == pc[p] \in BlockPC \ {"scan"} /\ held[p] = b

OneOfAKind ==
  \A p, q \in Procs : (p # q /\ role[p] = role[q]) => pc[p] = "idle" \/ pc[q] = "idle"

\* What the flags of a block say while p holds it, and while nobody does.
Flags ==
  /\ \A p \in Procs, b \in Blocks : Holds(p, b) =>
       /\ pc[p] = "take" =>
            /\ mem[b].ready = (role[p] = "reader")
            /\ mem[b].free = (role[p] = "writer" \/ table = "schedule")
       /\ pc[p] \in {"use", "mark"} =>
            /\ ~mem[b].free
            /\ mem[b].ready = (role[p] = "reader" /\ table = "schedule")
       /\ pc[p] = "free" => ~mem[b].free /\ mem[b].ready = (role[p] = "writer")
  /\ \A b \in Blocks : (\A p \in Procs : ~Holds(p, b)) =>
       IF table = "route" THEN mem[b].free = ~mem[b].ready ELSE mem[b].free

OneHolder ==
  \A p, q \in Procs, b \in Blocks : Holds(p, b) /\ Holds(q, b) => p = q

\* b has a packet that is written and not read.
Fresh(b) ==
  \/ \E p \in Procs : Holds(p, b) /\ role[p] = "writer" /\ pc[p] = "mark"
  \/ \E p \in Procs : Holds(p, b) /\ role[p] = "reader" /\ pc[p] \in {"take", "use"}
  \/ mem[b].ready /\ \A p \in Procs : role[p] = "reader" => ~Holds(p, b)

Contents ==
  /\ \A b \in Blocks : Fresh(b) => data[b] \in 1..packets /\ read[data[b]] = 0
  /\ \A b, c \in Blocks : Fresh(b) /\ Fresh(c) /\ data[b] = data[c] => b = c
  /\ \A k \in 1..packets : read[k] = 0 => \E b \in Blocks : Fresh(b) /\ data[b] = k
  /\ \A k \in 1..MaxPackets : read[k] <= 1 /\ (k > packets => read[k] = 0)

BlocksInv ==
  (part = "mem" /\ crowd = "alone") => OneOfAKind /\ Flags /\ OneHolder /\ Contents

-----------------------------------------------------------------------------
(* The invariant of the items                                              *)

OneSetsUp ==
  \A p, q \in Procs : (p # q /\ pc[p] \in SettingPC) => pc[q] \notin SettingPC

RouteItems ==
  \A p \in Procs :
    /\ pc[p] = "registered" => \E n \in Slots : item[NULL][n] = p
    /\ pc[p] = "set" => at[p] \in Slots /\ item[NULL][at[p]] = NULL

\* Those who have the segment attached, and registered, use items below the last.
ManagerItem(p) ==
  /\ pc[p] # "crashed" /\ pc[p] # "left"
  /\ conf = NULL => pc[p] \in {"idle", "look", "create", "name"}
  /\ conf # NULL => pc[p] \notin {"create", "name"}
  /\ pc[p] \in {"idle", "look", "create"} => seg[p] = NULL
  /\ pc[p] = "name" => seg[p] = p
  /\ pc[p] \notin {"idle", "look", "create", "name"} => seg[p] = conf
  /\ pc[p] = "registered" =>
       real[p] \in Slots /\ item[conf][real[p]] = p /\ real[p] < Attached(conf)
  /\ pc[p] \in {"count", "register"} =>
       \A q \in Procs : pc[q] = "registered" => real[q] < Attached(conf) - 1
  /\ pc[p] = "register" => real[p] \in Slots /\ real[p] = Attached(conf) - 1
ManagerItems == removed = {} /\ \A p \in Procs : ManagerItem(p)

ItemsInv ==
  (part = "proc" /\ crowd = "alone") =>
    /\ OneSetsUp
    /\ table = "route" => RouteItems
    /\ table = "schedule" => ManagerItems

NothingWritten == part = "proc" => packets = 0

IInv == TypeOK /\ Parts /\ NothingWritten /\ BlocksInv /\ ItemsInv

-----------------------------------------------------------------------------
(* Types                                                                   *)

\* The number of those who have a segment attached.
LEMMA AttachedCount ==
  ASSUME NEW s
  PROVE  /\ IsFiniteSet({q \in Procs : seg[q] = s})
         /\ Attached(s) \in Nat
         /\ \A p \in Procs : seg[p] = s => Attached(s) >= 1
  <1> DEFINE A == {q \in Procs : seg[q] = s}
  <1>1. IsFiniteSet(A)
    BY ProcsAssumption, FS_Subset
  <1>2. Cardinality(A) \in Nat
    BY <1>1, FS_CardinalityType
  <1>3. A # {} => Cardinality(A) # 0
    BY <1>1, FS_EmptySet
  <1> QED
    BY <1>1, <1>2, <1>3 DEF Attached

LEMMA InitType == Init => TypeOK /\ Parts
  <1> SUFFICES ASSUME Init PROVE TypeOK /\ Parts
    OBVIOUS
  <1>1. mem \in [Blocks -> [free : BOOLEAN, ready : BOOLEAN]]
    BY DEF Init
  <1>2. /\ packets \in 0..MaxPackets /\ read \in [1..MaxPackets -> Nat]
        /\ data \in [Blocks -> Nat]
    BY SizesAssumption DEF Init
  <1>3. item \in [Procs \cup {NULL} -> [Slots -> Procs \cup {NULL}]]
    BY DEF Init
  <1>4. pc = [p \in Procs |-> "idle"]
    BY DEF Init
  <1>5. pc \in [Procs -> Labels] /\ \A p \in Procs : pc[p] = "idle"
    BY <1>4 DEF Labels
  <1>6. real \in [Procs -> Int]
    BY DEF Init
  <1>7. TypeOK
    BY <1>1, <1>2, <1>3, <1>5, <1>6 DEF Init, TypeOK, BlockPC
  <1>8. Parts
    BY <1>5 DEF Parts, BlockPC, SettingPC
  <1> QED
    BY <1>7, <1>8

\* A process goes to a label of its part and table.
Belongs(l) ==
  /\ l \in Labels
  /\ part = "mem" => l \in {"idle"} \cup BlockPC
  /\ part = "proc" => l \notin BlockPC
  /\ l \in SettingPC \cup {"registered"} => part = "proc"
  /\ l \in {"search", "set"} => table = "route"
  /\ l \in {"look", "create", "name", "count", "register", "free"} => table = "schedule"

LEMMA PcMoves ==
  ASSUME TypeOK, Parts, NEW p \in Procs, NEW l, Belongs(l),
         pc' = [pc EXCEPT ![p] = l],
         UNCHANGED <<part, table>>,
         \A q \in Procs \ {p} : held'[q] = held[q],
         l \in BlockPC \ {"scan"} => held'[p] \in Blocks
  PROVE  /\ pc' \in [Procs -> Labels]
         /\ \A q \in Procs : pc'[q] \in BlockPC \ {"scan"} => held'[q] \in Blocks
         /\ Parts'
  <1>1. pc \in [Procs -> Labels]
    BY DEF TypeOK
  <1>2. pc'[p] = l /\ \A q \in Procs \ {p} : pc'[q] = pc[q]
    BY <1>1
  <1>3. pc' \in [Procs -> Labels]
    BY <1>1 DEF Belongs
  <1>4. \A q \in Procs : pc'[q] \in BlockPC \ {"scan"} => held'[q] \in Blocks
    BY <1>2 DEF TypeOK
  <1>5. Parts'
    BY <1>2 DEF Parts, Belongs
  <1> QED
    BY <1>3, <1>4, <1>5

\* What the label of a process says about the part and the table.
LEMMA WhereItIs ==
  ASSUME Parts, TypeOK, NEW p \in Procs
  PROVE  /\ pc[p] \in BlockPC => part = "mem"
         /\ pc[p] \in SettingPC \cup {"registered"} => part = "proc"
         /\ pc[p] \in {"search", "set"} => table = "route"
         /\ pc[p] \in {"look", "create", "name", "count", "register", "free"} => table = "schedule"
  BY DEF Parts, TypeOK, BlockPC, SettingPC

LEMMA NextType ==
  ASSUME TypeOK, Parts, [Next]_vars
  PROVE  TypeOK' /\ Parts'
  <1> USE DEF given, blocks, procs
  <1>1. CASE UNCHANGED vars
    BY <1>1 DEF TypeOK, Parts, vars
  <1>2. ASSUME NEW p \in Procs, Step(p)
        PROVE  TypeOK' /\ Parts'
    <2> DEFINE Moves ==
          \E l : /\ Belongs(l) /\ pc' = [pc EXCEPT ![p] = l]
                 /\ l \in BlockPC \ {"scan"} => held'[p] \in Blocks
    <2>1. UNCHANGED <<part, table, crowd, role>> /\ \A q \in Procs \ {p} : held'[q] = held[q]
      BY <1>2 DEF Step, Ask, ScanItem, ScanTable, Take, Use, MarkItem, MarkData, MarkFree,
                  Enter, AddSearch, AddSet, IsProExist, CreateTable, WriteProShmid, Count,
                  Register, Leave, TypeOK
    <2>2. (pc' = pc /\ held' = held) \/ Moves =>
             /\ pc' \in [Procs -> Labels]
             /\ \A q \in Procs : pc'[q] \in BlockPC \ {"scan"} => held'[q] \in Blocks
             /\ Parts'
      <3>1. CASE pc' = pc /\ held' = held
        BY <2>1, <3>1 DEF TypeOK, Parts
      <3>2. CASE Moves
        BY <2>1, <3>2, PcMoves
      <3> QED
        BY <3>1, <3>2
    <2> USE DEF Goto
    <2>3. CASE Ask(p)
      <3>1. Belongs("scan")
        BY <2>3, WhereItIs DEF Ask, Belongs, Labels, BlockPC, SettingPC
      <3>2. Moves
        BY <2>3, <3>1 DEF Ask, TypeOK, BlockPC
      <3>3. at' \in [Procs -> Nat]
        BY <2>3 DEF Ask, TypeOK
      <3> QED
        BY <2>3, <2>1, <2>2, <3>2, <3>3 DEF Ask, TypeOK
    <2>4. CASE ScanItem(p)
      <3>1. Belongs("idle") /\ Belongs("take")
        BY <2>4, WhereItIs DEF ScanItem, Belongs, Labels, BlockPC, SettingPC
      <3>2. (pc' = pc /\ held' = held) \/ Moves
        BY <2>4, <3>1 DEF ScanItem, TypeOK, BlockPC
      <3>3. at' \in [Procs -> Nat] /\ held' \in [Procs -> Blocks \cup {NULL}]
        <4>1. CASE at[p] \notin Blocks
          BY <2>4, <4>1 DEF ScanItem, TypeOK
        <4>2. CASE at[p] \in Blocks /\ Fits(p, at[p])
          BY <2>4, <4>2 DEF ScanItem, TypeOK
        <4>3. CASE at[p] \in Blocks /\ ~Fits(p, at[p])
          BY <2>4, <4>3 DEF ScanItem, TypeOK
        <4> QED
          BY <4>1, <4>2, <4>3
      <3> QED
        BY <2>4, <2>1, <2>2, <3>2, <3>3 DEF ScanItem, TypeOK
    <2>5. CASE ScanTable(p)
      <3>1. Belongs("idle") /\ Belongs("take")
        BY <2>5, WhereItIs DEF ScanTable, Belongs, Labels, BlockPC, SettingPC
      <3>2. (pc' = pc /\ held' = held) \/ Moves
        BY <2>5, <3>1 DEF ScanTable, TypeOK, BlockPC
      <3>3. held' \in [Procs -> Blocks \cup {NULL}]
        BY <2>5 DEF ScanTable, TypeOK
      <3> QED
        BY <2>5, <2>1, <2>2, <3>2, <3>3 DEF ScanTable, TypeOK
    <2>6. CASE Take(p)
      <3>1. Belongs("use")
        BY <2>6, WhereItIs DEF Take, Belongs, Labels, BlockPC, SettingPC
      <3>2. Moves
        BY <2>6, <3>1 DEF Take, TypeOK, BlockPC
      <3>3. mem' \in [Blocks -> [free : BOOLEAN, ready : BOOLEAN]]
        BY <2>6 DEF Take, TypeOK
      <3> QED
        BY <2>6, <2>1, <2>2, <3>2, <3>3 DEF Take, TypeOK
    <2>7. CASE Use(p)
      <3>1. Belongs("mark")
        BY <2>7, WhereItIs DEF Use, Belongs, Labels, BlockPC, SettingPC
      <3>2. Moves
        BY <2>7, <3>1 DEF Use, TypeOK, BlockPC
      <3>3. packets' \in 0..MaxPackets /\ data' \in [Blocks -> Nat]
        BY <2>7, SizesAssumption DEF Use, TypeOK
      <3>4. read' \in [1..MaxPackets -> Nat]
        BY <2>7 DEF Use, TypeOK
      <3> QED
        BY <2>7, <2>1, <2>2, <3>2, <3>3, <3>4 DEF Use, TypeOK
    <2>8. CASE MarkItem(p)
      <3>1. Belongs("idle")
        BY <2>8, WhereItIs DEF MarkItem, Belongs, Labels, BlockPC, SettingPC
      <3>2. Moves
        <4>1. pc' = [pc EXCEPT ![p] = "idle"] /\ "idle" \notin BlockPC
          BY <2>8 DEF MarkItem, BlockPC
        <4> QED
          BY <3>1, <4>1
      <3>3. mem' \in [Blocks -> [free : BOOLEAN, ready : BOOLEAN]] /\ held' \in [Procs -> Blocks \cup {NULL}]
        BY <2>8 DEF MarkItem, TypeOK
      <3> QED
        BY <2>8, <2>1, <2>2, <3>2, <3>3 DEF MarkItem, TypeOK
    <2>9. CASE MarkData(p)
      <3>1. Belongs("free")
        BY <2>9, WhereItIs DEF MarkData, Belongs, Labels, BlockPC, SettingPC
      <3>2. Moves
        BY <2>9, <3>1 DEF MarkData, TypeOK, BlockPC
      <3>3. mem' \in [Blocks -> [free : BOOLEAN, ready : BOOLEAN]]
        <4>1. PICK r \in BOOLEAN : mem' = [mem EXCEPT ![held[p]].ready = r]
          BY <2>9 DEF MarkData
        <4> QED
          BY <4>1 DEF TypeOK
      <3> QED
        BY <2>9, <2>1, <2>2, <3>2, <3>3 DEF MarkData, TypeOK
    <2>10. CASE MarkFree(p)
      <3>1. Belongs("idle")
        BY <2>10, WhereItIs DEF MarkFree, Belongs, Labels, BlockPC, SettingPC
      <3>2. Moves
        <4>1. pc' = [pc EXCEPT ![p] = "idle"] /\ "idle" \notin BlockPC
          BY <2>10 DEF MarkFree, BlockPC
        <4> QED
          BY <3>1, <4>1
      <3>3. mem' \in [Blocks -> [free : BOOLEAN, ready : BOOLEAN]] /\ held' \in [Procs -> Blocks \cup {NULL}]
        BY <2>10 DEF MarkFree, TypeOK
      <3> QED
        BY <2>10, <2>1, <2>2, <3>2, <3>3 DEF MarkFree, TypeOK
    <2>11. CASE Enter(p)
      <3>1. Belongs(IF table = "route" THEN "search" ELSE "look")
        BY <2>11 DEF Enter, Belongs, Labels, BlockPC, SettingPC, TypeOK
      <3>2. Moves
        <4>1. /\ pc' = [pc EXCEPT ![p] = IF table = "route" THEN "search" ELSE "look"]
              /\ (IF table = "route" THEN "search" ELSE "look") \notin BlockPC
          BY <2>11 DEF Enter, BlockPC
        <4> QED
          BY <3>1, <4>1
      <3> QED
        BY <2>11, <2>1, <2>2, <3>2 DEF Enter, TypeOK
    <2>12. CASE AddSearch(p)
      <3>1. Belongs("refused") /\ Belongs("set")
        BY <2>12, WhereItIs DEF AddSearch, Belongs, Labels, BlockPC, SettingPC
      <3>2. (pc' = pc /\ held' = held) \/ Moves
        BY <2>12, <3>1 DEF AddSearch, TypeOK, BlockPC
      <3>3. at' \in [Procs -> Nat]
        <4>1. UNCHANGED at \/ at' = [at EXCEPT ![p] = @ + 1]
          BY <2>12 DEF AddSearch
        <4> QED
          BY <4>1 DEF TypeOK
      <3> QED
        BY <2>12, <2>1, <2>2, <3>2, <3>3 DEF AddSearch, TypeOK
    <2>13. CASE AddSet(p)
      <3>1. Belongs("registered")
        BY <2>13, WhereItIs DEF AddSet, Belongs, Labels, BlockPC, SettingPC
      <3>2. Moves
        <4>1. pc' = [pc EXCEPT ![p] = "registered"] /\ "registered" \notin BlockPC
          BY <2>13 DEF AddSet, BlockPC
        <4> QED
          BY <3>1, <4>1
      <3>3. item' \in [Procs \cup {NULL} -> [Slots -> Procs \cup {NULL}]]
        BY <2>13 DEF AddSet, TypeOK
      <3> QED
        BY <2>13, <2>1, <2>2, <3>2, <3>3 DEF AddSet, TypeOK
    <2>14. CASE IsProExist(p)
      <3>1. Belongs("create") /\ Belongs("count")
        BY <2>14, WhereItIs DEF IsProExist, Belongs, Labels, BlockPC, SettingPC
      <3>2. (pc' = pc /\ held' = held) \/ Moves
        BY <2>14, <3>1 DEF IsProExist, TypeOK, BlockPC
      <3>3. seg' \in [Procs -> Procs \cup {NULL}]
        BY <2>14 DEF IsProExist, TypeOK
      <3> QED
        BY <2>14, <2>1, <2>2, <3>2, <3>3 DEF IsProExist, TypeOK
    <2>15. CASE CreateTable(p)
      <3>1. Belongs("name")
        BY <2>15, WhereItIs DEF CreateTable, Belongs, Labels, BlockPC, SettingPC
      <3>2. Moves
        <4>1. pc' = [pc EXCEPT ![p] = "name"] /\ "name" \notin BlockPC
          BY <2>15 DEF CreateTable, BlockPC
        <4> QED
          BY <3>1, <4>1
      <3>3. seg' \in [Procs -> Procs \cup {NULL}]
        BY <2>15 DEF CreateTable, TypeOK
      <3> QED
        BY <2>15, <2>1, <2>2, <3>2, <3>3 DEF CreateTable, TypeOK
    <2>16. CASE WriteProShmid(p)
      <3>1. Belongs("count")
        BY <2>16, WhereItIs DEF WriteProShmid, Belongs, Labels, BlockPC, SettingPC
      <3>2. Moves
        <4>1. pc' = [pc EXCEPT ![p] = "count"] /\ "count" \notin BlockPC
          BY <2>16 DEF WriteProShmid, BlockPC
        <4> QED
          BY <3>1, <4>1
      <3>3. conf' \in Procs \cup {NULL}
        BY <2>16 DEF WriteProShmid, TypeOK
      <3> QED
        BY <2>16, <2>1, <2>2, <3>2, <3>3 DEF WriteProShmid, TypeOK
    <2>17. CASE Count(p)
      <3>1. Belongs("crashed") /\ Belongs("refused") /\ Belongs("register")
        BY <2>17, WhereItIs DEF Count, Belongs, Labels, BlockPC, SettingPC
      <3>2. Moves
        BY <2>17, <3>1 DEF Count, BlockPC
      <3>3. Attached(seg[p]) \in Nat
        BY AttachedCount
      <3>4. real' \in [Procs -> Int]
        BY <2>17, <3>3 DEF Count, TypeOK
      <3> QED
        BY <2>17, <2>1, <2>2, <3>2, <3>4 DEF Count, TypeOK
    <2>18. CASE Register(p)
      <3>1. Belongs("registered")
        BY <2>18, WhereItIs DEF Register, Belongs, Labels, BlockPC, SettingPC
      <3>2. Moves
        <4>1. pc' = [pc EXCEPT ![p] = "registered"] /\ "registered" \notin BlockPC
          BY <2>18 DEF Register, BlockPC
        <4> QED
          BY <3>1, <4>1
      <3>3. item' \in [Procs \cup {NULL} -> [Slots -> Procs \cup {NULL}]]
        BY <2>18 DEF Register, TypeOK
      <3> QED
        BY <2>18, <2>1, <2>2, <3>2, <3>3 DEF Register, TypeOK
    <2>19. CASE Leave(p)
      <3>1. Belongs("left")
        BY <2>19, WhereItIs DEF Leave, Belongs, Labels, BlockPC, SettingPC
      <3>2. Moves
        <4>1. pc' = [pc EXCEPT ![p] = "left"] /\ "left" \notin BlockPC
          BY <2>19 DEF Leave, BlockPC
        <4> QED
          BY <3>1, <4>1
      <3>3. seg' \in [Procs -> Procs \cup {NULL}]
        BY <2>19 DEF Leave, TypeOK
      <3> QED
        BY <2>19, <2>1, <2>2, <3>2, <3>3 DEF Leave, TypeOK
    <2> QED
      BY <1>2, <2>3, <2>4, <2>5, <2>6, <2>7, <2>8, <2>9, <2>10, <2>11, <2>12, <2>13, <2>14, <2>15, <2>16, <2>17, <2>18, <2>19 DEF Step
  <1> QED
    BY <1>1, <1>2 DEF Next

-----------------------------------------------------------------------------
(* Blocks                                                                  *)

\* A step that leaves what is written and read, and the blocks that are fresh,
\* leaves Contents.
LEMMA SameContents ==
  ASSUME Contents, UNCHANGED <<data, packets, read>>,
         \A b \in Blocks : Fresh(b)' <=> Fresh(b)
  PROVE  Contents'
  BY DEF Contents

\* A step of p is one of the block's.
LEMMA BlockSteps ==
  ASSUME TypeOK, Parts, part = "mem", NEW p \in Procs, Step(p)
  PROVE  \/ Ask(p) \/ ScanItem(p) \/ ScanTable(p) \/ Take(p) \/ Use(p)
         \/ MarkItem(p) \/ MarkData(p) \/ MarkFree(p)
  <1>1. pc[p] \in {"idle"} \cup BlockPC
    BY DEF Parts
  <1> QED
    BY <1>1 DEF Step, Enter, AddSearch, AddSet, IsProExist, CreateTable, WriteProShmid,
                Count, Register, Leave, BlockPC

\* Where p goes from label to label, the others stay.
LEMMA OneOfAKindStays ==
  ASSUME TypeOK, OneOfAKind, NEW p \in Procs, NEW l,
         pc' = [pc EXCEPT ![p] = l], role' = role,
         pc[p] # "idle" \/ \A q \in Others(p) : role[q] = role[p] => pc[q] = "idle"
  PROVE  OneOfAKind'
  BY DEF OneOfAKind, Others, TypeOK

\* A block that fits is held by nobody, and what its flags are.
LEMMA FitsIsFree ==
  ASSUME TypeOK, Parts, OneOfAKind, Flags, NEW p \in Procs, pc[p] = "scan",
         NEW b \in Blocks, Fits(p, b)
  PROVE  /\ \A q \in Procs : ~Holds(q, b)
         /\ mem[b].ready = (role[p] = "reader")
         /\ mem[b].free = (role[p] = "writer" \/ table = "schedule")
  <1>1. role[p] \in {"writer", "reader"} /\ table \in {"route", "schedule"}
    BY DEF TypeOK
  <1>2. mem[b].free \in BOOLEAN /\ mem[b].ready \in BOOLEAN
    BY DEF TypeOK
  <1>3. ASSUME NEW q \in Procs, Holds(q, b) PROVE FALSE
    <2>1. q # p /\ pc[q] # "idle"
      BY <1>3 DEF Holds, BlockPC
    <2>2. role[q] # role[p] /\ role[q] \in {"writer", "reader"}
      BY <2>1 DEF OneOfAKind, TypeOK
    <2>3. pc[q] \in {"take", "use", "mark", "free"}
      BY <1>3 DEF Holds, BlockPC
    <2>4. /\ pc[q] = "take" =>
               /\ mem[b].ready = (role[q] = "reader")
               /\ mem[b].free = (role[q] = "writer" \/ table = "schedule")
          /\ pc[q] \in {"use", "mark"} =>
               /\ ~mem[b].free
               /\ mem[b].ready = (role[q] = "reader" /\ table = "schedule")
          /\ pc[q] = "free" => ~mem[b].free /\ mem[b].ready = (role[q] = "writer")
      BY <1>3 DEF Flags
    <2>5. pc[q] = "free" => table = "schedule"
      BY WhereItIs
    <2>6. CASE role[p] = "writer"
      <3>1. mem[b].free /\ (table = "schedule" => ~mem[b].ready)
        BY <2>6 DEF Fits
      <3> QED
        BY <1>1, <2>2, <2>3, <2>4, <2>6, <3>1
    <2>7. CASE role[p] = "reader"
      <3>1. mem[b].ready /\ (table = "schedule" => mem[b].free)
        BY <2>7 DEF Fits
      <3>2. role[q] = "writer"
        BY <1>1, <2>2, <2>7
      <3> QED
        BY <1>1, <2>3, <2>4, <2>5, <3>1, <3>2
    <2> QED
      BY <1>1, <2>6, <2>7
  <1>4. \A q \in Procs : ~Holds(q, b)
    BY <1>3
  <1>5. IF table = "route" THEN mem[b].free = ~mem[b].ready ELSE mem[b].free
    BY <1>4 DEF Flags
  <1>6. CASE role[p] = "writer"
    BY <1>1, <1>2, <1>4, <1>5, <1>6 DEF Fits
  <1>7. CASE role[p] = "reader"
    BY <1>1, <1>2, <1>4, <1>5, <1>7 DEF Fits
  <1> QED
    BY <1>1, <1>6, <1>7

\* A step that leaves who holds which block, at which label, and the flags.
LEMMA QuietStep ==
  ASSUME Flags, OneHolder, Contents,
         UNCHANGED <<table, role, mem, data, packets, read>>,
         \A q \in Procs, b \in Blocks : Holds(q, b)' <=> Holds(q, b),
         \A q \in Procs, b \in Blocks : Holds(q, b) => pc'[q] = pc[q]
  PROVE  Flags' /\ OneHolder' /\ Contents'
  <1>1. Flags'
    BY DEF Flags
  <1>2. OneHolder'
    BY DEF OneHolder
  <1>3. \A b \in Blocks : Fresh(b)' <=> Fresh(b)
    BY DEF Fresh
  <1> QED
    BY <1>1, <1>2, <1>3, SameContents

\* A step of the one who holds b, to a label l with x for the item of b.
LEMMA HolderSteps ==
  ASSUME TypeOK, OneOfAKind, Flags, OneHolder,
         NEW p \in Procs, NEW b \in Blocks, Holds(p, b),
         NEW l \in {"use", "mark", "free", "idle"}, NEW x \in [free : BOOLEAN, ready : BOOLEAN],
         pc' = [pc EXCEPT ![p] = l], mem' = [mem EXCEPT ![b] = x],
         \A q \in Procs \ {p} : held'[q] = held[q],
         l # "idle" => held'[p] = b,
         UNCHANGED <<table, role>>,
         l \in {"use", "mark"} => ~x.free /\ x.ready = (role[p] = "reader" /\ table = "schedule"),
         l = "free" => ~x.free /\ x.ready = (role[p] = "writer"),
         l = "idle" => IF table = "route" THEN x.free = ~x.ready ELSE x.free
  PROVE  /\ OneOfAKind' /\ Flags' /\ OneHolder'
         /\ \A c \in Blocks \ {b} : Fresh(c)' <=> Fresh(c)
         /\ \A q \in Procs \ {p} : ~Holds(q, b) /\ ~Holds(q, b)'
         /\ (Holds(p, b)' <=> l # "idle")
         /\ pc'[p] = l /\ mem'[b] = x
  <1>1. /\ pc \in [Procs -> Labels]
        /\ mem \in [Blocks -> [free : BOOLEAN, ready : BOOLEAN]]
    BY DEF TypeOK
  <1>2. /\ pc'[p] = l /\ \A q \in Procs \ {p} : pc'[q] = pc[q]
        /\ mem'[b] = x /\ \A c \in Blocks \ {b} : mem'[c] = mem[c]
    BY <1>1
  <1>3. \A q \in Procs \ {p}, c \in Blocks : Holds(q, c)' <=> Holds(q, c)
    BY <1>2 DEF Holds
  <1>4. \A c \in Blocks \ {b} : ~Holds(p, c) /\ ~Holds(p, c)'
    BY <1>2 DEF Holds, BlockPC
  <1>5. (Holds(p, b)' <=> l # "idle")
    BY <1>2 DEF Holds, BlockPC
  <1>6. \A q \in Procs \ {p} : ~Holds(q, b) /\ ~Holds(q, b)'
    BY <1>3 DEF OneHolder
  <1>7. OneOfAKind'
    BY OneOfAKindStays DEF Holds, BlockPC
  <1>8. OneHolder'
    BY <1>3, <1>4, <1>6 DEF OneHolder
  <1>9. Flags'
    <2>1. ASSUME NEW q \in Procs, NEW c \in Blocks, Holds(q, c)'
          PROVE  /\ pc'[q] = "take" =>
                      /\ mem'[c].ready = (role[q] = "reader")
                      /\ mem'[c].free = (role[q] = "writer" \/ table = "schedule")
                 /\ pc'[q] \in {"use", "mark"} =>
                      /\ ~mem'[c].free
                      /\ mem'[c].ready = (role[q] = "reader" /\ table = "schedule")
                 /\ pc'[q] = "free" => ~mem'[c].free /\ mem'[c].ready = (role[q] = "writer")
      <3>1. CASE q = p
        <4>1. c = b
          BY <1>4, <2>1, <3>1
        <4> QED
          BY <1>2, <3>1, <4>1
      <3>2. CASE q # p
        <4>1. Holds(q, c) /\ c # b
          BY <1>3, <1>6, <2>1, <3>2
        <4> QED
          BY <1>2, <3>2, <4>1 DEF Flags
      <3> QED
        BY <3>1, <3>2
    <2>2. ASSUME NEW c \in Blocks, \A q \in Procs : ~Holds(q, c)'
          PROVE  IF table = "route" THEN mem'[c].free = ~mem'[c].ready ELSE mem'[c].free
      <3>1. CASE c = b
        BY <1>2, <1>5, <2>2, <3>1
      <3>2. CASE c # b
        BY <1>2, <1>3, <1>4, <2>2, <3>2 DEF Flags
      <3> QED
        BY <3>1, <3>2
    <2> QED
      BY <2>1, <2>2 DEF Flags
  <1>10. ASSUME NEW c \in Blocks \ {b} PROVE Fresh(c)' <=> Fresh(c)
    BY <1>2, <1>3, <1>4 DEF Fresh
  <1> QED
    BY <1>2, <1>5, <1>6, <1>7, <1>8, <1>9, <1>10

LEMMA NextBlocks ==
  ASSUME TypeOK, Parts, BlocksInv, [Next]_vars
  PROVE  BlocksInv'
  <1> USE DEF given, blocks, procs, Goto
  <1>1. CASE UNCHANGED vars
    <2>1. UNCHANGED <<table, part, crowd, role, mem, data, packets, read, pc, held>>
      BY <1>1 DEF vars
    <2>2. \A q \in Procs, b \in Blocks : Holds(q, b)' <=> Holds(q, b)
      BY <2>1 DEF Holds
    <2>3. OneOfAKind => OneOfAKind'
      BY <2>1 DEF OneOfAKind
    <2> QED
      BY <2>1, <2>2, <2>3, QuietStep DEF BlocksInv
  <1>2. ASSUME NEW p \in Procs, Step(p)
        PROVE  BlocksInv'
    <2>1. UNCHANGED <<table, part, crowd, role>>
      BY <1>2 DEF Step, Ask, ScanItem, ScanTable, Take, Use, MarkItem, MarkData, MarkFree,
                  Enter, AddSearch, AddSet, IsProExist, CreateTable, WriteProShmid, Count,
                  Register, Leave
    <2> SUFFICES ASSUME part = "mem", crowd = "alone"
                 PROVE  OneOfAKind' /\ Flags' /\ OneHolder' /\ Contents'
      BY <2>1 DEF BlocksInv
    <2>2. OneOfAKind /\ Flags /\ OneHolder /\ Contents
      BY DEF BlocksInv
    <2>3. /\ pc \in [Procs -> Labels] /\ role \in [Procs -> {"writer", "reader"}]
          /\ held \in [Procs -> Blocks \cup {NULL}]
          /\ mem \in [Blocks -> [free : BOOLEAN, ready : BOOLEAN]]
          /\ table \in {"route", "schedule"}
          /\ \A q \in Procs : pc[q] \in BlockPC \ {"scan"} => held[q] \in Blocks
      BY DEF TypeOK
    <2>4. ASSUME NEW l \in {"idle", "scan"}, pc' = [pc EXCEPT ![p] = l] \/ pc' = pc,
                 held' = held, mem' = mem, pc[p] \in {"idle", "scan"},
                 UNCHANGED <<data, packets, read>>
          PROVE  Flags' /\ OneHolder' /\ Contents'
      <3>1. \A q \in Procs, b \in Blocks : Holds(q, b)' <=> Holds(q, b)
        BY <2>3, <2>4 DEF Holds, BlockPC
      <3>2. \A q \in Procs, b \in Blocks : Holds(q, b) => pc'[q] = pc[q]
        BY <2>3, <2>4 DEF Holds, BlockPC
      <3> QED
        BY <2>1, <2>2, <2>4, <3>1, <3>2, QuietStep
    <2>5. CASE Ask(p)
      <3>1. /\ pc' = [pc EXCEPT ![p] = "scan"] /\ pc[p] = "idle"
            /\ UNCHANGED <<held, mem, data, packets, read>>
            /\ \A q \in Others(p) : role[q] = role[p] => pc[q] = "idle"
        BY <2>5 DEF Ask
      <3>2. OneOfAKind'
        BY <2>1, <2>2, <3>1, OneOfAKindStays
      <3> QED
        BY <2>4, <3>1, <3>2
    <2>6. ASSUME NEW b \in Blocks, Fits(p, b), pc[p] = "scan", pc' = [pc EXCEPT ![p] = "take"],
                 held' = [held EXCEPT ![p] = b], UNCHANGED <<mem, data, packets, read>>
          PROVE  OneOfAKind' /\ Flags' /\ OneHolder' /\ Contents'
      <3>1. /\ \A q \in Procs : ~Holds(q, b)
            /\ mem[b].ready = (role[p] = "reader")
            /\ mem[b].free = (role[p] = "writer" \/ table = "schedule")
        BY <2>2, <2>6, FitsIsFree
      <3>2. OneOfAKind'
        BY <2>1, <2>2, <2>6, OneOfAKindStays
      <3>3. /\ pc'[p] = "take" /\ \A q \in Procs \ {p} : pc'[q] = pc[q]
            /\ held'[p] = b /\ \A q \in Procs \ {p} : held'[q] = held[q]
        BY <2>3, <2>6
      <3>4. \A c \in Blocks : ~Holds(p, c) /\ (Holds(p, c)' <=> c = b)
        BY <2>6, <3>3 DEF Holds, BlockPC
      <3>5. \A q \in Procs \ {p}, c \in Blocks : Holds(q, c)' <=> Holds(q, c)
        BY <3>3 DEF Holds
      <3>6. Flags'
        <4>1. ASSUME NEW q \in Procs, NEW c \in Blocks, Holds(q, c)'
              PROVE  /\ pc'[q] = "take" =>
                          /\ mem[c].ready = (role[q] = "reader")
                          /\ mem[c].free = (role[q] = "writer" \/ table = "schedule")
                     /\ pc'[q] \in {"use", "mark"} =>
                          /\ ~mem[c].free
                          /\ mem[c].ready = (role[q] = "reader" /\ table = "schedule")
                     /\ pc'[q] = "free" => ~mem[c].free /\ mem[c].ready = (role[q] = "writer")
          <5>1. CASE q = p
            BY <3>1, <3>3, <3>4, <4>1, <5>1
          <5>2. CASE q # p
            BY <2>2, <3>3, <3>5, <4>1, <5>2 DEF Flags
          <5> QED
            BY <5>1, <5>2
        <4>2. ASSUME NEW c \in Blocks, \A q \in Procs : ~Holds(q, c)'
              PROVE  IF table = "route" THEN mem[c].free = ~mem[c].ready ELSE mem[c].free
          BY <2>2, <3>4, <3>5, <4>2 DEF Flags
        <4> QED
          BY <2>1, <2>6, <4>1, <4>2 DEF Flags
      <3>7. OneHolder'
        BY <2>2, <3>1, <3>4, <3>5 DEF OneHolder
      <3>8. \A c \in Blocks : Fresh(c)' <=> Fresh(c)
        <4>1. CASE role[p] = "writer"
          <5>1. ASSUME NEW c \in Blocks PROVE Fresh(c)' <=> Fresh(c)
            BY <2>1, <2>6, <3>3, <3>4, <3>5, <4>1 DEF Fresh
          <5> QED
            BY <5>1
        <4>2. CASE role[p] = "reader"
          <5>1. Fresh(b) /\ Fresh(b)'
            BY <2>1, <2>6, <3>1, <3>3, <3>4, <4>2 DEF Fresh
          <5>2. ASSUME NEW c \in Blocks \ {b} PROVE Fresh(c)' <=> Fresh(c)
            BY <2>1, <2>6, <3>3, <3>4, <3>5, <5>2 DEF Fresh
          <5> QED
            BY <5>1, <5>2
        <4> QED
          BY <2>3, <4>1, <4>2
      <3> QED
        BY <2>2, <2>6, <3>2, <3>6, <3>7, <3>8, SameContents
    <2>7. CASE ScanItem(p)
      <3>1. pc[p] = "scan" /\ UNCHANGED <<mem, data, packets, read>>
        BY <2>7 DEF ScanItem
      <3>2. CASE at[p] \in Blocks /\ Fits(p, at[p])
        BY <2>6, <2>7, <3>1, <3>2 DEF ScanItem
      <3>3. CASE ~(at[p] \in Blocks /\ Fits(p, at[p]))
        <4>1. held' = held /\ (pc' = [pc EXCEPT ![p] = "idle"] \/ pc' = pc)
          BY <2>7, <3>3 DEF ScanItem
        <4>2. OneOfAKind'
          <5>1. CASE pc' = pc
            BY <2>1, <2>2, <5>1 DEF OneOfAKind
          <5>2. CASE pc' = [pc EXCEPT ![p] = "idle"]
            BY <2>1, <2>2, <3>1, <5>2, OneOfAKindStays
          <5> QED
            BY <4>1, <5>1, <5>2
        <4> QED
          BY <2>4, <3>1, <4>1, <4>2
      <3> QED
        BY <3>2, <3>3
    <2>8. CASE ScanTable(p)
      <3>1. pc[p] = "scan" /\ UNCHANGED <<mem, data, packets, read>>
        BY <2>8 DEF ScanTable
      <3>2. \/ pc' = [pc EXCEPT ![p] = "idle"] /\ held' = held
            \/ \E b \in Blocks : /\ Fits(p, b) /\ pc' = [pc EXCEPT ![p] = "take"]
                                 /\ held' = [held EXCEPT ![p] = b]
        BY <2>8 DEF ScanTable
      <3>3. CASE pc' = [pc EXCEPT ![p] = "idle"] /\ held' = held
        <4>1. OneOfAKind'
          BY <2>1, <2>2, <3>1, <3>3, OneOfAKindStays
        <4> QED
          BY <2>4, <3>1, <3>3, <4>1
      <3>4. CASE \E b \in Blocks : /\ Fits(p, b) /\ pc' = [pc EXCEPT ![p] = "take"]
                                   /\ held' = [held EXCEPT ![p] = b]
        BY <2>6, <3>1, <3>4
      <3> QED
        BY <3>2, <3>3, <3>4
    <2>9. pc[p] \in BlockPC \ {"scan"} => held[p] \in Blocks /\ Holds(p, held[p])
      BY <2>3 DEF Holds
    <2>10. CASE Take(p)
      <3>b. PICK b \in Blocks : b = held[p]
        BY <2>9, <2>10 DEF Take, BlockPC
      <3>x. PICK x : x = [free |-> FALSE, ready |-> IF table = "route" THEN FALSE ELSE mem[b].ready]
        OBVIOUS
      <3>1. pc[p] = "take" /\ b = held[p] /\ Holds(p, b)
        BY <3>b, <2>9, <2>10 DEF Take, BlockPC
      <3>2. /\ pc' = [pc EXCEPT ![p] = "use"] /\ mem' = [mem EXCEPT ![b] = x]
            /\ UNCHANGED <<held, data, packets, read>>
        BY <3>b, <3>x, <2>10 DEF Take
      <3>3. mem[b].ready = (role[p] = "reader")
        BY <3>b, <3>x, <2>2, <3>1 DEF Flags
      <3>4. x \in [free : BOOLEAN, ready : BOOLEAN]
        BY <3>b, <3>x, <2>3, <3>1
      <3>5. ~x.free /\ x.ready = (role[p] = "reader" /\ table = "schedule")
        BY <3>b, <3>x, <2>3, <3>3
      <3>6. \A q \in Procs \ {p} : held'[q] = held[q]
        BY <3>2
      <3>7. /\ OneOfAKind' /\ Flags' /\ OneHolder'
            /\ \A c \in Blocks \ {b} : Fresh(c)' <=> Fresh(c)
            /\ \A q \in Procs \ {p} : ~Holds(q, b) /\ ~Holds(q, b)'
            /\ Holds(p, b)' /\ pc'[p] = "use" /\ mem'[b] = x
        BY <3>b, <2>1, <2>2, <3>1, <3>2, <3>4, <3>5, <3>6, HolderSteps
      <3>8. Fresh(b)' <=> Fresh(b)
        <4>1. CASE role[p] = "reader"
          <5>1. Fresh(b) /\ Fresh(b)'
            BY <2>1, <3>1, <3>7, <4>1 DEF Fresh
          <5> QED
            BY <5>1
        <4>2. CASE role[p] = "writer"
          <5>1. ~Fresh(b) /\ ~Fresh(b)'
            BY <3>b, <3>x, <2>1, <3>1, <3>3, <3>5, <3>7, <4>2 DEF Fresh
          <5> QED
            BY <5>1
        <4> QED
          BY <2>3, <4>1, <4>2
      <3> QED
        BY <2>2, <3>2, <3>7, <3>8, SameContents
    <2>11. CASE Use(p)
      <3>b. PICK b \in Blocks : b = held[p]
        BY <2>9, <2>11 DEF Use, BlockPC
      <3>x. PICK x : x = mem[b]
        OBVIOUS
      <3>1. pc[p] = "use" /\ b = held[p] /\ Holds(p, b)
        BY <3>b, <2>9, <2>11 DEF Use, BlockPC
      <3>2. pc' = [pc EXCEPT ![p] = "mark"] /\ mem' = [mem EXCEPT ![b] = x] /\ UNCHANGED held
        BY <3>b, <3>x, <2>3, <2>11, <3>1 DEF Use
      <3>3. ~x.free /\ x.ready = (role[p] = "reader" /\ table = "schedule")
        BY <3>b, <3>x, <2>2, <3>1 DEF Flags
      <3>4. x \in [free : BOOLEAN, ready : BOOLEAN]
        BY <3>b, <3>x, <2>3, <3>1
      <3>5. CASE role[p] = "writer"
        <4>1. packets' = packets + 1 /\ data' = [data EXCEPT ![b] = packets + 1] /\ read' = read
              /\ packets < MaxPackets
          BY <3>b, <2>11, <3>5 DEF Use
        <4>2. packets \in Nat /\ MaxPackets \in Nat /\ data \in [Blocks -> Nat]
          BY SizesAssumption DEF TypeOK
        <4>3. \A q \in Procs \ {p} : held'[q] = held[q]
          BY <3>2
        <4>4. /\ OneOfAKind' /\ Flags' /\ OneHolder'
              /\ \A c \in Blocks \ {b} : Fresh(c)' <=> Fresh(c)
              /\ \A q \in Procs \ {p} : ~Holds(q, b) /\ ~Holds(q, b)'
              /\ Holds(p, b)' /\ pc'[p] = "mark" /\ mem'[b] = x
          BY <3>b, <2>1, <2>2, <3>1, <3>2, <3>3, <3>4, <4>3, HolderSteps
        <4>5. ~Fresh(b)
          BY <3>x, <3>1, <3>3, <3>5, <4>4 DEF Fresh
        <4>6. Fresh(b)'
          BY <2>1, <3>5, <4>4 DEF Fresh
        <4>7. data'[b] = packets + 1 /\ \A c \in Blocks \ {b} : data'[c] = data[c]
          BY <3>1, <4>1, <4>2
        <4>8. read[packets + 1] = 0
          BY <2>2, <4>1, <4>2 DEF Contents
        <4>9. Contents'
          <5>1. \A c \in Blocks : Fresh(c)' => data'[c] \in 1..packets' /\ read'[data'[c]] = 0
            BY <2>2, <4>1, <4>2, <4>4, <4>7, <4>8 DEF Contents
          <5>2. \A c, d \in Blocks : Fresh(c)' /\ Fresh(d)' /\ data'[c] = data'[d] => c = d
            BY <2>2, <4>2, <4>4, <4>7 DEF Contents
          <5>3. ASSUME NEW k \in 1..packets', read'[k] = 0
                PROVE  \E c \in Blocks : Fresh(c)' /\ data'[c] = k
            <6>1. CASE k = packets + 1
              BY <3>1, <4>6, <4>7, <6>1
            <6>2. CASE k # packets + 1
              <7>1. k \in 1..packets
                BY <4>1, <4>2, <6>2
              <7>2. PICK c \in Blocks : Fresh(c) /\ data[c] = k
                BY <2>2, <4>1, <5>3, <7>1 DEF Contents
              <7> QED
                BY <4>4, <4>5, <4>7, <7>2
            <6> QED
              BY <6>1, <6>2
          <5>4. \A k \in 1..MaxPackets : read'[k] <= 1 /\ (k > packets' => read'[k] = 0)
            BY <2>2, <4>1, <4>2 DEF Contents
          <5> QED
            BY <5>1, <5>2, <5>3, <5>4 DEF Contents
        <4> QED
          BY <4>4, <4>9
      <3>6. CASE role[p] = "reader"
        <4>1. /\ packets' = packets /\ data' = data
              /\ read' = [k \in DOMAIN read |-> IF k = data[b] THEN read[k] + 1 ELSE read[k]]
          BY <3>b, <2>11, <3>6 DEF Use
        <4>2. read \in [1..MaxPackets -> Nat] /\ packets \in 0..MaxPackets /\ MaxPackets \in Nat
          BY SizesAssumption DEF TypeOK
        <4>3. \A q \in Procs \ {p} : held'[q] = held[q]
          BY <3>2
        <4>4. /\ OneOfAKind' /\ Flags' /\ OneHolder'
              /\ \A c \in Blocks \ {b} : Fresh(c)' <=> Fresh(c)
              /\ \A q \in Procs \ {p} : ~Holds(q, b) /\ ~Holds(q, b)'
              /\ Holds(p, b)' /\ pc'[p] = "mark" /\ mem'[b] = x
          BY <3>b, <2>1, <2>2, <3>1, <3>2, <3>3, <3>4, <4>3, HolderSteps
        <4>5. Fresh(b)
          BY <3>1, <3>6 DEF Fresh
        <4>6. ~Fresh(b)'
          BY <2>1, <3>6, <4>4 DEF Fresh
        <4>7. data[b] \in 1..packets /\ read[data[b]] = 0
          BY <2>2, <3>1, <4>5 DEF Contents
        <4>8. \A k \in 1..MaxPackets : read'[k] = IF k = data[b] THEN read[k] + 1 ELSE read[k]
          BY <4>1, <4>2
        <4>9. Contents'
          <5>1. ASSUME NEW c \in Blocks, Fresh(c)'
                PROVE  data[c] \in 1..packets /\ read'[data[c]] = 0
            <6>1. c # b /\ Fresh(c)
              BY <4>4, <4>6, <5>1
            <6>2. data[c] \in 1..packets /\ read[data[c]] = 0 /\ data[c] # data[b]
              BY <2>2, <3>1, <4>5, <6>1 DEF Contents
            <6>3. data[c] \in 1..MaxPackets
              BY <4>2, <6>2
            <6> QED
              BY <4>8, <6>2, <6>3
          <5>2. \A c, d \in Blocks : Fresh(c)' /\ Fresh(d)' /\ data[c] = data[d] => c = d
            BY <2>2, <4>4, <4>6 DEF Contents
          <5>3. ASSUME NEW k \in 1..packets, read'[k] = 0
                PROVE  \E c \in Blocks : Fresh(c)' /\ data[c] = k
            <6>1. k \in 1..MaxPackets /\ read[k] \in Nat
              BY <4>2
            <6>2. k # data[b] /\ read[k] = 0
              BY <4>8, <5>3, <6>1
            <6>3. PICK c \in Blocks : Fresh(c) /\ data[c] = k
              BY <2>2, <6>2 DEF Contents
            <6> QED
              BY <4>4, <6>2, <6>3
          <5>4. \A k \in 1..MaxPackets : read'[k] <= 1 /\ (k > packets => read'[k] = 0)
            BY <2>2, <4>2, <4>7, <4>8 DEF Contents
          <5> QED
            BY <4>1, <5>1, <5>2, <5>3, <5>4 DEF Contents
        <4> QED
          BY <4>4, <4>9
      <3> QED
        BY <3>b, <3>x, <2>3, <3>5, <3>6
    <2>12. CASE MarkItem(p)
      <3>b. PICK b \in Blocks : b = held[p]
        BY <2>9, <2>12 DEF MarkItem, BlockPC
      <3>x. PICK x : x = [free |-> role[p] = "reader", ready |-> role[p] = "writer"]
        OBVIOUS
      <3>1. pc[p] = "mark" /\ b = held[p] /\ Holds(p, b)
        BY <3>b, <2>9, <2>12 DEF MarkItem, BlockPC
      <3>2. /\ pc' = [pc EXCEPT ![p] = "idle"] /\ mem' = [mem EXCEPT ![b] = x]
            /\ held' = [held EXCEPT ![p] = NULL]
            /\ UNCHANGED <<data, packets, read>>
        BY <3>b, <3>x, <2>3, <2>12, <3>1 DEF MarkItem
      <3>3. table = "route" /\ ~mem[b].free /\ ~mem[b].ready
        BY <3>b, <3>x, <2>2, <2>3, <2>12, <3>1, WhereItIs DEF Flags, MarkItem
      <3>4. x \in [free : BOOLEAN, ready : BOOLEAN]
        BY <3>b, <3>x, <2>3, <3>1
      <3>5. (IF table = "route" THEN x.free = ~x.ready ELSE x.free) /\ x.ready = (role[p] = "writer")
        BY <3>b, <3>x, <2>3, <3>3
      <3>6. \A q \in Procs \ {p} : held'[q] = held[q]
        BY <2>3, <3>2
      <3>7. /\ OneOfAKind' /\ Flags' /\ OneHolder'
            /\ \A c \in Blocks \ {b} : Fresh(c)' <=> Fresh(c)
            /\ \A q \in Procs \ {p} : ~Holds(q, b) /\ ~Holds(q, b)'
            /\ ~Holds(p, b)' /\ pc'[p] = "idle" /\ mem'[b] = x
        <4>1. /\ "idle" # "idle" => held'[p] = b
              /\ "idle" \in {"use", "mark"} =>
                   ~x.free /\ x.ready = (role[p] = "reader" /\ table = "schedule")
              /\ "idle" = "free" => ~x.free /\ x.ready = (role[p] = "writer")
              /\ "idle" \in {"use", "mark", "free", "idle"}
          OBVIOUS
        <4>2. /\ OneOfAKind' /\ Flags' /\ OneHolder'
              /\ \A c \in Blocks \ {b} : Fresh(c)' <=> Fresh(c)
              /\ \A q \in Procs \ {p} : ~Holds(q, b) /\ ~Holds(q, b)'
              /\ Holds(p, b)' <=> "idle" # "idle"
              /\ pc'[p] = "idle" /\ mem'[b] = x
          BY <3>b, <2>1, <2>2, <3>1, <3>2, <3>4, <3>5, <3>6, <4>1, HolderSteps
        <4> QED
          BY <4>2
      <3>8. Fresh(b)' <=> Fresh(b)
        <4>1. CASE role[p] = "reader"
          <5>1. ~Fresh(b) /\ ~Fresh(b)'
            BY <3>b, <3>x, <2>1, <3>1, <3>3, <3>5, <3>7, <4>1 DEF Fresh
          <5> QED
            BY <5>1
        <4>2. CASE role[p] = "writer"
          <5>1. Fresh(b) /\ Fresh(b)'
            BY <3>b, <3>x, <2>1, <3>1, <3>3, <3>5, <3>7, <4>2 DEF Fresh
          <5> QED
            BY <5>1
        <4> QED
          BY <2>3, <4>1, <4>2
      <3> QED
        BY <2>2, <3>2, <3>7, <3>8, SameContents
    <2>13. CASE MarkData(p)
      <3>b. PICK b \in Blocks : b = held[p]
        BY <2>9, <2>13 DEF MarkData, BlockPC
      <3>x. PICK x : x = [mem[b] EXCEPT !.ready = (role[p] = "writer")]
        OBVIOUS
      <3>1. pc[p] = "mark" /\ b = held[p] /\ Holds(p, b)
        BY <3>b, <2>9, <2>13 DEF MarkData, BlockPC
      <3>2. /\ pc' = [pc EXCEPT ![p] = "free"] /\ mem' = [mem EXCEPT ![b] = x]
            /\ held' = held
            /\ UNCHANGED <<data, packets, read>>
        BY <3>b, <3>x, <2>3, <2>13, <3>1 DEF MarkData
      <3>3. ~mem[b].free
        BY <3>b, <3>x, <2>2, <2>3, <2>13, <3>1, WhereItIs DEF Flags, MarkData
      <3>4. x \in [free : BOOLEAN, ready : BOOLEAN]
        BY <3>b, <3>x, <2>3, <3>1
      <3>5. ~x.free /\ x.ready = (role[p] = "writer")
        BY <3>b, <3>x, <2>3, <3>3
      <3>6. \A q \in Procs \ {p} : held'[q] = held[q]
        BY <2>3, <3>2
      <3>7. /\ OneOfAKind' /\ Flags' /\ OneHolder'
            /\ \A c \in Blocks \ {b} : Fresh(c)' <=> Fresh(c)
            /\ \A q \in Procs \ {p} : ~Holds(q, b) /\ ~Holds(q, b)'
            /\ Holds(p, b)' /\ pc'[p] = "free" /\ mem'[b] = x
        BY <3>b, <2>1, <2>2, <3>1, <3>2, <3>3, <3>4, <3>5, <3>6, HolderSteps
      <3>8. Fresh(b)' <=> Fresh(b)
        <4>1. CASE role[p] = "reader"
          <5>1. ~Fresh(b) /\ ~Fresh(b)'
            BY <3>b, <3>x, <2>1, <3>1, <3>3, <3>5, <3>7, <4>1 DEF Fresh
          <5> QED
            BY <5>1
        <4>2. CASE role[p] = "writer"
          <5>1. Fresh(b) /\ Fresh(b)'
            BY <3>b, <3>x, <2>1, <3>1, <3>3, <3>5, <3>7, <4>2 DEF Fresh
          <5> QED
            BY <5>1
        <4> QED
          BY <2>3, <4>1, <4>2
      <3> QED
        BY <2>2, <3>2, <3>7, <3>8, SameContents
    <2>14. CASE MarkFree(p)
      <3>b. PICK b \in Blocks : b = held[p]
        BY <2>9, <2>14 DEF MarkFree, BlockPC
      <3>x. PICK x : x = [mem[b] EXCEPT !.free = TRUE]
        OBVIOUS
      <3>1. pc[p] = "free" /\ b = held[p] /\ Holds(p, b)
        BY <3>b, <2>9, <2>14 DEF MarkFree, BlockPC
      <3>2. /\ pc' = [pc EXCEPT ![p] = "idle"] /\ mem' = [mem EXCEPT ![b] = x]
            /\ held' = [held EXCEPT ![p] = NULL]
            /\ UNCHANGED <<data, packets, read>>
        BY <3>b, <3>x, <2>3, <2>14, <3>1 DEF MarkFree
      <3>3. table = "schedule" /\ ~mem[b].free /\ mem[b].ready = (role[p] = "writer")
        BY <3>b, <3>x, <2>2, <2>3, <2>14, <3>1, WhereItIs DEF Flags, MarkFree
      <3>4. x \in [free : BOOLEAN, ready : BOOLEAN]
        BY <3>b, <3>x, <2>3, <3>1
      <3>5. (IF table = "route" THEN x.free = ~x.ready ELSE x.free) /\ x.ready = mem[b].ready
        BY <3>b, <3>x, <2>3, <3>3
      <3>6. \A q \in Procs \ {p} : held'[q] = held[q]
        BY <2>3, <3>2
      <3>7. /\ OneOfAKind' /\ Flags' /\ OneHolder'
            /\ \A c \in Blocks \ {b} : Fresh(c)' <=> Fresh(c)
            /\ \A q \in Procs \ {p} : ~Holds(q, b) /\ ~Holds(q, b)'
            /\ ~Holds(p, b)' /\ pc'[p] = "idle" /\ mem'[b] = x
        <4>1. /\ "idle" # "idle" => held'[p] = b
              /\ "idle" \in {"use", "mark"} =>
                   ~x.free /\ x.ready = (role[p] = "reader" /\ table = "schedule")
              /\ "idle" = "free" => ~x.free /\ x.ready = (role[p] = "writer")
              /\ "idle" \in {"use", "mark", "free", "idle"}
          OBVIOUS
        <4>2. /\ OneOfAKind' /\ Flags' /\ OneHolder'
              /\ \A c \in Blocks \ {b} : Fresh(c)' <=> Fresh(c)
              /\ \A q \in Procs \ {p} : ~Holds(q, b) /\ ~Holds(q, b)'
              /\ Holds(p, b)' <=> "idle" # "idle"
              /\ pc'[p] = "idle" /\ mem'[b] = x
          BY <3>b, <2>1, <2>2, <3>1, <3>2, <3>4, <3>5, <3>6, <4>1, HolderSteps
        <4> QED
          BY <4>2
      <3>8. Fresh(b)' <=> Fresh(b)
        <4>1. CASE role[p] = "reader"
          <5>1. ~Fresh(b) /\ ~Fresh(b)'
            BY <3>b, <3>x, <2>1, <3>1, <3>3, <3>5, <3>7, <4>1 DEF Fresh
          <5> QED
            BY <5>1
        <4>2. CASE role[p] = "writer"
          <5>1. Fresh(b) /\ Fresh(b)'
            BY <3>b, <3>x, <2>1, <3>1, <3>3, <3>5, <3>7, <4>2 DEF Fresh
          <5> QED
            BY <5>1
        <4> QED
          BY <2>3, <4>1, <4>2
      <3> QED
        BY <2>2, <3>2, <3>7, <3>8, SameContents
    <2> QED
      BY <1>2, <2>5, <2>7, <2>8, <2>10, <2>11, <2>12, <2>13, <2>14, BlockSteps
  <1> QED
    BY <1>1, <1>2 DEF Next

-----------------------------------------------------------------------------
(* Processes                                                               *)

LEMMA NextWritten ==
  ASSUME TypeOK, Parts, NothingWritten, [Next]_vars
  PROVE  NothingWritten'
  <1> SUFFICES ASSUME part' = "proc" PROVE packets' = 0
    BY DEF NothingWritten
  <1> USE DEF given, blocks, procs
  <1>1. part = "proc"
    BY DEF Next, Step, Ask, ScanItem, ScanTable, Take, Use, MarkItem, MarkData, MarkFree,
           Enter, AddSearch, AddSet, IsProExist, CreateTable, WriteProShmid, Count,
           Register, Leave, vars
  <1>2. packets = 0
    BY <1>1 DEF NothingWritten
  <1>3. \A p \in Procs : pc[p] # "use"
    BY <1>1, WhereItIs DEF BlockPC
  <1> QED
    BY <1>1, <1>2, <1>3
    DEF Next, Step, Ask, ScanItem, ScanTable, Take, Use, MarkItem, MarkData, MarkFree,
        Enter, AddSearch, AddSet, IsProExist, CreateTable, WriteProShmid, Count,
        Register, Leave, vars

\* A step of p is one of those who register.
LEMMA SettingSteps ==
  ASSUME TypeOK, Parts, part = "proc", crowd = "alone", NEW p \in Procs, Step(p)
  PROVE  \/ Enter(p) \/ AddSearch(p) \/ AddSet(p) \/ IsProExist(p) \/ CreateTable(p)
         \/ WriteProShmid(p) \/ Count(p) \/ Register(p)
  <1>1. pc[p] \notin BlockPC
    BY DEF Parts
  <1> QED
    BY <1>1 DEF Step, Ask, ScanItem, ScanTable, Take, Use, MarkItem, MarkData, MarkFree,
                Leave, BlockPC

\* One more process that attaches a segment counts one more.
LEMMA OneMoreAttached ==
  ASSUME NEW p \in Procs, NEW s, seg \in [Procs -> Procs \cup {NULL}], seg[p] # s,
         seg' = [seg EXCEPT ![p] = s]
  PROVE  Attached(s)' = Attached(s) + 1
  <1> DEFINE A == {q \in Procs : seg[q] = s}
  <1>1. IsFiniteSet(A)
    BY AttachedCount
  <1>2. p \notin A
    OBVIOUS
  <1>3. {q \in Procs : seg'[q] = s} = A \cup {p}
    OBVIOUS
  <1>4. Cardinality(A \cup {p}) = Cardinality(A) + 1
    BY <1>1, <1>2, FS_AddElement
  <1> QED
    BY <1>3, <1>4 DEF Attached

\* p goes on, or is done, or begins when nobody else is at it.
LEMMA OneSetsUpStays ==
  ASSUME TypeOK, OneSetsUp, NEW p \in Procs, NEW l, pc' = [pc EXCEPT ![p] = l],
         l \in SettingPC =>
           pc[p] \in SettingPC \/ \A q \in Others(p) : pc[q] \notin SettingPC
  PROVE  OneSetsUp'
  BY DEF OneSetsUp, Others, TypeOK

\* Those who are done stay so, and keep their items in the route table.
LEMMA NextRoute ==
  ASSUME TypeOK, Parts, OneSetsUp, RouteItems, table = "route", part = "proc",
         NEW p \in Procs, Enter(p) \/ AddSearch(p) \/ AddSet(p)
  PROVE  RouteItems'
  <1> USE DEF given, blocks, procs, Goto
  <1>1. /\ pc \in [Procs -> Labels] /\ at \in [Procs -> Nat]
        /\ item \in [Procs \cup {NULL} -> [Slots -> Procs \cup {NULL}]]
        /\ NULL \notin Procs
    BY ProcsAssumption DEF TypeOK
  <1>2. CASE Enter(p)
    <2>1. pc' = [pc EXCEPT ![p] = "search"] /\ UNCHANGED <<at, item>>
      BY <1>2 DEF Enter
    <2> QED
      BY <1>1, <2>1 DEF RouteItems
  <1>3. CASE AddSearch(p)
    <2>1. pc[p] = "search" /\ UNCHANGED item /\ \A q \in Procs \ {p} : at'[q] = at[q]
      BY <1>1, <1>3 DEF AddSearch
    <2>2. \/ pc' = [pc EXCEPT ![p] = "refused"] \/ pc' = pc
          \/ /\ pc' = [pc EXCEPT ![p] = "set"] /\ at' = at
             /\ ~(at[p] >= __process_size) /\ item[NULL][at[p]] = NULL
      BY <1>3 DEF AddSearch
    <2>3. ~(at[p] >= __process_size) => at[p] \in Slots
      BY <1>1, SizesAssumption DEF Slots
    <2>4. ASSUME NEW q \in Procs
          PROVE  /\ pc'[q] = "registered" => \E n \in Slots : item[NULL][n] = q
                 /\ pc'[q] = "set" => at'[q] \in Slots /\ item[NULL][at'[q]] = NULL
      <3>1. CASE q = p
        BY <1>1, <2>1, <2>2, <2>3, <3>1
      <3>2. CASE q # p
        <4>1. pc'[q] = pc[q] /\ at'[q] = at[q]
          BY <1>1, <2>1, <2>2, <3>2
        <4> QED
          BY <4>1 DEF RouteItems
      <3> QED
        BY <3>1, <3>2
    <2> QED
      BY <2>1, <2>4 DEF RouteItems
  <1>4. CASE AddSet(p)
    <2>1. /\ pc[p] = "set" /\ pc' = [pc EXCEPT ![p] = "registered"] /\ at' = at
          /\ item' = [item EXCEPT ![NULL][at[p]] = p]
      BY <1>4 DEF AddSet
    <2>2. at[p] \in Slots /\ item[NULL][at[p]] = NULL
      BY <2>1 DEF RouteItems
    <2>3. /\ item'[NULL][at[p]] = p
          /\ \A n \in Slots \ {at[p]} : item'[NULL][n] = item[NULL][n]
      BY <1>1, <2>1, <2>2
    <2>4. ASSUME NEW q \in Procs
          PROVE  /\ pc'[q] = "registered" => \E n \in Slots : item'[NULL][n] = q
                 /\ pc'[q] # "set"
      <3>1. CASE q = p
        BY <1>1, <2>1, <2>2, <2>3, <3>1
      <3>2. CASE q # p
        <4>1. pc'[q] = pc[q] /\ pc[q] # "set"
          BY <1>1, <2>1, <3>2 DEF OneSetsUp, SettingPC
        <4>2. ASSUME pc[q] = "registered" PROVE \E n \in Slots : item'[NULL][n] = q
          <5>1. PICK n \in Slots : item[NULL][n] = q
            BY <4>2 DEF RouteItems
          <5>2. n # at[p]
            BY <1>1, <2>2, <5>1
          <5> QED
            BY <2>3, <5>1, <5>2
        <4> QED
          BY <4>1, <4>2
      <3> QED
        BY <3>1, <3>2
    <2> QED
      BY <2>4 DEF RouteItems
  <1> QED
    BY <1>2, <1>3, <1>4

\* The manager's table, while processes register one after the other.
LEMMA NextManager ==
  ASSUME TypeOK, Parts, OneSetsUp, ManagerItems, table = "schedule", part = "proc",
         crowd = "alone", NEW p \in Procs,
         \/ Enter(p) \/ IsProExist(p) \/ CreateTable(p) \/ WriteProShmid(p)
         \/ Count(p) \/ Register(p)
  PROVE  ManagerItems'
  <1> USE DEF given, blocks, procs, Goto
  <1>1. /\ pc \in [Procs -> Labels] /\ seg \in [Procs -> Procs \cup {NULL}]
        /\ item \in [Procs \cup {NULL} -> [Slots -> Procs \cup {NULL}]]
        /\ real \in [Procs -> Int] /\ conf \in Procs \cup {NULL}
        /\ NULL \notin Procs /\ __process_size \in Nat
    BY ProcsAssumption, SizesAssumption DEF TypeOK
  <1>2. removed = {} /\ \A q \in Procs : ManagerItem(q)
    BY DEF ManagerItems
  <1>3. Attached(conf) \in Nat /\ (seg[p] = conf => Attached(conf) >= 1)
    BY AttachedCount
  <1>4. pc[p] \in SettingPC => \A q \in Procs \ {p} : pc[q] \notin SettingPC
    BY DEF OneSetsUp
  <1>5. CASE Enter(p)
    <2>1. /\ pc[p] = "idle" /\ pc' = [pc EXCEPT ![p] = "look"]
          /\ UNCHANGED <<conf, seg, removed, item, real>>
      BY <1>5 DEF Enter
    <2>2. Attached(conf)' = Attached(conf)
      BY <2>1 DEF Attached
    <2>3. pc'[p] = "look" /\ \A q \in Procs \ {p} : pc'[q] = pc[q]
      BY <1>1, <2>1
    <2>4. ManagerItem(p)'
      BY <1>2, <2>1, <2>3 DEF ManagerItem
    <2>5. ASSUME NEW q \in Procs \ {p} PROVE ManagerItem(q)'
      BY <1>2, <2>1, <2>2, <2>3 DEF ManagerItem
    <2> QED
      BY <1>2, <2>1, <2>4, <2>5 DEF ManagerItems
  <1>6. CASE IsProExist(p) /\ conf = NULL
    <2>1. /\ pc[p] = "look" /\ pc' = [pc EXCEPT ![p] = "create"]
          /\ UNCHANGED <<conf, seg, removed, item, real>>
      BY <1>6 DEF IsProExist
    <2>2. Attached(conf)' = Attached(conf)
      BY <2>1 DEF Attached
    <2>3. pc'[p] = "create" /\ \A q \in Procs \ {p} : pc'[q] = pc[q]
      BY <1>1, <2>1
    <2>4. ManagerItem(p)'
      BY <1>2, <1>6, <2>1, <2>3 DEF ManagerItem
    <2>5. ASSUME NEW q \in Procs \ {p} PROVE ManagerItem(q)'
      BY <1>2, <1>6, <2>1, <2>2, <2>3 DEF ManagerItem
    <2> QED
      BY <1>2, <2>1, <2>4, <2>5 DEF ManagerItems
  <1>7. CASE IsProExist(p) /\ conf # NULL
    <2>1. /\ pc[p] = "look" /\ pc' = [pc EXCEPT ![p] = "count"]
          /\ seg' = [seg EXCEPT ![p] = conf]
          /\ UNCHANGED <<conf, removed, item, real>>
      BY <1>7 DEF IsProExist
    <2>2. PICK s : s = conf
      OBVIOUS
    <2>3. seg[p] # s
      BY <1>2, <1>7, <2>1, <2>2 DEF ManagerItem
    <2>4. Attached(s)' = Attached(s) + 1
      BY <1>1, <2>1, <2>2, <2>3, OneMoreAttached
    <2>5. Attached(conf)' = Attached(conf) + 1
      BY <2>1, <2>2, <2>4 DEF Attached
    <2>6. pc'[p] = "count" /\ \A q \in Procs \ {p} : pc'[q] = pc[q] /\ seg'[q] = seg[q]
      BY <1>1, <2>1
    <2>7. \A q \in Procs : pc[q] = "registered" => real[q] < Attached(conf)
      BY <1>2 DEF ManagerItem
    <2>8. \A q \in Procs : pc'[q] = "registered" => real[q] < Attached(conf)' - 1
      BY <1>1, <1>3, <2>5, <2>6, <2>7
    <2>9. ManagerItem(p)'
      BY <1>1, <1>7, <2>1, <2>6, <2>8 DEF ManagerItem
    <2>10. ASSUME NEW q \in Procs \ {p} PROVE ManagerItem(q)'
      <3>1. pc[q] \notin SettingPC
        BY <1>4, <2>1 DEF SettingPC
      <3>2. real[q] < Attached(conf) => real[q] < Attached(conf)'
        BY <1>1, <1>3, <2>5
      <3> QED
        BY <1>2, <1>7, <2>1, <2>6, <3>1, <3>2 DEF ManagerItem, SettingPC
    <2> QED
      BY <1>2, <2>1, <2>9, <2>10 DEF ManagerItems
  <1>8. CASE CreateTable(p)
    <2>1. /\ pc[p] = "create" /\ pc' = [pc EXCEPT ![p] = "name"]
          /\ seg' = [seg EXCEPT ![p] = p]
          /\ UNCHANGED <<conf, removed, item, real>>
      BY <1>8 DEF CreateTable
    <2>2. conf = NULL
      BY <1>2, <2>1 DEF ManagerItem
    <2>3. /\ pc'[p] = "name" /\ seg'[p] = p
          /\ \A q \in Procs \ {p} : pc'[q] = pc[q] /\ seg'[q] = seg[q]
      BY <1>1, <2>1
    <2>4. ManagerItem(p)'
      BY <2>1, <2>2, <2>3 DEF ManagerItem
    <2>5. ASSUME NEW q \in Procs \ {p} PROVE ManagerItem(q)'
      BY <1>2, <2>1, <2>2, <2>3 DEF ManagerItem
    <2> QED
      BY <1>2, <2>1, <2>4, <2>5 DEF ManagerItems
  <1>9. CASE WriteProShmid(p)
    <2>1. /\ pc[p] = "name" /\ pc' = [pc EXCEPT ![p] = "count"] /\ conf' = p
          /\ UNCHANGED <<seg, removed, item, real>>
      BY <1>9 DEF WriteProShmid
    <2>2. conf = NULL /\ seg[p] = p
      BY <1>2, <2>1 DEF ManagerItem
    <2>3. \A q \in Procs \ {p} : pc[q] = "idle" /\ seg[q] = NULL
      <3> SUFFICES ASSUME NEW q \in Procs \ {p} PROVE pc[q] = "idle" /\ seg[q] = NULL
        OBVIOUS
      <3>1. pc[q] \notin SettingPC /\ pc[q] \in {"idle", "look", "create", "name"}
        BY <1>2, <1>4, <2>1, <2>2 DEF ManagerItem, SettingPC
      <3> QED
        BY <1>2, <3>1 DEF ManagerItem, SettingPC
    <2>4. pc'[p] = "count" /\ \A q \in Procs \ {p} : pc'[q] = "idle"
      BY <1>1, <2>1, <2>3
    <2>5. ManagerItem(p)'
      BY <1>1, <2>1, <2>2, <2>4 DEF ManagerItem
    <2>6. ASSUME NEW q \in Procs \ {p} PROVE ManagerItem(q)'
      BY <1>1, <2>1, <2>3, <2>4 DEF ManagerItem
    <2> QED
      BY <1>2, <2>1, <2>5, <2>6 DEF ManagerItems
  <1>10. CASE Count(p)
    <2>1. pc[p] = "count" /\ UNCHANGED <<conf, seg, removed, item>>
      BY <1>10 DEF Count
    <2>2. seg[p] = conf /\ conf # NULL
      BY <1>2, <2>1 DEF ManagerItem
    <2>3. real' = [real EXCEPT ![p] = Attached(conf) - 1]
      BY <1>10, <2>2 DEF Count
    <2>4. real'[p] = Attached(conf) - 1 /\ \A q \in Procs \ {p} : real'[q] = real[q]
      BY <1>1, <2>3
    <2>5. \/ pc' = [pc EXCEPT ![p] = "refused"]
          \/ pc' = [pc EXCEPT ![p] = "register"] /\ ~(real'[p] > __process_size)
      BY <1>2, <1>10 DEF Count
    <2>6. Attached(conf)' = Attached(conf)
      BY <2>1 DEF Attached
    <2>7. /\ pc'[p] = "refused" \/ (pc'[p] = "register" /\ real'[p] \in Slots)
          /\ \A q \in Procs \ {p} : pc'[q] = pc[q]
      <3>1. ~(real'[p] > __process_size) => real'[p] \in Slots
        BY <1>1, <1>3, <2>2, <2>4 DEF Slots
      <3> QED
        BY <1>1, <2>5, <3>1
    <2>8. \A q \in Procs : pc'[q] = "registered" => real'[q] < Attached(conf)' - 1
      BY <1>2, <2>1, <2>4, <2>6, <2>7 DEF ManagerItem
    <2>9. ManagerItem(p)'
      BY <2>1, <2>2, <2>4, <2>6, <2>7, <2>8 DEF ManagerItem
    <2>10. ASSUME NEW q \in Procs \ {p} PROVE ManagerItem(q)'
      <3>1. pc[q] \notin SettingPC
        BY <1>4, <2>1 DEF SettingPC
      <3> QED
        BY <1>2, <2>1, <2>4, <2>6, <2>7, <3>1 DEF ManagerItem, SettingPC
    <2> QED
      BY <1>2, <2>1, <2>9, <2>10 DEF ManagerItems
  <1>11. CASE Register(p)
    <2>1. /\ pc[p] = "register" /\ pc' = [pc EXCEPT ![p] = "registered"]
          /\ item' = [item EXCEPT ![seg[p]][real[p]] = p]
          /\ UNCHANGED <<conf, seg, removed, real>>
      BY <1>11 DEF Register
    <2>2. /\ seg[p] = conf /\ real[p] \in Slots /\ real[p] = Attached(conf) - 1
          /\ \A q \in Procs : pc[q] = "registered" => real[q] < Attached(conf) - 1
      BY <1>2, <2>1 DEF ManagerItem
    <2>3. Attached(conf)' = Attached(conf)
      BY <2>1 DEF Attached
    <2>4. pc'[p] = "registered" /\ \A q \in Procs \ {p} : pc'[q] = pc[q]
      BY <1>1, <2>1
    <2>5. /\ item'[conf][real[p]] = p
          /\ \A n \in Slots \ {real[p]} : item'[conf][n] = item[conf][n]
      BY <1>1, <2>1, <2>2
    <2>6. real[p] < Attached(conf)
      BY <1>3, <2>2
    <2>7. ManagerItem(p)'
      BY <1>2, <2>1, <2>2, <2>3, <2>4, <2>5, <2>6 DEF ManagerItem
    <2>8. ASSUME NEW q \in Procs \ {p} PROVE ManagerItem(q)'
      <3>1. pc[q] \notin SettingPC
        BY <1>4, <2>1 DEF SettingPC
      <3>2. pc[q] = "registered" => real[q] # real[p]
        BY <1>1, <1>3, <2>2
      <3> QED
        BY <1>2, <2>1, <2>3, <2>4, <2>5, <3>1, <3>2 DEF ManagerItem, SettingPC
    <2> QED
      BY <1>2, <2>1, <2>7, <2>8 DEF ManagerItems
  <1> QED
    BY <1>5, <1>6, <1>7, <1>8, <1>9, <1>10, <1>11

LEMMA NextItems ==
  ASSUME TypeOK, Parts, ItemsInv, [Next]_vars
  PROVE  ItemsInv'
  <1> USE DEF given, blocks, procs
  <1>1. CASE UNCHANGED vars
    <2>1. UNCHANGED <<table, part, crowd, pc, at, conf, seg, removed, item, real>>
      BY <1>1 DEF vars
    <2>2. OneSetsUp => OneSetsUp'
      BY <2>1 DEF OneSetsUp
    <2>3. RouteItems => RouteItems'
      BY <2>1 DEF RouteItems
    <2>4. ManagerItems => ManagerItems'
      BY <2>1 DEF ManagerItems, ManagerItem, Attached
    <2> QED
      BY <2>1, <2>2, <2>3, <2>4 DEF ItemsInv
  <1>2. ASSUME NEW p \in Procs, Step(p)
        PROVE  ItemsInv'
    <2>1. UNCHANGED <<table, part, crowd, role>>
      BY <1>2 DEF Step, Ask, ScanItem, ScanTable, Take, Use, MarkItem, MarkData, MarkFree,
                  Enter, AddSearch, AddSet, IsProExist, CreateTable, WriteProShmid, Count,
                  Register, Leave
    <2> SUFFICES ASSUME part = "proc", crowd = "alone"
                 PROVE  /\ OneSetsUp'
                        /\ table = "route" => RouteItems'
                        /\ table = "schedule" => ManagerItems'
      BY <2>1 DEF ItemsInv
    <2>2. /\ OneSetsUp /\ (table = "route" => RouteItems)
          /\ table = "schedule" => ManagerItems
          /\ table \in {"route", "schedule"}
      BY DEF ItemsInv, TypeOK
    <2>3. \/ Enter(p) \/ AddSearch(p) \/ AddSet(p) \/ IsProExist(p) \/ CreateTable(p)
          \/ WriteProShmid(p) \/ Count(p) \/ Register(p)
      BY <1>2, SettingSteps
    <2>4. OneSetsUp'
      <3>1. CASE pc' = pc
        BY <2>2, <3>1 DEF OneSetsUp
      <3>2. CASE pc' # pc
        <4>1. \E l : /\ pc' = [pc EXCEPT ![p] = l]
                     /\ l \in SettingPC =>
                          pc[p] \in SettingPC \/ \A q \in Others(p) : pc[q] \notin SettingPC
          <5>1. CASE Enter(p)
            BY <5>1 DEF Enter, Goto, SettingPC
          <5>2. CASE pc[p] \in SettingPC
            <6>1. \E l : pc' = [pc EXCEPT ![p] = l]
              BY <2>3, <3>2, <5>2
              DEF Enter, AddSearch, AddSet, IsProExist, CreateTable, WriteProShmid, Count,
                  Register, Goto
            <6> QED
              BY <5>2, <6>1
          <5>3. Enter(p) \/ pc[p] \in SettingPC
            BY <2>3 DEF AddSearch, AddSet, IsProExist, CreateTable, WriteProShmid, Count,
                        Register, SettingPC
          <5> QED
            BY <5>1, <5>2, <5>3
        <4> QED
          BY <2>2, <4>1, OneSetsUpStays
      <3> QED
        BY <3>1, <3>2
    <2>5. CASE table = "route"
      <3>1. Enter(p) \/ AddSearch(p) \/ AddSet(p)
        BY <2>3, <2>5, WhereItIs
        DEF IsProExist, CreateTable, WriteProShmid, Count, Register
      <3>2. RouteItems'
        BY <2>2, <2>5, <3>1, NextRoute
      <3> QED
        BY <2>4, <2>5, <3>2
    <2>6. CASE table = "schedule"
      <3>1. \/ Enter(p) \/ IsProExist(p) \/ CreateTable(p) \/ WriteProShmid(p)
            \/ Count(p) \/ Register(p)
        BY <2>3, <2>6, WhereItIs DEF AddSearch, AddSet
      <3>2. ManagerItems'
        BY <2>2, <2>6, <3>1, NextManager
      <3> QED
        BY <2>4, <2>6, <3>2
    <2> QED
      BY <2>2, <2>5, <2>6
  <1> QED
    BY <1>1, <1>2 DEF Next

-----------------------------------------------------------------------------
(* The theorems                                                            *)

LEMMA InitInv == Init => IInv
  <1> SUFFICES ASSUME Init PROVE IInv
    OBVIOUS
  <1>1. /\ pc = [p \in Procs |-> "idle"]
        /\ mem = [b \in Blocks |-> [free |-> TRUE, ready |-> FALSE]]
        /\ packets = 0 /\ read = [k \in 1..MaxPackets |-> 0]
        /\ conf = NULL /\ seg = [p \in Procs |-> NULL] /\ removed = {}
    BY DEF Init
  <1>2. \A p \in Procs : pc[p] = "idle" /\ seg[p] = NULL
    BY <1>1
  <1>3. \A b \in Blocks : mem[b].free /\ ~mem[b].ready
    BY <1>1
  <1>4. \A p \in Procs, b \in Blocks : ~Holds(p, b)
    BY <1>2 DEF Holds, BlockPC
  <1>5. \A b \in Blocks : ~Fresh(b)
    BY <1>3, <1>4 DEF Fresh
  <1>6. OneOfAKind /\ OneHolder /\ OneSetsUp
    BY <1>2, <1>4 DEF OneOfAKind, OneHolder, OneSetsUp, SettingPC
  <1>7. Flags
    BY <1>3, <1>4 DEF Flags
  <1>8. Contents
    BY <1>1, <1>5 DEF Contents
  <1>9. RouteItems /\ ManagerItems
    BY <1>1, <1>2 DEF RouteItems, ManagerItems, ManagerItem
  <1> QED
    BY <1>1, <1>6, <1>7, <1>8, <1>9, InitType DEF IInv, BlocksInv, ItemsInv, NothingWritten

LEMMA NextInv == IInv /\ [Next]_vars => IInv'
  BY NextType, NextWritten, NextBlocks, NextItems DEF IInv

\* The inductive invariant holds.
THEOREM Invariance == Spec => []IInv
  BY InitInv, NextInv, PTL DEF Spec

\* With one writer and one reader at a time no packet is read twice, and none is
\* overwritten before it is read, in both tables and for every number of blocks.
THEOREM ReadsOnce == Spec => []ReadOnce
  <1>1. IInv => ReadOnce
    <2> SUFFICES ASSUME IInv, crowd = "alone", NEW k \in 1..packets
                 PROVE  read[k] <= 1 /\ (read[k] = 0 => \E b \in Blocks : data[b] = k)
      BY DEF ReadOnce
    <2>1. packets \in 0..MaxPackets /\ MaxPackets \in Nat /\ part \in {"mem", "proc"}
      BY SizesAssumption DEF IInv, TypeOK
    <2>2. part = "mem" /\ k \in 1..MaxPackets
      BY <2>1 DEF IInv, NothingWritten
    <2>3. Contents
      BY <2>2 DEF IInv, BlocksInv
    <2> QED
      BY <2>2, <2>3 DEF Contents
  <1> QED
    BY Invariance, <1>1, PTL

\* Processes that register one after the other have an item each, in one table.
THEOREM ItemsAreTheirs == Spec => []EachHasItsItem
  <1>1. IInv => EachHasItsItem
    <2> SUFFICES ASSUME IInv, crowd = "alone", NEW p \in Procs, pc[p] = "registered"
                 PROVE  \E n \in Slots : item[IF table = "route" THEN NULL ELSE conf][n] = p
      BY DEF EachHasItsItem
    <2>1. part = "proc" /\ table \in {"route", "schedule"}
      BY DEF IInv, Parts, TypeOK
    <2>2. CASE table = "route"
      BY <2>1, <2>2 DEF IInv, ItemsInv, RouteItems
    <2>3. CASE table = "schedule"
      <3>1. ManagerItem(p)
        BY <2>1, <2>3 DEF IInv, ItemsInv, ManagerItems
      <3> QED
        BY <2>3, <3>1 DEF ManagerItem
    <2> QED
      BY <2>1, <2>2, <2>3
  <1> QED
    BY Invariance, <1>1, PTL
=============================================================================

----------------------------- MODULE FileStore -----------------------------
(***************************************************************************)
(* What the storage server promises for an upload, whatever the order in   *)
(* which its packets arrive: the blocks of a file are stored once each, in *)
(* any order, before or after the size is known; the file is closed when   *)
(* the size is known and every block of it is stored, and not before; and  *)
(* nothing is stored in a closed file.                                     *)
(***************************************************************************)
EXTENDS Integers

CONSTANT FileIDs

VARIABLES size,     \* size[f]: the number of blocks of f, -1 while unknown
          stored,   \* stored[f]: the blocks of f that are where they belong
          closed    \* closed[f]: is f complete and closed?

fsVars == <<size, stored, closed>>

Init ==
  /\ size = [f \in FileIDs |-> -1]
  /\ stored = [f \in FileIDs |-> {}]
  /\ closed = [f \in FileIDs |-> FALSE]

Announce(f) ==
  /\ size[f] = -1
  /\ size'[f] \in Nat
  /\ size' = [size EXCEPT ![f] = size'[f]]
  /\ UNCHANGED <<stored, closed>>

Store(f) ==
  /\ ~closed[f]
  /\ \E k \in stored'[f] \ stored[f] :
       k \in Nat /\ stored' = [stored EXCEPT ![f] = @ \cup {k}]
  /\ UNCHANGED <<size, closed>>

Close(f) ==
  /\ ~closed[f]
  /\ size[f] >= 0
  /\ stored[f] = 0..size[f] - 1
  /\ closed' = [closed EXCEPT ![f] = TRUE]
  /\ UNCHANGED <<size, stored>>

Next == \E f \in FileIDs : Announce(f) \/ Store(f) \/ Close(f)

Spec == Init /\ [][Next]_fsVars /\ \A f \in FileIDs : WF_fsVars(Close(f))
=============================================================================

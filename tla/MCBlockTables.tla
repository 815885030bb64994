--------------------------- MODULE MCBlockTables ---------------------------
(***************************************************************************)
(* An instance of BlockTables: three processes over two blocks and two      *)
(* items for processes.                                                     *)
(***************************************************************************)
EXTENDS BlockTables, TLC

Symmetry == Permutations(Procs)
=============================================================================

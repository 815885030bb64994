SPECIFICATION Spec
CONSTANTS
  Procs = {p1, p2, p3}
  __shm_block_size = 2
  __process_size = 2
  MaxPackets = 3
  NULL = NULL
SYMMETRY Symmetry
INVARIANTS
  ReadOnce
  EachHasItsItem
CHECK_DEADLOCK FALSE

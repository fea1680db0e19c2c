\* Three connections.
CONSTANTS
  Conn = {c1, c2, c3}
  NULL = NULL
SPECIFICATION Spec
CHECK_DEADLOCK FALSE
SYMMETRY ConnSymmetry
INVARIANTS ServerInv MutexDiscipline ListIsUnjoined NobodyRunsAtExit ClosesOnce JoinNeverWaits

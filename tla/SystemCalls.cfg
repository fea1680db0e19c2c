\* A caller that forks up to twice and prints a text.
CONSTANTS
  Root = r
  Pid = {r, p1, p2}
  None = None
  Token = {t}
  MaxFiles = 2
SPECIFICATION Spec
CHECK_DEADLOCK FALSE
INVARIANTS ProcessInv TrueMeansRan OutputOnce
PROPERTY WaitEnds

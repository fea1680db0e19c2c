\* Two connections, under fairness.
CONSTANTS
  Conn = {c1, c2}
  NULL = NULL
SPECIFICATION FairSpec
CHECK_DEADLOCK FALSE
PROPERTIES ExitsOnceNoticed MutexIsGranted

\* A signal that does not find main in accept.
CONSTANTS
  Conn = {c1, c2}
  NULL = NULL
SPECIFICATION FairSpec
CHECK_DEADLOCK FALSE
PROPERTY SignalStops

\* Three threads and a caller that uses the mutex, too.
CONSTANTS
  Thread = {t1, t2, t3}
  Caller = Caller
  Nobody = Nobody
SPECIFICATION Spec
CHECK_DEADLOCK FALSE
INVARIANTS ThreadInv TrueIffStarted DataAlive
PROPERTY StartedCompletes

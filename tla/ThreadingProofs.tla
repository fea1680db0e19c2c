--------------------------- MODULE ThreadingProofs ----------------------------
(***************************************************************************)
(* Proofs about the threading example, for any number of threads: what the *)
(* result of start_thread_obtaining_mutex means, and that th_data outlives *)
(* everybody who uses it.                                                  *)
(***************************************************************************)
EXTENDS Threading, TLAPS

\* Whoever touches th_data while it is in use finds it allocated.
LEMMA TouchAlive ==
  ASSUME ThreadInv, NEW t \in Thread, InUse(t), Touch(t)
  PROVE  data' = data
BY DEF ThreadInv, FreedLast, Touch

\* The initial state.
LEMMA ThreadInit == Init => ThreadInv
BY ThreadAssumption
   DEF Init, ThreadInv, TypeOK, MutexOwner, Created, MarkedIfDone, FreedLast, InUse

\* The steps of start_thread_obtaining_mutex.  What it marks, and what it reads
\* at the end, belongs to a thread that exists, however far that thread has come.
LEMMA CallKeeps ==
  ASSUME ThreadInv, NEW t \in Thread, start(t) \/ CallStep(t)
  PROVE  ThreadInv'
<1> USE DEF ThreadInv
<1>1. CASE start(t)
  BY <1>1 DEF start, Call, Set, TypeOK, MutexOwner, Created, MarkedIfDone, FreedLast, InUse
<1>2. CASE pthread_create(t)
  BY <1>2 DEF pthread_create, Call, InThread, Set, TypeOK, MutexOwner, Created, MarkedIfDone,
     FreedLast, InUse
<1>3. CASE pthread_create_failed(t)
  BY <1>3 DEF pthread_create_failed, Call, Set, TypeOK, MutexOwner, Created, MarkedIfDone,
     FreedLast, InUse
<1>4. CASE mark(t)
  <2>1. data' = data
    BY <1>4, TouchAlive DEF mark, Call, InUse
  <2> QED
    BY <1>4, <2>1 DEF mark, Call, Set, TypeOK, MutexOwner, Created, MarkedIfDone, FreedLast, InUse
<1>5. CASE start_returns(t)
  <2>1. data' = data
    BY <1>5, TouchAlive DEF start_returns, Call, InUse
  <2> QED
    BY <1>5, <2>1 DEF start_returns, Call, Set, TypeOK, MutexOwner, Created, MarkedIfDone,
       FreedLast, InUse
<1> QED BY <1>1, <1>2, <1>3, <1>4, <1>5 DEF CallStep

\* The steps of threadfunc: the flag can only be set, which the creator does, too.
LEMMA ThreadKeeps ==
  ASSUME ThreadInv, NEW t \in Thread, ThreadStep(t)
  PROVE  ThreadInv'
<1> USE DEF ThreadInv
<1>1. data' = data
  BY TouchAlive DEF ThreadStep, mutex_lock, mutex_unlock, complete, InThread, InUse
<1>2. CASE mutex_lock(t)
  BY <1>1, <1>2, ThreadAssumption
     DEF mutex_lock, InThread, Set, TypeOK, MutexOwner, Created, MarkedIfDone, FreedLast, InUse
<1>3. CASE mutex_unlock(t)
  BY <1>1, <1>3, ThreadAssumption
     DEF mutex_unlock, InThread, Set, TypeOK, MutexOwner, Created, MarkedIfDone, FreedLast, InUse
<1>4. CASE complete(t)
  BY <1>1, <1>4
     DEF complete, InThread, Set, TypeOK, MutexOwner, Created, MarkedIfDone, FreedLast, InUse
<1> QED BY <1>2, <1>3, <1>4 DEF ThreadStep

\* The caller: it frees th_data after both sides are through with it.
LEMMA CallerKeeps ==
  ASSUME ThreadInv, (\E t \in Thread : join_and_free(t)) \/ caller_lock \/ caller_unlock
  PROVE  ThreadInv'
<1> USE DEF ThreadInv
<1>1. ASSUME NEW t \in Thread, join_and_free(t)
      PROVE  ThreadInv'
  BY <1>1 DEF join_and_free, InThread, Set, TypeOK, MutexOwner, Created, MarkedIfDone,
     FreedLast, InUse
<1>2. CASE caller_lock \/ caller_unlock
  BY <1>2, ThreadAssumption DEF caller_lock, caller_unlock, TypeOK, MutexOwner, Created,
     MarkedIfDone, FreedLast, InUse
<1> QED BY <1>1, <1>2

\* The inductive invariant of the threading example, for any number of threads:
\* who owns the mutex, what the flag says at each point, and who may still use th_data.
THEOREM ThreadInvariant == Spec => []ThreadInv
<1>1. ThreadInv /\ [Next]_vars => ThreadInv'
  <2> SUFFICES ASSUME ThreadInv, [Next]_vars PROVE ThreadInv'
    OBVIOUS
  <2>1. CASE UNCHANGED vars
    BY <2>1 DEF vars, ThreadInv, TypeOK, MutexOwner, Created, MarkedIfDone, FreedLast, InUse
  <2>2. CASE Next
    BY <2>2, CallKeeps, ThreadKeeps, CallerKeeps DEF Next
  <2> QED BY <2>1, <2>2
<1> QED BY <1>1, ThreadInit, PTL DEF Spec

\* start_thread_obtaining_mutex returns true exactly when there is a thread,
\* although the flag it returns is also written by that thread.
THEOREM TrueIffStartedCorrect == Spec => []TrueIffStarted
<1>1. ThreadInv => TrueIffStarted
  BY DEF ThreadInv, MarkedIfDone, TrueIffStarted
<1> QED BY <1>1, ThreadInvariant, PTL

\* Neither the creator nor the thread touches th_data after the caller has
\* freed it, and it is freed once.
THEOREM DataAliveCorrect == Spec => []DataAlive
<1>1. ThreadInv => DataAlive
  BY DEF ThreadInv, FreedLast, DataAlive
<1> QED BY <1>1, ThreadInvariant, PTL
===============================================================================

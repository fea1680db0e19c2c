------------------------------ MODULE Threading -------------------------------
(***************************************************************************)
(* examples/threading/threading.c: start_thread_obtaining_mutex, called    *)
(* for several threads on one mutex, and threadfunc.                       *)
(*                                                                         *)
(* th_data is written by both sides without synchronisation: the thread    *)
(* may run, and even end, before its creator stores into th_data.          *)
(*                                                                         *)
(* The caller, external: it may use the mutex itself and, once a call has  *)
(* returned true, joins the thread and frees the th_data it gets back, as  *)
(* threading.h tells it to.                                                *)
(***************************************************************************)
EXTENDS Naturals

CONSTANTS Thread, Caller, Nobody

ASSUME ThreadAssumption == Caller \notin Thread /\ Nobody \notin Thread \cup {Caller}

VARIABLES
  call,      \* where start_thread_obtaining_mutex is, for each thread
  thread,    \* where threadfunc is
  success,   \* th_data->thread_complete_success
  data,      \* th_data: "none", "alloc", "freed", or "misused" once touched when not allocated
  ret,       \* what the call returned
  mutex      \* its owner

vars == <<call, thread, success, data, ret, mutex>>

Init ==
  /\ call = [t \in Thread |-> "idle"]
  /\ thread = [t \in Thread |-> "none"]
  /\ success = [t \in Thread |-> FALSE]
  /\ data = [t \in Thread |-> "none"]
  /\ ret = [t \in Thread |-> FALSE]
  /\ mutex = Nobody

Set(var, t, v) == [var EXCEPT ![t] = v]

\* th_data of t is read or written.
Touch(t) == data' = IF data[t] = "alloc" THEN data ELSE Set(data, t, "misused")

Call(t, from, to)    == call[t] = from /\ call' = Set(call, t, to)
InThread(t, from, to) == thread[t] = from /\ thread' = Set(thread, t, to)
-------------------------------------------------------------------------------
(* start_thread_obtaining_mutex.                                           *)

start(t) ==
  /\ Call(t, "idle", "create")
  /\ data' = Set(data, t, "alloc")
  /\ success' = Set(success, t, FALSE)
  /\ UNCHANGED <<thread, ret, mutex>>

pthread_create(t) ==
  /\ Call(t, "create", "mark")
  /\ InThread(t, "none", "obtain")
  /\ UNCHANGED <<success, data, ret, mutex>>

pthread_create_failed(t) ==
  /\ Call(t, "create", "return")
  /\ UNCHANGED <<thread, success, data, ret, mutex>>

\* Mutant: only the thread itself sets the flag.
MarkNothing(t) ==
  /\ Call(t, "mark", "return")
  /\ UNCHANGED <<thread, success, data, ret, mutex>>

mark(t) ==
  /\ Call(t, "mark", "return")
  /\ success' = Set(success, t, TRUE)
  /\ Touch(t)
  /\ UNCHANGED <<thread, ret, mutex>>

start_returns(t) ==
  /\ Call(t, "return", "returned")
  /\ ret' = Set(ret, t, success[t])
  /\ Touch(t)
  /\ UNCHANGED <<thread, success, mutex>>
-------------------------------------------------------------------------------
(* threadfunc.  The two sleeps end after some time.                        *)

mutex_lock(t) ==
  /\ InThread(t, "obtain", "hold")
  /\ mutex = Nobody /\ mutex' = t
  /\ Touch(t)
  /\ UNCHANGED <<call, success, ret>>

\* Mutant: the mutex is not given back.
KeepMutex(t) ==
  /\ InThread(t, "hold", "complete")
  /\ Touch(t)
  /\ UNCHANGED <<call, success, ret, mutex>>

mutex_unlock(t) ==
  /\ InThread(t, "hold", "complete")
  /\ mutex' = Nobody
  /\ Touch(t)
  /\ UNCHANGED <<call, success, ret>>

\* Mutant: the thread frees its th_data itself.
CompleteFrees(t) ==
  /\ InThread(t, "complete", "done")
  /\ success' = Set(success, t, TRUE)
  /\ data' = Set(data, t, "freed")
  /\ UNCHANGED <<call, ret, mutex>>

complete(t) ==
  /\ InThread(t, "complete", "done")
  /\ success' = Set(success, t, TRUE)
  /\ Touch(t)
  /\ UNCHANGED <<call, ret, mutex>>
-------------------------------------------------------------------------------
(* The caller.                                                             *)

join_and_free(t) ==
  /\ call[t] = "returned" /\ ret[t]
  /\ InThread(t, "done", "joined")
  /\ data' = Set(data, t, IF data[t] = "alloc" THEN "freed" ELSE "misused")
  /\ UNCHANGED <<call, success, ret, mutex>>

caller_lock ==
  /\ mutex = Nobody /\ mutex' = Caller
  /\ UNCHANGED <<call, thread, success, data, ret>>

caller_unlock ==
  /\ mutex = Caller /\ mutex' = Nobody
  /\ UNCHANGED <<call, thread, success, data, ret>>

CallStep(t)   == pthread_create(t) \/ pthread_create_failed(t) \/ mark(t) \/ start_returns(t)
ThreadStep(t) == mutex_lock(t) \/ mutex_unlock(t) \/ complete(t)

Next ==
  \/ \E t \in Thread : start(t) \/ CallStep(t) \/ ThreadStep(t) \/ join_and_free(t)
  \/ caller_lock \/ caller_unlock

\* A thread that can go on does, and gets the mutex if it becomes free again and
\* again; the caller gives it back.
Spec ==
  /\ Init /\ [][Next]_vars
  /\ WF_vars(caller_unlock)
  /\ \A t \in Thread : WF_vars(CallStep(t)) /\ SF_vars(ThreadStep(t))
-------------------------------------------------------------------------------
TypeOK ==
  /\ call \in [Thread -> {"idle", "create", "mark", "return", "returned"}]
  /\ thread \in [Thread -> {"none", "obtain", "hold", "complete", "done", "joined"}]
  /\ success \in [Thread -> BOOLEAN] /\ ret \in [Thread -> BOOLEAN]
  /\ data \in [Thread -> {"none", "alloc", "freed", "misused"}]
  /\ mutex \in Thread \cup {Caller, Nobody}

\* The inductive invariant behind the two properties that follow.  Once the
\* thread exists the flag can only be set, by either side, so that what the
\* creator reads last does not depend on how far the thread has come; and
\* th_data is freed only after both sides are through with it.
MutexOwner   == \A t \in Thread : mutex = t <=> thread[t] = "hold"
Created      == \A t \in Thread :
  call[t] \in {"idle", "create"} => thread[t] = "none" /\ ~success[t]
MarkedIfDone == \A t \in Thread :
  /\ call[t] = "mark" => thread[t] # "none"
  /\ call[t] = "return" => (success[t] <=> thread[t] # "none")
  /\ call[t] = "returned" => (ret[t] <=> thread[t] # "none")
InUse(t)     == \/ call[t] \in {"create", "mark", "return"}
                \/ thread[t] \in {"obtain", "hold", "complete", "done"}
FreedLast    == \A t \in Thread :
  /\ InUse(t) => data[t] = "alloc"
  /\ thread[t] = "joined" => call[t] = "returned"
  /\ data[t] # "misused"

ThreadInv == TypeOK /\ MutexOwner /\ Created /\ MarkedIfDone /\ FreedLast

\* "true if the thread could be started" (threading.h): the result tells
\* whether there is a thread, wherever that thread is by then, although it is
\* read from a field that the thread writes.
TrueIffStarted ==
  \A t \in Thread : call[t] = "returned" => (ret[t] <=> thread[t] # "none")

\* th_data outlives everybody who uses it: the creator stores into it, and
\* reads it, possibly after the thread has ended.
DataAlive == \A t \in Thread : data[t] # "misused"

\* A thread that was started ends, having had the mutex and given it back,
\* however the others and the caller compete for it.
StartedCompletes ==
  \A t \in Thread : thread[t] = "obtain" ~> thread[t] \in {"done", "joined"}
===============================================================================

-------------------------- MODULE SystemCallsProofs ---------------------------
(***************************************************************************)
(* Proofs about do_exec and do_exec_redirect, for any number of processes  *)
(* and texts: what it means that a call returned true, and that what the   *)
(* caller prints is written out once, however often it forks.              *)
(***************************************************************************)
EXTENDS SystemCalls, FiniteSetTheorems, TLAPS

\* Buffers that are what they were have nothing new written out of them.
LEMMA BuffersKept ==
  ASSUME WrittenOnce, UNCHANGED <<printed, shown>>,
         \A q \in Pid : proc'[q].pending = proc[q].pending
  PROVE  WrittenOnce'
<1>1. \A t : Pending(t)' = Pending(t) /\ Shown(t)' = Shown(t)
  BY DEF Pending, Shown
<1> QED BY <1>1 DEF WrittenOnce

\* fflush writes out what is in the buffer, to the terminal, and empties it:
\* a text that was in the buffer was nowhere else.
LEMMA FlushKeeps ==
  ASSUME TypeOK, WrittenOnce, NEW p \in Pid, fflush(p), printed' = printed,
         proc[p].pending = {} \/ proc[p].stdout = "tty",
         proc'[p].pending = {},
         \A q \in Pid \ {p} : proc'[q].pending = proc[q].pending
  PROVE  WrittenOnce'
<1> DEFINE Out(t) == [token |-> t, sink |-> proc[p].stdout, by |-> p]
<1>1. proc[p].pending \subseteq Token
  BY DEF TypeOK, Process
<1>2. \A o : o \in shown' <=> o \in shown \/ \E t \in proc[p].pending : o = Out(t)
  BY DEF fflush
<1>3. ASSUME NEW t \in proc[p].pending
      PROVE  t \in printed' /\ Pending(t)' = {} /\ \E o \in shown' : Shown(t)' = {o}
  <2>1. t \in Token /\ p \in Pending(t)
    BY <1>1 DEF Pending
  <2>2. t \in printed /\ Pending(t) = {p} /\ Shown(t) = {}
    BY <2>1 DEF WrittenOnce
  <2>3. Pending(t)' = {}
    BY <2>2 DEF Pending
  <2>4. Out(t) \in shown' /\ Shown(t)' = {Out(t)}
    BY <1>2, <2>2 DEF Shown
  <2> QED BY <2>2, <2>3, <2>4
<1>4. ASSUME NEW t \in Token, t \notin proc[p].pending
      PROVE  Pending(t)' = Pending(t) /\ Shown(t)' = Shown(t)
  <2>1. Pending(t)' = Pending(t)
    BY <1>4 DEF Pending
  <2>2. Shown(t)' = Shown(t)
    BY <1>2, <1>4 DEF Shown
  <2> QED BY <2>1, <2>2
<1>5. \A o \in shown' : o.sink = "tty"
  BY <1>2 DEF WrittenOnce
<1>6. ASSUME NEW t \in Token
      PROVE  IF t \in printed'
             THEN \/ (\E q \in Pid : Pending(t)' = {q}) /\ Shown(t)' = {}
                  \/ Pending(t)' = {} /\ \E o \in shown' : Shown(t)' = {o}
             ELSE Pending(t)' = {} /\ Shown(t)' = {}
  <2>1. CASE t \in proc[p].pending
    BY <2>1, <1>3
  <2>2. CASE t \notin proc[p].pending
    <3>1. shown \subseteq shown'
      BY <1>2
    <3> QED BY <2>2, <3>1, <1>4 DEF WrittenOnce
  <2> QED BY <2>1, <2>2
<1> QED BY <1>5, <1>6 DEF WrittenOnce

\* A call returns false, or do_system returns.  No call of do_exec waits for a
\* process that returns: its child never does.
LEMMA ReturnKeeps ==
  ASSUME ProcessInv, NEW p \in Pid, NEW r \in BOOLEAN, Returns(p, r),
         proc[p].at \in {"user", "fork", "dup2", "wait"}
  PROVE  ProcessInv'
<1> DEFINE new == [proc[p] EXCEPT !.at = "user", !.fn = "none", !.child = None, !.ret = r]
<1>1. \A q \in Pid : proc'[q] = IF q = p THEN new ELSE proc[q]
  BY DEF Returns, ProcessInv, TypeOK
<1>2. new \in Process
  BY ProcessAssumption DEF ProcessInv, TypeOK, Process
<1>3. TypeOK'
  BY <1>1, <1>2 DEF Returns, ProcessInv, TypeOK
<1>4. /\ new.at = "user" /\ new.fn = "none" /\ new.pending = proc[p].pending
      /\ new.stdout = proc[p].stdout /\ new.ran = proc[p].ran /\ new.status = proc[p].status
  BY DEF ProcessInv, TypeOK, Process
<1> HIDE DEF new
<1>5. (Flushed /\ Redirected /\ Alive /\ Opened)'
  BY <1>1, <1>4 DEF ProcessInv, Flushed, Redirected, Alive, Opened, At
<1>6. Children'
  BY <1>1, <1>4 DEF ProcessInv, Children, Succeeded, At
<1>7. WrittenOnce'
  BY <1>1, <1>4, BuffersKept DEF ProcessInv, Returns
<1> QED BY <1>3, <1>5, <1>6, <1>7 DEF ProcessInv

\* A process exits, with what its buffer holds.  Only the caller's code has
\* anything in it; a child of do_exec that exits without a command does so with 1.
LEMMA ExitKeeps ==
  ASSUME ProcessInv, NEW p \in Pid, NEW s \in {"0", "1"}, exit(p, s),
         \/ proc[p].at \in {"user", "fork"}
         \/ At(p, "execv") /\ s = "1"
  PROVE  ProcessInv'
<1> DEFINE new == [proc[p] EXCEPT !.at = "exited", !.status = s, !.pending = {}]
<1>0. s \in {"none", "0", "1", "signal"}
  OBVIOUS
<1>1. \A q \in Pid : proc'[q] = IF q = p THEN new ELSE proc[q]
  BY DEF exit, ProcessInv, TypeOK
<1>2. new \in Process
  BY <1>0 DEF ProcessInv, TypeOK, Process
<1>3. shown' \subseteq Output
  <2>1. proc[p].pending \subseteq Token /\ proc[p].stdout \in {"tty", "file"}
    BY DEF ProcessInv, TypeOK, Process
  <2> QED BY <2>1 DEF exit, fflush, ProcessInv, TypeOK, Output
<1>4. TypeOK'
  BY <1>1, <1>2, <1>3 DEF exit, ProcessInv, TypeOK
<1>5. /\ new.at = "exited" /\ new.fn = proc[p].fn /\ new.pending = {} /\ new.child = proc[p].child
      /\ new.stdout = proc[p].stdout /\ new.ran = proc[p].ran /\ new.status = s
  BY DEF ProcessInv, TypeOK, Process
<1> HIDE DEF new
<1>6. (Flushed /\ Redirected /\ Alive /\ Opened)'
  BY <1>1, <1>5 DEF ProcessInv, Flushed, Redirected, Alive, Opened, At
<1>7. Children'
  BY <1>1, <1>5 DEF ProcessInv, Children, Succeeded, At
<1>8. proc[p].pending = {} \/ proc[p].stdout = "tty"
  BY DEF ProcessInv, TypeOK, Process, Flushed, Redirected, At
<1>9. WrittenOnce'
  BY <1>1, <1>5, <1>8, FlushKeeps DEF ProcessInv, exit
<1> QED BY <1>4, <1>6, <1>7, <1>9 DEF ProcessInv

\* The call is entered: the buffer is written out, and empty when fork copies it.
LEMMA FlushAndForkKeeps ==
  ASSUME ProcessInv, NEW p \in Pid, NEW f \in {"exec", "redirect"}, NEW n \in 0 .. MaxFiles,
         At(p, "user"), FlushAndFork(p, "fork", f, n), f = "redirect" => n > 0
  PROVE  ProcessInv'
<1> DEFINE new == [proc[p] EXCEPT !.at = "fork", !.fn = f, !.files = n, !.pending = {}]
<1>1. \A q \in Pid : proc'[q] = IF q = p THEN new ELSE proc[q]
  BY DEF FlushAndFork, ProcessInv, TypeOK
<1>2. new \in Process
  BY DEF ProcessInv, TypeOK, Process
<1>3. shown' \subseteq Output
  <2>1. proc[p].pending \subseteq Token /\ proc[p].stdout \in {"tty", "file"}
    BY DEF ProcessInv, TypeOK, Process
  <2> QED BY <2>1 DEF FlushAndFork, fflush, ProcessInv, TypeOK, Output
<1>4. TypeOK'
  BY <1>1, <1>2, <1>3 DEF FlushAndFork, ProcessInv, TypeOK
<1>5. /\ new.at = "fork" /\ new.fn = f /\ new.pending = {} /\ new.files = n
      /\ new.stdout = proc[p].stdout /\ new.ran = proc[p].ran /\ new.status = proc[p].status
  BY DEF ProcessInv, TypeOK, Process
<1> HIDE DEF new
<1>6. (Flushed /\ Redirected /\ Alive /\ Opened)'
  BY <1>1, <1>5 DEF ProcessInv, Flushed, Redirected, Alive, Opened, At
<1>7. Children'
  BY <1>1, <1>5 DEF ProcessInv, Children, Succeeded, At
<1>8. proc[p].stdout = "tty"
  BY DEF ProcessInv, TypeOK, Process, Redirected, At
<1>9. WrittenOnce'
  BY <1>1, <1>5, <1>8, FlushKeeps DEF ProcessInv, FlushAndFork
<1> QED BY <1>4, <1>6, <1>7, <1>9 DEF ProcessInv

\* A text is printed once: it goes to the buffer of the process that prints it.
LEMMA PrintKeeps ==
  ASSUME ProcessInv, NEW p \in Pid, NEW t \in Token, print(p, t)
  PROVE  ProcessInv'
<1> DEFINE new == [proc[p] EXCEPT !.pending = @ \cup {t}]
<1>1. \A q \in Pid : proc'[q] = IF q = p THEN new ELSE proc[q]
  BY DEF print, ProcessInv, TypeOK
<1>2. new \in Process
  BY DEF ProcessInv, TypeOK, Process
<1>3. TypeOK'
  BY <1>1, <1>2 DEF print, ProcessInv, TypeOK
<1>4. /\ new.at = proc[p].at /\ new.fn = proc[p].fn /\ new.pending = proc[p].pending \cup {t}
      /\ new.stdout = proc[p].stdout /\ new.ran = proc[p].ran /\ new.status = proc[p].status
      /\ new.child = proc[p].child /\ new.ret = proc[p].ret /\ new.files = proc[p].files
  BY DEF ProcessInv, TypeOK, Process
<1> HIDE DEF new
<1>5. (Flushed /\ Redirected /\ Alive /\ Opened)'
  BY <1>1, <1>4 DEF ProcessInv, Flushed, Redirected, Alive, Opened, At, print
<1>6. Children'
  BY <1>1, <1>4 DEF ProcessInv, Children, Succeeded, At
<1>7. \A u : Shown(u)' = Shown(u)
  BY DEF print, Shown
<1>8. \A u \in Token : Pending(u)' = IF u = t THEN Pending(t) \cup {p} ELSE Pending(u)
  BY <1>1, <1>4 DEF Pending
<1>9. Pending(t) = {} /\ Shown(t) = {}
  BY DEF print, ProcessInv, WrittenOnce
<1>10. WrittenOnce'
  BY <1>7, <1>8, <1>9 DEF print, ProcessInv, WrittenOnce
<1> QED BY <1>3, <1>5, <1>6, <1>10 DEF ProcessInv

\* fork: the child is a copy of the caller, with an empty buffer.  A process that
\* is free is nobody's child yet, and the one that forks is nobody's in do_exec.
LEMMA ForkKeeps ==
  ASSUME ProcessInv, NEW p \in Pid, fork(p)
  PROVE  ProcessInv'
<1> DEFINE place == IF proc[p].fn = "redirect" THEN "dup2" ELSE "execv"
           new   == [proc[p] EXCEPT !.at = place, !.child = None, !.ret = FALSE]
<1>0. PICK c \in Pid :
      /\ At(c, "free")
      /\ proc' = [proc EXCEPT ![p].at = "wait", ![p].child = c, ![c] = new]
  BY DEF fork
<1> DEFINE par == [proc[p] EXCEPT !.at = "wait", !.child = c]
<1>1. At(p, "fork") /\ c # p /\ At(c, "free") /\ UNCHANGED <<printed, shown>>
  BY <1>0 DEF fork, At
<1>2. \A q \in Pid : proc'[q] = IF q = p THEN par ELSE IF q = c THEN new ELSE proc[q]
  BY <1>0, <1>1 DEF ProcessInv, TypeOK
<1>3. par \in Process /\ new \in Process
  BY ProcessAssumption DEF ProcessInv, TypeOK, Process
<1>4. TypeOK'
  BY <1>0, <1>1, <1>2, <1>3 DEF ProcessInv, TypeOK
<1>5. /\ par.at = "wait" /\ par.fn = proc[p].fn /\ par.pending = proc[p].pending
      /\ par.stdout = proc[p].stdout /\ par.ran = proc[p].ran /\ par.status = proc[p].status
      /\ par.child = c /\ par.files = proc[p].files
  BY DEF ProcessInv, TypeOK, Process
<1>6. /\ new.at = place /\ new.fn = proc[p].fn /\ new.pending = proc[p].pending
      /\ new.stdout = proc[p].stdout /\ new.ran = proc[p].ran /\ new.status = proc[p].status
      /\ new.files = proc[p].files
  BY DEF ProcessInv, TypeOK, Process
<1> HIDE DEF new, par
<1> place \in {"dup2", "execv"} /\ (place = "dup2" <=> proc[p].fn = "redirect")
  OBVIOUS
<1> HIDE DEF place
<1>7. /\ proc[p].fn # "none" /\ proc[p].fn = "redirect" => proc[p].files > 0
      /\ proc[p].stdout # "file" /\ proc[p].status = "none"
      /\ proc[p].pending = {} /\ proc[c].pending = {}
  BY <1>1 DEF ProcessInv, Flushed, Redirected, Alive, Opened, At
<1>8. (Flushed /\ Redirected /\ Alive /\ Opened)'
  BY <1>1, <1>2, <1>5, <1>6, <1>7 DEF ProcessInv, Flushed, Redirected, Alive, Opened, At
<1>9. Children'
  BY <1>1, <1>2, <1>5, <1>6, <1>7 DEF ProcessInv, Children, Succeeded, At
<1>10. WrittenOnce'
  BY <1>1, <1>2, <1>5, <1>6, <1>7, BuffersKept DEF ProcessInv
<1> QED BY <1>4, <1>8, <1>9, <1>10 DEF ProcessInv

\* The child on its way into the command, and the command's end.
LEMMA ChildKeeps ==
  ASSUME ProcessInv, NEW p \in Pid, dup2(p) \/ execv(p) \/ command_ends(p)
  PROVE  ProcessInv'
<1>1. CASE dup2(p)
  <2>0. proc[p].at = "dup2"
    BY <1>1 DEF dup2, At
  <2> DEFINE new == [proc[p] EXCEPT !.at = "execv", !.stdout = "file", !.files = @ - 1]
  <2>1. \A q \in Pid : proc'[q] = IF q = p THEN new ELSE proc[q]
    BY <1>1 DEF dup2, ProcessInv, TypeOK
  <2>2. proc[p].files \in 0 .. MaxFiles /\ proc[p].files > 0 /\ proc[p].status = "none"
    BY <1>1 DEF dup2, ProcessInv, TypeOK, Process, Opened, Alive, At
  <2>3. new \in Process
    <3>1. ASSUME NEW n \in 0 .. MaxFiles, NEW o \in {"tty", "file"}
          PROVE  [proc[p] EXCEPT !.at = "execv", !.stdout = o, !.files = n] \in Process
      BY DEF ProcessInv, TypeOK, Process
    <3>2. proc[p].files - 1 \in 0 .. MaxFiles
      BY <2>2, ProcessAssumption
    <3>3. "file" \in {"tty", "file"}
      OBVIOUS
    <3> QED BY <3>1, <3>2, <3>3
  <2>4. TypeOK'
    BY <1>1, <2>1, <2>3 DEF dup2, ProcessInv, TypeOK
  <2>5. /\ new.at = "execv" /\ new.fn = proc[p].fn /\ new.pending = proc[p].pending
        /\ new.ran = proc[p].ran /\ new.status = proc[p].status
    BY DEF ProcessInv, TypeOK, Process
  <2> HIDE DEF new
  <2>6. (Flushed /\ Redirected /\ Alive /\ Opened)'
    BY <2>0, <2>1, <2>2, <2>5 DEF ProcessInv, Flushed, Redirected, Alive, Opened, At
  <2>7. Children'
    BY <2>0, <2>1, <2>2, <2>5 DEF ProcessInv, Children, Succeeded, At
  <2>8. WrittenOnce'
    BY <1>1, <2>1, <2>5, BuffersKept DEF dup2, ProcessInv
  <2> QED BY <2>4, <2>6, <2>7, <2>8 DEF ProcessInv
<1>2. CASE execv(p)
  <2>0. proc[p].at = "execv"
    BY <1>2 DEF execv, At
  <2> DEFINE new == [proc[p] EXCEPT !.at = "command", !.ran = TRUE, !.pending = {}]
  <2>1. \A q \in Pid : proc'[q] = IF q = p THEN new ELSE proc[q]
    BY <1>2 DEF execv, ProcessInv, TypeOK
  <2>2. new \in Process
    <3>1. proc[p] \in Process
      BY DEF ProcessInv, TypeOK
    <3> QED BY <3>1, Zenon DEF Process
  <2>3. TypeOK'
    BY <1>2, <2>1, <2>2 DEF execv, ProcessInv, TypeOK
  <2>4. /\ new.at = "command" /\ new.fn = proc[p].fn /\ new.pending = {}
        /\ new.ran = TRUE /\ new.status = proc[p].status
    BY DEF ProcessInv, TypeOK, Process
  <2> HIDE DEF new
  <2>5. (Flushed /\ Redirected /\ Alive /\ Opened)'
    BY <2>0, <2>1, <2>4 DEF ProcessInv, Flushed, Redirected, Alive, Opened, At
  <2>6. Children'
    BY <2>0, <2>1, <2>4 DEF ProcessInv, Children, Succeeded, At
  <2>7. proc[p].pending = {}
    BY <1>2 DEF execv, ProcessInv, Flushed, At
  <2>8. WrittenOnce'
    BY <1>2, <2>1, <2>4, <2>7, BuffersKept DEF execv, ProcessInv
  <2> QED BY <2>3, <2>5, <2>6, <2>8 DEF ProcessInv
<1>3. CASE command_ends(p)
  <2>0. proc[p].at = "command"
    BY <1>3 DEF command_ends, At
  <2>9. PICK s \in {"0", "1", "signal"} : proc' = [proc EXCEPT ![p].at = "exited", ![p].status = s]
    BY <1>3 DEF command_ends
  <2> DEFINE new == [proc[p] EXCEPT !.at = "exited", !.status = s]
  <2>1. \A q \in Pid : proc'[q] = IF q = p THEN new ELSE proc[q]
    BY <2>9 DEF ProcessInv, TypeOK
  <2>2. new \in Process
    <3>1. s \in {"none", "0", "1", "signal"}
      OBVIOUS
    <3> QED BY <3>1 DEF ProcessInv, TypeOK, Process
  <2>3. TypeOK'
    BY <1>3, <2>1, <2>2 DEF command_ends, ProcessInv, TypeOK
  <2>4. /\ new.at = "exited" /\ new.fn = proc[p].fn /\ new.pending = proc[p].pending
        /\ new.ran = proc[p].ran /\ new.status = s
    BY DEF ProcessInv, TypeOK, Process
  <2> HIDE DEF new
  <2>5. (Flushed /\ Redirected /\ Alive /\ Opened)'
    BY <2>0, <2>1, <2>4 DEF ProcessInv, Flushed, Redirected, Alive, Opened, At
  <2>6. Children'
    BY <2>0, <2>1, <2>4 DEF ProcessInv, Children, Succeeded, Alive, At
  <2>7. WrittenOnce'
    BY <1>3, <2>1, <2>4, BuffersKept DEF command_ends, ProcessInv
  <2> QED BY <2>3, <2>5, <2>6, <2>7 DEF ProcessInv
<1> QED BY <1>1, <1>2, <1>3

\* waitpid hands over the status of the process's own child, and of no other.
LEMMA WaitKeeps ==
  ASSUME ProcessInv, NEW p \in Pid, waitpid(p)
  PROVE  ProcessInv'
<1>0. PICK c \in Pid :
      WaitsFor(p, c) /\ proc' = [proc EXCEPT ![p] = Result(p, c), ![c].at = "reaped"]
  BY DEF waitpid
<1> DEFINE ok  == proc[c].status = "0"
           par == Result(p, c)
           new == [proc[c] EXCEPT !.at = "reaped"]
<1>1. At(p, "wait") /\ At(c, "exited") /\ c = proc[p].child /\ c # p /\ UNCHANGED <<printed, shown>>
  BY <1>0 DEF waitpid, WaitsFor, At
<1>2. \A q \in Pid : proc'[q] = IF q = p THEN par ELSE IF q = c THEN new ELSE proc[q]
  BY <1>0, <1>1 DEF ProcessInv, TypeOK
<1>3. par \in Process /\ new \in Process
  <2>1. proc[p] \in Process /\ proc[c] \in Process
    BY DEF ProcessInv, TypeOK
  <2>2. new \in Process
    BY <2>1 DEF Process
  <2>3. CASE ok
    BY <2>1, <2>3, Zenon DEF Result, Process
  <2>4. CASE ~ok
    <3>1. None \in Pid \cup {None}
      OBVIOUS
    <3> QED BY <2>1, <2>4, <3>1, Zenon DEF Result, Process
  <2> QED BY <2>2, <2>3, <2>4
<1>4. TypeOK'
  <2>1. proc' = [q \in Pid |-> proc'[q]]
    BY <1>0 DEF ProcessInv, TypeOK
  <2> QED BY <2>1, <1>1, <1>2, <1>3 DEF ProcessInv, TypeOK
<1>5. /\ par.at = "user" /\ par.pending = proc[p].pending
      /\ par.stdout = proc[p].stdout /\ par.ran = proc[p].ran /\ par.status = proc[p].status
      /\ par.fn = IF ok THEN proc[p].fn ELSE "none"
      /\ par.child = IF ok THEN c ELSE None
  BY <1>1 DEF ProcessInv, TypeOK, Process, Result
<1>6. /\ new.at = "reaped" /\ new.fn = proc[c].fn /\ new.pending = proc[c].pending
      /\ new.stdout = proc[c].stdout /\ new.ran = proc[c].ran /\ new.status = proc[c].status
  BY DEF ProcessInv, TypeOK, Process
<1> HIDE DEF new, par
<1>7. (Flushed /\ Redirected /\ Alive /\ Opened)'
  BY <1>1, <1>2, <1>5, <1>6 DEF ProcessInv, Flushed, Redirected, Alive, Opened, At
<1>8. Children'
  BY <1>1, <1>2, <1>5, <1>6 DEF ProcessInv, Children, Succeeded, At
<1>9. WrittenOnce'
  BY <1>1, <1>2, <1>5, <1>6, BuffersKept DEF ProcessInv
<1> QED BY <1>4, <1>7, <1>8, <1>9 DEF ProcessInv

\* The inductive invariant of the processes, for any number of them: who executes
\* the caller's code, where a text is on its way out, and what a call knows of its child.
THEOREM ProcessInvariant == Spec => []ProcessInv
<1>1. Init => ProcessInv
  <2> SUFFICES ASSUME Init PROVE ProcessInv
    OBVIOUS
  <2> DEFINE first == [Fresh EXCEPT !.at = "user"]
  <2>1. \A q \in Pid : proc[q] = IF q = Root THEN first ELSE Fresh
    BY DEF Init
  <2>2. Fresh \in Process /\ first \in Process
    <3>1. Fresh \in Process
      BY ProcessAssumption DEF Fresh, Process
    <3> QED BY <3>1 DEF Process
  <2>3. TypeOK
    BY <2>2 DEF Init, TypeOK
  <2>4. /\ Fresh.at = "free" /\ Fresh.fn = "none" /\ Fresh.pending = {}
        /\ Fresh.stdout = "tty" /\ Fresh.status = "none" /\ Fresh.ret = FALSE
        /\ first.at = "user" /\ first.fn = "none" /\ first.pending = {}
        /\ first.stdout = "tty" /\ first.status = "none" /\ first.ret = FALSE
    BY DEF Fresh
  <2> HIDE DEF first
  <2>5. Flushed /\ Redirected /\ Alive /\ Opened /\ Children
    BY <2>1, <2>4 DEF Flushed, Redirected, Alive, Opened, Children, Succeeded, At
  <2>6. WrittenOnce
    BY <2>1, <2>4 DEF Init, WrittenOnce, Pending, Shown
  <2> QED BY <2>3, <2>5, <2>6 DEF ProcessInv
<1>2. ProcessInv /\ [Next]_vars => ProcessInv'
  <2> SUFFICES ASSUME ProcessInv, [Next]_vars PROVE ProcessInv'
    OBVIOUS
  <2>1. CASE UNCHANGED vars
    BY <2>1 DEF vars, ProcessInv, TypeOK, Flushed, Redirected, Alive, Opened, Children, WrittenOnce,
       Succeeded, Pending, Shown, At
  <2>2. ASSUME NEW p \in Pid, Step(p) PROVE ProcessInv'
    <3>1. CASE fork_failed(p)
      BY <3>1, ExitKeeps, ReturnKeeps DEF fork_failed, At
    <3>2. CASE dup2_failed(p)
      BY <3>2, ReturnKeeps DEF dup2_failed, At
    <3>3. CASE execv_failed(p)
      BY <3>3, ExitKeeps DEF execv_failed, At
    <3> QED BY <2>2, <3>1, <3>2, <3>3, ForkKeeps, ChildKeeps, WaitKeeps DEF Step
  <2>3. ASSUME NEW p \in Pid, Caller(p) PROVE ProcessInv'
    <3>1. CASE \E t \in Token : print(p, t)
      BY <3>1, PrintKeeps
    <3>2. CASE \E s \in {"0", "1"} : main_returns(p, s)
      BY <3>2, ExitKeeps DEF main_returns, At
    <3>3. CASE do_system(p) \/ creat_failed(p)
      BY <3>3, ReturnKeeps DEF do_system, creat_failed, At
    <3>4. proc[p].files \in 0 .. MaxFiles
      BY DEF ProcessInv, TypeOK, Process
    <3>5. CASE do_exec(p)
      BY <3>4, <3>5, FlushAndForkKeeps DEF do_exec
    <3>6. CASE do_exec_redirect(p)
      <4>1. proc[p].files + 1 \in 0 .. MaxFiles /\ proc[p].files + 1 > 0
        BY <3>4, <3>6, ProcessAssumption DEF do_exec_redirect
      <4> QED BY <3>6, <4>1, FlushAndForkKeeps DEF do_exec_redirect
    <3> QED BY <2>3, <3>1, <3>2, <3>3, <3>5, <3>6 DEF Caller
  <2>4. ASSUME NEW p \in Pid, command_ends(p) \/ waitpid_failed(p) PROVE ProcessInv'
    BY <2>4, ChildKeeps, ReturnKeeps DEF waitpid_failed, At
  <2> QED BY <2>1, <2>2, <2>3, <2>4 DEF Next
<1> QED BY <1>1, <1>2, PTL DEF Spec

\* A call of do_exec or do_exec_redirect that returned true saw its own command
\* exit with 0, or a child that dup2 sent back into the caller's code do so.
THEOREM TrueMeansRanCorrect == Spec => []TrueMeansRan
<1>1. ProcessInv => TrueMeansRan
  BY DEF ProcessInv, TypeOK, Process, Redirected, Children, Succeeded, TrueMeansRan, CameBack, At
<1> QED BY <1>1, ProcessInvariant, PTL

\* What the caller prints is written out once, and never into a command's file,
\* however many copies of the caller there are.
THEOREM OutputOnceCorrect == Spec => []OutputOnce
<1>1. ProcessInv => OutputOnce
  <2> SUFFICES ASSUME ProcessInv PROVE OutputOnce
    OBVIOUS
  <2>1. ASSUME NEW t \in printed PROVE Copies(t) = 1
    <3>1. CASE (\E p \in Pid : Pending(t) = {p}) /\ Shown(t) = {}
      <4>1. Cardinality(Pending(t)) = 1 /\ Cardinality(Shown(t)) = 0
        BY <3>1, FS_Singleton, FS_EmptySet, Zenon
      <4> QED BY <4>1 DEF Copies
    <3>2. CASE Pending(t) = {} /\ \E o \in shown : Shown(t) = {o}
      <4>1. Cardinality(Pending(t)) = 0 /\ Cardinality(Shown(t)) = 1
        BY <3>2, FS_Singleton, FS_EmptySet, Zenon
      <4> QED BY <4>1 DEF Copies
    <3> QED BY <3>1, <3>2 DEF ProcessInv, TypeOK, WrittenOnce
  <2> QED BY <2>1 DEF OutputOnce, ProcessInv, WrittenOnce
<1> QED BY <1>1, ProcessInvariant, PTL
===============================================================================

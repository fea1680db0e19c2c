----------------------------- MODULE SystemCalls ------------------------------
(***************************************************************************)
(* examples/systemcalls/systemcalls.c: do_system, do_exec and              *)
(* do_exec_redirect, called any number of times by a program.  Parent and  *)
(* child are processes of their own from fork on; a child is a copy of its *)
(* parent, and nothing but execv or exit keeps it from going on with the   *)
(* caller's code.                                                          *)
(*                                                                         *)
(* The caller, external: it prints, calls the three functions, and exits.  *)
(* What it prints stays in the stdio buffer of its process until fflush or *)
(* exit writes it out; fork copies that buffer.                            *)
(***************************************************************************)
EXTENDS Integers, FiniteSets

CONSTANTS
  Pid, Root, None,   \* processes, the first one, and no process
  Token,             \* the texts printed, each once
  MaxFiles           \* descriptors a process may have open (RLIMIT_NOFILE)

ASSUME ProcessAssumption == Root \in Pid /\ None \notin Pid /\ MaxFiles \in Nat

VARIABLES
  proc,      \* each process
  printed,   \* the texts printed so far
  shown      \* those written out, where to and by whom

vars == <<proc, printed, shown>>

Process ==
  [at      : {"free", "user", "fork", "dup2", "execv", "command", "wait", "exited", "reaped"},
   fn      : {"none", "exec", "redirect"},  \* the call it is in, or that returned true last
   child   : Pid \cup {None},               \* the child of that call
   ret     : BOOLEAN,                       \* what the last call returned
   pending : SUBSET Token,                  \* the stdio buffer
   stdout  : {"tty", "file"},
   files   : 0 .. MaxFiles,                 \* output files it has open
   ran     : BOOLEAN,                       \* execv replaced its program
   status  : {"none", "0", "1", "signal"}]

Fresh == [at |-> "free", fn |-> "none", child |-> None, ret |-> FALSE, pending |-> {},
          stdout |-> "tty", files |-> 0, ran |-> FALSE, status |-> "none"]

Init ==
  /\ proc = [p \in Pid |-> IF p = Root THEN [Fresh EXCEPT !.at = "user"] ELSE Fresh]
  /\ printed = {}
  /\ shown = {}

At(p, place) == proc[p].at = place

\* fflush(stdout); exit does it, too.
fflush(p) ==
  shown' = shown \cup [token : proc[p].pending, sink : {proc[p].stdout}, by : {p}]

\* Mutant: nothing is flushed.
FlushNothing(p, place, f, files) ==
  /\ proc' = [proc EXCEPT ![p].at = place, ![p].fn = f, ![p].files = files]
  /\ UNCHANGED <<printed, shown>>

\* Flush, then go on to fork.
FlushAndFork(p, place, f, files) ==
  /\ proc' = [proc EXCEPT ![p].at = place, ![p].fn = f, ![p].files = files, ![p].pending = {}]
  /\ fflush(p)
  /\ UNCHANGED printed

Returns(p, r) ==
  /\ proc' = [proc EXCEPT ![p].at = "user", ![p].fn = "none", ![p].child = None, ![p].ret = r]
  /\ UNCHANGED <<printed, shown>>

exit(p, status) ==
  /\ proc' = [proc EXCEPT ![p].at = "exited", ![p].status = status, ![p].pending = {}]
  /\ fflush(p)
  /\ UNCHANGED printed
-------------------------------------------------------------------------------
(* The caller.                                                             *)

print(p, t) ==
  /\ At(p, "user") /\ t \notin printed
  /\ printed' = printed \cup {t}
  /\ proc' = [proc EXCEPT ![p].pending = @ \cup {t}]
  /\ UNCHANGED shown

main_returns(p, status) == At(p, "user") /\ exit(p, status)

\* system() forks, runs a shell and waits by itself.
do_system(p) ==
  /\ At(p, "user")
  /\ \E result \in {-1, 0, 1} : Returns(p, result = 0)
-------------------------------------------------------------------------------
(* do_exec and do_exec_redirect.                                           *)

do_exec(p) == At(p, "user") /\ FlushAndFork(p, "fork", "exec", proc[p].files)

do_exec_redirect(p) ==
  /\ At(p, "user")
  /\ proc[p].files < MaxFiles
  /\ FlushAndFork(p, "fork", "redirect", proc[p].files + 1)

\* Mutant: the result of creat is not looked at.
CreatUnchecked(p) ==
  At(p, "user") /\ FlushAndFork(p, "fork", "redirect", proc[p].files)

\* creat fails, for want of descriptors or another reason.
creat_failed(p) == At(p, "user") /\ Returns(p, FALSE)

fork(p) ==
  /\ At(p, "fork")
  /\ \E c \in {q \in Pid : At(q, "free")} :
       proc' = [proc EXCEPT
         ![p].at = "wait", ![p].child = c,
         ![c] = [proc[p] EXCEPT !.at = IF proc[p].fn = "redirect" THEN "dup2" ELSE "execv",
                                !.child = None, !.ret = FALSE]]
  /\ UNCHANGED <<printed, shown>>

\* do_exec leaves the program, and its exit(false) is exit(0).
fork_failed(p) ==
  /\ At(p, "fork")
  /\ \/ proc[p].fn = "exec" /\ exit(p, "0")
     \/ proc[p].fn = "redirect" /\ Returns(p, FALSE)

\* The child's standard output becomes the file, and fd is closed.
dup2(p) ==
  /\ At(p, "dup2")
  /\ proc' = [proc EXCEPT ![p].at = "execv", ![p].stdout = "file", ![p].files = @ - 1]
  /\ UNCHANGED <<printed, shown>>

\* The child returns: from here on it executes the caller's code as well.
dup2_failed(p) == At(p, "dup2") /\ Returns(p, FALSE)

execv(p) ==
  /\ At(p, "execv")
  /\ proc' = [proc EXCEPT ![p].at = "command", ![p].ran = TRUE, ![p].pending = {}]
  /\ UNCHANGED <<printed, shown>>

\* Mutant: the child does not exit; waitpid(0) fails, and it returns.
ExecFailedReturns(p) == At(p, "execv") /\ Returns(p, FALSE)

execv_failed(p) == At(p, "execv") /\ exit(p, "1")

\* The command, external.
command_ends(p) ==
  /\ At(p, "command")
  /\ \E s \in {"0", "1", "signal"} : proc' = [proc EXCEPT ![p].at = "exited", ![p].status = s]
  /\ UNCHANGED <<printed, shown>>

\* Mutant: wait for any child that was left behind.
WaitForAny(p, c) == c # Root /\ At(c, "exited")

WaitsFor(p, c) == c = proc[p].child /\ At(c, "exited")

\* True exactly when the child exited, by itself, with 0.
Result(p, c) ==
  IF proc[c].status = "0"
  THEN [proc[p] EXCEPT !.at = "user", !.ret = TRUE]
  ELSE [proc[p] EXCEPT !.at = "user", !.ret = FALSE, !.fn = "none", !.child = None]

waitpid(p) ==
  /\ At(p, "wait")
  /\ \E c \in Pid :
       /\ WaitsFor(p, c)
       /\ proc' = [proc EXCEPT ![p] = Result(p, c), ![c].at = "reaped"]
  /\ UNCHANGED <<printed, shown>>

\* Interrupted by a signal; the child is left behind.
waitpid_failed(p) == At(p, "wait") /\ Returns(p, FALSE)
-------------------------------------------------------------------------------
\* What the functions do, and what is up to the caller and the commands.
Step(p) ==
  fork(p) \/ fork_failed(p) \/ dup2(p) \/ dup2_failed(p) \/ execv(p) \/ execv_failed(p)
  \/ waitpid(p)

Caller(p) ==
  \/ \E t \in Token : print(p, t)
  \/ \E s \in {"0", "1"} : main_returns(p, s)
  \/ do_system(p) \/ do_exec(p) \/ do_exec_redirect(p) \/ creat_failed(p)

Next == \E p \in Pid : Step(p) \/ Caller(p) \/ command_ends(p) \/ waitpid_failed(p)

Spec == Init /\ [][Next]_vars /\ \A p \in Pid : WF_vars(Step(p))
-------------------------------------------------------------------------------
Output == [token : Token, sink : {"tty", "file"}, by : Pid]

TypeOK ==
  /\ proc \in [Pid -> Process]
  /\ printed \subseteq Token
  /\ shown \subseteq Output

\* The child p forked in do_exec_redirect has come back from it.
CameBack(p) ==
  LET c == proc[p].child
  IN  proc[p].fn = "redirect" /\ proc[c].stdout = "tty" /\ ~At(c, "dup2")

\* A call of do_exec or do_exec_redirect that returns true has seen its own
\* command run and exit with 0, also after an earlier call was interrupted
\* and left its child behind; or its child failed in dup2, went on as a
\* second copy of the caller, and that copy exited with 0.
TrueMeansRan ==
  \A p \in Pid :
    At(p, "user") /\ proc[p].ret /\ proc[p].fn \in {"exec", "redirect"} =>
      LET c == proc[p].child
      IN  proc[c].status = "0" /\ (proc[c].ran \/ CameBack(p))

\* What the caller prints is written out once, and not into the file of a
\* redirected command, however many copies of the caller there are and
\* whichever of them exits: the fflush before fork leaves nothing to copy.
Pending(t) == {p \in Pid : t \in proc[p].pending}
Shown(t)   == {o \in shown : o.token = t}
Copies(t)  == Cardinality(Pending(t)) + Cardinality(Shown(t))
OutputOnce ==
  /\ \A t \in printed : Copies(t) = 1
  /\ \A o \in shown : o.sink = "tty"

\* The inductive invariant behind the two.  Only a process that executes the
\* caller's code has anything in its stdio buffer, and its standard output is never
\* the file; a text is in one buffer or has been written out once; the child a
\* call waits for, or has seen exit, exists, and that of do_exec never comes back.
Flushed    == \A p \in Pid : ~At(p, "user") => proc[p].pending = {}
Redirected ==
  \A p \in Pid : proc[p].stdout = "file" =>
    /\ proc[p].at \in {"execv", "command", "exited", "reaped"}
    /\ proc[p].status = "0" => proc[p].ran
Alive      ==
  \A p \in Pid :
    /\ proc[p].at \notin {"exited", "reaped"} => proc[p].status = "none"
    /\ At(p, "command") => proc[p].ran
Opened     ==
  \A p \in Pid :
    /\ proc[p].at \in {"fork", "wait"} => proc[p].fn # "none"
    /\ At(p, "fork") /\ proc[p].fn = "redirect" => proc[p].files > 0
    /\ At(p, "dup2") => proc[p].files > 0
Succeeded(p) == At(p, "user") /\ proc[p].ret /\ proc[p].fn # "none"
Children   ==
  \A p \in Pid : At(p, "wait") \/ Succeeded(p) =>
    LET c == proc[p].child
    IN  /\ c \in Pid /\ ~At(c, "free")
        /\ proc[p].fn = "exec" =>
             /\ proc[c].at \in {"execv", "command", "exited", "reaped"}
             /\ proc[c].status = "0" => proc[c].ran
        /\ Succeeded(p) => proc[c].at \in {"exited", "reaped"} /\ proc[c].status = "0"
WrittenOnce ==
  /\ \A t \in Token :
       IF t \in printed
       THEN \/ (\E p \in Pid : Pending(t) = {p}) /\ Shown(t) = {}
            \/ Pending(t) = {} /\ \E o \in shown : Shown(t) = {o}
       ELSE Pending(t) = {} /\ Shown(t) = {}
  /\ \A o \in shown : o.sink = "tty"

ProcessInv ==
  TypeOK /\ Flushed /\ Redirected /\ Alive /\ Opened /\ Children /\ WrittenOnce

\* If commands end, waitpid does, unless it waits for a child that has come
\* back and may go on with the caller's code for as long as it likes.
CommandsEnd == \A p \in Pid : WF_vars(command_ends(p))
WaitEnds ==
  CommandsEnd => \A p \in Pid : At(p, "wait") ~> (~At(p, "wait") \/ CameBack(p))
===============================================================================

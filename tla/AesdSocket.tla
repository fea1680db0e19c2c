------------------------------ MODULE AesdSocket ------------------------------
(***************************************************************************)
(* The socket server, server/aesdsocket.c: the main thread that accepts    *)
(* connections, keeps the list of their threads and joins them, and one    *)
(* thread per connection.  Shared: the list elements, file_mutex and the   *)
(* flag the signal handler sets.                                           *)
(*                                                                         *)
(* A connection stands for its list element, its accepted socket and its   *)
(* thread.  What is read and written is left to a composition with the     *)
(* device; here a system call on the device succeeds or fails.  A thread   *)
(* step ends where another thread can notice: at lock and unlock, at a     *)
(* call that can block, and where thread_complete is set.                  *)
(*                                                                         *)
(* External: Linux hands a signal sent to the process to its main thread;  *)
(* a write to a socket the client has reset raises SIGPIPE, which nobody   *)
(* handles; freeing an uninitialised pointer, or joining a thread that was *)
(* never created, either goes unnoticed or ends the process.               *)
(***************************************************************************)
EXTENDS Naturals, Sequences, SequencesExt

CONSTANTS
  Conn,     \* the connections that may be accepted
  NULL      \* no connection: the owner of a free mutex

ASSUME ConnAssumption == NULL \notin Conn /\ "destroyed" \notin Conn

VARIABLES
  main,           \* where the main thread is
  datap,          \* the connection it is taking in
  head,           \* the list, as the sequence of its elements
  elem,           \* position in the list of the element main is looking at
  caught_signal,
  killed,         \* the process died
  file_mutex,     \* its owner, "destroyed" at the end
  thread,         \* where each connection's thread is
  thread_complete, \* its flag in the list element
  joined,         \* the connections whose thread has been joined
  acceptedsocket, \* "none", "open", "closed", or "twice" for a second close
  file_fd,        \* likewise
  file_buffer     \* "uninit" until calloc

list  == <<head, elem, joined>>
owned == <<acceptedsocket, file_fd, file_buffer>>
vars  == <<main, datap, list, caught_signal, killed, file_mutex, thread, thread_complete, owned>>

Set(var, c, v) == [var EXCEPT ![c] = v]
Close(x)       == IF x = "open" THEN "closed" ELSE "twice"

Running == ~killed /\ main \notin {"start", "failed", "exited"}

Init ==
  /\ main = "start"
  /\ datap = NULL
  /\ head = << >>
  /\ elem = 1
  /\ caught_signal = FALSE
  /\ killed = FALSE
  /\ file_mutex = NULL
  /\ thread = [c \in Conn |-> "none"]
  /\ thread_complete = [c \in Conn |-> FALSE]
  /\ joined = {}
  /\ acceptedsocket = [c \in Conn |-> "none"]
  /\ file_fd = [c \in Conn |-> "none"]
  /\ file_buffer = [c \in Conn |-> "uninit"]
-------------------------------------------------------------------------------
(* The main thread.  SLIST_REMOVE of the element being looked at makes the *)
(* next one, which SLIST_FOREACH_SAFE goes on with, slide into its place.  *)

Main(from, to) == Running /\ main = from /\ main' = to

\* Everything before the loop; init_socket, daemon or listen may fail, and
\* then main returns.
startup ==
  /\ main = "start"
  /\ main' \in {"malloc", "failed"}
  /\ UNCHANGED <<datap, list, caught_signal, killed, file_mutex, thread, thread_complete, owned>>

\* A malloc that fails is tried again: no step.
main_malloc ==
  /\ Main("malloc", "accept")
  /\ UNCHANGED <<datap, list, caught_signal, killed, file_mutex, thread, thread_complete, owned>>

accept(c) ==
  /\ Main("accept", "create")
  /\ acceptedsocket[c] = "none"
  /\ datap' = c
  /\ acceptedsocket' = Set(acceptedsocket, c, "open")
  /\ thread_complete' = Set(thread_complete, c, FALSE)
  /\ UNCHANGED <<list, caught_signal, killed, file_mutex, thread, file_fd, file_buffer>>

\* accept returns -1 for another reason than a signal.
accept_error ==
  /\ Main("accept", "accept_failed")
  /\ UNCHANGED <<datap, list, caught_signal, killed, file_mutex, thread, thread_complete, owned>>

\* Only here is caught_signal looked at.
accept_failed ==
  /\ Main("accept_failed", IF caught_signal THEN "cleanup" ELSE "malloc")
  /\ elem' = 1
  /\ UNCHANGED <<datap, head, joined, caught_signal, killed, file_mutex, thread,
                 thread_complete, owned>>

\* The result of pthread_create is not looked at.
create ==
  /\ Main("create", "insert")
  /\ \E result \in {"start", "never"} : thread' = Set(thread, datap, result)
  /\ UNCHANGED <<datap, list, caught_signal, killed, file_mutex, thread_complete, owned>>

SLIST_INSERT_HEAD ==
  /\ Main("insert", "scan")
  /\ head' = <<datap>> \o head
  /\ elem' = 1
  /\ UNCHANGED <<datap, joined, caught_signal, killed, file_mutex, thread, thread_complete, owned>>

AtEnd == elem > Len(head)

\* One turn of the loop that looks for threads that are through.
scan ==
  /\ Running /\ main = "scan"
  /\ \/ AtEnd /\ main' = "malloc" /\ UNCHANGED elem
     \/ ~AtEnd /\ thread_complete[head[elem]] /\ main' = "join" /\ UNCHANGED elem
     \/ ~AtEnd /\ ~thread_complete[head[elem]] /\ elem' = elem + 1 /\ UNCHANGED main
  /\ UNCHANGED <<datap, head, joined, caught_signal, killed, file_mutex, thread,
                 thread_complete, owned>>

\* Mutant: the successor is looked up after the removal, and skipped.
JoinSkipsNext ==
  /\ joined' = joined \cup {head[elem]}
  /\ head' = RemoveAt(head, elem)
  /\ elem' = elem + 1

\* Mutant: the first element is removed instead of the one that was joined.
JoinRemovesFirst ==
  /\ joined' = joined \cup {head[elem]}
  /\ head' = Tail(head)
  /\ UNCHANGED elem

\* pthread_join, then SLIST_REMOVE.
JoinElem ==
  /\ joined' = joined \cup {head[elem]}
  /\ head' = RemoveAt(head, elem)
  /\ UNCHANGED elem

join ==
  /\ Main("join", "scan")
  /\ thread[head[elem]] = "done"
  /\ JoinElem
  /\ UNCHANGED <<datap, caught_signal, killed, file_mutex, thread, thread_complete, owned>>

\* list_cleanup joins every thread of the list, one after the other.
list_cleanup ==
  /\ Main("cleanup", "cleanup")
  /\ ~AtEnd
  /\ \/ thread[head[elem]] = "done" /\ UNCHANGED killed
     \/ thread[head[elem]] = "never" /\ killed' \in BOOLEAN
  /\ JoinElem
  /\ UNCHANGED <<datap, caught_signal, file_mutex, thread, thread_complete, owned>>

\* Mutant: exit without waiting for the threads.
ExitAtOnce ==
  /\ Main("cleanup", "exited")
  /\ file_mutex' = "destroyed"
  /\ UNCHANGED <<datap, list, caught_signal, killed, thread, thread_complete, owned>>

\* Then the mutex is destroyed and the process exits, with every thread in it.
main_exit ==
  /\ Main("cleanup", "exited")
  /\ AtEnd
  /\ file_mutex' = "destroyed"
  /\ UNCHANGED <<datap, list, caught_signal, killed, thread, thread_complete, owned>>

\* SIGINT or SIGTERM.  It interrupts accept; anywhere else the flag is all.
signal_handler ==
  /\ Running
  /\ caught_signal' = TRUE
  /\ main' = IF main = "accept" THEN "accept_failed" ELSE main
  /\ UNCHANGED <<datap, list, killed, file_mutex, thread, thread_complete, owned>>
-------------------------------------------------------------------------------
(* handle_connection.                                                      *)

Thread(c, from, to) ==
  /\ Running
  /\ thread[c] = from /\ thread' = Set(thread, c, to)
  /\ UNCHANGED <<main, datap, list, caught_signal>>

CloseBoth(c) ==
  /\ acceptedsocket' = Set(acceptedsocket, c, Close(acceptedsocket[c]))
  /\ file_fd' = Set(file_fd, c, Close(file_fd[c]))

\* No buffer, or no device: the socket is closed and the thread is through.
start_failed(c) ==
  /\ Thread(c, "start", "returning")
  /\ acceptedsocket' = Set(acceptedsocket, c, Close(acceptedsocket[c]))
  /\ thread_complete' = Set(thread_complete, c, TRUE)
  /\ UNCHANGED <<killed, file_mutex, file_fd, file_buffer>>

start(c) ==
  /\ Thread(c, "start", "recv")
  /\ file_fd' = Set(file_fd, c, "open")
  /\ UNCHANGED <<killed, file_mutex, thread_complete, acceptedsocket, file_buffer>>

\* A chunk that ends in a newline.  A chunk that is a seek command, or does not end
\* in a newline and is forgotten, leaves the thread waiting for the next: no step.
recv_line(c) ==
  /\ Thread(c, "recv", "lock_write")
  /\ UNCHANGED <<killed, file_mutex, thread_complete, owned>>

\* End of file, or an error: the loop is left.
recv_end(c) ==
  /\ Thread(c, "recv", "clean_up")
  /\ UNCHANGED <<killed, file_mutex, thread_complete, owned>>

\* write_to_file: whatever fopen and fputs do, the mutex is released.
write_lock(c) ==
  /\ Thread(c, "lock_write", "write")
  /\ file_mutex = NULL /\ file_mutex' = c
  /\ UNCHANGED <<killed, thread_complete, owned>>

write_to_file(c) ==
  /\ Thread(c, "write", "lock_read")
  /\ file_mutex' = NULL
  /\ UNCHANGED <<killed, thread_complete, owned>>

read_lock(c) ==
  /\ Thread(c, "lock_read", "seek")
  /\ file_mutex = NULL /\ file_mutex' = c
  /\ UNCHANGED <<killed, thread_complete, owned>>

\* lseek to the end and to the start, and calloc.  (An lseek that fails asks
\* calloc for (size_t)-1 bytes.)
seek(c) ==
  /\ Thread(c, "seek", "read")
  /\ file_buffer' = Set(file_buffer, c, "alloc")
  /\ UNCHANGED <<killed, file_mutex, thread_complete, acceptedsocket, file_fd>>

\* read returned file_size bytes.
read(c) ==
  /\ Thread(c, "read", "send")
  /\ UNCHANGED <<killed, file_mutex, thread_complete, owned>>

\* Mutant: the error path returns with the mutex locked.
FailKeepsMutex(c, from) ==
  /\ Thread(c, from, "done")
  /\ file_buffer' = IF from = "seek" THEN file_buffer ELSE Set(file_buffer, c, "freed")
  /\ CloseBoth(c)
  /\ UNCHANGED <<killed, file_mutex, thread_complete>>

\* calloc, read or the write to the socket failed: everything is released
\* and the thread returns, but thread_complete is not set.
fail(c, from) ==
  /\ Thread(c, from, "done")
  /\ file_buffer' = IF from = "seek" THEN file_buffer ELSE Set(file_buffer, c, "freed")
  /\ CloseBoth(c)
  /\ file_mutex' = NULL
  /\ UNCHANGED <<killed, thread_complete>>

\* The reply goes out while the mutex is held.
send(c) ==
  /\ Thread(c, "send", "clean_up")
  /\ file_mutex' = NULL
  /\ UNCHANGED <<killed, thread_complete, owned>>

\* SIGPIPE.
send_killed(c) ==
  /\ Running /\ thread[c] = "send"
  /\ killed' = TRUE
  /\ UNCHANGED <<main, datap, list, caught_signal, file_mutex, thread, thread_complete, owned>>

\* Mutant: the flag is set before the thread has closed what it uses.
CleanUpFlagsFirst(c) ==
  \/ /\ Thread(c, "clean_up", "clean_up")
     /\ ~thread_complete[c]
     /\ thread_complete' = Set(thread_complete, c, TRUE)
     /\ UNCHANGED <<killed, file_mutex, owned>>
  \/ /\ Thread(c, "clean_up", "returning")
     /\ thread_complete[c]
     /\ file_buffer' = Set(file_buffer, c, "freed")
     /\ CloseBoth(c)
     /\ UNCHANGED <<killed, file_mutex, thread_complete>>

\* Mutant: the descriptor of the device stays open.
CleanUpKeepsFd(c) ==
  /\ Thread(c, "clean_up", "returning")
  /\ file_buffer' = Set(file_buffer, c, "freed")
  /\ acceptedsocket' = Set(acceptedsocket, c, Close(acceptedsocket[c]))
  /\ thread_complete' = Set(thread_complete, c, TRUE)
  /\ UNCHANGED <<killed, file_mutex, file_fd>>

\* file_buffer is freed even if no line ever made it point somewhere.
clean_up(c) ==
  /\ Thread(c, "clean_up", "returning")
  /\ IF file_buffer[c] = "uninit" THEN killed' \in BOOLEAN ELSE UNCHANGED killed
  /\ file_buffer' = Set(file_buffer, c, "freed")
  /\ CloseBoth(c)
  /\ thread_complete' = Set(thread_complete, c, TRUE)
  /\ UNCHANGED file_mutex

return(c) ==
  /\ Thread(c, "returning", "done")
  /\ UNCHANGED <<killed, file_mutex, thread_complete, owned>>
-------------------------------------------------------------------------------
\* What main does by itself, what a thread does by itself, and what needs
\* somebody outside: a client, a signal.
MainStep ==
  startup \/ main_malloc \/ accept_failed \/ create \/ SLIST_INSERT_HEAD
  \/ scan \/ join \/ list_cleanup \/ main_exit

ThreadStep(c) ==
  start_failed(c) \/ start(c) \/ write_lock(c) \/ write_to_file(c)
  \/ read_lock(c) \/ seek(c) \/ fail(c, "seek") \/ read(c) \/ fail(c, "read")
  \/ clean_up(c) \/ return(c)

ClientStep(c) ==
  accept(c) \/ recv_line(c) \/ recv_end(c)
  \/ send(c) \/ fail(c, "send") \/ send_killed(c)

Next ==
  MainStep \/ accept_error \/ signal_handler
  \/ \E c \in Conn : ThreadStep(c) \/ ClientStep(c)

Spec == Init /\ [][Next]_vars

\* Threads that can go on do.  A thread locks file_mutex twice in its life,
\* so with a bounded number of connections nobody needs a fair mutex.
FairSpec ==
  Spec /\ WF_vars(MainStep) /\ \A c \in Conn : WF_vars(ThreadStep(c))
-------------------------------------------------------------------------------
MainPlace   == {"start", "failed", "malloc", "accept", "accept_failed", "create", "insert",
                "scan", "join", "cleanup", "exited"}
InFile      == {"write", "seek", "read", "send"}
ThreadPlace == {"none", "never", "start", "recv", "lock_write", "lock_read", "clean_up",
                "returning", "done"} \cup InFile

TypeOK ==
  /\ main \in MainPlace
  /\ datap \in Conn \cup {NULL}
  /\ head \in Seq(Conn) /\ elem \in 1 .. Len(head) + 1
  /\ joined \subseteq Conn
  /\ caught_signal \in BOOLEAN /\ killed \in BOOLEAN
  /\ file_mutex \in Conn \cup {NULL, "destroyed"}
  /\ thread \in [Conn -> ThreadPlace]
  /\ thread_complete \in [Conn -> BOOLEAN]
  /\ acceptedsocket \in [Conn -> {"none", "open", "closed", "twice"}]
  /\ file_fd \in [Conn -> {"none", "open", "closed", "twice"}]
  /\ file_buffer \in [Conn -> {"uninit", "alloc", "freed"}]

\* file_mutex is held by the thread that is working on the device or sending
\* its reply, by nobody else, and no way out of handle_connection or
\* write_to_file keeps it.
MutexDiscipline == \A c \in Conn : file_mutex = c <=> thread[c] \in InFile

\* The list holds exactly the threads that were created and are still to be
\* joined, each once; so list_cleanup joins all of them and none twice.
InList(c) == \E i \in 1 .. Len(head) : head[i] = c
ListIsUnjoined ==
  /\ \A i, j \in 1 .. Len(head) : head[i] = head[j] => i = j
  /\ \A c \in Conn : InList(c) <=> /\ thread[c] # "none" /\ c \notin joined
                                   /\ ~(main = "insert" /\ datap = c)

\* When main destroys file_mutex and exits, every thread has returned.
NobodyRunsAtExit ==
  main = "exited" => \A c \in Conn : thread[c] \in {"none", "never", "done"}

\* Every way out of handle_connection closes the socket and the device, once.
ClosesOnce ==
  \A c \in Conn :
    /\ acceptedsocket[c] # "twice" /\ file_fd[c] # "twice"
    /\ thread[c] \in {"returning", "done"} => acceptedsocket[c] = "closed" /\ file_fd[c] # "open"

\* The join in the accept loop waits for a return at most: never for a
\* client or for file_mutex, whatever the threads are doing meanwhile.
JoinNeverWaits == main = "join" => thread[head[elem]] \in {"returning", "done"}

\* The inductive invariant behind these properties.  A connection is taken in
\* before it has a thread and put into the list after it has one; the loops
\* stay inside the list; the flag is set, and a join is over, when a thread has
\* nothing left to do; and what a thread has open follows from where it is.
TakenIn ==
  /\ main \in {"create", "insert"} => datap \in Conn /\ datap \notin joined
  /\ main = "create" => thread[datap] = "none" /\ acceptedsocket[datap] = "open"
  /\ main = "insert" => thread[datap] # "none"
LoopsInList ==
  /\ main = "join" => elem <= Len(head) /\ thread_complete[head[elem]]
  /\ main = "cleanup" => elem = 1
ThroughIfFlagged == \A c \in Conn : thread_complete[c] => thread[c] \in {"returning", "done"}
ThroughIfJoined  == \A c \in joined : thread[c] \in {"never", "done"}
Holds(c) == <<acceptedsocket[c], file_fd[c]>>
Resources ==
  \A c \in Conn :
    /\ thread[c] = "none" => Holds(c) \in {<<"none", "none">>, <<"open", "none">>}
    /\ thread[c] \in {"never", "start"} => Holds(c) = <<"open", "none">>
    /\ thread[c] \in InFile \cup {"recv", "lock_write", "lock_read", "clean_up"}
         => Holds(c) = <<"open", "open">>
    /\ thread[c] \in {"returning", "done"}
         => Holds(c) \in {<<"closed", "none">>, <<"closed", "closed">>}

ServerInv ==
  /\ TypeOK /\ MutexDiscipline /\ ListIsUnjoined /\ NobodyRunsAtExit
  /\ TakenIn /\ LoopsInList /\ ThroughIfFlagged /\ ThroughIfJoined /\ Resources

\* The clients' share: nobody keeps its connection silent, or its reply
\* unread, forever.
ClientsGoOn ==
  \A c \in Conn : thread[c] \in {"recv", "send"} ~> (thread[c] \notin {"recv", "send"} \/ killed)

\* Then a server that has noticed the signal exits: list_cleanup gets past
\* every thread, also those that return without setting thread_complete.
ExitsOnceNoticed == ClientsGoOn => (main = "cleanup" ~> (main = "exited" \/ killed))

\* And a thread that wants file_mutex is not kept waiting forever, though
\* replies are sent, and errors handled, with the mutex held.
MutexIsGranted ==
  ClientsGoOn => \A c \in Conn :
    thread[c] \in {"lock_write", "lock_read"} ~> (thread[c] = "done" \/ killed)

\* "Stopping aesdsocket" (aesdsocket-start-stop sends SIGTERM): the signal
\* makes the server exit.
SignalStops == ClientsGoOn => (caught_signal ~> (main = "exited" \/ killed))
===============================================================================

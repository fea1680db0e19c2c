----------------------------- MODULE DeviceServer -----------------------------
(***************************************************************************)
(* The server on its device: the connection threads of                     *)
(* server/aesdsocket.c, with the data they move, calling the driver of     *)
(* AesdChar.  The driver's actions are AesdChar's; a thread starts a       *)
(* system call with one of them and goes on when its file is back in user  *)
(* space, so that the unlocked parts of the driver interleave with the     *)
(* other threads' calls.                                                   *)
(*                                                                         *)
(* Left to AesdSocket: the main thread, the list, signals, joining.  A     *)
(* connection is accepted again once it has been closed.                   *)
(*                                                                         *)
(* External: fopen(.., "a") opens the device and seeks to its end, and     *)
(* fails if that fails; fputs and fclose make one write of what precedes   *)
(* the first zero byte, none if that is nothing.  Signals go to the main   *)
(* thread, so no wait of a connection thread is interrupted, and the       *)
(* buffers handed to the driver are valid: no copy faults.                 *)
(***************************************************************************)
EXTENDS AesdChar

CONSTANTS
  Conn,   \* the connections served at the same time
  Line    \* the chunks ending in a newline that clients send

fd(c)     == <<c, "fd">>       \* file_fd
stream(c) == <<c, "stream">>   \* the stream write_to_file opens

\* fputs stops at the first zero byte.
fputs(s) ==
  LET z == SelectInSeq(s, LAMBDA b : b = ZERO)
  IN  IF z = 0 THEN s ELSE SubSeq(s, 1, z - 1)

ASSUME ServerAssumption ==
  /\ File = {fd(c) : c \in Conn} \cup {stream(c) : c \in Conn}
  /\ Nobody \notin Conn /\ ~Faults
  /\ \A l \in Line : l \in Seq(Byte) /\ Len(l) > 0 /\ l[Len(l)] = EOL
  \* The driver's arguments include those the server's calls have.
  /\ \A l \in Line : fputs(l) \in Payload
  /\ 0 \in SeekOffset /\ {"SET", "END"} \subseteq Whence
  /\ Slot \subseteq ReadCount

VARIABLES
  thread,       \* where each connection's thread is
  buffer,       \* the line it has received
  file_size,    \* what it takes for the size of the device
  file_mutex,   \* its owner
  left          \* history: what the lines handed to the device so far leave in
                \* progress there, told from the lines alone

server == <<thread, buffer, file_size, file_mutex, left>>
dvars  == <<vars, server>>

DInit ==
  /\ Init
  /\ thread = [c \in Conn |-> "none"]
  /\ buffer = [c \in Conn |-> << >>]
  /\ file_size = [c \in Conn |-> 0]
  /\ file_mutex = Nobody
  /\ left = << >>

Thread(c, from, to) == thread[c] = from /\ thread' = [thread EXCEPT ![c] = to]
Locks(c)   == file_mutex = Nobody /\ file_mutex' = c
Unlocks    == file_mutex' = Nobody
Returned(f, R) == Calls(f) /\ frame[f].ret \in R
-------------------------------------------------------------------------------
(* handle_connection up to a line.                                         *)

\* A new connection; its thread opens the device without file_mutex.
start(c) ==
  /\ Thread(c, "none", "recv")
  /\ open(fd(c))
  /\ UNCHANGED <<buffer, file_size, file_mutex>>

\* A seek command.  A chunk that does not end in a newline is forgotten, and one
\* that is not well-formed is ignored: no step.
recv_seek(c, s) ==
  /\ Thread(c, "recv", "recv")
  /\ ioctl(fd(c), s)
  /\ UNCHANGED <<buffer, file_size, file_mutex>>

\* Bound: the bytes in dev->entry or on their way there.
Unwritten == {c \in Conn : thread[c] \in {"lock_write", "append", "fputs", "fclose"}}
Staged    == entry.size + MapThenSumSet(LAMBDA c : Len(fputs(buffer[c])), Unwritten)

recv_line(c, l) ==
  /\ Thread(c, "recv", "lock_write") /\ Calls(fd(c))
  /\ Staged + Len(fputs(l)) <= MaxStaged
  /\ buffer' = [buffer EXCEPT ![c] = l]
  /\ UNCHANGED <<file_size, file_mutex, vars>>

recv_end(c) ==
  /\ Thread(c, "recv", "clean_up") /\ Calls(fd(c))
  /\ UNCHANGED <<buffer, file_size, file_mutex, vars>>

clean_up(c) ==
  /\ Thread(c, "clean_up", "none")
  /\ release(fd(c))
  /\ buffer' = [buffer EXCEPT ![c] = << >>]
  /\ file_size' = [file_size EXCEPT ![c] = 0]
  /\ UNCHANGED file_mutex
-------------------------------------------------------------------------------
(* write_to_file.                                                          *)

\* Mutant: the line is written without the mutex.
WriteUnlocked(c) ==
  /\ Thread(c, "lock_write", "append")
  /\ open(stream(c))
  /\ UNCHANGED <<buffer, file_size, file_mutex>>

write_lock(c) ==
  /\ Thread(c, "lock_write", "append")
  /\ Locks(c)
  /\ open(stream(c))
  /\ UNCHANGED <<buffer, file_size>>

\* fopen fails for want of memory or descriptors, and the line is dropped.  (It
\* would also fail if its lseek did.)
fopen_failed(c) ==
  /\ Thread(c, "lock_write", "lock_read")
  /\ file_mutex = Nobody
  /\ UNCHANGED <<buffer, file_size, file_mutex, vars>>

append(c) ==
  /\ Thread(c, "append", "fputs")
  /\ llseek(stream(c), 0, "END")
  /\ UNCHANGED <<buffer, file_size, file_mutex>>

write_to_file(c) ==
  /\ Thread(c, "fputs", "fclose") /\ Returned(stream(c), Nat)
  /\ IF fputs(buffer[c]) = << >> THEN UNCHANGED vars
     ELSE write(stream(c), fputs(buffer[c]))
  /\ UNCHANGED <<buffer, file_size, file_mutex>>

fclose(c) ==
  /\ Thread(c, "fclose", "lock_read")
  /\ release(stream(c))
  /\ Unlocks
  /\ UNCHANGED <<buffer, file_size>>
-------------------------------------------------------------------------------
(* The reply.                                                              *)

read_lock(c) ==
  /\ Thread(c, "lock_read", "size")
  /\ Locks(c)
  /\ llseek(fd(c), 0, "END")
  /\ UNCHANGED <<buffer, file_size>>

\* Mutant: the file is left where lseek has put it.
StayAtEnd(c) ==
  /\ Thread(c, "size", "rewind") /\ Calls(fd(c))
  /\ file_size' = [file_size EXCEPT ![c] = frame[fd(c)].ret]
  /\ UNCHANGED <<buffer, file_mutex, vars>>

rewind(c) ==
  /\ Thread(c, "size", "rewind")
  /\ llseek(fd(c), 0, "SET")
  /\ file_size' = [file_size EXCEPT ![c] = frame[fd(c)].ret]
  /\ UNCHANGED <<buffer, file_mutex>>

read_back(c) ==
  /\ Thread(c, "rewind", "read")
  /\ file_size[c] >= 0
  /\ read(fd(c), file_size[c])
  /\ UNCHANGED <<buffer, file_size, file_mutex>>

\* calloc failed (it does for the size -1), the read returned something else
\* than file_size, or the client is gone: no reply.
fail(c) ==
  /\ Thread(c, "rewind", "none") \/ Thread(c, "read", "none")
  /\ release(fd(c))
  /\ Unlocks
  /\ buffer' = [buffer EXCEPT ![c] = << >>]
  /\ file_size' = [file_size EXCEPT ![c] = 0]

send(c) ==
  /\ Thread(c, "read", "clean_up") /\ Returned(fd(c), {file_size[c]})
  /\ Unlocks
  /\ UNCHANGED <<buffer, file_size, vars>>
-------------------------------------------------------------------------------
ThreadStep(c) ==
  \/ write_lock(c) \/ append(c) \/ write_to_file(c) \/ fopen_failed(c) \/ fclose(c)
  \/ read_lock(c) \/ rewind(c) \/ read_back(c) \/ fail(c) \/ send(c) \/ clean_up(c)

ClientStep(c) ==
  \/ start(c) \/ recv_end(c)
  \/ \E s \in SeekTo : recv_seek(c, s)
  \/ \E l \in Line : recv_line(c, l)

KernelStep == init_module \/ \E f \in File : Step(f)

\* A line completes what was left in progress, or is added to it.
Whole(s)    == s # << >> /\ OneLine(s)
After(r, l) == LET s == r \o fputs(l) IN IF Whole(s) THEN << >> ELSE s

Remembers(c) == left' = IF thread[c] = "fclose" THEN After(left, buffer[c]) ELSE left

DNext ==
  \/ KernelStep /\ UNCHANGED server
  \/ \E c \in Conn : (ThreadStep(c) \/ ClientStep(c)) /\ Remembers(c)

DSpec == DInit /\ [][DNext]_dvars
-------------------------------------------------------------------------------
InFile == {"append", "fputs", "fclose", "size", "rewind", "read"}

\* The types of the server's variables; what is left in progress is not a whole
\* line; and a thread is inside write_to_file, or
\* reads its reply, exactly while it owns file_mutex.
DTypeOK ==
  /\ thread \in [Conn -> {"none", "recv", "lock_write", "lock_read", "clean_up"} \cup InFile]
  /\ buffer \in [Conn -> Line \cup {<< >>}]
  /\ file_size \in [Conn -> Int]
  /\ file_mutex \in Conn \cup {Nobody}
  /\ left \in Seq(Byte) /\ ~Whole(left)
  /\ \A c \in Conn : file_mutex = c <=> thread[c] \in InFile

\* No lseek of the server is refused: not the one in fopen, so that no line is
\* dropped, and not the two of the reply.  An index never exceeds the number of
\* bytes kept, because no entry is empty.
SeeksSucceed ==
  \A c \in Conn :
    /\ thread[c] = "fputs" /\ Calls(stream(c)) => frame[stream(c)].ret >= 0
    /\ thread[c] \in {"size", "rewind"} /\ Calls(fd(c)) => frame[fd(c)].ret >= 0

\* The reply is read from position 0, wherever a seek command or the lseek
\* that determines the size left the file, and the read does not fault.
ReplyFromStart ==
  \A c \in Conn : thread[c] = "read" =>
    /\ frame[fd(c)].at = "read" => f_pos[fd(c)] = 0
    /\ frame[fd(c)].at = "user" => frame[fd(c)].ret >= 0

\* What becomes of a client's line.  When write_to_file is through with it, and
\* before anybody else can write, the newest entry of the ring is that line, whole
\* and alone, if the lines before it were.  A line cut short by a zero byte stays in
\* dev->entry instead and the next line, whoever sends it, is added to it; and
\* with two newlines in one chunk nothing goes into the ring any more.  In all of
\* these cases dev->entry holds what the lines handed over so far say, in the order
\* of the mutex, and nothing else.
Through(c) == thread[c] = "fclose" /\ Calls(stream(c))
Newest     == Bytes(PtrAt((bufferP.in_offs + MaxOps - 1) % MaxOps))
LineStored ==
  /\ (\A c \in Conn : ~Through(c)) => InProgress = left
  /\ \A c \in Conn : Through(c) =>
       LET s == left \o fputs(buffer[c])
       IN  IF Whole(s) THEN Newest = s /\ InProgress = << >> ELSE InProgress = s

\* While the module stays loaded no block is lost: with the server as its only
\* user the device's "full" is always right.
NothingLeaks == [][loaded /\ loaded' => Lost' \subseteq Lost]_vars

\* "Move the file pointer to the end to determine the size" (aesdsocket.c).
TotalSize == MapThenSumSet(LAMBDA i : bufferP.entry[i].size, Slot)
SizeIsTotal ==
  \A c \in Conn : thread[c] \in {"rewind", "read"} => file_size[c] = TotalSize
-------------------------------------------------------------------------------
(* The inductive invariant behind these.                                   *)

SeeksTo(f, wh) == frame[f].at = "seek" /\ frame[f].offset = 0 /\ frame[f].whence = wh

\* Where the files of a thread are, by where the thread is: which system call it
\* has made, with which arguments.
FdFollows(c) ==
  /\ thread[c] = "none" => frame[fd(c)] = Closed
  /\ thread[c] = "recv" => frame[fd(c)].at \in {"open", "user", "ioctl", "scan"}
  /\ thread[c] = "size" => SeeksTo(fd(c), "END") \/ Calls(fd(c))
  /\ thread[c] = "rewind" => SeeksTo(fd(c), "SET") \/ Calls(fd(c))
  /\ thread[c] = "read" => frame[fd(c)].at \in {"read", "copied", "user"}
  /\ thread[c] \notin {"none", "recv", "size", "rewind", "read"} => Calls(fd(c))

StreamFollows(c) ==
  /\ thread[c] = "append" => frame[stream(c)].at \in {"open", "user"}
  /\ thread[c] = "fputs" => SeeksTo(stream(c), "END") \/ Calls(stream(c))
  /\ thread[c] = "fclose" =>
       \/ Calls(stream(c))
       \/ /\ frame[stream(c)].at = "write" /\ frame[stream(c)].buf = fputs(buffer[c])
          /\ fputs(buffer[c]) # << >>
  /\ thread[c] \notin {"append", "fputs", "fclose"} => frame[stream(c)] = Closed

HasLine(c) ==
  thread[c] \in {"lock_write", "append", "fputs", "fclose"} => buffer[c] \in Line

\* The size a thread works with is a position in the ring, 0 until the ring has
\* been full once: what it reads back until then is nothing.
SizeRead(c) ==
  /\ thread[c] = "fputs" /\ Calls(stream(c)) => frame[stream(c)].ret \in Slot
  /\ thread[c] = "size" /\ Calls(fd(c)) =>
       frame[fd(c)].ret \in Slot /\ (~bufferP.full => frame[fd(c)].ret = 0)
  /\ thread[c] \in {"rewind", "read"} =>
       file_size[c] \in Slot /\ (~bufferP.full => file_size[c] = 0)

\* The file is at its start when the reply is read; such a read does not fault, and
\* moves out_offs on only in a ring that is full.
Rewound(c) ==
  /\ thread[c] = "rewind" /\ Calls(fd(c)) => frame[fd(c)].ret = 0 /\ f_pos[fd(c)] = 0
  /\ thread[c] = "read" =>
       /\ frame[fd(c)].at = "read" => f_pos[fd(c)] = 0 /\ frame[fd(c)].count = file_size[c]
       /\ frame[fd(c)].at = "copied" => (frame[fd(c)].last => bufferP.full)
       /\ frame[fd(c)].at = "user" => frame[fd(c)].ret >= 0

\* A seek in a full ring has counted a byte at least for every entry, and no entry
\* is added while it counts: out_offs is in range when it is compared.
NoneEmpty == loaded => \A i \in Slot : PtrAt(i) # NULL => bufferP.entry[i].size > 0
Counted   == \A f \in File : frame[f].at = "seek" /\ bufferP.full
                               => frame[f].total_size >= frame[f].index

\* out_offs waits at the first entry until the ring is full.
OutWaits == loaded /\ ~bufferP.full => bufferP.out_offs = 0

DeviceInv ==
  /\ DTypeOK
  /\ \A c \in Conn : FdFollows(c) /\ StreamFollows(c) /\ HasLine(c) /\ SizeRead(c) /\ Rewound(c)
  /\ NoneEmpty /\ Counted /\ OutWaits /\ FullFlag /\ LineStored
===============================================================================

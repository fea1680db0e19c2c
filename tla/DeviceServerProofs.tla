-------------------------- MODULE DeviceServerProofs --------------------------
(***************************************************************************)
(* Proofs about the server on its device, for any number of connections,   *)
(* any ring size and any lines: the server is a user of the driver, so     *)
(* that what holds of the driver holds of it; and with the server as its   *)
(* only user the driver does what DeviceServer says.                       *)
(***************************************************************************)
EXTENDS DeviceServer, DriverLogProofs

\* Every file belongs to one thread, in one of two roles.
LEMMA FilesApart ==
  /\ \A c \in Conn : fd(c) \in File /\ stream(c) \in File
  /\ \A c, d \in Conn : /\ fd(c) # stream(d)
                        /\ fd(c) = fd(d) => c = d
                        /\ stream(c) = stream(d) => c = d
  /\ \A f \in File : \E c \in Conn : f = fd(c) \/ f = stream(c)
BY ServerAssumption DEF fd, stream

\* A system call changes the frame and the position of one file.
LEMMA OneFile ==
  ASSUME TypeOK, NEW f \in File, Start(f) \/ Step(f)
  PROVE  \A g \in File \ {f} : frame'[g] = frame[g] /\ f_pos'[g] = f_pos[g]
<1>1. frame \in [File -> Frame] /\ f_pos \in [File -> Nat]
  BY TypeFacts
<1>2. \A g \in File \ {f} : frame'[g] = frame[g]
  BY OtherFrames
<1>3. \E n : f_pos' = f_pos \/ f_pos' = [f_pos EXCEPT ![f] = n]
  BY DEF Start, open, release, ioctl_rejected, write, read, llseek, ioctl,
     Step, open_reset, write_locked, write_fault, read_empty, read_stop, read_fault,
     read_copy, read_advance, llseek_sum, llseek_locked, ioctl_locked, ioctl_scan, ioctl_found
<1> QED BY <1>1, <1>2, <1>3

\* Everything that is known of a state of the two together.
DInv == Safe /\ FilledInOrder /\ DeviceInv

\* What is known of the thread and the files of one connection.
ConnInv(c) == FdFollows(c) /\ StreamFollows(c) /\ HasLine(c) /\ SizeRead(c) /\ Rewound(c)

\* Its parts, one by one.
LEMMA DInvFacts ==
  ASSUME DInv
  PROVE  /\ DriverInv /\ TypeOK /\ MemorySafe /\ SizesMatch /\ FilledInOrder
         /\ DTypeOK /\ \A c \in Conn : ConnInv(c)
         /\ NoneEmpty /\ Counted /\ OutWaits /\ FullFlag /\ LineStored
BY DEF DInv, Safe, DriverInv, DeviceInv, ConnInv

\* What is known of a connection stays true while others act: "full" is only
\* ever set.
LEMMA ConnKept ==
  ASSUME NEW c \in Conn, ConnInv(c), bufferP.full => bufferP'.full,
         thread'[c] = thread[c], buffer'[c] = buffer[c], file_size'[c] = file_size[c],
         frame'[fd(c)] = frame[fd(c)], frame'[stream(c)] = frame[stream(c)],
         f_pos'[fd(c)] = f_pos[fd(c)]
  PROVE  ConnInv(c)'
<1>1. FdFollows(c)'
  BY DEF ConnInv, FdFollows, SeeksTo, Calls
<1>2. StreamFollows(c)' /\ HasLine(c)'
  BY DEF ConnInv, StreamFollows, HasLine, SeeksTo, Calls
<1>3. SizeRead(c)'
  BY DEF ConnInv, SizeRead, Calls
<1>4. Rewound(c)'
  BY DEF ConnInv, Rewound, Calls
<1> QED BY <1>1, <1>2, <1>3, <1>4 DEF ConnInv

\* Two threads are not both in write_to_file or at their reply.
LEMMA OneInFile ==
  ASSUME DTypeOK, NEW c \in Conn, NEW d \in Conn, thread[c] \in InFile, thread[d] \in InFile
  PROVE  c = d
BY DEF DTypeOK
-------------------------------------------------------------------------------
(* The server is a user of the driver.                                     *)

\* What a thread does is a system call the driver allows, or none at all.
LEMMA ThreadCalls ==
  ASSUME DInv, NEW c \in Conn, ThreadStep(c) \/ ClientStep(c)
  PROVE  UNCHANGED vars \/ Start(fd(c)) \/ Start(stream(c))
<1>0. ConnInv(c)
  BY DInvFacts
<1>1. CASE start(c) \/ clean_up(c) \/ write_lock(c) \/ fclose(c) \/ fail(c)
  BY <1>1 DEF start, clean_up, write_lock, fclose, fail, Start
<1>2. CASE recv_end(c) \/ fopen_failed(c) \/ send(c) \/ \E l \in Line : recv_line(c, l)
  BY <1>2 DEF recv_end, fopen_failed, send, recv_line
<1>3. CASE \E s \in SeekTo : recv_seek(c, s)
  BY <1>3 DEF recv_seek, Start
<1>4. CASE append(c) \/ read_lock(c) \/ rewind(c)
  BY <1>4, ServerAssumption DEF append, read_lock, rewind, Start
<1>5. CASE write_to_file(c)
  <2>1. buffer[c] \in Line
    BY <1>0, <1>5 DEF ConnInv, HasLine, write_to_file, Thread
  <2>2. fputs(buffer[c]) \in Payload
    BY <2>1, ServerAssumption
  <2>3. UNCHANGED vars \/ write(stream(c), fputs(buffer[c]))
    BY <1>5 DEF write_to_file
  <2> QED BY <2>2, <2>3 DEF Start
<1>6. CASE read_back(c)
  <2>1. file_size[c] \in ReadCount
    BY <1>0, <1>6, ServerAssumption DEF ConnInv, SizeRead, read_back, Thread
  <2> QED BY <1>6, <2>1 DEF read_back, Start
<1> QED BY <1>1, <1>2, <1>3, <1>4, <1>5, <1>6 DEF ThreadStep, ClientStep

\* A step of the two together is a step of the driver or leaves it alone.
LEMMA DriverStep == DInv /\ [DNext]_dvars => [Next]_vars
<1> SUFFICES ASSUME DInv, [DNext]_dvars PROVE [Next]_vars
  OBVIOUS
<1>1. CASE UNCHANGED dvars
  BY <1>1 DEF dvars
<1>2. CASE KernelStep
  BY <1>2 DEF KernelStep, Next
<1>3. ASSUME NEW c \in Conn, ThreadStep(c) \/ ClientStep(c) PROVE [Next]_vars
  BY <1>3, ThreadCalls, FilesApart DEF Next
<1> QED BY <1>1, <1>2, <1>3 DEF DNext

\* So whatever the driver's steps preserve is preserved.
LEMMA SafeKept == DInv /\ [DNext]_dvars => Safe' /\ FilledInOrder'
<1> SUFFICES ASSUME DInv, [Next]_vars PROVE Safe' /\ FilledInOrder'
  BY DriverStep
<1> QED BY InvStep, SafeStep, SizesStep, FilledStep DEF DInv, Safe
-------------------------------------------------------------------------------
(* The steps of the threads.                                               *)

\* They change nothing of the device but the frames and positions of their files.
LEMMA ThreadUntouched ==
  ASSUME DInv, NEW c \in Conn, ThreadStep(c) \/ ClientStep(c)
  PROVE  /\ UNCHANGED <<loaded, bufferP, entry, alloc, mem>>
         /\ \A d \in Conn \ {c} : /\ frame'[fd(d)] = frame[fd(d)]
                                  /\ frame'[stream(d)] = frame[stream(d)]
                                  /\ f_pos'[fd(d)] = f_pos[fd(d)]
<1>0. TypeOK
  BY DInvFacts
<1>1. CASE UNCHANGED vars
  BY <1>1 DEF vars, dev, heap
<1>2. ASSUME NEW f \in File, f = fd(c) \/ f = stream(c), Start(f)
      PROVE  /\ UNCHANGED <<loaded, bufferP, entry, alloc, mem>>
             /\ \A d \in Conn \ {c} : /\ frame'[fd(d)] = frame[fd(d)]
                                      /\ frame'[stream(d)] = frame[stream(d)]
                                      /\ f_pos'[fd(d)] = f_pos[fd(d)]
  <2>1. UNCHANGED <<loaded, bufferP, entry, alloc, mem>>
    BY <1>2 DEF Start, open, release, ioctl_rejected, write, read, llseek, ioctl, dev, heap
  <2>2. \A d \in Conn \ {c} : fd(d) \in File \ {f} /\ stream(d) \in File \ {f}
    BY <1>2, FilesApart
  <2> QED BY <1>0, <1>2, <2>1, <2>2, OneFile
<1> QED BY <1>1, <1>2, ThreadCalls, FilesApart

\* The server's own variables, but for the types of what it stores in them.
LEMMA ThreadMutex ==
  ASSUME DTypeOK, NEW c \in Conn, ThreadStep(c) \/ ClientStep(c)
  PROVE  /\ thread' \in [Conn -> {"none", "recv", "lock_write", "lock_read", "clean_up"} \cup InFile]
         /\ file_mutex' \in Conn \cup {Nobody}
         /\ \A d \in Conn : file_mutex' = d <=> thread'[d] \in InFile
         /\ \A d \in Conn \ {c} : thread'[d] = thread[d]
<1> DEFINE T == {"none", "recv", "lock_write", "lock_read", "clean_up"} \cup InFile
<1>1. thread \in [Conn -> T] /\ file_mutex \in Conn \cup {Nobody} /\ Nobody \notin Conn
      /\ \A d \in Conn : file_mutex = d <=> thread[d] \in InFile
  BY ServerAssumption DEF DTypeOK
<1>2. PICK to \in T : thread' = [thread EXCEPT ![c] = to] /\
        \/ thread[c] \notin InFile /\ to \notin InFile /\ file_mutex' = file_mutex
        \/ thread[c] \in InFile /\ to \in InFile /\ file_mutex' = file_mutex
        \/ file_mutex = Nobody /\ to \in InFile /\ file_mutex' = c
        \/ thread[c] \in InFile /\ to \notin InFile /\ file_mutex' = Nobody
  <2>1. CASE start(c) \/ recv_end(c) \/ (\E s \in SeekTo : recv_seek(c, s))
             \/ (\E l \in Line : recv_line(c, l)) \/ fopen_failed(c) \/ clean_up(c)
    BY <2>1 DEF start, recv_end, recv_seek, recv_line, fopen_failed, clean_up, Thread, InFile
  <2>2. CASE append(c) \/ write_to_file(c) \/ rewind(c) \/ read_back(c)
    BY <2>2 DEF append, write_to_file, rewind, read_back, Thread, InFile
  <2>3. CASE write_lock(c) \/ read_lock(c)
    BY <2>3 DEF write_lock, read_lock, Thread, Locks, InFile
  <2>4. CASE fclose(c) \/ fail(c) \/ send(c)
    BY <2>4 DEF fclose, fail, send, Thread, Unlocks, InFile
  <2> QED BY <2>1, <2>2, <2>3, <2>4 DEF ThreadStep, ClientStep
<1>3. \A d \in Conn : thread'[d] = IF d = c THEN to ELSE thread[d]
  BY <1>1, <1>2
<1>4. thread' \in [Conn -> T]
  BY <1>1, <1>2
<1> HIDE DEF T
<1>5. \A d \in Conn : file_mutex' = d <=> thread'[d] \in InFile
  BY <1>1, <1>2, <1>3
<1>6. file_mutex' \in Conn \cup {Nobody}
  BY <1>1, <1>2
<1> QED BY <1>3, <1>4, <1>5, <1>6 DEF T

\* What a thread stores: a line it has received, the size lseek has returned.
LEMMA ThreadStores ==
  ASSUME DInv, NEW c \in Conn, ThreadStep(c) \/ ClientStep(c)
  PROVE  /\ buffer' \in [Conn -> Line \cup {<< >>}] /\ file_size' \in [Conn -> Int]
         /\ \A d \in Conn \ {c} : buffer'[d] = buffer[d] /\ file_size'[d] = file_size[d]
<1>1. buffer \in [Conn -> Line \cup {<< >>}] /\ file_size \in [Conn -> Int]
  BY DInvFacts DEF DTypeOK
<1>2. PICK b \in Line \cup {<< >>} : buffer' = [buffer EXCEPT ![c] = b] \/ buffer' = buffer
  BY DEF ThreadStep, ClientStep, start, recv_end, recv_seek, recv_line, fopen_failed, clean_up,
     append, write_to_file, rewind, read_back, write_lock, read_lock, fclose, fail, send
<1>3. \/ file_size' = file_size
      \/ file_size' = [file_size EXCEPT ![c] = 0]
      \/ rewind(c) /\ file_size' = [file_size EXCEPT ![c] = frame[fd(c)].ret]
  BY DEF ThreadStep, ClientStep, start, recv_end, recv_seek, recv_line, fopen_failed, clean_up,
     append, write_to_file, rewind, read_back, write_lock, read_lock, fclose, fail, send
<1>4. rewind(c) => frame[fd(c)].ret \in Int
  <2>1. rewind(c) => thread[c] = "size" /\ Calls(fd(c))
    BY DEF rewind, llseek, Thread
  <2>2. ConnInv(c)
    BY DInvFacts
  <2>3. rewind(c) => frame[fd(c)].ret \in Slot
    BY <2>1, <2>2 DEF ConnInv, SizeRead
  <2> QED BY <2>3, MaxOpsAssumption DEF Slot
<1> QED BY <1>1, <1>2, <1>3, <1>4

\* A step of a thread from one place to another.
LEMMA ThreadTo ==
  ASSUME DTypeOK, NEW c \in Conn, NEW from, NEW to, Thread(c, from, to)
  PROVE  thread[c] = from /\ thread'[c] = to
BY DEF Thread, DTypeOK

\* What is known of a connection is still true of it when its thread has taken a
\* step: the call it makes is the one its new place says.
LEMMA ThreadConn ==
  ASSUME DInv, NEW c \in Conn, ThreadStep(c) \/ ClientStep(c)
  PROVE  ConnInv(c)'
<1>0. /\ TypeOK /\ DTypeOK /\ fd(c) \in File /\ stream(c) \in File /\ fd(c) # stream(c)
      /\ frame \in [File -> Frame] /\ f_pos \in [File -> Nat]
      /\ buffer \in [Conn -> Line \cup {<< >>}] /\ file_size \in [Conn -> Int]
      /\ bufferP' = bufferP
  BY DInvFacts, FilesApart, TypeFacts, ThreadUntouched DEF DTypeOK
<1>i. FdFollows(c) /\ StreamFollows(c) /\ HasLine(c) /\ SizeRead(c) /\ Rewound(c)
  BY DInvFacts DEF ConnInv
<1> USE DEF FdFollows, StreamFollows, HasLine, SizeRead, Rewound, SeeksTo, Calls
<1>1. CASE start(c)
  <2>1. thread[c] = "none" /\ thread'[c] = "recv"
    BY <1>0, <1>1, ThreadTo DEF start
  <2>2. frame'[fd(c)].at \in {"open", "user"} /\ frame'[stream(c)] = frame[stream(c)]
    BY <1>0, <1>1 DEF start, open, Return, Enter, InUser
  <2> QED BY <1>i, <2>1, <2>2 DEF ConnInv
<1>2. CASE \E s \in SeekTo : recv_seek(c, s)
  <2>1. thread[c] = "recv" /\ thread'[c] = "recv"
    BY <1>0, <1>2, ThreadTo DEF recv_seek
  <2>2. frame'[fd(c)].at = "ioctl" /\ frame'[stream(c)] = frame[stream(c)]
    BY <1>0, <1>2 DEF recv_seek, ioctl, Enter
  <2> QED BY <1>i, <2>1, <2>2 DEF ConnInv
<1>3. CASE \E l \in Line : recv_line(c, l)
  <2>1. thread[c] = "recv" /\ thread'[c] = "lock_write" /\ Calls(fd(c))
    BY <1>0, <1>3, ThreadTo DEF recv_line
  <2>2. frame' = frame /\ buffer'[c] \in Line
    BY <1>0, <1>3 DEF recv_line, vars
  <2> QED BY <1>i, <2>1, <2>2 DEF ConnInv
<1>4. CASE recv_end(c)
  <2>1. thread[c] = "recv" /\ thread'[c] = "clean_up" /\ Calls(fd(c)) /\ frame' = frame
    BY <1>0, <1>4, ThreadTo DEF recv_end, vars
  <2> QED BY <1>i, <2>1 DEF ConnInv
<1>5. CASE clean_up(c)
  <2>1. thread[c] = "clean_up" /\ thread'[c] = "none"
    BY <1>0, <1>5, ThreadTo DEF clean_up
  <2>2. frame'[fd(c)] = Closed /\ frame'[stream(c)] = frame[stream(c)]
    BY <1>0, <1>5 DEF clean_up, release, Enter
  <2> QED BY <1>i, <2>1, <2>2 DEF ConnInv
<1>6. CASE write_lock(c)
  <2>1. thread[c] = "lock_write" /\ thread'[c] = "append" /\ buffer' = buffer
    BY <1>0, <1>6, ThreadTo DEF write_lock
  <2>2. frame'[stream(c)].at \in {"open", "user"} /\ frame'[fd(c)] = frame[fd(c)]
    BY <1>0, <1>6 DEF write_lock, open, Return, Enter, InUser
  <2> QED BY <1>i, <2>1, <2>2 DEF ConnInv
<1>7. CASE fopen_failed(c)
  <2>1. thread[c] = "lock_write" /\ thread'[c] = "lock_read" /\ frame' = frame
    BY <1>0, <1>7, ThreadTo DEF fopen_failed, vars
  <2> QED BY <1>i, <2>1 DEF ConnInv
<1>8. CASE append(c)
  <2>1. thread[c] = "append" /\ thread'[c] = "fputs" /\ buffer' = buffer
    BY <1>0, <1>8, ThreadTo DEF append
  <2>2. SeeksTo(stream(c), "END")' /\ frame'[fd(c)] = frame[fd(c)]
    BY <1>0, <1>8 DEF append, llseek, Enter
  <2> QED BY <1>i, <2>1, <2>2 DEF ConnInv
<1>9. CASE write_to_file(c)
  <2>1. thread[c] = "fputs" /\ thread'[c] = "fclose" /\ buffer' = buffer
    BY <1>0, <1>9, ThreadTo DEF write_to_file
  <2>2. CASE fputs(buffer[c]) = << >>
    <3>1. frame' = frame /\ Calls(stream(c))
      BY <1>9, <2>2 DEF write_to_file, Returned, vars
    <3> QED BY <1>i, <2>1, <3>1 DEF ConnInv
  <2>3. CASE fputs(buffer[c]) # << >>
    <3>1. /\ frame'[stream(c)].at = "write" /\ frame'[stream(c)].buf = fputs(buffer[c])
          /\ frame'[fd(c)] = frame[fd(c)]
      BY <1>0, <1>9, <2>3 DEF write_to_file, write, Enter
    <3> QED BY <1>i, <2>1, <2>3, <3>1 DEF ConnInv
  <2> QED BY <2>2, <2>3
<1>10. CASE fclose(c)
  <2>1. thread[c] = "fclose" /\ thread'[c] = "lock_read"
    BY <1>0, <1>10, ThreadTo DEF fclose
  <2>2. frame'[stream(c)] = Closed /\ frame'[fd(c)] = frame[fd(c)]
    BY <1>0, <1>10 DEF fclose, release, Enter
  <2> QED BY <1>i, <2>1, <2>2 DEF ConnInv
<1>11. CASE read_lock(c)
  <2>1. thread[c] = "lock_read" /\ thread'[c] = "size"
    BY <1>0, <1>11, ThreadTo DEF read_lock
  <2>2. SeeksTo(fd(c), "END")' /\ frame'[stream(c)] = frame[stream(c)]
    BY <1>0, <1>11 DEF read_lock, llseek, Enter
  <2> QED BY <1>i, <2>1, <2>2 DEF ConnInv
<1>12. CASE rewind(c)
  <2>1. thread[c] = "size" /\ thread'[c] = "rewind" /\ Calls(fd(c))
    BY <1>0, <1>12, ThreadTo DEF rewind, llseek
  <2>2. SeeksTo(fd(c), "SET")' /\ frame'[stream(c)] = frame[stream(c)]
    BY <1>0, <1>12 DEF rewind, llseek, Enter
  <2>3. file_size'[c] = frame[fd(c)].ret
    BY <1>0, <1>12 DEF rewind
  <2> QED BY <1>0, <1>i, <2>1, <2>2, <2>3 DEF ConnInv
<1>13. CASE read_back(c)
  <2>1. thread[c] = "rewind" /\ thread'[c] = "read" /\ Calls(fd(c)) /\ file_size' = file_size
    BY <1>0, <1>13, ThreadTo DEF read_back, read
  <2>2. /\ frame'[fd(c)].at = "read" /\ frame'[fd(c)].count = file_size[c]
        /\ frame'[stream(c)] = frame[stream(c)] /\ f_pos' = f_pos
    BY <1>0, <1>13 DEF read_back, read, Enter
  <2> QED BY <1>0, <1>i, <2>1, <2>2 DEF ConnInv
<1>14. CASE fail(c)
  <2>1. thread[c] \in {"rewind", "read"} /\ thread'[c] = "none"
    BY <1>0, <1>14, ThreadTo DEF fail
  <2>2. frame'[fd(c)] = Closed /\ frame'[stream(c)] = frame[stream(c)]
    BY <1>0, <1>14 DEF fail, release, Enter
  <2> QED BY <1>i, <2>1, <2>2 DEF ConnInv
<1>15. CASE send(c)
  <2>1. thread[c] = "read" /\ thread'[c] = "clean_up" /\ Calls(fd(c)) /\ frame' = frame
    BY <1>0, <1>15, ThreadTo DEF send, Returned, vars
  <2> QED BY <1>i, <2>1 DEF ConnInv
<1> QED
  BY <1>1, <1>2, <1>3, <1>4, <1>5, <1>6, <1>7, <1>8, <1>9, <1>10, <1>11, <1>12, <1>13, <1>14, <1>15
     DEF ThreadStep, ClientStep

\* What the device holds of the lines handed over is the same while the ring,
\* dev->entry and the heap are left alone and no thread hands over a line.
LEMMA LineKept ==
  ASSUME LineStored, UNCHANGED <<loaded, entry, mem, left>>,
         bufferP'.entry = bufferP.entry, bufferP'.in_offs = bufferP.in_offs,
         \A d \in Conn : Through(d)' <=> Through(d),
         \A d \in Conn : Through(d) => buffer'[d] = buffer[d]
  PROVE  LineStored'
<1>1. InProgress' = InProgress /\ Newest' = Newest /\ left' = left
  BY DEF InProgress, Newest, Bytes, PtrAt
<1>2. (\A d \in Conn : ~Through(d)') => InProgress' = left'
  BY <1>1 DEF LineStored
<1>3. ASSUME NEW d \in Conn, Through(d)'
      PROVE  LET s == left' \o fputs(buffer'[d])
             IN  IF Whole(s) THEN Newest' = s /\ InProgress' = << >> ELSE InProgress' = s
  <2>1. Through(d) /\ buffer'[d] = buffer[d]
    BY <1>3
  <2> QED BY <1>1, <2>1 DEF LineStored
<1> QED BY <1>2, <1>3 DEF LineStored

\* What fputs makes of a line is a string of bytes, and so is what a line leaves
\* in progress; that is not a whole line.
LEMMA LeftType ==
  ASSUME NEW r \in Seq(Byte), NEW l \in Line
  PROVE  fputs(l) \in Seq(Byte) /\ After(r, l) \in Seq(Byte) /\ ~Whole(After(r, l))
<1>1. fputs(l) \in Seq(Byte)
  BY ServerAssumption, DriverAssumption
<1>2. r \o fputs(l) \in Seq(Byte) /\ << >> \in Seq(Byte)
  BY <1>1
<1>3. ~Whole(<< >>)
  BY DEF Whole
<1> QED BY <1>1, <1>2, <1>3 DEF After

\* Adding nothing changes nothing.
LEMMA LeftAlone ==
  ASSUME NEW r \in Seq(Byte)
  PROVE  r \o << >> = r
OBVIOUS

\* A step of a thread preserves the invariant.
LEMMA ThreadKeeps ==
  ASSUME DInv, NEW c \in Conn, ThreadStep(c) \/ ClientStep(c), Remembers(c)
  PROVE  DeviceInv'
<1>0. /\ TypeOK /\ DTypeOK /\ NoneEmpty /\ Counted /\ OutWaits /\ FullFlag /\ LineStored
      /\ \A d \in Conn : ConnInv(d)
      /\ UNCHANGED <<loaded, bufferP, entry, alloc, mem>>
  BY DInvFacts, ThreadUntouched
<1>1. DTypeOK'
  <2>1. left' \in Seq(Byte) /\ ~Whole(left')
    <3>1. left \in Seq(Byte) /\ ~Whole(left)
      BY <1>0 DEF DTypeOK
    <3>2. thread[c] = "fclose" => buffer[c] \in Line
      BY <1>0 DEF ConnInv, HasLine
    <3> QED BY <3>1, <3>2, LeftType DEF Remembers
  <2>2. Whole(left)' <=> Whole(left')
    BY DEF Whole, OneLine, EOLInside
  <2> QED BY <1>0, <2>1, <2>2, ThreadMutex, ThreadStores DEF DTypeOK
<1>2. \A d \in Conn : ConnInv(d)'
  <2>1. ASSUME NEW d \in Conn \ {c} PROVE ConnInv(d)'
    <3>1. /\ thread'[d] = thread[d] /\ buffer'[d] = buffer[d] /\ file_size'[d] = file_size[d]
          /\ frame'[fd(d)] = frame[fd(d)] /\ frame'[stream(d)] = frame[stream(d)]
          /\ f_pos'[fd(d)] = f_pos[fd(d)]
      BY <1>0, ThreadUntouched, ThreadMutex, ThreadStores
    <3> QED BY <1>0, <3>1, ConnKept
  <2> QED BY <2>1, ThreadConn
<1>3. NoneEmpty' /\ OutWaits' /\ FullFlag'
  BY <1>0 DEF NoneEmpty, OutWaits, FullFlag, FullIsRight, PtrAt
<1>4. Counted'
  <2>1. CASE UNCHANGED vars
    BY <1>0, <2>1 DEF Counted, vars
  <2>2. ASSUME NEW f \in File, Start(f) PROVE Counted'
    <3>1. frame'[f].at = "seek" => frame'[f].index = 0 /\ frame'[f].total_size = 0
      <4>1. frame \in [File -> Frame]
        BY <1>0, TypeFacts
      <4> QED BY <2>2, <4>1 DEF Start, open, release, ioctl_rejected, write, read, llseek, ioctl,
                               Return, Enter, InUser, Closed
    <3> QED BY <1>0, <2>2, <3>1, OneFile DEF Counted
  <2> QED BY <2>1, <2>2, ThreadCalls, FilesApart
<1>5. LineStored'
  <2>0. /\ frame \in [File -> Frame] /\ stream(c) \in File
        /\ left \in Seq(Byte) /\ ~Whole(left)
    BY <1>0, TypeFacts, FilesApart DEF DTypeOK
  <2>1. \A d \in Conn \ {c} : (Through(d)' <=> Through(d)) /\ buffer'[d] = buffer[d]
    BY <1>0, ThreadUntouched, ThreadMutex, ThreadStores DEF Through, Calls
  <2>2. InProgress' = InProgress /\ Newest' = Newest
    BY <1>0 DEF InProgress, Newest, Bytes, PtrAt
  <2>3. CASE write_to_file(c)
    <3>1. thread[c] = "fputs" /\ thread'[c] = "fclose" /\ buffer' = buffer /\ left' = left
      BY <1>0, <2>3, ThreadTo DEF write_to_file, Remembers
    <3>2. \A d \in Conn : ~Through(d)
      BY <1>0, <3>1, OneInFile DEF Through, InFile
    <3>3. InProgress' = left
      BY <1>0, <2>2, <3>2 DEF LineStored
    <3>4. CASE fputs(buffer[c]) = << >>
      <4>1. left \o fputs(buffer[c]) = left
        BY <2>0, <3>4, LeftAlone
      <4>2. \A d \in Conn : Through(d)' => d = c
        BY <2>1, <3>2
      <4> QED BY <2>0, <3>1, <3>3, <4>1, <4>2 DEF LineStored
    <3>5. CASE fputs(buffer[c]) # << >>
      <4>1. frame'[stream(c)].at = "write"
        BY <2>0, <2>3, <3>5 DEF write_to_file, write, Enter
      <4>2. \A d \in Conn : ~Through(d)'
        BY <2>1, <3>2, <4>1 DEF Through, Calls
      <4> QED BY <3>1, <3>3, <4>2 DEF LineStored
    <3> QED BY <3>4, <3>5
  <2>4. CASE fclose(c)
    <3>1. thread[c] = "fclose" /\ thread'[c] = "lock_read" /\ Through(c)
      BY <1>0, <2>4, ThreadTo DEF fclose, release, Through
    <3>2. \A d \in Conn : ~Through(d)'
      BY <1>0, <2>1, <3>1, OneInFile DEF Through, InFile
    <3>3. left' = After(left, buffer[c])
      BY <3>1 DEF Remembers
    <3>4. InProgress = After(left, buffer[c])
      BY <1>0, <3>1 DEF LineStored, After
    <3> QED BY <2>2, <3>2, <3>3, <3>4 DEF LineStored
  <2>5. CASE ~write_to_file(c) /\ ~fclose(c)
    <3>1. thread[c] # "fclose" /\ thread'[c] # "fclose"
      BY <1>0, <2>5, ThreadTo DEF ThreadStep, ClientStep, start, recv_end, recv_seek, recv_line,
         fopen_failed, clean_up, append, rewind, read_back, write_lock, read_lock, fail, send
    <3>2. left' = left
      BY <3>1 DEF Remembers
    <3>3. \A d \in Conn : (Through(d)' <=> Through(d)) /\ (Through(d) => buffer'[d] = buffer[d])
      BY <2>1, <3>1 DEF Through
    <3> QED BY <1>0, <3>2, <3>3, LineKept
  <2> QED BY <2>3, <2>4, <2>5
<1> QED BY <1>1, <1>2, <1>3, <1>4, <1>5 DEF DeviceInv, ConnInv
-------------------------------------------------------------------------------
(* The steps of the driver.                                                *)

\* What a write does to the two positions and the flag.
LEMMA WriteFlags ==
  ASSUME TypeOK, NEW f \in File, write_locked(f)
  PROVE  \/ bufferP' = bufferP
         \/ /\ bufferP'.in_offs = Succ(bufferP.in_offs)
            /\ bufferP'.out_offs = OutAfterAdd(bufferP)
            /\ bufferP'.full = (bufferP.full \/ Succ(bufferP.in_offs) = OutAfterAdd(bufferP))
<1>1. ~(bufferP.in_offs >= MaxOps)
  BY TypeFacts, MaxOpsAssumption DEF Slot
<1> QED BY <1>1 DEF write_locked, write_entry_into_buffer, add_entry

\* No other step changes the flag or in_offs; the reset of an open and the end of a read are
\* the only others that change out_offs.
LEMMA OutStep ==
  ASSUME TypeOK, NEW f \in File, Step(f), ~write_locked(f)
  PROVE  /\ bufferP'.full = bufferP.full /\ bufferP'.in_offs = bufferP.in_offs
         /\ \/ bufferP'.out_offs = bufferP.out_offs
            \/ open_reset(f) /\ bufferP'.out_offs = 0
            \/ frame[f].at = "copied" /\ frame[f].last
<1>1. CASE open_reset(f) \/ read_advance(f)
  BY <1>1 DEF open_reset, read_advance, TypeOK, BufferOf
<1>2. CASE bufferP' = bufferP
  BY <1>2
<1> QED BY <1>1, <1>2 DEF Step, write_fault, read_empty, read_stop, read_fault, read_copy,
           llseek_sum, llseek_locked, ioctl_locked, ioctl_scan, ioctl_found, dev

\* The flag is only ever set.
LEMMA FullStays ==
  ASSUME TypeOK, NEW f \in File, Step(f)
  PROVE  bufferP.full => bufferP'.full
BY WriteFlags, OutStep

\* The end of the device, as aesd_llseek understands it, is in range.
LEMMA EndInRange ==
  ASSUME DInv, loaded, NEW f \in File, frame[f].at = "seek", frame[f].index = MaxOps
  PROVE  bufferP.out_offs \in 0 .. frame[f].total_size
<1>1. frame[f] \in SeekFrame /\ bufferP.out_offs \in Slot /\ Counted /\ OutWaits
  BY DInvFacts, TypeFacts, FrameFields
<1>2. frame[f].total_size \in Nat
  BY <1>1 DEF SeekFrame
<1>3. bufferP.full => frame[f].total_size >= MaxOps
  BY <1>1 DEF Counted
<1> QED BY <1>1, <1>2, <1>3, MaxOpsAssumption DEF OutWaits, Slot

\* A call that returns leaves its result in user space.
LEMMA BackInUser ==
  ASSUME TypeOK, NEW f \in File, NEW r, Return(f, r)
  PROVE  frame'[f].at = "user" /\ frame'[f].ret = r
BY TypeFacts DEF Return, Enter, InUser

\* What is known of a connection is still true of it when the kernel has done
\* something for one of its files.
LEMMA KernelConn ==
  ASSUME DInv, NEW c \in Conn, NEW f \in File, f = fd(c) \/ f = stream(c), Step(f), UNCHANGED server
  PROVE  ConnInv(c)'
<1>0. /\ TypeOK /\ DriverInv /\ fd(c) \in File /\ stream(c) \in File /\ fd(c) # stream(c)
      /\ frame \in [File -> Frame] /\ f_pos \in [File -> Nat] /\ frame[f] \in Frame
      /\ thread' = thread /\ buffer' = buffer /\ file_size' = file_size
      /\ loaded
  BY DInvFacts, FilesApart, TypeFacts, LoadedStep DEF server
<1>i. FdFollows(c) /\ StreamFollows(c) /\ HasLine(c) /\ SizeRead(c) /\ Rewound(c)
  BY DInvFacts DEF ConnInv
<1>o. \A g \in File \ {f} : frame'[g] = frame[g] /\ f_pos'[g] = f_pos[g]
  BY <1>0, OneFile
<1>f. bufferP.full => bufferP'.full
  BY <1>0, FullStays
<1> USE DEF FdFollows, StreamFollows, HasLine, SizeRead, Rewound, SeeksTo, Calls, Closed
<1>1. CASE open_reset(f)
  <2>1. frame[f].at = "open" /\ frame'[f].at = "user" /\ f_pos' = f_pos
    BY <1>0, <1>1 DEF open_reset, Return, Enter, InUser
  <2>2. (f = fd(c) /\ thread[c] = "recv") \/ (f = stream(c) /\ thread[c] = "append")
    BY <1>i, <2>1
  <2> QED BY <1>0, <1>i, <1>o, <1>f, <2>1, <2>2 DEF ConnInv
<1>2. CASE write_locked(f)
  <2>1. frame[f].at = "write" /\ frame'[f].at = "user"
    BY <1>0, <1>2 DEF write_locked, Return, Enter, InUser
  <2>2. f = stream(c) /\ thread[c] = "fclose"
    BY <1>i, <2>1
  <2> QED BY <1>0, <1>i, <1>o, <1>f, <2>1, <2>2 DEF ConnInv
<1>3. CASE read_empty(f) \/ read_stop(f)
  <2>1. frame[f].at = "read" /\ frame'[f].at = "user" /\ frame'[f].ret = 0
    BY <1>0, <1>3, BackInUser DEF read_empty, read_stop
  <2>2. f = fd(c) /\ thread[c] = "read"
    BY <1>i, <2>1
  <2> QED BY <1>0, <1>i, <1>o, <1>f, <2>1, <2>2 DEF ConnInv
<1>4. CASE read_fault(f) \/ read_copy(f)
  <2>1. /\ frame[f].at = "read" /\ Reads(f)
        /\ frame[f].count \in Nat /\ frame[f].size \in Nat
    BY <1>0, <1>4, FrameFields DEF read_fault, read_copy, Reads
  <2>2. f = fd(c) /\ thread[c] = "read"
    BY <1>i, <2>1
  <2>3. f_pos[f] = 0 /\ frame[f].count = file_size[c] /\ (~bufferP.full => file_size[c] = 0)
    BY <1>i, <2>1, <2>2
  <2>4. LastRead(f) => bufferP.full
    BY <2>1, <2>3 DEF LastRead
  <2>5. Shortened(f) \in Int /\ Shortened(f) >= 0
    BY <2>1, <2>3 DEF Shortened, LastRead
  <2>6. read_copy(f)
    BY <1>4, <2>5, ServerAssumption DEF read_fault
  <2>7. frame'[f].at = "copied" /\ frame'[f].last = LastRead(f)
    BY <1>0, <2>6 DEF read_copy, Enter
  <2> QED BY <1>0, <1>i, <1>o, <1>f, <2>2, <2>4, <2>7 DEF ConnInv
<1>5. CASE read_advance(f)
  <2>1. frame[f].at = "copied" /\ frame[f].count \in Nat
    BY <1>0, <1>5, FrameFields DEF read_advance
  <2>2. f = fd(c) /\ thread[c] = "read"
    BY <1>i, <2>1
  <2>3. frame'[f].at = "user" /\ frame'[f].ret >= 0
    BY <1>0, <1>5, <2>1 DEF read_advance, Return, Enter, InUser
  <2> QED BY <1>0, <1>i, <1>o, <1>f, <2>2, <2>3 DEF ConnInv
<1>6. CASE llseek_sum(f)
  <2>1. frame[f].at = "seek" /\ frame[f] \in SeekFrame
    BY <1>0, <1>6, FrameFields DEF llseek_sum
  <2>2. \/ f = fd(c) /\ thread[c] = "size" /\ SeeksTo(fd(c), "END")
        \/ f = fd(c) /\ thread[c] = "rewind" /\ SeeksTo(fd(c), "SET")
        \/ f = stream(c) /\ thread[c] = "fputs" /\ SeeksTo(stream(c), "END")
    BY <1>i, <2>1
  <2>3. /\ frame'[f].at = "seek" /\ frame'[f].offset = frame[f].offset
        /\ frame'[f].whence = frame[f].whence
    <3>1. frame'[f] = [frame[f] EXCEPT !.index = @ + 1,
                         !.total_size = @ + bufferP.entry[frame[f].index].size]
      BY <1>0, <1>6 DEF llseek_sum, Enter
    <3> QED BY <2>1, <3>1 DEF SeekFrame
  <2> QED BY <1>0, <1>i, <1>o, <1>f, <2>1, <2>2, <2>3 DEF ConnInv
<1>7. CASE llseek_locked(f)
  <2>1. frame[f].at = "seek" /\ frame[f] \in SeekFrame /\ bufferP' = bufferP
    BY <1>0, <1>7, FrameFields DEF llseek_locked, dev
  <2>2. bufferP.out_offs \in 0 .. frame[f].total_size /\ bufferP.out_offs \in Slot
    BY <1>0, <1>7, EndInRange, TypeFacts DEF llseek_locked
  <2>3. frame[f].total_size \in Nat
    BY <2>1 DEF SeekFrame
  <2>4. frame[f].offset = 0 /\ frame[f].whence \in {"SET", "END"} =>
          /\ NewPos(f) = (IF frame[f].whence = "SET" THEN 0 ELSE bufferP.out_offs)
          /\ NewPos(f) \in 0 .. frame[f].total_size
    BY <2>2, <2>3, MaxOpsAssumption DEF NewPos, Slot
  <2>5. frame[f].offset = 0 /\ frame[f].whence \in {"SET", "END"} =>
          /\ frame'[f].at = "user" /\ frame'[f].ret = NewPos(f) /\ f_pos'[f] = NewPos(f)
    BY <1>0, <1>7, <2>4 DEF llseek_locked, Return, Enter, InUser
  <2>6. ~bufferP.full => bufferP.out_offs = 0
    BY <1>0, DInvFacts DEF OutWaits
  <2>7. CASE f = fd(c) /\ thread[c] = "size" /\ SeeksTo(fd(c), "END")
    BY <1>0, <1>i, <1>o, <2>1, <2>2, <2>4, <2>5, <2>6, <2>7 DEF ConnInv
  <2>8. CASE f = fd(c) /\ thread[c] = "rewind" /\ SeeksTo(fd(c), "SET")
    BY <1>0, <1>i, <1>o, <2>1, <2>4, <2>5, <2>8 DEF ConnInv
  <2>9. CASE f = stream(c) /\ thread[c] = "fputs" /\ SeeksTo(stream(c), "END")
    BY <1>0, <1>i, <1>o, <2>1, <2>2, <2>4, <2>5, <2>9 DEF ConnInv
  <2> QED BY <1>i, <2>1, <2>7, <2>8, <2>9
<1>8. CASE ioctl_locked(f) \/ ioctl_scan(f) \/ ioctl_found(f)
  <2>1. frame[f].at \in {"ioctl", "scan"}
    BY <1>8 DEF ioctl_locked, ioctl_scan, ioctl_found
  <2>2. f = fd(c) /\ thread[c] = "recv"
    BY <1>i, <2>1
  <2>3. frame'[f].at \in {"scan", "user"}
    <3>1. CASE ioctl_locked(f) \/ ioctl_found(f)
      <4>1. (\E r : Return(f, r)) \/ \E fr : Enter(f, fr) /\ fr.at = "scan"
        BY <3>1 DEF ioctl_locked, ioctl_found
      <4> QED BY <1>0, <4>1, BackInUser, EnterAt
    <3>2. CASE ioctl_scan(f)
      <4>1. frame[f] \in ScanFrame
        BY <1>0, <3>2, FrameFields DEF ioctl_scan
      <4>2. frame'[f] = [frame[f] EXCEPT !.i = @ + 1,
                           !.total_size = @ + bufferP.entry[frame[f].i].size]
        BY <1>0, <3>2 DEF ioctl_scan, Enter
      <4> QED BY <4>1, <4>2 DEF ScanFrame
    <3> QED BY <1>8, <3>1, <3>2
  <2> QED BY <1>0, <1>i, <1>o, <1>f, <2>2, <2>3 DEF ConnInv
<1>9. ~write_fault(f)
  BY ServerAssumption DEF write_fault
<1> QED BY <1>1, <1>2, <1>3, <1>4, <1>5, <1>6, <1>7, <1>8, <1>9 DEF Step

\* The last byte of a command is the last byte written.
LEMMA EndOfConcat ==
  ASSUME NEW s \in Seq(Byte), NEW t \in Seq(Byte), Len(t) > 0
  PROVE  Len(s \o t) > 0 /\ (s \o t)[Len(s \o t)] = t[Len(t)]
<1>1. Len(s) \in Nat /\ Len(t) \in Nat /\ Len(s \o t) = Len(s) + Len(t)
  OBVIOUS
<1>2. (s \o t)[Len(s) + Len(t)] = t[Len(t)]
  BY <1>1
<1> QED BY <1>1, <1>2

\* The driver does nothing for a file in user space.
LEMMA StepNotUser ==
  ASSUME NEW f \in File, Step(f)
  PROVE  /\ frame[f].at \notin {"user", "closed"}
         /\ frame[f].at = "write" => write_locked(f)
<1>1. ~write_fault(f)
  BY ServerAssumption DEF write_fault
<1> QED BY <1>1 DEF Step, open_reset, write_locked, read_empty, read_stop, read_fault, read_copy,
           read_advance, Reads, llseek_sum, llseek_locked, ioctl_locked, ioctl_scan, ioctl_found

\* The driver's steps other than writes.
LEMMA OtherKernelKeeps ==
  ASSUME DInv, NEW f \in File, Step(f), ~write_locked(f), UNCHANGED server
  PROVE  NoneEmpty' /\ Counted' /\ OutWaits' /\ FullFlag' /\ LineStored'
<1>0. /\ TypeOK /\ DriverInv /\ DTypeOK /\ NoneEmpty /\ Counted /\ OutWaits /\ FullFlag /\ LineStored
      /\ \A d \in Conn : ConnInv(d)
      /\ loaded /\ loaded' /\ frame \in [File -> Frame]
      /\ thread' = thread /\ buffer' = buffer
  BY DInvFacts, LoadedStep, TypeFacts DEF server
<1>1. /\ bufferP'.entry = bufferP.entry /\ bufferP'.in_offs = bufferP.in_offs
      /\ bufferP'.full = bufferP.full /\ UNCHANGED <<entry, alloc, mem>>
  <2>1. ~write_fault(f)
    BY ServerAssumption DEF write_fault
  <2> QED BY <1>0, <2>1, DataUntouched, OutStep DEF Step
<1>2. NoneEmpty' /\ FullFlag'
  BY <1>0, <1>1 DEF NoneEmpty, FullFlag, FullIsRight, PtrAt
<1>3. OutWaits'
  <2>1. frame[f].at = "copied" /\ frame[f].last => bufferP.full
    BY <1>0, FilesApart DEF ConnInv, FdFollows, StreamFollows, Rewound, SeeksTo, Calls, Closed
  <2> QED BY <1>0, <1>1, <2>1, OutStep DEF OutWaits
<1>4. Counted'
  <2>1. frame'[f].at = "seek" /\ bufferP.full => frame'[f].total_size >= frame'[f].index
    <3>1. CASE llseek_sum(f)
      <4>1. /\ frame[f] \in SeekFrame /\ frame[f].at = "seek"
            /\ frame[f].index \in Slot /\ frame[f].total_size \in Nat
        BY <1>0, <3>1, FrameFields, MaxOpsAssumption DEF llseek_sum, SeekFrame, Slot
      <4>2. bufferP.full => bufferP.entry[frame[f].index].size > 0
        BY <1>0, <4>1 DEF FullFlag, FullIsRight, NoneEmpty
      <4>3. bufferP.entry[frame[f].index].size \in Nat
        BY <1>0, <4>1, TypeFacts
      <4>4. /\ frame'[f].index = frame[f].index + 1
            /\ frame'[f].total_size = frame[f].total_size + bufferP.entry[frame[f].index].size
        <5>1. frame'[f] = [frame[f] EXCEPT !.index = @ + 1,
                             !.total_size = @ + bufferP.entry[frame[f].index].size]
          BY <1>0, <3>1 DEF llseek_sum, Enter
        <5> QED BY <4>1, <5>1 DEF SeekFrame
      <4>5. bufferP.full => frame[f].total_size >= frame[f].index
        BY <1>0, <4>1 DEF Counted
      <4> QED BY <4>1, <4>2, <4>3, <4>4, <4>5, MaxOpsAssumption DEF Slot
    <3>2. CASE ioctl_scan(f)
      <4>1. frame[f] \in ScanFrame
        BY <1>0, <3>2, FrameFields DEF ioctl_scan
      <4>2. frame'[f] = [frame[f] EXCEPT !.i = @ + 1,
                           !.total_size = @ + bufferP.entry[frame[f].i].size]
        BY <1>0, <3>2 DEF ioctl_scan, Enter
      <4> QED BY <4>1, <4>2 DEF ScanFrame
    <3>3. CASE read_copy(f)
      BY <1>0, <3>3, EnterAt DEF read_copy
    <3>4. CASE ioctl_locked(f)
      <4>1. (\E r : Return(f, r)) \/ \E fr : Enter(f, fr) /\ fr.at = "scan"
        BY <3>4 DEF ioctl_locked
      <4> QED BY <1>0, <4>1, BackInUser, EnterAt
    <3>5. ASSUME \E r : Return(f, r) PROVE frame'[f].at = "user"
      BY <1>0, <3>5, BackInUser
    <3> QED BY <3>1, <3>2, <3>3, <3>4, <3>5, ServerAssumption
            DEF Step, open_reset, read_empty, read_stop, read_fault, read_advance, llseek_locked,
                ioctl_found, write_fault
  <2> QED BY <1>0, <1>1, <2>1, OneFile DEF Counted
<1>5. LineStored'
  <2>1. ASSUME NEW d \in Conn PROVE Through(d)' <=> Through(d)
    <3>1. thread[d] = "fclose" => frame[stream(d)].at \in {"user", "write"}
      BY <1>0 DEF ConnInv, StreamFollows, Calls
    <3>2. thread[d] = "fclose" => f # stream(d)
      BY <3>1, StepNotUser
    <3>3. thread[d] = "fclose" => frame'[stream(d)] = frame[stream(d)]
      BY <1>0, <3>2, OneFile, FilesApart
    <3> QED BY <1>0, <3>3 DEF Through, Calls
  <2>2. left' = left
    BY DEF server
  <2> QED BY <1>0, <1>1, <2>1, <2>2, LineKept
<1> QED BY <1>2, <1>3, <1>4, <1>5

\* A write is made by a thread in write_to_file, of a line it has received or of
\* what fputs makes of it; nobody seeks meanwhile.
LEMMA WriteByThread ==
  ASSUME DInv, NEW f \in File, write_locked(f)
  PROVE  /\ \A d \in Conn : thread[d] = "fclose" =>
              /\ f = stream(d) /\ buffer[d] \in Line
              /\ frame[f].buf = fputs(buffer[d]) /\ fputs(buffer[d]) # << >>
         /\ \A g \in File : frame[g].at # "seek"
         /\ frame[f].buf # << >>
         /\ \E c \in Conn : f = stream(c) /\ thread[c] = "fclose"
<1>0. DTypeOK /\ \A d \in Conn : ConnInv(d)
  BY DInvFacts
<1> USE DEF ConnInv, FdFollows, StreamFollows, HasLine, SeeksTo, Calls, Closed
<1>1. frame[f].at = "write"
  BY DEF write_locked
<1>2. PICK c \in Conn : /\ f = stream(c) /\ thread[c] = "fclose" /\ buffer[c] \in Line
                        /\ frame[f].buf = fputs(buffer[c]) /\ fputs(buffer[c]) # << >>
  BY <1>0, <1>1, FilesApart
<1>3. \A d \in Conn : thread[d] \in InFile => d = c
  BY <1>0, <1>2, OneInFile DEF InFile
<1>4. ASSUME NEW g \in File, frame[g].at = "seek" PROVE FALSE
  <2>1. PICK d \in Conn : (g = fd(d) \/ g = stream(d)) /\ thread[d] \in {"fputs", "size", "rewind"}
    BY <1>0, <1>4, FilesApart
  <2>2. d = c
    BY <1>3, <2>1 DEF InFile
  <2> QED BY <1>2, <2>1, <2>2
<1> QED BY <1>2, <1>3, <1>4 DEF InFile

\* A write keeps "full" right and leaves out_offs where it waits, since until then
\* the slots are filled from the first on.
LEMMA WriteKeepsFull ==
  ASSUME DInv, loaded, loaded', NEW f \in File, write_locked(f)
  PROVE  NoneEmpty' /\ OutWaits' /\ FullFlag'
<1>0. /\ TypeOK /\ MemorySafe /\ SizesMatch /\ FilledInOrder /\ NoneEmpty /\ OutWaits /\ FullIsRight
      /\ bufferP.in_offs \in Slot /\ bufferP.full \in BOOLEAN
  BY DInvFacts, TypeFacts DEF FullFlag
<1>1. PICK p \in Ptr : p # NULL /\ (Stored(p, Joined(f)) \/ Collected(p, Joined(f)))
  BY <1>0, WriteOutcome
<1>2. CASE bufferP' = bufferP
  BY <1>0, <1>2 DEF NoneEmpty, OutWaits, FullFlag, FullIsRight, PtrAt
<1>3. CASE bufferP' # bufferP
  <2> DEFINE in == bufferP.in_offs
  <2>1. Stored(p, Joined(f))
    BY <1>1, <1>3 DEF Collected
  <2>2. \A i \in Slot : bufferP'.entry[i] = IF i = in THEN [buffptr |-> p, size |-> Len(Joined(f))]
                                            ELSE bufferP.entry[i]
    BY <1>0, <2>1, TypeFacts DEF Stored
  <2>3. Len(Joined(f)) > 0
    <3>1. frame[f].buf \in Payload /\ frame[f].buf # << >>
      BY <1>0, WriteOutcome, WriteByThread
    <3>2. frame[f].buf \in Seq(Byte) /\ Len(frame[f].buf) > 0
      BY <3>1, DriverAssumption
    <3>3. Bytes(entry.buffptr) \in Seq(Byte)
      BY <1>0, BytesType, TypeFacts
    <3> QED BY <3>2, <3>3, EndOfConcat DEF Joined
  <2>4. NoneEmpty'
    BY <1>0, <2>2, <2>3 DEF NoneEmpty, PtrAt
  <2>5. /\ bufferP'.out_offs = OutAfterAdd(bufferP)
        /\ bufferP'.full = (bufferP.full \/ Succ(in) = OutAfterAdd(bufferP))
    BY <1>0, <1>3, WriteFlags
  <2>6. OutWaits'
    BY <1>0, <2>5 DEF OutWaits, OutAfterAdd
  <2>7. \A i \in Slot : bufferP'.entry[i].buffptr = IF i = in THEN p ELSE PtrAt(i)
    BY <2>2 DEF PtrAt
  <2>8. CASE bufferP.full
    <3>1. \A i \in Slot : bufferP'.entry[i].buffptr # NULL
      BY <1>0, <1>1, <2>7, <2>8 DEF FullIsRight
    <3> QED BY <2>4, <2>5, <2>6, <2>8, <3>1 DEF FullFlag, FullIsRight, PtrAt
  <2>9. CASE ~bufferP.full
    <3>1. \A i \in Slot : PtrAt(i) = NULL <=> i >= in
      BY <1>0, <2>9 DEF FilledInOrder, FullIsRight
    <3>2. bufferP'.full <=> in = MaxOps - 1
      <4>1. OutAfterAdd(bufferP) = 0
        BY <1>0, <2>9 DEF OutWaits, OutAfterAdd
      <4>2. in \in Slot /\ Succ(in) = IF in = MaxOps - 1 THEN 0 ELSE in + 1
        BY <1>0, SuccCases
      <4>3. bufferP'.full <=> Succ(in) = 0
        BY <2>5, <2>9, <4>1, Zenon
      <4>4. Succ(in) = 0 <=> in = MaxOps - 1
        BY <4>2, MaxOpsAssumption DEF Slot
      <4> QED BY <4>3, <4>4
    <3>3. (\A i \in Slot : bufferP'.entry[i].buffptr # NULL) <=> in = MaxOps - 1
      <4>1. in \in Slot
        BY <1>0
      <4>2. in = MaxOps - 1 => \A i \in Slot : i # in => ~(i >= in)
        BY <4>1, MaxOpsAssumption DEF Slot
      <4>3. in # MaxOps - 1 => in + 1 \in Slot /\ in + 1 # in /\ in + 1 >= in
        BY <4>1, MaxOpsAssumption DEF Slot
      <4> HIDE DEF in
      <4> QED BY <1>1, <2>7, <3>1, <4>1, <4>2, <4>3
    <3> QED BY <2>4, <2>6, <3>2, <3>3 DEF FullFlag, FullIsRight, PtrAt
  <2> QED BY <2>8, <2>9
<1> QED BY <1>2, <1>3

\* A write adds the line to what is in progress, and puts it into the ring if that
\* makes it a whole line.
LEMMA WriteStoresLine ==
  ASSUME DInv, loaded, loaded', NEW f \in File, write_locked(f), UNCHANGED server
  PROVE  LineStored'
<1>0. /\ TypeOK /\ DTypeOK /\ MemorySafe /\ SizesMatch /\ LineStored /\ bufferP.in_offs \in Slot
      /\ frame \in [File -> Frame]
      /\ thread' = thread /\ buffer' = buffer /\ left' = left
  BY DInvFacts, TypeFacts DEF server
<1> DEFINE s == Joined(f)
<1>1. PICK c \in Conn : f = stream(c) /\ thread[c] = "fclose"
  BY WriteByThread
<1>2. /\ \A d \in Conn : thread[d] = "fclose" => d = c
      /\ frame[f].buf = fputs(buffer[c]) /\ fputs(buffer[c]) # << >> /\ buffer[c] \in Line
  BY <1>1, WriteByThread, FilesApart
<1>3. InProgress = left
  <2>1. frame[f].at = "write"
    BY DEF write_locked
  <2>2. \A d \in Conn : ~Through(d)
    BY <1>1, <1>2, <2>1 DEF Through, Calls
  <2> QED BY <1>0, <2>2 DEF LineStored
<1>4. s = left \o fputs(buffer[c])
  BY <1>2, <1>3 DEF Joined, InProgress
<1>5. Len(s) > 0 /\ s \in Seq(Byte) /\ s # << >>
  <2>1. left \in Seq(Byte) /\ fputs(buffer[c]) \in Seq(Byte)
    BY <1>0, <1>2, LeftType DEF DTypeOK
  <2>2. Len(fputs(buffer[c])) > 0
    BY <1>2, <2>1
  <2> HIDE DEF s
  <2> QED BY <1>4, <2>1, <2>2, EndOfConcat
<1>6. PICK p \in Ptr :
        /\ BytesIn(mem', p) = s
        /\ IF Len(s) = 0 \/ OneLine(s) THEN Stored(p, s) ELSE Collected(p, s)
  BY <1>0, WriteOutcome
<1> HIDE DEF s
<1>7. ASSUME Whole(s) PROVE Newest' = s /\ InProgress' = << >>
  <2>1. Stored(p, s)
    BY <1>6, <1>7 DEF Whole
  <2>2. (Succ(bufferP.in_offs) + MaxOps - 1) % MaxOps = bufferP.in_offs
    <3>1. bufferP.in_offs \in Nat /\ bufferP.in_offs < MaxOps
      BY <1>0, MaxOpsAssumption DEF Slot
    <3>2. Succ(bufferP.in_offs) = IF bufferP.in_offs = MaxOps - 1 THEN 0 ELSE bufferP.in_offs + 1
      BY <1>0, SuccCases
    <3>3. CASE bufferP.in_offs = MaxOps - 1
      BY <3>1, <3>2, <3>3, MaxOpsAssumption
    <3>4. CASE bufferP.in_offs # MaxOps - 1
      <4>1. Succ(bufferP.in_offs) + MaxOps - 1 = bufferP.in_offs + MaxOps
        BY <3>1, <3>2, <3>4, MaxOpsAssumption
      <4> QED BY <3>1, <4>1, MaxOpsAssumption
    <3> QED BY <3>3, <3>4
  <2>3. bufferP'.in_offs = Succ(bufferP.in_offs) /\ bufferP'.entry[bufferP.in_offs].buffptr = p
    BY <1>0, <2>1, TypeFacts DEF Stored
  <2>4. Newest' = s
    BY <1>6, <2>2, <2>3 DEF Newest, PtrAt, Bytes, BytesIn
  <2>5. entry' = NullEntry
    BY <2>1 DEF Stored
  <2>6. InProgress' = << >>
    BY <2>5, DriverAssumption DEF InProgress, Bytes, NullEntry
  <2> QED BY <2>4, <2>6
<1>8. ASSUME ~Whole(s) PROVE InProgress' = s
  <2>1. Collected(p, s)
    BY <1>5, <1>6, <1>8 DEF Whole
  <2>2. entry'.buffptr = p
    BY <2>1 DEF Collected
  <2> QED BY <1>6, <2>2 DEF InProgress, Bytes, BytesIn
<1>9. Through(c)' /\ \A d \in Conn : Through(d)' => d = c
  <2>1. frame'[f].at = "user"
    BY <1>0, BackInUser DEF write_locked
  <2> QED BY <1>0, <1>1, <1>2, <2>1 DEF Through, Calls
<1>10. s = left' \o fputs(buffer'[c])
  BY <1>0, <1>4
<1>11. LET t == left' \o fputs(buffer'[c])
       IN  IF Whole(t) THEN Newest' = t /\ InProgress' = << >> ELSE InProgress' = t
  BY <1>7, <1>8, <1>10
<1> QED BY <1>9, <1>11 DEF LineStored

\* A step of the driver preserves the invariant.
LEMMA KernelKeeps ==
  ASSUME DInv, NEW f \in File, Step(f), UNCHANGED server
  PROVE  DeviceInv'
<1>0. /\ TypeOK /\ DriverInv /\ DTypeOK /\ \A d \in Conn : ConnInv(d)
      /\ loaded /\ loaded'
  BY DInvFacts, LoadedStep
<1>1. DTypeOK'
  BY <1>0 DEF DTypeOK, server
<1>2. \A d \in Conn : ConnInv(d)'
  <2>1. ASSUME NEW d \in Conn, f # fd(d), f # stream(d) PROVE ConnInv(d)'
    <3>1. /\ frame'[fd(d)] = frame[fd(d)] /\ frame'[stream(d)] = frame[stream(d)]
          /\ f_pos'[fd(d)] = f_pos[fd(d)]
      BY <1>0, <2>1, OneFile, FilesApart
    <3> QED BY <1>0, <3>1, ConnKept, FullStays DEF server
  <2> QED BY <2>1, KernelConn
<1>3. NoneEmpty' /\ Counted' /\ OutWaits' /\ FullFlag' /\ LineStored'
  <2>1. CASE write_locked(f)
    <3>1. Counted'
      <4>1. frame'[f].at = "user"
        BY <1>0, <2>1, BackInUser DEF write_locked
      <4>2. \A g \in File : frame[g].at # "seek"
        BY <2>1, WriteByThread
      <4> QED BY <1>0, <4>1, <4>2, OneFile DEF Counted
    <3> QED BY <1>0, <2>1, <3>1, WriteKeepsFull, WriteStoresLine
  <2> QED BY <2>1, OtherKernelKeeps
<1> QED BY <1>1, <1>2, <1>3 DEF DeviceInv, ConnInv

\* Loading the module finds no thread started.
LEMMA LoadKeepsDevice ==
  ASSUME DInv, init_module, UNCHANGED server
  PROVE  DeviceInv'
<1>0. DTypeOK /\ (\A c \in Conn : ConnInv(c)) /\ \A f \in File : frame[f] = Closed
  BY DInvFacts DEF init_module, DriverInv, ClosedWhenGone
<1>1. \A c \in Conn : thread[c] = "none"
  BY <1>0, FilesApart DEF ConnInv, FdFollows, SeeksTo, Calls, Closed
<1>2. DTypeOK' /\ thread' = thread /\ frame' = frame
  BY <1>0 DEF DTypeOK, server, init_module
<1>3. \A c \in Conn : ConnInv(c)'
  BY <1>0, <1>1, <1>2, FilesApart DEF ConnInv, FdFollows, StreamFollows, HasLine, SizeRead, Rewound
<1>4. Counted'
  BY <1>0, <1>2 DEF Counted, Closed
<1>5. LineStored'
  <2>1. \A c \in Conn : ~Through(c) /\ ~Through(c)'
    BY <1>1, <1>2 DEF Through
  <2>2. left = << >> /\ left' = left
    BY <2>1, DInvFacts DEF LineStored, InProgress, init_module, server
  <2>3. InProgress' = << >>
    BY DriverAssumption DEF init_module, InProgress, Bytes, NullEntry
  <2> QED BY <2>1, <2>2, <2>3 DEF LineStored
<1>6. bufferP' = circular_buffer_init
  BY DEF init_module
<1>7. NoneEmpty' /\ OutWaits'
  BY <1>6 DEF NoneEmpty, OutWaits, PtrAt, circular_buffer_init, NullEntry
<1>8. FullFlag'
  <2>1. 0 \in Slot
    BY MaxOpsAssumption DEF Slot
  <2>2. bufferP'.full = FALSE /\ bufferP'.entry[0].buffptr = NULL
    BY <1>6, <2>1 DEF circular_buffer_init, NullEntry
  <2> QED BY <2>1, <2>2 DEF FullFlag, FullIsRight, PtrAt
<1> QED BY <1>2, <1>3, <1>4, <1>5, <1>7, <1>8 DEF DeviceInv, ConnInv

\* Stuttering preserves it too.
LEMMA StutterKeeps ==
  ASSUME DeviceInv, UNCHANGED dvars
  PROVE  DeviceInv'
<1>0. /\ UNCHANGED <<loaded, bufferP, entry, mem, f_pos, frame, thread, buffer, file_size, file_mutex,
                   left>>
      /\ DTypeOK /\ (\A c \in Conn : ConnInv(c))
      /\ NoneEmpty /\ Counted /\ OutWaits /\ FullFlag /\ LineStored
  BY DEF dvars, vars, dev, heap, server, DeviceInv, ConnInv
<1>1. DTypeOK'
  BY <1>0 DEF DTypeOK
<1>2. \A c \in Conn : ConnInv(c)'
  BY <1>0, ConnKept
<1>3. NoneEmpty' /\ Counted' /\ OutWaits' /\ FullFlag'
  BY <1>0 DEF NoneEmpty, Counted, OutWaits, FullFlag, FullIsRight, PtrAt
<1>4. LineStored'
  <2>1. \A c \in Conn : Through(c)' <=> Through(c)
    BY <1>0 DEF Through, Calls
  <2> QED BY <1>0, <2>1, LineKept
<1> QED BY <1>1, <1>2, <1>3, <1>4 DEF DeviceInv, ConnInv
-------------------------------------------------------------------------------
(* The theorems.                                                           *)

\* Every step of the threads and of the driver they call preserves what is known.
LEMMA DInvStep == DInv /\ [DNext]_dvars => DInv'
<1> SUFFICES ASSUME DInv, [DNext]_dvars PROVE DeviceInv'
  BY SafeKept DEF DInv
<1>1. CASE UNCHANGED dvars
  BY <1>1, StutterKeeps DEF DInv
<1>2. CASE KernelStep /\ UNCHANGED server
  BY <1>2, KernelKeeps, LoadKeepsDevice DEF KernelStep
<1>3. CASE \E c \in Conn : (ThreadStep(c) \/ ClientStep(c)) /\ Remembers(c)
  BY <1>3, ThreadKeeps
<1> QED BY <1>1, <1>2, <1>3 DEF DNext

\* It holds when neither the module nor a thread has started.
LEMMA DInvInit == DInit => DInv
<1> SUFFICES ASSUME DInit PROVE DInv
  OBVIOUS
<1>1. Init
  BY DEF DInit
<1>2. Safe /\ FilledInOrder
  BY <1>1, InitType, DriverAssumption
     DEF Init, Safe, DriverInv, LockDiscipline, CounterBelowLimit, ScanInRange, ClosedWhenGone,
         Closed, MemorySafe, SizesMatch, FilledInOrder
<1>3. DTypeOK
  <2>1. left \in Seq(Byte) /\ ~Whole(left)
    BY DEF DInit, Whole
  <2> QED BY <2>1, ServerAssumption DEF DInit, DTypeOK, InFile
<1>4. \A c \in Conn : ConnInv(c)
  BY <1>1, FilesApart DEF DInit, Init, ConnInv, FdFollows, StreamFollows, HasLine, SizeRead, Rewound
<1>5. NoneEmpty /\ Counted /\ OutWaits /\ FullFlag
  BY <1>1 DEF DInit, Init, NoneEmpty, Counted, OutWaits, FullFlag, Closed
<1>6. LineStored
  BY <1>1 DEF DInit, Init, LineStored, Through, InProgress
<1> QED BY <1>2, <1>3, <1>4, <1>5, <1>6 DEF DInv, DeviceInv, ConnInv

\* So it holds always.
LEMMA DInvInvariant == DSpec => []DInv
BY DInvInit, DInvStep, PTL DEF DSpec

\* The threads of the server use the driver as any program may: what they make of it
\* is a behaviour of the driver, so that every theorem about the driver holds here.
THEOREM ServerUsesDriver == DSpec => Spec
<1>1. DInit => Init
  BY DEF DInit
<1> QED BY <1>1, DInvInvariant, DriverStep, PTL DEF DSpec, Spec

\* The places of the threads, who owns file_mutex, the calls each file is in and the
\* positions they work with.
THEOREM DeviceInvariant == DSpec => []DeviceInv
BY DInvInvariant, PTL DEF DInv

\* With the server as the only user "full" is right, although aesd_open stores
\* out_offs without the lock at any moment.
THEOREM DeviceFullFlag == DSpec => []FullFlag
BY DeviceInvariant, PTL DEF DeviceInv

\* What becomes of a line, whatever the other threads do: it is the newest entry of
\* the ring, whole and alone unless lines before it were cut, or in dev->entry after
\* what they left there.
THEOREM DeviceLineStored == DSpec => []LineStored
BY DeviceInvariant, PTL DEF DeviceInv

\* No lseek of the server is refused, however the unlocked loop of aesd_llseek
\* interleaves with opens and reads.
THEOREM DeviceSeeksSucceed == DSpec => []SeeksSucceed
<1>1. DeviceInv => SeeksSucceed
  <2> SUFFICES ASSUME DeviceInv, NEW c \in Conn
               PROVE  /\ thread[c] = "fputs" /\ Calls(stream(c)) => frame[stream(c)].ret >= 0
                      /\ thread[c] \in {"size", "rewind"} /\ Calls(fd(c)) => frame[fd(c)].ret >= 0
    BY DEF SeeksSucceed
  <2>1. SizeRead(c) /\ Rewound(c)
    BY DEF DeviceInv
  <2>2. \A n \in Slot : n >= 0
    BY MaxOpsAssumption DEF Slot
  <2> QED BY <2>1, <2>2 DEF SizeRead, Rewound
<1> QED BY <1>1, DeviceInvariant, PTL

\* A reply is read from the start of the device, and its read does not fault.
THEOREM DeviceReplyFromStart == DSpec => []ReplyFromStart
<1>1. DeviceInv => ReplyFromStart
  BY DEF DeviceInv, Rewound, ReplyFromStart
<1> QED BY <1>1, DeviceInvariant, PTL

\* While the module stays loaded the server makes the driver lose no block.
THEOREM DeviceNothingLeaks == DSpec => NothingLeaks
<1>1. DInv /\ [DNext]_dvars => [loaded /\ loaded' => Lost' \subseteq Lost]_vars
  <2> SUFFICES ASSUME DInv, [Next]_vars, loaded, loaded' PROVE Lost' \subseteq Lost
    BY DriverStep
  <2>1. Safe /\ FilledInOrder /\ FullIsRight /\ DriverInv
    BY DInvFacts DEF DInv, FullFlag
  <2>2. CASE Untouched
    BY <2>2 DEF Untouched, Lost, RingPtrs
  <2>3. ASSUME NEW f \in File, write_fault(f) PROVE FALSE
    BY <2>3, ServerAssumption DEF write_fault
  <2> QED BY <2>1, <2>2, <2>3, NoLeakStep, LoadedCases
<1> QED BY <1>1, DInvInvariant, PTL DEF DSpec, NothingLeaks

\* What the server's device keeps is the log of the last lines, none of them mixed
\* up, and no pointer of it dangles.
THEOREM DeviceKeepsLog == DSpec => KeepsCommandLog /\ []EntriesAreLines /\ []MemorySafe
BY ServerUsesDriver, DriverKeepsCommandLog, DriverEntriesAreLines, DriverMemorySafe, PTL
===============================================================================

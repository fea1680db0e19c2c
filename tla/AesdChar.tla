------------------------------- MODULE AesdChar -------------------------------
(***************************************************************************)
(* The character driver, aesd-char-driver/main.c: one aesd_dev shared by   *)
(* every open file.  Assumed: a file is driven by one thread at a time, as *)
(* the server drives it (the kernel does not see to it for a character     *)
(* device).  So a file carries the frame of the system call it is          *)
(* executing; system calls on different files interleave.                  *)
(*                                                                         *)
(* A call is cut where others can interfere: aesd_open and the prologues   *)
(* of aesd_read and aesd_llseek touch bufferP without the lock, and        *)
(* aesd_open stores out_offs while a reader may be between its copy and    *)
(* its update of out_offs.  Everything else runs under the lock and is one *)
(* step.  A file waits in state "read", "write", "seek" or "ioctl" until   *)
(* the lock is free or a signal interrupts the wait.                       *)
(*                                                                         *)
(* External: kmalloc(0) yields ZERO_SIZE_PTR; small allocations do not     *)
(* fail; a faulting copy_from_user zeroes what it did not copy; a          *)
(* copy_to_user of a negative (hence huge) count reports a fault.          *)
(***************************************************************************)
EXTENDS CircularBuffer, Sequences, SequencesExt

CONSTANTS
  File, Nobody,          \* open files; the owner of a free lock
  Block, ZERO_SIZE_PTR,  \* blocks kmalloc hands out; what it returns for 0 bytes
  Byte, EOL, ZERO,       \* bytes: '\n' and '\0' matter
  ReadLimit,             \* the number readCounter is compared with (10 in the source)
  Payload,               \* the byte strings written
  ReadCount,             \* the counts reads ask for
  SeekOffset, Whence,    \* the arguments of lseek
  SeekTo,                \* the write_cmd and write_cmd_offset of an ioctl
  StackWord,             \* what an uninitialised 32-bit word may hold
  Faults,                \* may copies from or to user space fault?
  MaxStaged, MaxPos      \* bounds on dev->entry.size and f_pos

ASSUME DriverAssumption ==
  /\ NULL \notin Block /\ ZERO_SIZE_PTR \notin Block /\ NULL # ZERO_SIZE_PTR
  /\ Nobody \notin File
  /\ {EOL, ZERO} \subseteq Byte /\ EOL # ZERO
  /\ ReadLimit \in Nat
  /\ Payload \subseteq Seq(Byte)
  /\ ReadCount \subseteq Nat
  /\ SeekOffset \subseteq Int
  /\ Whence \subseteq {"SET", "CUR", "END", "OTHER"}
  /\ SeekTo \subseteq [write_cmd : Nat, write_cmd_offset : Nat]
  /\ StackWord \subseteq Nat
  /\ Faults \in BOOLEAN
  /\ MaxStaged \in Nat /\ MaxPos \in Nat

VARIABLES
  loaded,        \* the module is in the kernel
  bufferP,       \* dev->bufferP
  entry,         \* dev->entry, the command being collected
  readCounter,   \* dev->readCounter
  lock,          \* owner of dev->lock
  alloc,         \* the blocks allocated and not freed
  mem,           \* their bytes
  f_pos,         \* filp->f_pos of each file
  frame          \* the system call each file is in

dev  == <<bufferP, entry, readCounter>>
heap == <<alloc, mem>>
vars == <<loaded, dev, lock, heap, f_pos, frame>>

Ptr == Block \cup {NULL, ZERO_SIZE_PTR}

EFAULT == 14
EINVAL == 22
ENOTTY == 25
ERESTARTSYS == 512

Closed    == [at |-> "closed"]
InUser(r) == [at |-> "user", ret |-> r]   \* back from a call that returned r

Enter(f, fr)  == frame' = [frame EXCEPT ![f] = fr]
Return(f, r)  == Enter(f, InUser(r))
Calls(f)      == frame[f].at = "user"

Bytes(p) == IF p \in Block THEN mem[p] ELSE << >>

\* The heap keeps the bytes of the blocks in A, with p now holding s.
Holding(A, p, s) ==
  /\ alloc' = A
  /\ mem' = [b \in Block |-> IF b = p THEN s ELSE IF b \in A THEN mem[b] ELSE << >>]

kmalloc(n) == IF n = 0 THEN {ZERO_SIZE_PTR} ELSE Block \ alloc
-------------------------------------------------------------------------------
(* Loading and unloading the module.                                       *)

Init ==
  /\ loaded = FALSE
  /\ bufferP = circular_buffer_init
  /\ entry = NullEntry
  /\ readCounter = 0
  /\ lock = Nobody
  /\ alloc = {}
  /\ mem = [b \in Block |-> << >>]
  /\ f_pos = [f \in File |-> 0]
  /\ frame = [f \in File |-> Closed]

\* An insmod that fails leaves the module out: no step.
init_module ==
  /\ ~loaded
  /\ loaded' = TRUE
  /\ bufferP' = circular_buffer_init
  /\ entry' = NullEntry
  /\ readCounter' = 0
  /\ lock' = Nobody
  /\ UNCHANGED <<heap, f_pos, frame>>

RingPtrs == {bufferP.entry[i].buffptr : i \in Slot}

\* The kernel holds the module while a file is open.  clean_aesd frees the
\* ring's blocks; dev->entry is left alone.
cleanup_module ==
  /\ loaded
  /\ \A f \in File : frame[f] = Closed
  /\ loaded' = FALSE
  /\ Holding(alloc \ RingPtrs, NULL, << >>)
  /\ UNCHANGED <<dev, lock, f_pos, frame>>
-------------------------------------------------------------------------------
(* aesd_open and aesd_release take no lock.  A file exists from one to the *)
(* other; f_pos starts at 0.                                               *)

open(f) ==
  /\ loaded /\ frame[f] = Closed
  /\ IF bufferP.full THEN Return(f, 0) ELSE Enter(f, [at |-> "open"])
  /\ UNCHANGED <<loaded, dev, lock, heap, f_pos>>

open_reset(f) ==
  /\ frame[f].at = "open"
  /\ bufferP' = [bufferP EXCEPT !.out_offs = 0]
  /\ Return(f, 0)
  /\ UNCHANGED <<loaded, entry, readCounter, lock, heap, f_pos>>

release(f) ==
  /\ Calls(f)
  /\ Enter(f, Closed)
  /\ f_pos' = [f_pos EXCEPT ![f] = 0]
  /\ UNCHANGED <<loaded, dev, lock, heap>>
-------------------------------------------------------------------------------
(* aesd_write.                                                             *)

write(f, d) ==
  /\ Calls(f)
  /\ entry.size + Len(d) <= MaxStaged
  /\ f_pos[f] + Len(d) <= MaxPos
  /\ Enter(f, [at |-> "write", buf |-> d])
  /\ UNCHANGED <<loaded, dev, lock, heap, f_pos>>

\* Mutant: the last newline instead of the first.
CheckLastEOL(s) == SelectLastInSeq(s, LAMBDA c : c = EOL) - 1

\* Position of the first EOL, -1 when there is none.
checkEOLChar(s) == SelectInSeq(s, LAMBDA c : c = EOL) - 1

\* Mutant: dev->entry is not cleared when it has been moved into the ring.
MoveKeepsEntry(e, s, A) ==
  IF checkEOLChar(s) = e.size - 1
  THEN /\ bufferP' = add_entry(bufferP, e)
       /\ Holding(A \ {add_entry_result(bufferP)}, e.buffptr, s)
       /\ entry' = e
  ELSE /\ Holding(A, e.buffptr, s)
       /\ entry' = e
       /\ UNCHANGED bufferP

\* Mutant: a newline anywhere, or none, will do.
MoveAnything(e, s, A) ==
  /\ bufferP' = add_entry(bufferP, e)
  /\ Holding(A \ {add_entry_result(bufferP)}, e.buffptr, s)
  /\ entry' = NullEntry

\* dev->entry is e with bytes s, the blocks in A are allocated: move it into
\* the ring if its first EOL is its last byte.  kfree of NULL does nothing.
write_entry_into_buffer(e, s, A) ==
  IF checkEOLChar(s) = e.size - 1
  THEN /\ bufferP' = add_entry(bufferP, e)
       /\ Holding(A \ {add_entry_result(bufferP)}, e.buffptr, s)
       /\ entry' = NullEntry
  ELSE /\ Holding(A, e.buffptr, s)
       /\ entry' = e
       /\ UNCHANGED bufferP

\* Mutant: the size of the command in progress is not added.
StagedSizeForgotten == 0

StagedSize == IF entry.buffptr # NULL THEN entry.size ELSE 0

\* A command in progress is copied to a larger block and its old one freed;
\* without one the new block is dev->entry right away.
write_locked(f) ==
  /\ frame[f].at = "write" /\ lock = Nobody
  /\ LET d    == frame[f].buf
         size == StagedSize + Len(d)
     IN  \E p \in kmalloc(size) :
           /\ write_entry_into_buffer([buffptr |-> p, size |-> size],
                                      Bytes(entry.buffptr) \o d,
                                      (alloc \ {entry.buffptr}) \cup ({p} \cap Block))
           /\ f_pos' = [f_pos EXCEPT ![f] = @ + Len(d)]
           /\ Return(f, Len(d))
  /\ UNCHANGED <<loaded, readCounter, lock>>

\* copy_from_user stops after k bytes.  With a command in progress the new
\* block is forgotten; without one it is dev->entry already.
write_fault(f) ==
  /\ Faults
  /\ frame[f].at = "write" /\ lock = Nobody
  /\ LET d == frame[f].buf
     IN  \E p \in kmalloc(StagedSize + Len(d)), k \in 0 .. Len(d) - 1 :
           /\ Holding(alloc \cup {p}, p,
                      Bytes(entry.buffptr) \o
                      [i \in 1 .. Len(d) |-> IF i <= k THEN d[i] ELSE ZERO])
           /\ entry' = IF entry.buffptr # NULL THEN entry
                       ELSE [buffptr |-> p, size |-> Len(d)]
  /\ Return(f, -EFAULT)
  /\ UNCHANGED <<loaded, bufferP, readCounter, lock, f_pos>>
-------------------------------------------------------------------------------
(* aesd_read.  entrySize is taken before the lock.                         *)

OutEntry == bufferP.entry[bufferP.out_offs]

read(f, n) ==
  /\ Calls(f)
  /\ Enter(f, [at |-> "read", count |-> n, size |-> OutEntry.size])
  /\ UNCHANGED <<loaded, dev, lock, heap, f_pos>>

\* Nothing there: return 0.
read_empty(f) ==
  /\ frame[f].at = "read" /\ lock = Nobody
  /\ frame[f].size = 0
  /\ Return(f, 0)
  /\ UNCHANGED <<loaded, dev, lock, heap, f_pos>>

\* Enough has been read: return 0 once and start counting again.
read_stop(f) ==
  /\ frame[f].at = "read" /\ lock = Nobody
  /\ frame[f].size # 0 /\ readCounter = ReadLimit
  /\ readCounter' = 0
  /\ Return(f, 0)
  /\ UNCHANGED <<loaded, bufferP, entry, lock, heap, f_pos>>

\* The request goes past the entry: shorten it and move on to the next entry.
LastRead(f) == f_pos[f] + frame[f].count > frame[f].size

\* Mutant: the request is not shortened.
AsRequested(f) == frame[f].count

Shortened(f) == IF LastRead(f) THEN frame[f].size - f_pos[f] ELSE frame[f].count

\* Mutant: the counter is not compared with the limit.
ReadsOn(f) ==
  /\ frame[f].at = "read" /\ lock = Nobody
  /\ frame[f].size # 0

Reads(f) ==
  /\ frame[f].at = "read" /\ lock = Nobody
  /\ frame[f].size # 0 /\ readCounter # ReadLimit

\* Mutant: the error path forgets to unlock.
FaultKeepsLock(f) ==
  /\ Reads(f)
  /\ Shortened(f) < 0 \/ (Faults /\ Shortened(f) > 0)
  /\ lock' = f
  /\ Return(f, -EFAULT)
  /\ UNCHANGED <<loaded, dev, heap, f_pos>>

read_fault(f) ==
  /\ Reads(f)
  /\ Shortened(f) < 0 \/ (Faults /\ Shortened(f) > 0)
  /\ Return(f, -EFAULT)
  /\ UNCHANGED <<loaded, dev, lock, heap, f_pos>>

\* The copy: count bytes from the start of the entry out_offs designates now.
read_copy(f) ==
  /\ Reads(f)
  /\ Shortened(f) >= 0
  /\ lock' = f
  /\ Enter(f, [at |-> "copied", count |-> Shortened(f), last |-> LastRead(f),
               buffptr |-> OutEntry.buffptr])
  /\ UNCHANGED <<loaded, dev, heap, f_pos>>

read_advance(f) ==
  /\ frame[f].at = "copied"
  /\ readCounter' = readCounter + 1
  /\ IF frame[f].last
     THEN /\ bufferP' = [bufferP EXCEPT !.out_offs = Succ(@)]
          /\ f_pos' = [f_pos EXCEPT ![f] = 0]
     ELSE /\ f_pos' = [f_pos EXCEPT ![f] = @ + frame[f].count]
          /\ UNCHANGED bufferP
  /\ lock' = Nobody
  /\ Return(f, frame[f].count)
  /\ UNCHANGED <<loaded, entry, heap>>
-------------------------------------------------------------------------------
(* aesd_llseek.  The sizes are added up one by one before the lock.        *)

llseek(f, off, wh) ==
  /\ Calls(f)
  /\ Enter(f, [at |-> "seek", offset |-> off, whence |-> wh, index |-> 0, total_size |-> 0])
  /\ UNCHANGED <<loaded, dev, lock, heap, f_pos>>

llseek_sum(f) ==
  /\ frame[f].at = "seek" /\ frame[f].index < MaxOps
  /\ Enter(f, [frame[f] EXCEPT !.index = @ + 1,
                               !.total_size = @ + bufferP.entry[frame[f].index].size])
  /\ UNCHANGED <<loaded, dev, lock, heap, f_pos>>

NewPos(f) == frame[f].offset + CASE frame[f].whence = "SET" -> 0
                                 [] frame[f].whence = "CUR" -> f_pos[f]
                                 [] frame[f].whence = "END" -> bufferP.out_offs

\* Mutant: the end itself is out of range.
SeekStrict(f) ==
  /\ frame[f].at = "seek" /\ frame[f].index = MaxOps /\ lock = Nobody
  /\ IF frame[f].whence # "OTHER" /\ NewPos(f) \in 0 .. frame[f].total_size - 1
     THEN Return(f, NewPos(f)) /\ f_pos' = [f_pos EXCEPT ![f] = NewPos(f)]
     ELSE Return(f, -EINVAL) /\ UNCHANGED f_pos
  /\ UNCHANGED <<loaded, dev, lock, heap>>

llseek_locked(f) ==
  /\ frame[f].at = "seek" /\ frame[f].index = MaxOps /\ lock = Nobody
  /\ IF frame[f].whence # "OTHER" /\ NewPos(f) \in 0 .. frame[f].total_size
     THEN Return(f, NewPos(f)) /\ f_pos' = [f_pos EXCEPT ![f] = NewPos(f)]
     ELSE Return(f, -EINVAL) /\ UNCHANGED f_pos
  /\ UNCHANGED <<loaded, dev, lock, heap>>
-------------------------------------------------------------------------------
(* aesd_ioctl and aesd_adjust_file_offset.                                 *)

\* Not our command, or the argument cannot be read.
ioctl_rejected(f) ==
  /\ Calls(f)
  /\ Return(f, -ENOTTY) \/ (Faults /\ Return(f, -EFAULT))
  /\ UNCHANGED <<loaded, dev, lock, heap, f_pos>>

\* copy_from_user is told to copy "sizeof(seekto) != 0" bytes, that is one:
\* the low byte of write_cmd arrives, the other seven bytes of the local
\* seekto are what was on the stack.
ioctl(f, s) ==
  /\ Calls(f)
  /\ \E high \in StackWord, offset \in StackWord :
       Enter(f, [at |-> "ioctl", asked |-> s,
                 write_cmd |-> (s.write_cmd % 256) + 256 * high,
                 write_cmd_offset |-> offset])
  /\ UNCHANGED <<loaded, dev, lock, heap, f_pos>>

ioctl_locked(f) ==
  /\ frame[f].at = "ioctl" /\ lock = Nobody
  /\ IF frame[f].write_cmd >= MaxOps
     THEN Return(f, -EINVAL) /\ UNCHANGED lock
     ELSE /\ lock' = f
          /\ Enter(f, [at |-> "scan", asked |-> frame[f].asked,
                       write_cmd |-> frame[f].write_cmd,
                       write_cmd_offset |-> frame[f].write_cmd_offset,
                       i |-> 0, total_size |-> 0])
  /\ UNCHANGED <<loaded, dev, heap, f_pos>>

ioctl_scan(f) ==
  /\ frame[f].at = "scan" /\ frame[f].i # frame[f].write_cmd
  /\ Enter(f, [frame[f] EXCEPT !.i = @ + 1,
                               !.total_size = @ + bufferP.entry[frame[f].i].size])
  /\ UNCHANGED <<loaded, dev, lock, heap, f_pos>>

\* Mutant: an offset outside the entry returns without unlocking.
FoundKeepsLock(f) ==
  /\ frame[f].at = "scan" /\ frame[f].i = frame[f].write_cmd
  /\ IF frame[f].write_cmd_offset >= bufferP.entry[frame[f].i].size
     THEN Return(f, -EINVAL) /\ UNCHANGED <<f_pos, lock>>
     ELSE /\ f_pos' = [f_pos EXCEPT ![f] = frame[f].total_size + frame[f].write_cmd_offset]
          /\ Return(f, 0)
          /\ lock' = Nobody
  /\ UNCHANGED <<loaded, dev, heap>>

\* Mutant: the entries before the one looked for are not counted.
FoundWithinEntry(f) ==
  /\ frame[f].at = "scan" /\ frame[f].i = frame[f].write_cmd
  /\ IF frame[f].write_cmd_offset >= bufferP.entry[frame[f].i].size
     THEN Return(f, -EINVAL) /\ UNCHANGED f_pos
     ELSE /\ f_pos' = [f_pos EXCEPT ![f] = frame[f].write_cmd_offset]
          /\ Return(f, 0)
  /\ lock' = Nobody
  /\ UNCHANGED <<loaded, dev, heap>>

ioctl_found(f) ==
  /\ frame[f].at = "scan" /\ frame[f].i = frame[f].write_cmd
  /\ IF frame[f].write_cmd_offset >= bufferP.entry[frame[f].i].size
     THEN Return(f, -EINVAL) /\ UNCHANGED f_pos
     ELSE /\ f_pos' = [f_pos EXCEPT ![f] = frame[f].total_size + frame[f].write_cmd_offset]
          /\ Return(f, 0)
  /\ lock' = Nobody
  /\ UNCHANGED <<loaded, dev, heap>>
-------------------------------------------------------------------------------
\* mutex_lock_interruptible gives up because of a signal.
AtLock(f) == \/ frame[f].at \in {"read", "write", "ioctl"}
             \/ frame[f].at = "seek" /\ frame[f].index = MaxOps

interrupted(f) ==
  /\ AtLock(f)
  /\ Return(f, -ERESTARTSYS)
  /\ UNCHANGED <<loaded, dev, lock, heap, f_pos>>

\* What user space starts, and what the kernel then does for the file.
Start(f) ==
  \/ open(f) \/ release(f) \/ ioctl_rejected(f)
  \/ \E d \in Payload : write(f, d)
  \/ \E n \in ReadCount : read(f, n)
  \/ \E off \in SeekOffset, wh \in Whence : llseek(f, off, wh)
  \/ \E s \in SeekTo : ioctl(f, s)

Step(f) ==
  \/ open_reset(f)
  \/ write_locked(f) \/ write_fault(f)
  \/ read_empty(f) \/ read_stop(f) \/ read_fault(f) \/ read_copy(f) \/ read_advance(f)
  \/ llseek_sum(f) \/ llseek_locked(f)
  \/ ioctl_locked(f) \/ ioctl_scan(f) \/ ioctl_found(f)

Next ==
  \/ init_module \/ cleanup_module
  \/ \E f \in File : Start(f) \/ Step(f) \/ interrupted(f)

Spec == Init /\ [][Next]_vars

\* Threads in the kernel keep running, and a mutex waiter is not passed over
\* forever (the kernel's mutexes hand the lock to the first waiter).
FairSpec == Spec /\ \A f \in File : SF_vars(Step(f))
-------------------------------------------------------------------------------
Frame ==
       [at : {"closed", "open"}]
  \cup [at : {"user"}, ret : Int]
  \cup [at : {"write"}, buf : Payload]
  \cup [at : {"read"}, count : Nat, size : Nat]
  \cup [at : {"copied"}, count : Nat, last : BOOLEAN, buffptr : Ptr]
  \cup [at : {"seek"}, offset : Int, whence : Whence, index : 0 .. MaxOps, total_size : Nat]
  \cup [at : {"ioctl"}, asked : SeekTo, write_cmd : Nat, write_cmd_offset : Nat]
  \cup [at : {"scan"}, asked : SeekTo, write_cmd : Slot, write_cmd_offset : Nat,
        i : Slot, total_size : Nat]

TypeOK ==
  /\ loaded \in BOOLEAN
  /\ bufferP \in BufferOf(Ptr)
  /\ entry \in EntryOf(Ptr)
  /\ readCounter \in 0 .. ReadLimit
  /\ lock \in File \cup {Nobody}
  /\ alloc \subseteq Block
  /\ mem \in [Block -> Seq(Byte)]
  /\ f_pos \in [File -> Nat]
  /\ frame \in [File -> Frame]

\* No pointer the device keeps is dangling, and no two places own the same
\* block: what add_entry hands back to be freed, what an append frees and
\* what clean_aesd frees is freed once, however open, read and write calls
\* on several files interleave and however wrong "full" and out_offs are.
PtrAt(i) == bufferP.entry[i].buffptr
MemorySafe ==
  loaded =>
    /\ \A i \in Slot : PtrAt(i) \in Block => PtrAt(i) \in alloc
    /\ \A i, j \in Slot : PtrAt(i) \in Block /\ PtrAt(i) = PtrAt(j) => i = j
    /\ entry.buffptr \in Block =>
         entry.buffptr \in alloc /\ \A i \in Slot : PtrAt(i) # entry.buffptr

\* Every size the device keeps is the size of the block beside it: the reads
\* and the EOL test that trust entry.size see the bytes that were written.
SizesMatch ==
  loaded =>
    /\ \A i \in Slot : bufferP.entry[i].size = Len(Bytes(PtrAt(i)))
    /\ entry.size = Len(Bytes(entry.buffptr))

\* The lock is held exactly by a call that is between its copy and its end:
\* no return path, error paths included, goes back to user space with it.
LockDiscipline ==
  \A f \in File : lock = f <=> frame[f].at \in {"copied", "scan"}

\* A read tests readCounter for equality with the limit and increments it
\* after the copy: what it tested still holds then, whoever else reads, so the
\* counter never steps over the limit.
CounterBelowLimit ==
  \A f \in File : frame[f].at = "copied" => readCounter < ReadLimit

\* The inductive invariant behind the types.  The loop of an ioctl has not
\* gone past the entry it looks for, so its exit "write_cmd was not found",
\* which would report success for a position it did not set, is never taken;
\* and files are open only while the module is loaded.
ScanInRange ==
  \A f \in File : frame[f].at = "scan" => frame[f].i <= frame[f].write_cmd

ClosedWhenGone == ~loaded => \A f \in File : frame[f] = Closed

DriverInv ==
  TypeOK /\ LockDiscipline /\ CounterBelowLimit /\ ScanInRange /\ ClosedWhenGone

\* Once a command in progress contains a newline that is not its last byte,
\* write_entry_into_buffer never moves anything into the ring again.
EOLInside(s) == \E i \in 1 .. Len(s) - 1 : s[i] = EOL
Stuck == loaded /\ EOLInside(Bytes(entry.buffptr))
StuckForever == [][Stuck /\ loaded' => Stuck' /\ bufferP'.entry = bufferP.entry]_vars

\* Every entry of the ring is one line, its first newline being its last
\* byte, or nothing at all (a write of no bytes; size - 1 is then what
\* checkEOLChar returns): never part of a command, never two in one.
OneLine(s) == s[Len(s)] = EOL /\ ~EOLInside(s)
EntriesAreLines ==
  loaded => \A i \in Slot : LET s == Bytes(PtrAt(i)) IN Len(s) > 0 => OneLine(s)

\* The slots hold the last commands written, in the order of in_offs, and
\* dev->entry the command in progress, whatever readers and openers do to
\* out_offs and "full".
Oldest == IF PtrAt(bufferP.in_offs) = NULL THEN 0 ELSE bufferP.in_offs
Kept   == IF PtrAt(bufferP.in_offs) = NULL THEN bufferP.in_offs ELSE MaxOps
Commands   == IF loaded
              THEN [k \in 1 .. Kept |-> Bytes(PtrAt((Oldest + (k - 1)) % MaxOps))]
              ELSE << >>
InProgress == IF loaded THEN Bytes(entry.buffptr) ELSE << >>
Log == INSTANCE CommandLog WITH Capacity <- MaxOps, recent <- Commands, partial <- InProgress
KeepsCommandLog == Log!Spec

\* The inductive invariant behind it: in_offs goes round the array, and the slots
\* it has not come to yet are the unused ones.
FilledInOrder ==
  loaded => \A i \in Slot :
              PtrAt(i) = NULL <=> PtrAt(bufferP.in_offs) = NULL /\ i >= bufferP.in_offs

\* Every system call returns, whatever the other files do, with an empty ring
\* and with a full one.  The one exception is a write that asks for memory when
\* there is none left: it waits, for ever if nothing is freed.
CallsReturn ==
  \A f \in File :
    frame[f].at \notin {"closed", "user"}
      ~> frame[f].at = "user" \/ (frame[f].at = "write" /\ alloc = Block)

\* "full" says what its comment says ("set to true when the buffer entry
\* structure is full", aesd-circular-buffer.h).
FullIsRight == bufferP.full <=> \A i \in Slot : PtrAt(i) # NULL
FullFlag    == loaded => FullIsRight

\* As long as the module stays loaded and copies succeed, a block becomes
\* unreachable while it is allocated only where "full" is wrong: what
\* add_entry hands back is otherwise all there is to free.
Lost   == alloc \ (RingPtrs \cup {entry.buffptr})
NoLeak == [][loaded /\ loaded' /\ FullIsRight => Lost' \subseteq Lost]_vars

\* A read copies bytes of one entry only ("Don t read outside the buffer
\* entry", main.c).
ReadStaysInEntry ==
  \A f \in File : frame[f].at = "copied" => frame[f].count <= Len(Bytes(frame[f].buffptr))

\* struct aesd_seekto: "The zero referenced write command to seek into" and
\* "The zero referenced offset within the write".  When the words that were
\* not copied happen to be right, an ioctl that succeeds leaves the file
\* there, inside that entry, counting the entries in the order of the array.
SizeBefore(n) == Starts([i \in Slot |-> bufferP.entry[i].size])[n]
Asked(fr) == [write_cmd |-> fr.write_cmd, write_cmd_offset |-> fr.write_cmd_offset] = fr.asked
IoctlSeeksThere ==
  [][\A f \in File :
       /\ frame[f].at = "scan" /\ Asked(frame[f])
       /\ frame'[f].at = "user" /\ frame'[f].ret = 0
       => /\ f_pos'[f] = SizeBefore(frame[f].asked.write_cmd) + frame[f].asked.write_cmd_offset
          /\ f_pos'[f] < SizeBefore(frame[f].asked.write_cmd + 1)]_vars

\* The invariant behind it: nobody changes the entries while the loop of an ioctl,
\* which holds the lock, adds up their sizes.
ScanSum ==
  \A f \in File : frame[f].at = "scan" => frame[f].total_size = SizeBefore(frame[f].i)
===============================================================================

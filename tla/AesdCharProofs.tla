---------------------------- MODULE AesdCharProofs ----------------------------
(***************************************************************************)
(* Proofs about the driver, for any number of files and blocks, any ring   *)
(* size and any payloads: its types, its locking and its memory safety.    *)
(***************************************************************************)
EXTENDS AesdChar, CircularBufferLemmas

\* The kinds of frame, one by one.
SeekFrame == [at : {"seek"}, offset : Int, whence : Whence, index : 0 .. MaxOps, total_size : Nat]
ScanFrame == [at : {"scan"}, asked : SeekTo, write_cmd : Slot, write_cmd_offset : Nat,
              i : Slot, total_size : Nat]

\* What the name of a frame tells about its fields.
LEMMA FrameFields ==
  ASSUME NEW fr \in Frame
  PROVE  /\ fr.at = "write"  => fr.buf \in Payload
         /\ fr.at = "read"   => fr.count \in Nat /\ fr.size \in Nat
         /\ fr.at = "copied" => fr.count \in Nat /\ fr.last \in BOOLEAN
         /\ fr.at = "seek"   => fr \in SeekFrame
         /\ fr.at = "ioctl"  => fr.asked \in SeekTo /\ fr.write_cmd \in Nat
                                /\ fr.write_cmd_offset \in Nat
         /\ fr.at = "scan"   => fr \in ScanFrame
BY DEF Frame, SeekFrame, ScanFrame

\* The frames the actions build.
LEMMA FrameKinds ==
  /\ Closed \in Frame /\ [at |-> "open"] \in Frame
  /\ \A r \in Int : InUser(r) \in Frame
  /\ \A d \in Payload : [at |-> "write", buf |-> d] \in Frame
  /\ \A n, z \in Nat : [at |-> "read", count |-> n, size |-> z] \in Frame
  /\ \A n \in Nat, l \in BOOLEAN, p \in Ptr :
       [at |-> "copied", count |-> n, last |-> l, buffptr |-> p] \in Frame
  /\ SeekFrame \subseteq Frame
  /\ \A s \in SeekTo, w, o \in Nat :
       [at |-> "ioctl", asked |-> s, write_cmd |-> w, write_cmd_offset |-> o] \in Frame
  /\ ScanFrame \subseteq Frame
BY DEF Frame, Closed, InUser, SeekFrame, ScanFrame

\* Giving a file a well-typed frame keeps the frames well-typed.
LEMMA EnterType ==
  ASSUME frame \in [File -> Frame], NEW f \in File, NEW fr \in Frame, Enter(f, fr)
  PROVE  frame' \in [File -> Frame]
BY DEF Enter

\* So does returning to user space with a number.
LEMMA ReturnType ==
  ASSUME frame \in [File -> Frame], NEW f \in File, NEW r \in Int, Return(f, r)
  PROVE  frame' \in [File -> Frame]
BY FrameKinds, EnterType DEF Return

\* The heap stays well-typed when a block gets a sequence of bytes.
LEMMA HoldingType ==
  ASSUME mem \in [Block -> Seq(Byte)], NEW A \in SUBSET Block, NEW p, NEW s \in Seq(Byte),
         Holding(A, p, s)
  PROVE  alloc' \subseteq Block /\ mem' \in [Block -> Seq(Byte)]
<1>1. << >> \in Seq(Byte)
  OBVIOUS
<1> QED BY <1>1 DEF Holding

\* What a pointer designates is a sequence of bytes.
LEMMA BytesType ==
  ASSUME mem \in [Block -> Seq(Byte)], NEW p
  PROVE  Bytes(p) \in Seq(Byte)
<1>1. << >> \in Seq(Byte)
  OBVIOUS
<1> QED BY <1>1 DEF Bytes

\* add_entry keeps the buffer well-typed, whatever its positions are.
LEMMA AddEntryType ==
  ASSUME bufferP \in BufferOf(Ptr), NEW e \in EntryOf(Ptr)
  PROVE  add_entry(bufferP, e) \in BufferOf(Ptr)
BY SuccCases DEF add_entry, BufferOf, OutAfterAdd
-------------------------------------------------------------------------------
(* Types.                                                                  *)

\* The types of the device's own state, without the types of the frames.
LEMMA TypeFacts ==
  ASSUME TypeOK
  PROVE  /\ bufferP.entry \in [Slot -> EntryOf(Ptr)]
         /\ bufferP.in_offs \in Slot /\ bufferP.out_offs \in Slot /\ bufferP.full \in BOOLEAN
         /\ OutEntry.buffptr \in Ptr /\ OutEntry.size \in Nat
         /\ entry.buffptr \in Ptr /\ entry.size \in Nat /\ StagedSize \in Nat
         /\ \A i \in Slot : bufferP.entry[i].size \in Nat /\ bufferP.entry[i].buffptr \in Ptr
         /\ alloc \subseteq Block /\ mem \in [Block -> Seq(Byte)]
         /\ frame \in [File -> Frame] /\ f_pos \in [File -> Nat]
         /\ readCounter \in 0 .. ReadLimit
BY DEF TypeOK, BufferOf, EntryOf, OutEntry, StagedSize

\* A payload is a sequence of bytes, and so is what is staged with it.
LEMMA PayloadType ==
  ASSUME TypeOK, NEW d \in Payload
  PROVE  /\ d \in Seq(Byte) /\ Len(d) \in Nat
         /\ Bytes(entry.buffptr) \o d \in Seq(Byte)
         /\ Len(Bytes(entry.buffptr) \o d) = Len(Bytes(entry.buffptr)) + Len(d)
<1>1. d \in Seq(Byte)
  BY DriverAssumption
<1>2. Bytes(entry.buffptr) \in Seq(Byte)
  BY TypeFacts, BytesType
<1> QED BY <1>1, <1>2

\* What kmalloc hands out.
LEMMA KmallocType ==
  ASSUME NEW n \in Nat, NEW p \in kmalloc(n)
  PROVE  p \in Ptr /\ p # NULL /\ (p \in Block => p \notin alloc) /\ (n > 0 => p \in Block)
         /\ (n = 0 => p = ZERO_SIZE_PTR)
BY DriverAssumption DEF kmalloc, Ptr

\* The initial state is well-typed.
LEMMA InitType == Init => TypeOK
<1> SUFFICES ASSUME Init PROVE TypeOK
  OBVIOUS
<1>1. bufferP \in BufferOf(Ptr) /\ entry \in EntryOf(Ptr)
  BY MaxOpsAssumption DEF Init, BufferOf, EntryOf, circular_buffer_init, NullEntry, Slot, Ptr
<1>2. mem \in [Block -> Seq(Byte)]
  <2>1. << >> \in Seq(Byte)
    OBVIOUS
  <2> QED BY <2>1 DEF Init
<1>3. frame \in [File -> Frame] /\ f_pos \in [File -> Nat]
  BY FrameKinds DEF Init
<1>4. readCounter \in 0 .. ReadLimit
  BY DriverAssumption DEF Init
<1> QED BY <1>1, <1>2, <1>3, <1>4 DEF Init, TypeOK

\* Both outcomes of a write preserve the type invariant.
LEMMA WriteType ==
  ASSUME TypeOK, NEW f \in File, write_locked(f) \/ write_fault(f)
  PROVE  TypeOK'
<1>1. frame[f].at = "write" /\ frame[f] \in Frame
  BY TypeFacts DEF write_locked, write_fault
<1> DEFINE d == frame[f].buf
<1>2. d \in Payload
  BY <1>1, FrameFields
<1>3. /\ d \in Seq(Byte) /\ Len(d) \in Nat /\ StagedSize + Len(d) \in Nat
      /\ Bytes(entry.buffptr) \o d \in Seq(Byte)
  BY <1>2, PayloadType, TypeFacts
<1>4. UNCHANGED <<loaded, readCounter, lock>>
  BY DEF write_locked, write_fault
<1>5. CASE write_locked(f)
  <2>1. PICK p \in kmalloc(StagedSize + Len(d)) :
          /\ write_entry_into_buffer([buffptr |-> p, size |-> StagedSize + Len(d)],
                                     Bytes(entry.buffptr) \o d,
                                     (alloc \ {entry.buffptr}) \cup ({p} \cap Block))
          /\ f_pos' = [f_pos EXCEPT ![f] = @ + Len(d)]
          /\ Return(f, Len(d))
    BY <1>5 DEF write_locked
  <2> DEFINE e == [buffptr |-> p, size |-> StagedSize + Len(d)]
             A == (alloc \ {entry.buffptr}) \cup ({p} \cap Block)
  <2>2. e \in EntryOf(Ptr)
    BY <1>3, KmallocType DEF EntryOf
  <2>3. A \in SUBSET Block /\ A \ {add_entry_result(bufferP)} \in SUBSET Block
    BY TypeFacts
  <2>4. NullEntry \in EntryOf(Ptr)
    BY DEF NullEntry, EntryOf, Ptr
  <2>5. /\ \E B \in SUBSET Block : Holding(B, p, Bytes(entry.buffptr) \o d)
        /\ entry' \in EntryOf(Ptr)
        /\ bufferP' \in BufferOf(Ptr)
    BY <2>1, <2>2, <2>3, <2>4, AddEntryType DEF write_entry_into_buffer, TypeOK
  <2>6. alloc' \subseteq Block /\ mem' \in [Block -> Seq(Byte)]
    BY <1>3, <2>5, HoldingType, TypeFacts
  <2>7. f_pos' \in [File -> Nat]
    BY <1>3, <2>1, TypeFacts
  <2>8. frame' \in [File -> Frame]
    BY <1>3, <2>1, ReturnType, TypeFacts
  <2> QED BY <1>4, <2>5, <2>6, <2>7, <2>8 DEF TypeOK
<1>6. CASE write_fault(f)
  <2>1. PICK p \in kmalloc(StagedSize + Len(d)), k \in 0 .. Len(d) - 1 :
          /\ Holding(alloc \cup {p}, p,
                     Bytes(entry.buffptr) \o
                     [i \in 1 .. Len(d) |-> IF i <= k THEN d[i] ELSE ZERO])
          /\ entry' = IF entry.buffptr # NULL THEN entry
                      ELSE [buffptr |-> p, size |-> Len(d)]
    BY <1>6 DEF write_fault
  <2>2. StagedSize + Len(d) > 0
    BY <1>3, <2>1, TypeFacts
  <2>3. p \in Block
    BY <1>3, <2>2, KmallocType
  <2>4. [i \in 1 .. Len(d) |-> IF i <= k THEN d[i] ELSE ZERO] \in Seq(Byte)
    <3>1. \A i \in 1 .. Len(d) : d[i] \in Byte
      BY <1>3
    <3>2. ZERO \in Byte
      BY DriverAssumption
    <3>3. [i \in 1 .. Len(d) |-> IF i <= k THEN d[i] ELSE ZERO] \in [1 .. Len(d) -> Byte]
      BY <3>1, <3>2
    <3> QED BY <1>3, <3>3
  <2>5. Bytes(entry.buffptr) \o [i \in 1 .. Len(d) |-> IF i <= k THEN d[i] ELSE ZERO]
          \in Seq(Byte)
    BY <2>4, BytesType, TypeFacts
  <2>6. alloc' \subseteq Block /\ mem' \in [Block -> Seq(Byte)]
    BY <2>1, <2>3, <2>5, HoldingType, TypeFacts
  <2>7. entry' \in EntryOf(Ptr)
    BY <1>3, <2>1, <2>3, TypeFacts DEF TypeOK, EntryOf, Ptr
  <2>8. frame' \in [File -> Frame]
    BY <1>6, ReturnType, TypeFacts DEF write_fault, EFAULT
  <2> QED BY <1>4, <1>6, <2>6, <2>7, <2>8 DEF TypeOK, write_fault
<1> QED BY <1>5, <1>6

\* The steps of a read preserve the type invariant; the counter stays in
\* range because a read that has copied found it below the limit.
LEMMA ReadType ==
  ASSUME TypeOK, CounterBelowLimit, NEW f \in File,
         \/ read_empty(f) \/ read_stop(f) \/ read_fault(f) \/ read_copy(f) \/ read_advance(f)
  PROVE  TypeOK'
<1>1. frame[f] \in Frame
  BY TypeFacts
<1>2. CASE read_empty(f) \/ read_fault(f)
  <2>1. frame' \in [File -> Frame]
    BY <1>2, ReturnType, TypeFacts DEF read_empty, read_fault, EFAULT
  <2> QED BY <1>2, <2>1 DEF read_empty, read_fault, dev, heap, TypeOK
<1>3. CASE read_stop(f)
  <2>1. frame' \in [File -> Frame]
    BY <1>3, ReturnType, TypeFacts DEF read_stop
  <2>2. readCounter' \in 0 .. ReadLimit
    BY <1>3, DriverAssumption DEF read_stop
  <2> QED BY <1>3, <2>1, <2>2 DEF read_stop, heap, TypeOK
<1>4. CASE read_copy(f)
  <2>1. frame[f].size \in Nat /\ frame[f].count \in Nat /\ f_pos[f] \in Nat
    BY <1>1, <1>4, FrameFields, TypeFacts DEF read_copy, Reads
  <2>2. Shortened(f) \in Nat /\ LastRead(f) \in BOOLEAN
    BY <1>4, <2>1 DEF read_copy, Shortened, LastRead
  <2>3. frame' \in [File -> Frame]
    BY <1>4, <2>2, EnterType, FrameKinds, TypeFacts DEF read_copy
  <2> QED BY <1>4, <2>3 DEF read_copy, dev, heap, TypeOK
<1>5. CASE read_advance(f)
  <2>1. frame[f].count \in Nat /\ frame[f].last \in BOOLEAN /\ f_pos[f] \in Nat
    BY <1>1, <1>5, FrameFields, TypeFacts DEF read_advance
  <2>2. frame' \in [File -> Frame]
    BY <1>5, <2>1, ReturnType, TypeFacts DEF read_advance
  <2>3. f_pos' \in [File -> Nat]
    BY <1>5, <2>1, TypeFacts DEF read_advance
  <2>4. bufferP' \in BufferOf(Ptr)
    BY <1>5, <2>1, SuccCases, TypeFacts DEF read_advance, TypeOK, BufferOf
  <2>5. readCounter' \in 0 .. ReadLimit
    BY <1>5, DriverAssumption, TypeFacts DEF read_advance, CounterBelowLimit
  <2> QED BY <1>5, <2>2, <2>3, <2>4, <2>5 DEF read_advance, heap, TypeOK
<1> QED BY <1>2, <1>3, <1>4, <1>5

\* One turn of the llseek loop changes two fields of its frame.
LEMMA SeekUpdate ==
  ASSUME NEW fr \in SeekFrame, NEW n \in 0 .. MaxOps, NEW t \in Nat
  PROVE  [fr EXCEPT !.index = n, !.total_size = t] \in SeekFrame
<1>1. [fr EXCEPT !.index = n] \in SeekFrame
  BY DEF SeekFrame
<1>2. \A g \in SeekFrame : [g EXCEPT !.total_size = t] \in SeekFrame
  BY DEF SeekFrame
<1> QED BY <1>1, <1>2

\* One turn of the ioctl loop changes two fields of its frame.
LEMMA ScanUpdate ==
  ASSUME NEW fr \in ScanFrame, NEW n \in Slot, NEW t \in Nat
  PROVE  [fr EXCEPT !.i = n, !.total_size = t] \in ScanFrame
<1>1. [fr EXCEPT !.i = n] \in ScanFrame
  BY DEF ScanFrame
<1>2. \A g \in ScanFrame : [g EXCEPT !.total_size = t] \in ScanFrame
  BY DEF ScanFrame
<1> QED BY <1>1, <1>2

\* The frames the two loops go on with.
LEMMA SumFrame ==
  ASSUME TypeOK, NEW f \in File, llseek_sum(f)
  PROVE  [frame[f] EXCEPT !.index = @ + 1,
                          !.total_size = @ + bufferP.entry[frame[f].index].size] \in SeekFrame
<1>1. frame[f] \in SeekFrame /\ frame[f].index < MaxOps
  BY FrameFields, TypeFacts DEF llseek_sum
<1>2. frame[f].index \in Slot /\ frame[f].index + 1 \in 0 .. MaxOps
  BY <1>1, MaxOpsAssumption DEF SeekFrame, Slot
<1>3. frame[f].total_size + bufferP.entry[frame[f].index].size \in Nat
  BY <1>1, <1>2, TypeFacts DEF SeekFrame
<1> QED BY <1>1, <1>2, <1>3, SeekUpdate

ScanNext(fr) == [fr EXCEPT !.i = @ + 1, !.total_size = @ + bufferP.entry[fr.i].size]

\* The frame the ioctl loop goes on with: it stops before the array ends.
LEMMA NextScanFrame ==
  ASSUME TypeOK, ScanInRange, NEW f \in File, ioctl_scan(f)
  PROVE  /\ ScanNext(frame[f]) \in ScanFrame
         /\ ScanNext(frame[f]).i <= ScanNext(frame[f]).write_cmd
<1>1. frame[f] \in ScanFrame /\ frame[f].i # frame[f].write_cmd
  BY FrameFields, TypeFacts DEF ioctl_scan
<1>2. bufferP.entry[frame[f].i].size \in Nat
  BY <1>1, TypeFacts DEF ScanFrame
<1>3. frame[f].i + 1 \in Slot /\ frame[f].i + 1 <= frame[f].write_cmd
  BY <1>1, MaxOpsAssumption DEF ioctl_scan, ScanInRange, ScanFrame, Slot
<1>4. frame[f].total_size + bufferP.entry[frame[f].i].size \in Nat
  BY <1>1, <1>2 DEF ScanFrame
<1>5. \A fr \in ScanFrame, n \in Slot, t \in Nat :
        /\ [fr EXCEPT !.i = n, !.total_size = t].i = n
        /\ [fr EXCEPT !.i = n, !.total_size = t].write_cmd = fr.write_cmd
  BY DEF ScanFrame
<1>6. ScanNext(frame[f]) = [frame[f] EXCEPT !.i = frame[f].i + 1,
                              !.total_size = frame[f].total_size + bufferP.entry[frame[f].i].size]
  BY DEF ScanNext
<1>7. ScanNext(frame[f]) \in ScanFrame
  BY <1>1, <1>3, <1>4, <1>6, ScanUpdate
<1>8. /\ ScanNext(frame[f]).i = frame[f].i + 1
      /\ ScanNext(frame[f]).write_cmd = frame[f].write_cmd
  BY <1>1, <1>3, <1>4, <1>5, <1>6
<1> QED BY <1>3, <1>7, <1>8

\* The steps of llseek and ioctl preserve the type invariant.
LEMMA SeekType ==
  ASSUME TypeOK, ScanInRange, NEW f \in File,
         \/ llseek_sum(f) \/ llseek_locked(f)
         \/ ioctl_locked(f) \/ ioctl_scan(f) \/ ioctl_found(f)
  PROVE  TypeOK'
<1>1. frame[f] \in Frame /\ f_pos[f] \in Nat
  BY TypeFacts
<1>2. CASE llseek_sum(f)
  <2>1. frame' \in [File -> Frame]
    BY <1>2, SumFrame, EnterType, FrameKinds, TypeFacts DEF llseek_sum
  <2> QED BY <1>2, <2>1 DEF llseek_sum, dev, heap, TypeOK
<1>3. CASE llseek_locked(f)
  <2>1. frame[f] \in SeekFrame
    BY <1>1, <1>3, FrameFields DEF llseek_locked
  <2>2. frame[f].whence # "OTHER" /\ NewPos(f) \in 0 .. frame[f].total_size => NewPos(f) \in Nat
    BY <2>1 DEF SeekFrame
  <2>3. f_pos' \in [File -> Nat]
    BY <1>3, <2>2, TypeFacts DEF llseek_locked
  <2>4. frame' \in [File -> Frame]
    BY <1>3, <2>2, ReturnType, TypeFacts DEF llseek_locked, EINVAL
  <2> QED BY <1>3, <2>3, <2>4 DEF llseek_locked, dev, heap, TypeOK
<1>4. CASE ioctl_locked(f)
  <2>1. /\ frame[f].asked \in SeekTo /\ frame[f].write_cmd \in Nat
        /\ frame[f].write_cmd_offset \in Nat
    BY <1>1, <1>4, FrameFields DEF ioctl_locked
  <2>2. CASE frame[f].write_cmd >= MaxOps
    <3>1. frame' \in [File -> Frame]
      BY <1>4, <2>2, ReturnType, TypeFacts DEF ioctl_locked, EINVAL
    <3> QED BY <1>4, <2>2, <3>1 DEF ioctl_locked, dev, heap, TypeOK
  <2>3. CASE ~(frame[f].write_cmd >= MaxOps)
    <3>1. frame[f].write_cmd \in Slot /\ 0 \in Slot
      BY <2>1, <2>3, MaxOpsAssumption DEF Slot
    <3>2. [at |-> "scan", asked |-> frame[f].asked, write_cmd |-> frame[f].write_cmd,
           write_cmd_offset |-> frame[f].write_cmd_offset, i |-> 0, total_size |-> 0] \in ScanFrame
      BY <2>1, <3>1 DEF ScanFrame
    <3>3. frame' \in [File -> Frame]
      BY <1>4, <2>3, <3>2, EnterType, FrameKinds, TypeFacts DEF ioctl_locked
    <3> QED BY <1>4, <2>3, <3>3 DEF ioctl_locked, dev, heap, TypeOK
  <2> QED BY <2>2, <2>3
<1>5. CASE ioctl_scan(f)
  <2>1. frame' \in [File -> Frame]
    BY <1>5, NextScanFrame, EnterType, FrameKinds, TypeFacts DEF ioctl_scan, ScanNext
  <2> QED BY <1>5, <2>1 DEF ioctl_scan, dev, heap, TypeOK
<1>6. CASE ioctl_found(f)
  <2>1. frame[f] \in ScanFrame
    BY <1>1, <1>6, FrameFields DEF ioctl_found
  <2>2. frame[f].total_size + frame[f].write_cmd_offset \in Nat
    BY <2>1 DEF ScanFrame
  <2>3. f_pos' \in [File -> Nat]
    BY <1>6, <2>2, TypeFacts DEF ioctl_found
  <2>4. frame' \in [File -> Frame]
    BY <1>6, ReturnType, TypeFacts DEF ioctl_found, EINVAL
  <2> QED BY <1>6, <2>3, <2>4 DEF ioctl_found, dev, heap, TypeOK
<1> QED BY <1>2, <1>3, <1>4, <1>5, <1>6

\* Entering a system call preserves the type invariant.
LEMMA StartType ==
  ASSUME TypeOK, NEW f \in File, Start(f)
  PROVE  TypeOK'
<1>1. CASE open(f)
  <2>1. frame' \in [File -> Frame]
    BY <1>1, ReturnType, EnterType, FrameKinds, TypeFacts DEF open
  <2> QED BY <1>1, <2>1 DEF open, dev, heap, TypeOK
<1>2. CASE release(f)
  <2>1. frame' \in [File -> Frame]
    BY <1>2, EnterType, FrameKinds, TypeFacts DEF release
  <2>2. f_pos' \in [File -> Nat]
    BY <1>2, TypeFacts DEF release
  <2> QED BY <1>2, <2>1, <2>2 DEF release, dev, heap, TypeOK
<1>3. CASE ioctl_rejected(f)
  <2>1. frame' \in [File -> Frame]
    BY <1>3, ReturnType, TypeFacts DEF ioctl_rejected, ENOTTY, EFAULT
  <2> QED BY <1>3, <2>1 DEF ioctl_rejected, dev, heap, TypeOK
<1>4. ASSUME NEW d \in Payload, write(f, d)
      PROVE  TypeOK'
  <2>1. frame' \in [File -> Frame]
    BY <1>4, EnterType, FrameKinds, TypeFacts DEF write
  <2> QED BY <1>4, <2>1 DEF write, dev, heap, TypeOK
<1>5. ASSUME NEW n \in ReadCount, read(f, n)
      PROVE  TypeOK'
  <2>1. n \in Nat
    BY DriverAssumption
  <2>2. frame' \in [File -> Frame]
    BY <1>5, <2>1, EnterType, FrameKinds, TypeFacts DEF read
  <2> QED BY <1>5, <2>2 DEF read, dev, heap, TypeOK
<1>6. ASSUME NEW off \in SeekOffset, NEW wh \in Whence, llseek(f, off, wh)
      PROVE  TypeOK'
  <2>1. [at |-> "seek", offset |-> off, whence |-> wh, index |-> 0, total_size |-> 0] \in SeekFrame
    BY DriverAssumption, MaxOpsAssumption DEF SeekFrame
  <2>2. frame' \in [File -> Frame]
    BY <1>6, <2>1, EnterType, FrameKinds, TypeFacts DEF llseek
  <2> QED BY <1>6, <2>2 DEF llseek, dev, heap, TypeOK
<1>7. ASSUME NEW s \in SeekTo, ioctl(f, s)
      PROVE  TypeOK'
  <2>1. PICK high \in StackWord, offset \in StackWord :
          Enter(f, [at |-> "ioctl", asked |-> s,
                    write_cmd |-> (s.write_cmd % 256) + 256 * high,
                    write_cmd_offset |-> offset])
    BY <1>7 DEF ioctl
  <2>2. s.write_cmd \in Nat /\ high \in Nat /\ offset \in Nat
    BY DriverAssumption
  <2>3. (s.write_cmd % 256) + 256 * high \in Nat
    BY <2>2
  <2>4. frame' \in [File -> Frame]
    BY <2>1, <2>2, <2>3, EnterType, FrameKinds, TypeFacts
  <2> QED BY <1>7, <2>4 DEF ioctl, dev, heap, TypeOK
<1> QED BY <1>1, <1>2, <1>3, <1>4, <1>5, <1>6, <1>7 DEF Start

\* So do open, an interrupted wait and loading and unloading the module.
LEMMA OtherType ==
  ASSUME TypeOK,
         \/ init_module \/ cleanup_module
         \/ \E f \in File : open_reset(f) \/ interrupted(f)
  PROVE  TypeOK'
<1>1. CASE init_module
  <2>1. circular_buffer_init \in BufferOf(Ptr) /\ NullEntry \in EntryOf(Ptr)
    BY MaxOpsAssumption DEF BufferOf, EntryOf, circular_buffer_init, NullEntry, Slot, Ptr
  <2>2. 0 \in 0 .. ReadLimit
    BY DriverAssumption
  <2> QED BY <1>1, <2>1, <2>2 DEF init_module, heap, TypeOK
<1>2. CASE cleanup_module
  <2>1. alloc \ RingPtrs \in SUBSET Block /\ << >> \in Seq(Byte)
    BY TypeFacts
  <2>2. alloc' \subseteq Block /\ mem' \in [Block -> Seq(Byte)]
    BY <1>2, <2>1, HoldingType, TypeFacts DEF cleanup_module
  <2> QED BY <1>2, <2>2 DEF cleanup_module, dev, TypeOK
<1>3. ASSUME NEW f \in File, open_reset(f)
      PROVE  TypeOK'
  <2>1. bufferP' \in BufferOf(Ptr)
    <3>1. 0 \in Slot
      BY MaxOpsAssumption DEF Slot
    <3> QED BY <1>3, <3>1 DEF open_reset, TypeOK, BufferOf
  <2>2. frame' \in [File -> Frame]
    BY <1>3, ReturnType, TypeFacts DEF open_reset
  <2> QED BY <1>3, <2>1, <2>2 DEF open_reset, heap, TypeOK
<1>4. ASSUME NEW f \in File, interrupted(f)
      PROVE  TypeOK'
  <2>1. frame' \in [File -> Frame]
    BY <1>4, ReturnType, TypeFacts DEF interrupted, ERESTARTSYS
  <2> QED BY <1>4, <2>1 DEF interrupted, dev, heap, TypeOK
<1> QED BY <1>1, <1>2, <1>3, <1>4
-------------------------------------------------------------------------------
(* Locking: who holds the lock and what that protects.                     *)

Inside == {"copied", "scan"}

\* Entering a frame changes the frame of one file.
LEMMA EnterAt ==
  ASSUME TypeOK, NEW f \in File, NEW fr, Enter(f, fr)
  PROVE  frame'[f] = fr /\ \A g \in File \ {f} : frame'[g] = frame[g]
BY TypeFacts DEF Enter

\* Returning puts one file, and no other, back in user space.
LEMMA ReturnAt ==
  ASSUME TypeOK, NEW f \in File, NEW r, Return(f, r)
  PROVE  frame'[f].at \notin Inside /\ \A g \in File \ {f} : frame'[g] = frame[g]
BY EnterAt DEF Return, InUser, Inside

\* A step of f that neither finds nor leaves f inside a critical section,
\* and does not change the lock.
Quiet(f) ==
  /\ lock' = lock
  /\ frame[f].at \notin Inside /\ frame'[f].at \notin Inside
  /\ \A g \in File \ {f} : frame'[g] = frame[g]

\* Entering a system call neither takes the lock nor enters a critical section.
LEMMA StartQuiet ==
  ASSUME TypeOK, NEW f \in File, Start(f)
  PROVE  Quiet(f) /\ readCounter' = readCounter
<1>1. CASE open(f)
  BY <1>1, EnterAt, ReturnAt DEF open, Quiet, Inside, dev, Closed
<1>2. CASE release(f)
  BY <1>2, EnterAt DEF release, Quiet, Inside, dev, Closed, Calls
<1>3. CASE ioctl_rejected(f)
  BY <1>3, ReturnAt DEF ioctl_rejected, Quiet, Inside, dev, Calls
<1>4. ASSUME NEW d \in Payload, write(f, d)
      PROVE  Quiet(f) /\ readCounter' = readCounter
  BY <1>4, EnterAt DEF write, Quiet, Inside, dev, Calls
<1>5. ASSUME NEW n \in ReadCount, read(f, n)
      PROVE  Quiet(f) /\ readCounter' = readCounter
  BY <1>5, EnterAt DEF read, Quiet, Inside, dev, Calls
<1>6. ASSUME NEW off \in SeekOffset, NEW wh \in Whence, llseek(f, off, wh)
      PROVE  Quiet(f) /\ readCounter' = readCounter
  BY <1>6, EnterAt DEF llseek, Quiet, Inside, dev, Calls
<1>7. ASSUME NEW s \in SeekTo, ioctl(f, s)
      PROVE  Quiet(f) /\ readCounter' = readCounter
  <2>1. PICK high \in StackWord, offset \in StackWord :
          Enter(f, [at |-> "ioctl", asked |-> s,
                    write_cmd |-> (s.write_cmd % 256) + 256 * high,
                    write_cmd_offset |-> offset])
    BY <1>7 DEF ioctl
  <2> QED BY <1>7, <2>1, EnterAt DEF ioctl, Quiet, Inside, dev, Calls
<1> QED BY <1>1, <1>2, <1>3, <1>4, <1>5, <1>6, <1>7 DEF Start

\* Nor does any step that does its locked work at once.
LEMMA StepQuiet ==
  ASSUME TypeOK, NEW f \in File,
         \/ open_reset(f) \/ write_locked(f) \/ write_fault(f)
         \/ read_empty(f) \/ read_fault(f) \/ llseek_sum(f) \/ llseek_locked(f)
         \/ interrupted(f)
  PROVE  Quiet(f) /\ readCounter' = readCounter
<1>1. CASE open_reset(f)
  BY <1>1, ReturnAt DEF open_reset, Quiet, Inside
<1>2. CASE write_locked(f)
  BY <1>2, ReturnAt DEF write_locked, Quiet, Inside
<1>3. CASE write_fault(f)
  BY <1>3, ReturnAt DEF write_fault, Quiet, Inside
<1>4. CASE read_empty(f)
  BY <1>4, ReturnAt DEF read_empty, Quiet, Inside, dev
<1>5. CASE read_fault(f)
  BY <1>5, ReturnAt DEF read_fault, Reads, Quiet, Inside, dev
<1>6. CASE llseek_sum(f)
  <2>1. frame'[f] \in SeekFrame /\ \A g \in File \ {f} : frame'[g] = frame[g]
    BY <1>6, SumFrame, EnterAt DEF llseek_sum
  <2> QED BY <1>6, <2>1 DEF llseek_sum, Quiet, Inside, dev, SeekFrame
<1>7. CASE llseek_locked(f)
  BY <1>7, ReturnAt DEF llseek_locked, Quiet, Inside, dev
<1>8. CASE interrupted(f)
  BY <1>8, ReturnAt DEF interrupted, AtLock, Quiet, Inside, dev
<1> QED BY <1>1, <1>2, <1>3, <1>4, <1>5, <1>6, <1>7, <1>8

\* A quiet step preserves everything that is said about critical sections.
LEMMA QuietKeeps ==
  ASSUME TypeOK, LockDiscipline, CounterBelowLimit, ScanInRange,
         NEW f \in File, Quiet(f), readCounter' = readCounter
  PROVE  LockDiscipline' /\ CounterBelowLimit' /\ ScanInRange'
BY DEF LockDiscipline, CounterBelowLimit, ScanInRange, Quiet, Inside

\* The steps that take, keep or give back the lock across a step.
LEMMA LockStep ==
  ASSUME DriverInv, NEW f \in File,
         \/ read_stop(f) \/ read_copy(f) \/ read_advance(f)
         \/ ioctl_locked(f) \/ ioctl_scan(f) \/ ioctl_found(f)
  PROVE  LockDiscipline' /\ CounterBelowLimit' /\ ScanInRange'
<1> USE DEF DriverInv
<1>0. f # Nobody /\ readCounter \in 0 .. ReadLimit /\ ReadLimit \in Nat /\ frame[f] \in Frame
  BY DriverAssumption, TypeFacts
<1>1. CASE read_stop(f)
  <2>1. frame'[f].at \notin Inside /\ \A g \in File \ {f} : frame'[g] = frame[g]
    BY <1>1, ReturnAt DEF read_stop
  <2>2. \A g \in File : frame[g].at \notin Inside /\ frame'[g].at \notin Inside
    BY <1>1, <2>1, DriverAssumption DEF read_stop, LockDiscipline, Inside
  <2> QED BY <1>1, <2>2 DEF read_stop, LockDiscipline, CounterBelowLimit, ScanInRange, Inside
<1>2. CASE read_copy(f)
  <2>1. frame'[f].at = "copied" /\ \A g \in File \ {f} : frame'[g] = frame[g]
    BY <1>2, EnterAt DEF read_copy
  <2>2. \A g \in File : frame[g].at \notin Inside
    BY <1>2, DriverAssumption DEF read_copy, Reads, LockDiscipline, Inside
  <2>3. readCounter' < ReadLimit
    BY <1>0, <1>2 DEF read_copy, Reads, dev
  <2> QED BY <1>2, <2>1, <2>2, <2>3
          DEF read_copy, LockDiscipline, CounterBelowLimit, ScanInRange, Inside
<1>3. CASE read_advance(f) \/ ioctl_found(f)
  <2>1. frame'[f].at \notin Inside /\ (\A g \in File \ {f} : frame'[g] = frame[g]) /\ lock' = Nobody
    BY <1>3, ReturnAt DEF read_advance, ioctl_found
  <2>2. lock = f
    BY <1>3 DEF read_advance, ioctl_found, LockDiscipline
  <2>3. \A g \in File : frame'[g].at \notin Inside
    BY <2>1, <2>2 DEF LockDiscipline, Inside
  <2> QED BY <2>1, <2>3, DriverAssumption
          DEF LockDiscipline, CounterBelowLimit, ScanInRange, Inside
<1>4. CASE ioctl_locked(f)
  <2>1. \A g \in File : frame[g].at \notin Inside
    BY <1>4, DriverAssumption DEF ioctl_locked, LockDiscipline, Inside
  <2>2. CASE frame[f].write_cmd >= MaxOps
    <3>1. frame'[f].at \notin Inside /\ (\A g \in File \ {f} : frame'[g] = frame[g]) /\ lock' = lock
      BY <1>4, <2>2, ReturnAt DEF ioctl_locked
    <3> QED BY <1>4, <2>1, <3>1, DriverAssumption
            DEF ioctl_locked, LockDiscipline, CounterBelowLimit, ScanInRange, Inside
  <2>3. CASE ~(frame[f].write_cmd >= MaxOps)
    <3>1. /\ frame'[f].at = "scan" /\ frame'[f].i = 0
          /\ frame'[f].write_cmd = frame[f].write_cmd
          /\ \A g \in File \ {f} : frame'[g] = frame[g]
          /\ lock' = f
      BY <1>4, <2>3, EnterAt DEF ioctl_locked
    <3>2. frame'[f].i <= frame'[f].write_cmd
      BY <1>0, <1>4, <3>1, FrameFields DEF ioctl_locked
    <3> QED BY <2>1, <3>1, <3>2 DEF LockDiscipline, CounterBelowLimit, ScanInRange, Inside
  <2> QED BY <2>2, <2>3
<1>5. CASE ioctl_scan(f)
  <2>1. /\ frame'[f].at = "scan" /\ frame'[f].i <= frame'[f].write_cmd
        /\ \A g \in File \ {f} : frame'[g] = frame[g]
    <3>1. Enter(f, ScanNext(frame[f]))
      BY <1>5 DEF ioctl_scan, ScanNext
    <3>2. frame'[f] = ScanNext(frame[f]) /\ \A g \in File \ {f} : frame'[g] = frame[g]
      BY <3>1, EnterAt
    <3>3. \A fr \in ScanFrame : fr.at = "scan"
      BY DEF ScanFrame
    <3> QED BY <1>5, <3>2, <3>3, NextScanFrame
  <2> QED BY <1>5, <2>1
          DEF ioctl_scan, LockDiscipline, CounterBelowLimit, ScanInRange, dev
<1> QED BY <1>1, <1>2, <1>3, <1>4, <1>5

\* The module comes and goes while no file is open.
LEMMA LoadKeeps ==
  ASSUME DriverInv, init_module \/ cleanup_module
  PROVE  LockDiscipline' /\ CounterBelowLimit' /\ ScanInRange'
<1>1. CASE init_module
  BY <1>1, DriverAssumption
     DEF init_module, DriverInv, ClosedWhenGone, Closed, LockDiscipline, CounterBelowLimit, ScanInRange
<1>2. CASE cleanup_module
  BY <1>2 DEF cleanup_module, dev, DriverInv, LockDiscipline, CounterBelowLimit, ScanInRange
<1> QED BY <1>1, <1>2

\* A file that acts is open, or is being opened, so the module is there.
LEMMA LoadedStep ==
  ASSUME DriverInv, NEW f \in File, Start(f) \/ Step(f) \/ interrupted(f)
  PROVE  loaded /\ loaded'
<1>1. loaded' = loaded /\ (loaded \/ frame[f] # Closed)
  <2>1. CASE Start(f)
    <3>1. loaded \/ Calls(f)
      BY <2>1 DEF Start, open, release, ioctl_rejected, write, read, llseek, ioctl
    <3>2. Calls(f) => frame[f] # Closed
      BY DEF Calls, Closed
    <3>3. loaded' = loaded
      BY <2>1 DEF Start, open, release, ioctl_rejected, write, read, llseek, ioctl
    <3> QED BY <3>1, <3>2, <3>3
  <2>2. CASE Step(f)
    BY <2>2 DEF Step, open_reset, write_locked, write_fault, read_empty, read_stop, read_fault,
       read_copy, read_advance, Reads, llseek_sum, llseek_locked, ioctl_locked, ioctl_scan,
       ioctl_found, Closed
  <2>3. CASE interrupted(f)
    BY <2>3 DEF interrupted, AtLock, Closed
  <2> QED BY <2>1, <2>2, <2>3
<1> QED BY <1>1 DEF DriverInv, ClosedWhenGone, TypeOK

\* Every step preserves the inductive invariant.
LEMMA InvStep == DriverInv /\ [Next]_vars => DriverInv'
<1> SUFFICES ASSUME DriverInv, [Next]_vars PROVE DriverInv'
  OBVIOUS
<1>0. TypeOK /\ LockDiscipline /\ CounterBelowLimit /\ ScanInRange
  BY DEF DriverInv
<1>1. CASE UNCHANGED vars
  BY <1>1 DEF vars, dev, heap, DriverInv, TypeOK, LockDiscipline, CounterBelowLimit,
     ScanInRange, ClosedWhenGone
<1>2. CASE init_module \/ cleanup_module
  <2>1. ClosedWhenGone'
    BY <1>2 DEF init_module, cleanup_module, ClosedWhenGone
  <2>2. TypeOK'
    BY <1>0, <1>2, OtherType
  <2> QED BY <1>2, <2>1, <2>2, LoadKeeps DEF DriverInv
<1>3. ASSUME NEW f \in File, Start(f) \/ Step(f) \/ interrupted(f)
      PROVE  DriverInv'
  <2>1. ClosedWhenGone'
    BY <1>3, LoadedStep DEF ClosedWhenGone
  <2>2. TypeOK'
    BY <1>0, <1>3, StartType, OtherType, WriteType, ReadType, SeekType DEF Step
  <2>3. LockDiscipline' /\ CounterBelowLimit' /\ ScanInRange'
    BY <1>0, <1>3, StartQuiet, StepQuiet, QuietKeeps, LockStep DEF Step
  <2> QED BY <2>1, <2>2, <2>3 DEF DriverInv
<1> QED BY <1>1, <1>2, <1>3 DEF Next

\* The driver's types, its locking and the ranges of its loops, whatever
\* calls are made on however many files: in particular no call returns to
\* user space with the lock held and the read counter never passes its limit.
THEOREM DriverInvariant == Spec => []DriverInv
<1>1. Init => DriverInv
  BY InitType, DriverAssumption
     DEF Init, DriverInv, LockDiscipline, CounterBelowLimit, ScanInRange, ClosedWhenGone, Closed
<1> QED BY <1>1, InvStep, PTL DEF Spec
-------------------------------------------------------------------------------
(* Memory.                                                                 *)

\* Only the module's coming and going and the two outcomes of a write touch
\* the ring's slots, dev->entry or the heap.
LEMMA DataUntouched ==
  ASSUME TypeOK, NEW f \in File,
         \/ Start(f) \/ open_reset(f) \/ interrupted(f)
         \/ read_empty(f) \/ read_stop(f) \/ read_fault(f) \/ read_copy(f) \/ read_advance(f)
         \/ llseek_sum(f) \/ llseek_locked(f)
         \/ ioctl_locked(f) \/ ioctl_scan(f) \/ ioctl_found(f)
  PROVE  bufferP'.entry = bufferP.entry /\ UNCHANGED <<entry, alloc, mem>>
<1>1. CASE Start(f)
  BY <1>1 DEF Start, open, release, ioctl_rejected, write, read, llseek, ioctl, dev, heap
<1>2. CASE open_reset(f)
  BY <1>2 DEF open_reset, heap, TypeOK, BufferOf
<1>3. CASE read_advance(f)
  BY <1>3 DEF read_advance, heap, TypeOK, BufferOf
<1>4. CASE \/ interrupted(f) \/ read_empty(f) \/ read_stop(f) \/ read_fault(f) \/ read_copy(f)
           \/ llseek_sum(f) \/ llseek_locked(f)
           \/ ioctl_locked(f) \/ ioctl_scan(f) \/ ioctl_found(f)
  BY <1>4 DEF interrupted, read_empty, read_stop, read_fault, read_copy,
     llseek_sum, llseek_locked, ioctl_locked, ioctl_scan, ioctl_found, dev, heap
<1> QED BY <1>1, <1>2, <1>3, <1>4

\* add_entry, as far as the slots and the block to be freed are concerned.
LEMMA AddEntrySlots ==
  ASSUME TypeOK, NEW e \in EntryOf(Ptr)
  PROVE  /\ add_entry(bufferP, e).entry = [bufferP.entry EXCEPT ![bufferP.in_offs] = e]
         /\ add_entry_result(bufferP) \in {NULL, PtrAt(bufferP.in_offs)}
<1>1. ~(bufferP.in_offs >= MaxOps)
  BY TypeFacts, MaxOpsAssumption DEF Slot
<1> QED BY <1>1 DEF add_entry, add_entry_result, PtrAt

\* A write that succeeds keeps the memory safe.
LEMMA WriteSafe ==
  ASSUME TypeOK, MemorySafe, loaded, NEW f \in File, write_locked(f)
  PROVE  MemorySafe'
<1> DEFINE d == frame[f].buf
           size == StagedSize + Len(d)
<1>1. size \in Nat
  <2>1. d \in Payload
    BY TypeFacts, FrameFields DEF write_locked
  <2> QED BY <2>1, PayloadType, TypeFacts
<1>2. PICK p \in kmalloc(size) :
        write_entry_into_buffer([buffptr |-> p, size |-> size],
                                Bytes(entry.buffptr) \o d,
                                (alloc \ {entry.buffptr}) \cup ({p} \cap Block))
  BY DEF write_locked
<1> DEFINE e == [buffptr |-> p, size |-> size]
           A == (alloc \ {entry.buffptr}) \cup ({p} \cap Block)
<1>3. p \in Ptr /\ p # NULL /\ (p \in Block => p \notin alloc)
  BY <1>1, KmallocType
<1>4. e \in EntryOf(Ptr) /\ e.buffptr = p
  BY <1>1, <1>3 DEF EntryOf
<1>5. /\ \A i \in Slot : PtrAt(i) \in Block => PtrAt(i) \in alloc
      /\ \A i, j \in Slot : PtrAt(i) \in Block /\ PtrAt(i) = PtrAt(j) => i = j
      /\ entry.buffptr \in Block =>
           entry.buffptr \in alloc /\ \A i \in Slot : PtrAt(i) # entry.buffptr
  BY DEF MemorySafe
<1>6. \A i \in Slot : PtrAt(i) \in Block => PtrAt(i) \in A /\ PtrAt(i) # p
  BY <1>3, <1>5
<1> HIDE DEF e, A, size
<1>7. CASE bufferP' = add_entry(bufferP, e) /\ alloc' = A \ {add_entry_result(bufferP)} /\ entry' = NullEntry
  <2>1. /\ bufferP'.entry = [bufferP.entry EXCEPT ![bufferP.in_offs] = e]
        /\ add_entry_result(bufferP) \in {NULL, PtrAt(bufferP.in_offs)}
    BY <1>4, <1>7, AddEntrySlots
  <2>2. \A i \in Slot : PtrAt(i)' = IF i = bufferP.in_offs THEN p ELSE PtrAt(i)
    BY <1>4, <2>1, TypeFacts DEF PtrAt
  <2>3. \A i \in Slot : PtrAt(i)' \in Block => PtrAt(i)' \in alloc'
    <3> SUFFICES ASSUME NEW i \in Slot, PtrAt(i)' \in Block PROVE PtrAt(i)' \in alloc'
      OBVIOUS
    <3>1. CASE i = bufferP.in_offs
      <4>1. PtrAt(i)' = p /\ p \in A
        BY <2>2, <3>1 DEF A
      <4>2. p # add_entry_result(bufferP)
        BY <1>3, <1>6, <2>1, <2>2, <3>1, <4>1, TypeFacts
      <4> QED BY <1>7, <4>1, <4>2
    <3>2. CASE i # bufferP.in_offs
      <4>1. PtrAt(i)' = PtrAt(i) /\ PtrAt(i) \in A
        BY <1>6, <2>2, <3>2
      <4>2. PtrAt(i) # add_entry_result(bufferP)
        BY <1>5, <2>1, <3>2, <4>1, TypeFacts, DriverAssumption
      <4> QED BY <1>7, <4>1, <4>2
    <3> QED BY <3>1, <3>2
  <2>4. \A i, j \in Slot : PtrAt(i)' \in Block /\ PtrAt(i)' = PtrAt(j)' => i = j
    BY <1>5, <1>6, <2>2
  <2>5. entry'.buffptr \notin Block
    BY <1>7, DriverAssumption DEF NullEntry
  <2> QED BY <2>3, <2>4, <2>5 DEF MemorySafe
<1>8. CASE UNCHANGED bufferP /\ alloc' = A /\ entry' = e
  <2>1. \A i \in Slot : PtrAt(i)' = PtrAt(i)
    BY <1>8 DEF PtrAt
  <2>2. entry'.buffptr = p /\ (p \in Block => p \in A)
    BY <1>4, <1>8 DEF A
  <2> QED BY <1>5, <1>6, <1>8, <2>1, <2>2 DEF MemorySafe
<1> QED
  BY <1>2, <1>7, <1>8 DEF write_entry_into_buffer, Holding, e, A
\* A write whose copy faults keeps the memory safe: what it leaves behind is
\* either dev->entry's or nobody's.
LEMMA FaultSafe ==
  ASSUME TypeOK, MemorySafe, loaded, NEW f \in File, write_fault(f)
  PROVE  MemorySafe'
<1> DEFINE d == frame[f].buf
<1>1. d \in Payload
  BY TypeFacts, FrameFields DEF write_fault
<1>2. StagedSize + Len(d) \in Nat /\ Len(d) \in Nat
  BY <1>1, PayloadType, TypeFacts
<1>3. PICK p \in kmalloc(StagedSize + Len(d)), k \in 0 .. Len(d) - 1 :
        /\ alloc' = alloc \cup {p}
        /\ entry' = IF entry.buffptr # NULL THEN entry ELSE [buffptr |-> p, size |-> Len(d)]
  BY DEF write_fault, Holding
<1>4. p # NULL /\ (p \in Block => p \notin alloc)
  BY <1>2, KmallocType
<1>5. \A i \in Slot : PtrAt(i)' = PtrAt(i)
  BY DEF write_fault, PtrAt
<1>6. entry'.buffptr = IF entry.buffptr # NULL THEN entry.buffptr ELSE p
  BY <1>3
<1> QED BY <1>3, <1>4, <1>5, <1>6 DEF MemorySafe

\* Every step keeps the memory safe.
LEMMA SafeStep == DriverInv /\ MemorySafe /\ [Next]_vars => MemorySafe'
<1> SUFFICES ASSUME DriverInv, MemorySafe, [Next]_vars PROVE MemorySafe'
  OBVIOUS
<1>0. TypeOK
  BY DEF DriverInv
<1>1. CASE UNCHANGED vars
  BY <1>1 DEF vars, dev, heap, MemorySafe, PtrAt
<1>2. CASE init_module
  <2>1. entry'.buffptr = NULL /\ \A i \in Slot : PtrAt(i)' = NULL
    BY <1>2 DEF init_module, circular_buffer_init, NullEntry, PtrAt
  <2> QED BY <2>1, DriverAssumption DEF MemorySafe
<1>3. CASE cleanup_module
  BY <1>3 DEF cleanup_module, MemorySafe
<1>4. ASSUME NEW f \in File, Start(f) \/ Step(f) \/ interrupted(f)
      PROVE  MemorySafe'
  <2>1. loaded /\ loaded'
    BY <1>4, LoadedStep
  <2>2. CASE write_locked(f) \/ write_fault(f)
    BY <1>0, <2>1, <2>2, WriteSafe, FaultSafe
  <2>3. CASE ~(write_locked(f) \/ write_fault(f))
    <3>1. bufferP'.entry = bufferP.entry /\ UNCHANGED <<entry, alloc, mem>>
      BY <1>0, <1>4, <2>3, DataUntouched DEF Step
    <3> QED BY <2>1, <3>1 DEF MemorySafe, PtrAt
  <2> QED BY <2>2, <2>3
<1> QED BY <1>1, <1>2, <1>3, <1>4 DEF Next

\* No pointer the driver keeps dangles and no block has two owners, so
\* nothing is freed twice: for any number of files, any interleaving and any
\* faults, although readers and openers make "full" and out_offs wrong.
THEOREM DriverMemorySafe == Spec => []MemorySafe
<1>1. Init => MemorySafe
  BY DEF Init, MemorySafe
<1> QED BY <1>1, SafeStep, DriverInvariant, PTL DEF Spec
-------------------------------------------------------------------------------
(* Sizes.                                                                  *)

\* The bytes p designates in the heap m.
BytesIn(m, p) == IF p \in Block THEN m[p] ELSE << >>

\* The bytes a pointer designates after the heap has changed.
LEMMA HoldingBytes ==
  ASSUME NEW A \in SUBSET Block, NEW p, NEW s, Holding(A, p, s)
  PROVE  \A q : BytesIn(mem', q) = IF q \notin Block THEN << >>
                                   ELSE IF q = p THEN s
                                   ELSE IF q \in A THEN BytesIn(mem, q) ELSE << >>
BY DEF Holding, BytesIn

\* SizesMatch in the next state, spelt out.
LEMMA SizesNext ==
  ASSUME \A i \in Slot : bufferP'.entry[i].size = Len(BytesIn(mem', bufferP'.entry[i].buffptr)),
         entry'.size = Len(BytesIn(mem', entry'.buffptr))
  PROVE  SizesMatch'
BY DEF SizesMatch, PtrAt, Bytes, BytesIn

\* SizesMatch in this state, spelt out.
LEMMA SizesNow ==
  ASSUME loaded, SizesMatch
  PROVE  /\ \A i \in Slot : bufferP.entry[i].size = Len(BytesIn(mem, bufferP.entry[i].buffptr))
         /\ entry.size = Len(Bytes(entry.buffptr))
         /\ entry.size = Len(BytesIn(mem, entry.buffptr))
BY DEF SizesMatch, PtrAt, Bytes, BytesIn

\* A write that succeeds records the size of what it stored.
LEMMA WriteSizes ==
  ASSUME TypeOK, MemorySafe, SizesMatch, loaded, NEW f \in File, write_locked(f)
  PROVE  SizesMatch'
<1> DEFINE d == frame[f].buf
           size == StagedSize + Len(d)
           s == Bytes(entry.buffptr) \o d
<1>0. d \in Payload
  BY TypeFacts, FrameFields DEF write_locked
<1>1. size \in Nat /\ Len(d) \in Nat /\ Len(s) = Len(Bytes(entry.buffptr)) + Len(d) /\ s \in Seq(Byte)
  BY <1>0, PayloadType, TypeFacts
<1>2. PICK p \in kmalloc(size) :
        write_entry_into_buffer([buffptr |-> p, size |-> size], s,
                                (alloc \ {entry.buffptr}) \cup ({p} \cap Block))
  BY DEF write_locked
<1> DEFINE e == [buffptr |-> p, size |-> size]
           A == (alloc \ {entry.buffptr}) \cup ({p} \cap Block)
<1>3. /\ p \in Ptr /\ p # NULL /\ (p \in Block => p \notin alloc)
      /\ (size > 0 => p \in Block) /\ (size = 0 => p = ZERO_SIZE_PTR)
  BY <1>1, KmallocType
<1>4. e \in EntryOf(Ptr) /\ e.buffptr = p /\ e.size = size
  BY <1>1, <1>3 DEF EntryOf
<1>5. Len(s) = size
  <2>1. entry.size = Len(Bytes(entry.buffptr))
    BY SizesNow
  <2>2. StagedSize = entry.size
    <3>1. CASE entry.buffptr = NULL
      BY <2>1, <3>1, DriverAssumption DEF StagedSize, Bytes
    <3>2. CASE entry.buffptr # NULL
      BY <3>2 DEF StagedSize
    <3> QED BY <3>1, <3>2
  <2> QED BY <1>1, <2>1, <2>2
<1>6. \A i \in Slot : PtrAt(i) \in Block => PtrAt(i) \in A /\ PtrAt(i) # p
  BY <1>3 DEF MemorySafe
<1>7. A \in SUBSET Block /\ A \ {add_entry_result(bufferP)} \in SUBSET Block
  BY TypeFacts
<1>8. \A i \in Slot : bufferP.entry[i].size = Len(BytesIn(mem, bufferP.entry[i].buffptr))
  BY SizesNow
<1>9. Len(<< >>) = 0
  OBVIOUS
<1>10. size = Len(IF p \in Block THEN s ELSE << >>)
  <2> HIDE DEF s, size
  <2>1. CASE p \in Block
    BY <1>5, <2>1
  <2>2. CASE p \notin Block
    <3>1. size = 0
      BY <1>1, <1>3, <2>2
    <3> QED BY <1>9, <2>2, <3>1
  <2> QED BY <2>1, <2>2
<1> HIDE DEF e, A, s, size
<1>11. CASE /\ bufferP' = add_entry(bufferP, e)
            /\ Holding(A \ {add_entry_result(bufferP)}, p, s)
            /\ entry' = NullEntry
  <2>1. /\ bufferP'.entry = [bufferP.entry EXCEPT ![bufferP.in_offs] = e]
        /\ add_entry_result(bufferP) \in {NULL, PtrAt(bufferP.in_offs)}
    BY <1>4, <1>11, AddEntrySlots
  <2>2. \A i \in Slot : bufferP'.entry[i] = IF i = bufferP.in_offs THEN e ELSE bufferP.entry[i]
    BY <2>1, TypeFacts
  <2>3. \A q : BytesIn(mem', q) = IF q \notin Block THEN << >> ELSE IF q = p THEN s
                                  ELSE IF q \in A \ {add_entry_result(bufferP)}
                                       THEN BytesIn(mem, q) ELSE << >>
    BY <1>7, <1>11, HoldingBytes
  <2>4. \A i \in Slot : bufferP'.entry[i].size = Len(BytesIn(mem', bufferP'.entry[i].buffptr))
    <3> SUFFICES ASSUME NEW i \in Slot
                 PROVE  bufferP'.entry[i].size = Len(BytesIn(mem', bufferP'.entry[i].buffptr))
      OBVIOUS
    <3>1. CASE i = bufferP.in_offs
      <4>1. bufferP'.entry[i].size = size /\ bufferP'.entry[i].buffptr = p
        BY <1>4, <2>2, <3>1
      <4>2. BytesIn(mem', p) = IF p \in Block THEN s ELSE << >>
        BY <2>3
      <4> QED BY <1>10, <4>1, <4>2
    <3>2. CASE i # bufferP.in_offs
      <4>1. bufferP'.entry[i] = bufferP.entry[i]
        BY <2>2, <3>2
      <4>2. PtrAt(i) \in Block => PtrAt(i) \in A \ {add_entry_result(bufferP)} /\ PtrAt(i) # p
        BY <1>6, <2>1, <3>2, TypeFacts, DriverAssumption DEF MemorySafe
      <4>3. BytesIn(mem', PtrAt(i)) = BytesIn(mem, PtrAt(i))
        <5>1. CASE PtrAt(i) \in Block
          BY <2>3, <4>2, <5>1
        <5>2. CASE PtrAt(i) \notin Block
          BY <5>2 DEF BytesIn
        <5> QED BY <5>1, <5>2
      <4> QED BY <1>8, <4>1, <4>3 DEF PtrAt
    <3> QED BY <3>1, <3>2
  <2>5. entry'.size = Len(BytesIn(mem', entry'.buffptr))
    BY <1>9, <1>11, DriverAssumption DEF NullEntry, BytesIn
  <2> QED BY <2>4, <2>5, SizesNext
<1>12. CASE UNCHANGED bufferP /\ Holding(A, p, s) /\ entry' = e
  <2>1. \A q : BytesIn(mem', q) = IF q \notin Block THEN << >> ELSE IF q = p THEN s
                                  ELSE IF q \in A THEN BytesIn(mem, q) ELSE << >>
    BY <1>7, <1>12, HoldingBytes
  <2>2. \A i \in Slot : BytesIn(mem', PtrAt(i)) = BytesIn(mem, PtrAt(i))
    BY <1>6, <2>1 DEF BytesIn
  <2>3. \A i \in Slot : bufferP'.entry[i].size = Len(BytesIn(mem', bufferP'.entry[i].buffptr))
    BY <1>8, <1>12, <2>2 DEF PtrAt
  <2>4. BytesIn(mem', p) = IF p \in Block THEN s ELSE << >>
    BY <2>1
  <2>5. entry'.size = Len(BytesIn(mem', entry'.buffptr))
    BY <1>4, <1>10, <1>12, <2>4
  <2> QED BY <2>3, <2>5, SizesNext
<1> QED
  BY <1>2, <1>4, <1>11, <1>12 DEF write_entry_into_buffer, e, A

\* So does one whose copy faults: what was not copied is zeroed, not missing.
LEMMA FaultSizes ==
  ASSUME TypeOK, MemorySafe, SizesMatch, loaded, NEW f \in File, write_fault(f)
  PROVE  SizesMatch'
<1> DEFINE d == frame[f].buf
<1>1. d \in Payload
  BY TypeFacts, FrameFields DEF write_fault
<1>2. StagedSize + Len(d) \in Nat /\ Len(d) \in Nat
  BY <1>1, PayloadType, TypeFacts
<1>3. PICK p \in kmalloc(StagedSize + Len(d)), k \in 0 .. Len(d) - 1 :
        /\ Holding(alloc \cup {p}, p,
                   Bytes(entry.buffptr) \o
                   [i \in 1 .. Len(d) |-> IF i <= k THEN d[i] ELSE ZERO])
        /\ entry' = IF entry.buffptr # NULL THEN entry ELSE [buffptr |-> p, size |-> Len(d)]
  BY DEF write_fault
<1> DEFINE z == [i \in 1 .. Len(d) |-> IF i <= k THEN d[i] ELSE ZERO]
           s == Bytes(entry.buffptr) \o z
<1>4. p \in Block /\ p \notin alloc
  <2>1. StagedSize + Len(d) > 0
    BY <1>2, <1>3, TypeFacts
  <2> QED BY <1>2, <2>1, KmallocType
<1>5. \A q : BytesIn(mem', q) = IF q \notin Block THEN << >> ELSE IF q = p THEN s
                                ELSE IF q \in alloc \cup {p} THEN BytesIn(mem, q) ELSE << >>
  <2>1. Holding(alloc \cup {p}, p, s) /\ alloc \cup {p} \in SUBSET Block
    BY <1>3, <1>4, TypeFacts
  <2> HIDE DEF s
  <2> QED BY <2>1, HoldingBytes
<1>6. \A i \in Slot : PtrAt(i) \in Block => PtrAt(i) \in alloc
  BY DEF MemorySafe
<1>7. entry.buffptr \in Block => entry.buffptr \in alloc
  BY DEF MemorySafe
<1>8. z \in Seq(Byte) /\ Len(z) = Len(d)
  <2>1. \A i \in 1 .. Len(d) : d[i] \in Byte
    BY <1>1, PayloadType
  <2>2. z \in [1 .. Len(d) -> Byte]
    BY <2>1, DriverAssumption
  <2> QED BY <1>2, <2>2
<1> HIDE DEF z, s
<1>9. \A i \in Slot : bufferP'.entry[i].size = Len(BytesIn(mem', bufferP'.entry[i].buffptr))
  <2>1. \A i \in Slot : BytesIn(mem', PtrAt(i)) = BytesIn(mem, PtrAt(i))
    BY <1>4, <1>5, <1>6 DEF BytesIn
  <2>2. bufferP' = bufferP
    BY DEF write_fault
  <2> QED BY <2>1, <2>2, SizesNow DEF PtrAt
<1>10. entry'.size = Len(BytesIn(mem', entry'.buffptr))
  <2>1. CASE entry.buffptr # NULL
    <3>1. BytesIn(mem', entry.buffptr) = BytesIn(mem, entry.buffptr)
      BY <1>4, <1>5, <1>7 DEF BytesIn
    <3>2. entry' = entry
      BY <1>3, <2>1
    <3> QED BY <3>1, <3>2, SizesNow
  <2>2. CASE entry.buffptr = NULL
    <3>1. entry'.buffptr = p /\ entry'.size = Len(d)
      BY <1>3, <2>2
    <3>2. Bytes(entry.buffptr) = << >>
      BY <2>2, DriverAssumption DEF Bytes
    <3>3. Len(s) = Len(d)
      BY <1>8, <3>2 DEF s
    <3>4. BytesIn(mem', p) = s
      BY <1>4, <1>5
    <3> QED BY <3>1, <3>3, <3>4
  <2> QED BY <2>1, <2>2
<1> QED BY <1>9, <1>10, SizesNext

\* Every step keeps sizes and blocks in agreement.
LEMMA SizesStep == DriverInv /\ MemorySafe /\ SizesMatch /\ [Next]_vars => SizesMatch'
<1> SUFFICES ASSUME DriverInv, MemorySafe, SizesMatch, [Next]_vars PROVE SizesMatch'
  OBVIOUS
<1>0. TypeOK
  BY DEF DriverInv
<1>1. CASE UNCHANGED vars
  BY <1>1 DEF vars, dev, heap, SizesMatch, PtrAt, Bytes
<1>2. CASE init_module
  <2>1. /\ entry'.buffptr = NULL /\ entry'.size = 0
        /\ \A i \in Slot : bufferP'.entry[i].buffptr = NULL /\ bufferP'.entry[i].size = 0
    BY <1>2 DEF init_module, circular_buffer_init, NullEntry
  <2>2. BytesIn(mem', NULL) = << >> /\ Len(<< >>) = 0
    BY DriverAssumption DEF BytesIn
  <2> QED BY <2>1, <2>2, SizesNext
<1>3. CASE cleanup_module
  BY <1>3 DEF cleanup_module, SizesMatch
<1>4. ASSUME NEW f \in File, Start(f) \/ Step(f) \/ interrupted(f)
      PROVE  SizesMatch'
  <2>1. loaded /\ loaded'
    BY <1>4, LoadedStep
  <2>2. CASE write_locked(f) \/ write_fault(f)
    BY <1>0, <2>1, <2>2, WriteSizes, FaultSizes
  <2>3. CASE ~(write_locked(f) \/ write_fault(f))
    <3>1. bufferP'.entry = bufferP.entry /\ UNCHANGED <<entry, alloc, mem>>
      BY <1>0, <1>4, <2>3, DataUntouched DEF Step
    <3> QED BY <2>1, <3>1 DEF SizesMatch, PtrAt, Bytes
  <2> QED BY <2>2, <2>3
<1> QED BY <1>1, <1>2, <1>3, <1>4 DEF Next

\* Every size the device keeps is the number of bytes of the block beside it,
\* so an append copies, and the search for a newline inspects, exactly the
\* bytes that were written.
THEOREM DriverSizesMatch == Spec => []SizesMatch
<1>1. Init => SizesMatch
  BY DEF Init, SizesMatch
<1> QED BY <1>1, SizesStep, DriverMemorySafe, DriverInvariant, PTL DEF Spec

\* The type invariant by itself: every position stays inside the array and
\* readCounter inside its range.
THEOREM DriverTypeCorrect == Spec => []TypeOK
BY DriverInvariant, PTL DEF DriverInv

\* No path of any system call, error paths included, returns to user space
\* with dev->lock held, and nobody is in a critical section without it.
THEOREM DriverLockDiscipline == Spec => []LockDiscipline
BY DriverInvariant, PTL DEF DriverInv
===============================================================================

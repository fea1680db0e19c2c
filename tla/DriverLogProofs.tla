--------------------------- MODULE DriverLogProofs ----------------------------
(***************************************************************************)
(* Proofs about what the driver stores, for any number of files, any ring  *)
(* size and any payloads: entries are lines, a newline inside a command    *)
(* blocks it for good, nothing is lost while "full" is right, and the      *)
(* device implements CommandLog.                                           *)
(***************************************************************************)
EXTENDS AesdCharProofs

\* The least element of a set of numbers is there.
LEMMA MinNat ==
  ASSUME NEW T \in SUBSET Nat, T # {}
  PROVE  Min(T) \in T /\ \A y \in T : Min(T) <= y
<1>1. PICK x \in T : \A y \in T : x <= y
  BY LeastOf
<1>2. x \in T /\ \A y \in T : x =< y
  BY <1>1
<1> QED BY <1>2 DEF Min

\* The test "checkEOLChar(..) == size - 1" of write_entry_into_buffer: it holds of
\* a line, and of nothing at all.
LEMMA FirstEOL ==
  ASSUME NEW s \in Seq(Byte)
  PROVE  checkEOLChar(s) = Len(s) - 1 <=> Len(s) = 0 \/ OneLine(s)
<1> DEFINE I == {i \in 1 .. Len(s) : s[i] = EOL}
<1>1. checkEOLChar(s) = (IF I # {} THEN Min(I) ELSE 0) - 1
  BY DEF checkEOLChar, SelectInSeq
<1>2. I \in SUBSET Nat
  OBVIOUS
<1>3. I # {} => Min(I) \in I /\ \A y \in I : Min(I) <= y
  BY <1>2, MinNat
<1>4. CASE Len(s) > 0
  <2>1. ASSUME checkEOLChar(s) = Len(s) - 1 PROVE OneLine(s)
    BY <1>1, <1>3, <1>4, <2>1 DEF OneLine, EOLInside
  <2>2. ASSUME OneLine(s) PROVE checkEOLChar(s) = Len(s) - 1
    <3>1. Len(s) \in I /\ \A i \in I : i = Len(s)
      BY <1>4, <2>2 DEF OneLine, EOLInside
    <3> HIDE DEF I
    <3> QED BY <1>1, <1>3, <3>1
  <2> QED BY <1>4, <2>1, <2>2
<1>5. CASE Len(s) = 0
  <2>1. I = {}
    BY <1>5
  <2> QED BY <1>1, <1>5, <2>1
<1>6. Len(s) \in Nat
  OBVIOUS
<1> QED BY <1>4, <1>5, <1>6
-------------------------------------------------------------------------------
(* What a write does.                                                      *)

\* The command in progress with what f writes.
Joined(f) == Bytes(entry.buffptr) \o frame[f].buf

\* The bytes s have been put into the ring as block p, or into dev->entry.
Stored(p, s) ==
  /\ bufferP'.entry = [bufferP.entry EXCEPT ![bufferP.in_offs] = [buffptr |-> p, size |-> Len(s)]]
  /\ bufferP'.in_offs = Succ(bufferP.in_offs)
  /\ entry' = NullEntry
  /\ alloc' = ((alloc \ {entry.buffptr}) \cup ({p} \cap Block)) \ {add_entry_result(bufferP)}
  /\ \A i \in Slot \ {bufferP.in_offs} : BytesIn(mem', PtrAt(i)) = BytesIn(mem, PtrAt(i))
Collected(p, s) ==
  /\ bufferP' = bufferP
  /\ entry' = [buffptr |-> p, size |-> Len(s)]
  /\ alloc' = (alloc \ {entry.buffptr}) \cup ({p} \cap Block)
  /\ \A i \in Slot : BytesIn(mem', PtrAt(i)) = BytesIn(mem, PtrAt(i))

\* A write that succeeds, seen from outside: the bytes so far and the new ones are
\* in a block of their own, in the ring if they are a line or nothing at all.
LEMMA WriteOutcome ==
  ASSUME TypeOK, MemorySafe, SizesMatch, loaded, NEW f \in File, write_locked(f)
  PROVE  /\ frame[f].buf \in Payload /\ Joined(f) \in Seq(Byte)
         /\ \E p \in Ptr :
              /\ p # NULL /\ (p \in Block => p \notin alloc) /\ BytesIn(mem', p) = Joined(f)
              /\ IF Len(Joined(f)) = 0 \/ OneLine(Joined(f)) THEN Stored(p, Joined(f))
                                                             ELSE Collected(p, Joined(f))
<1> DEFINE d == frame[f].buf
           size == StagedSize + Len(d)
           s == Joined(f)
<1>0. d \in Payload
  BY TypeFacts, FrameFields DEF write_locked
<1>1. size \in Nat /\ Len(d) \in Nat /\ Len(s) = Len(Bytes(entry.buffptr)) + Len(d) /\ s \in Seq(Byte)
  BY <1>0, PayloadType, TypeFacts DEF Joined
<1>2. PICK p \in kmalloc(size) :
        write_entry_into_buffer([buffptr |-> p, size |-> size], s,
                                (alloc \ {entry.buffptr}) \cup ({p} \cap Block))
  BY DEF write_locked, Joined
<1> DEFINE e == [buffptr |-> p, size |-> size]
           A == (alloc \ {entry.buffptr}) \cup ({p} \cap Block)
<1>3. /\ p \in Ptr /\ p # NULL /\ (p \in Block => p \notin alloc)
      /\ (size > 0 => p \in Block) /\ (size = 0 => p = ZERO_SIZE_PTR)
  BY <1>1, KmallocType
<1>4. Len(s) = size
  <2>1. entry.size = Len(Bytes(entry.buffptr))
    BY SizesNow
  <2>2. StagedSize = entry.size
    <3>1. CASE entry.buffptr = NULL
      BY <2>1, <3>1, DriverAssumption DEF StagedSize, Bytes
    <3>2. CASE entry.buffptr # NULL
      BY <3>2 DEF StagedSize
    <3> QED BY <3>1, <3>2
  <2> QED BY <1>1, <2>1, <2>2
<1> HIDE DEF size, s
<1>5. e \in EntryOf(Ptr) /\ e.buffptr = p /\ e.size = size /\ e = [buffptr |-> p, size |-> Len(s)]
  BY <1>1, <1>3, <1>4 DEF EntryOf
<1>6. \A i \in Slot : PtrAt(i) \in Block => PtrAt(i) \in A /\ PtrAt(i) # p
  BY <1>3 DEF MemorySafe
<1>7. A \in SUBSET Block /\ A \ {add_entry_result(bufferP)} \in SUBSET Block
  BY TypeFacts
<1>8. p \notin Block => s = << >>
  <2>1. p \notin Block => size = 0
    BY <1>1, <1>3
  <2>2. s \in Seq(Byte)
    BY <1>1
  <2>3. Len(s) = 0 => s = << >>
    BY <2>2
  <2> QED BY <1>4, <2>1, <2>3
<1>9. checkEOLChar(s) = e.size - 1 <=> Len(s) = 0 \/ OneLine(s)
  BY <1>1, <1>4, <1>5, FirstEOL
<1> HIDE DEF e, A
<1>10. CASE Len(s) = 0 \/ OneLine(s)
  <2>1. /\ bufferP' = add_entry(bufferP, e)
        /\ Holding(A \ {add_entry_result(bufferP)}, p, s)
        /\ entry' = NullEntry
    BY <1>2, <1>5, <1>9, <1>10 DEF write_entry_into_buffer, e, A
  <2>2. /\ bufferP'.entry = [bufferP.entry EXCEPT ![bufferP.in_offs] = e]
        /\ add_entry_result(bufferP) \in {NULL, PtrAt(bufferP.in_offs)}
    BY <1>5, <2>1, AddEntrySlots
  <2>3. bufferP'.in_offs = Succ(bufferP.in_offs)
    <3>1. ~(bufferP.in_offs >= MaxOps)
      BY TypeFacts, MaxOpsAssumption DEF Slot
    <3> QED BY <2>1, <3>1 DEF add_entry
  <2>4. \A q : BytesIn(mem', q) = IF q \notin Block THEN << >> ELSE IF q = p THEN s
                                  ELSE IF q \in A \ {add_entry_result(bufferP)}
                                       THEN BytesIn(mem, q) ELSE << >>
    BY <1>7, <2>1, HoldingBytes
  <2>5. BytesIn(mem', p) = s
    BY <1>8, <2>4
  <2>6. ASSUME NEW i \in Slot \ {bufferP.in_offs}
        PROVE  BytesIn(mem', PtrAt(i)) = BytesIn(mem, PtrAt(i))
    <3>1. PtrAt(i) \in Block => PtrAt(i) \in A \ {add_entry_result(bufferP)} /\ PtrAt(i) # p
      BY <1>6, <2>2, TypeFacts, DriverAssumption DEF MemorySafe
    <3>2. CASE PtrAt(i) \in Block
      BY <2>4, <3>1, <3>2
    <3>3. CASE PtrAt(i) \notin Block
      BY <3>3 DEF BytesIn
    <3> QED BY <3>2, <3>3
  <2>7. alloc' = A \ {add_entry_result(bufferP)}
    BY <2>1 DEF Holding
  <2>8. Stored(p, s)
    BY <1>5, <2>1, <2>2, <2>3, <2>6, <2>7 DEF Stored, A
  <2> QED BY <1>0, <1>1, <1>3, <1>10, <2>5, <2>8 DEF s
<1>11. CASE ~(Len(s) = 0 \/ OneLine(s))
  <2>1. bufferP' = bufferP /\ Holding(A, p, s) /\ entry' = e
    BY <1>2, <1>5, <1>9, <1>11 DEF write_entry_into_buffer, e, A
  <2>2. \A q : BytesIn(mem', q) = IF q \notin Block THEN << >> ELSE IF q = p THEN s
                                  ELSE IF q \in A THEN BytesIn(mem, q) ELSE << >>
    BY <1>7, <2>1, HoldingBytes
  <2>3. BytesIn(mem', p) = s
    BY <1>8, <2>2
  <2>4. \A i \in Slot : BytesIn(mem', PtrAt(i)) = BytesIn(mem, PtrAt(i))
    BY <1>6, <2>2 DEF BytesIn
  <2>5. Collected(p, s)
    BY <1>5, <2>1, <2>4 DEF Collected, Holding, A
  <2> QED BY <1>0, <1>1, <1>3, <1>11, <2>3, <2>5 DEF s
<1> QED BY <1>10, <1>11

\* A write whose copy faults, seen from outside: the ring is left alone, and so is
\* a command in progress; otherwise what was copied, filled up with zeros, is one.
LEMMA FaultOutcome ==
  ASSUME TypeOK, MemorySafe, SizesMatch, loaded, NEW f \in File, write_fault(f)
  PROVE  /\ Faults /\ frame[f].buf \in Payload /\ bufferP' = bufferP
         /\ \A i \in Slot : BytesIn(mem', PtrAt(i)) = BytesIn(mem, PtrAt(i))
         /\ IF entry.buffptr # NULL
            THEN entry' = entry /\ BytesIn(mem', entry.buffptr) = BytesIn(mem, entry.buffptr)
            ELSE \E k \in 0 .. Len(frame[f].buf) - 1 :
                   BytesIn(mem', entry'.buffptr)
                     = [i \in 1 .. Len(frame[f].buf) |-> IF i <= k THEN frame[f].buf[i] ELSE ZERO]
<1> DEFINE d == frame[f].buf
<1>1. d \in Payload
  BY TypeFacts, FrameFields DEF write_fault
<1>2. StagedSize + Len(d) \in Nat /\ Len(d) \in Nat
  BY <1>1, PayloadType, TypeFacts
<1>3. PICK p \in kmalloc(StagedSize + Len(d)), k \in 0 .. Len(d) - 1 :
        /\ Holding(alloc \cup {p}, p,
                   Bytes(entry.buffptr) \o
                   [i \in 1 .. Len(d) |-> IF i <= k THEN d[i] ELSE ZERO])
        /\ entry' = IF entry.buffptr # NULL THEN entry ELSE [buffptr |-> p, size |-> Len(d)]
  BY DEF write_fault
<1> DEFINE z == [i \in 1 .. Len(d) |-> IF i <= k THEN d[i] ELSE ZERO]
           s == Bytes(entry.buffptr) \o z
<1>4. p \in Block /\ p \notin alloc
  <2>1. StagedSize + Len(d) > 0
    BY <1>2, <1>3, TypeFacts
  <2> QED BY <1>2, <2>1, KmallocType
<1>5. \A q : BytesIn(mem', q) = IF q \notin Block THEN << >> ELSE IF q = p THEN s
                                ELSE IF q \in alloc \cup {p} THEN BytesIn(mem, q) ELSE << >>
  <2>1. Holding(alloc \cup {p}, p, s) /\ alloc \cup {p} \in SUBSET Block
    BY <1>3, <1>4, TypeFacts
  <2> HIDE DEF s
  <2> QED BY <2>1, HoldingBytes
<1>6. z \in Seq(Byte)
  <2>1. \A i \in 1 .. Len(d) : d[i] \in Byte
    BY <1>1, PayloadType
  <2>2. z \in [1 .. Len(d) -> Byte]
    BY <2>1, DriverAssumption
  <2> QED BY <1>2, <2>2
<1> HIDE DEF z, s
<1>7. \A i \in Slot : BytesIn(mem', PtrAt(i)) = BytesIn(mem, PtrAt(i))
  BY <1>4, <1>5 DEF BytesIn, MemorySafe
<1>8. CASE entry.buffptr # NULL
  <2>1. BytesIn(mem', entry.buffptr) = BytesIn(mem, entry.buffptr)
    BY <1>4, <1>5 DEF BytesIn, MemorySafe
  <2> QED BY <1>1, <1>3, <1>7, <1>8, <2>1 DEF write_fault
<1>9. CASE entry.buffptr = NULL
  <2>1. entry'.buffptr = p
    BY <1>3, <1>9
  <2>2. Bytes(entry.buffptr) = << >>
    BY <1>9, DriverAssumption DEF Bytes
  <2>3. s = z
    BY <1>6, <2>2 DEF s
  <2>4. BytesIn(mem', entry'.buffptr) = z
    BY <1>4, <1>5, <2>1, <2>3
  <2> QED BY <1>1, <1>3, <1>7, <1>9, <2>4 DEF write_fault, z
<1> QED BY <1>8, <1>9

\* What the steps of a loaded module do to what it stores.
Untouched == /\ bufferP'.entry = bufferP.entry /\ bufferP'.in_offs = bufferP.in_offs
             /\ UNCHANGED <<entry, alloc, mem>>

\* A loaded module changes what it stores only in aesd_write.
LEMMA LoadedCases ==
  ASSUME DriverInv, [Next]_vars, loaded, loaded'
  PROVE  Untouched \/ \E f \in File : write_locked(f) \/ write_fault(f)
<1>0. TypeOK
  BY DEF DriverInv
<1>1. CASE UNCHANGED vars
  BY <1>1 DEF vars, dev, heap, Untouched
<1>2. CASE init_module \/ cleanup_module
  BY <1>2 DEF init_module, cleanup_module
<1>3. ASSUME NEW f \in File, Start(f) \/ Step(f) \/ interrupted(f),
             ~(write_locked(f) \/ write_fault(f))
      PROVE  Untouched
  <2>1. bufferP'.entry = bufferP.entry /\ UNCHANGED <<entry, alloc, mem>>
    BY <1>0, <1>3, DataUntouched DEF Step
  <2>2. bufferP'.in_offs = bufferP.in_offs
    <3>1. CASE open_reset(f) \/ read_advance(f)
      BY <1>0, <3>1 DEF open_reset, read_advance, TypeOK, BufferOf
    <3>2. CASE Start(f)
      BY <3>2 DEF Start, open, release, ioctl_rejected, write, read, llseek, ioctl, dev
    <3>3. CASE \/ interrupted(f) \/ read_empty(f) \/ read_stop(f) \/ read_fault(f) \/ read_copy(f)
               \/ llseek_sum(f) \/ llseek_locked(f)
               \/ ioctl_locked(f) \/ ioctl_scan(f) \/ ioctl_found(f)
      BY <3>3 DEF interrupted, read_empty, read_stop, read_fault, read_copy,
         llseek_sum, llseek_locked, ioctl_locked, ioctl_scan, ioctl_found, dev
    <3> QED BY <1>3, <3>1, <3>2, <3>3 DEF Step
  <2> QED BY <2>1, <2>2 DEF Untouched
<1> QED BY <1>1, <1>2, <1>3 DEF Next

\* A step that loads the module: the ring is new.
LEMMA LoadingCases ==
  ASSUME DriverInv, [Next]_vars, ~loaded, loaded'
  PROVE  init_module
<1>1. ASSUME NEW f \in File, Start(f) \/ Step(f) \/ interrupted(f) PROVE FALSE
  BY <1>1, LoadedStep
<1> QED BY <1>1 DEF Next, vars, cleanup_module

\* So is the step that unloads it.
LEMMA UnloadingCases ==
  ASSUME DriverInv, [Next]_vars, loaded, ~loaded'
  PROVE  cleanup_module
<1>1. ASSUME NEW f \in File, Start(f) \/ Step(f) \/ interrupted(f) PROVE FALSE
  BY <1>1, LoadedStep
<1> QED BY <1>1 DEF Next, vars, init_module
-------------------------------------------------------------------------------
(* Invariants of what is stored.                                           *)

\* Everything proved about the driver's state so far.
Safe == DriverInv /\ MemorySafe /\ SizesMatch

\* The three together are an invariant of the driver.
LEMMA SafeInvariant == Spec => []Safe
BY DriverInvariant, DriverMemorySafe, DriverSizesMatch, PTL DEF Safe

\* The slots are filled in the order of in_offs, whatever happens to out_offs and
\* "full": every entry added has a pointer, that of no bytes too.
LEMMA FilledStep == Safe /\ FilledInOrder /\ [Next]_vars => FilledInOrder'
<1> SUFFICES ASSUME Safe, FilledInOrder, [Next]_vars, loaded' PROVE FilledInOrder'
  BY DEF FilledInOrder
<1>0. DriverInv /\ TypeOK /\ MemorySafe /\ SizesMatch
  BY DEF Safe, DriverInv
<1>1. CASE ~loaded
  <2>1. init_module
    BY <1>0, <1>1, LoadingCases
  <2>2. bufferP'.in_offs = 0 /\ \A i \in Slot : PtrAt(i)' = NULL
    BY <2>1 DEF init_module, circular_buffer_init, NullEntry, PtrAt
  <2>3. \A i \in Slot : i >= 0
    BY MaxOpsAssumption DEF Slot
  <2>4. 0 \in Slot
    BY MaxOpsAssumption DEF Slot
  <2> QED BY <2>2, <2>3, <2>4 DEF FilledInOrder, PtrAt
<1>2. CASE loaded /\ Untouched
  BY <1>2 DEF Untouched, FilledInOrder, PtrAt
<1>3. ASSUME loaded, NEW f \in File, write_fault(f) PROVE FilledInOrder'
  BY <1>0, <1>3, FaultOutcome DEF FilledInOrder, PtrAt
<1>4. ASSUME loaded, NEW f \in File, write_locked(f) PROVE FilledInOrder'
  <2>1. PICK p \in Ptr : p # NULL /\ (Stored(p, Joined(f)) \/ Collected(p, Joined(f)))
    BY <1>0, <1>4, WriteOutcome
  <2>2. CASE Collected(p, Joined(f))
    BY <1>4, <2>2 DEF Collected, FilledInOrder, PtrAt
  <2>3. CASE Stored(p, Joined(f))
    <3> DEFINE in == bufferP.in_offs
    <3>1. in \in Slot /\ bufferP'.in_offs = Succ(in)
      BY <1>0, <2>3, TypeFacts DEF Stored
    <3>2. \A i \in Slot : bufferP'.entry[i].buffptr = IF i = in THEN p ELSE PtrAt(i)
      BY <1>0, <2>3, TypeFacts DEF Stored, PtrAt
    <3>3. \A i \in Slot : PtrAt(i) = NULL <=> PtrAt(in) = NULL /\ i >= in
      BY <1>4 DEF FilledInOrder
    <3>4. Succ(in) \in Slot /\ Succ(in) = IF in = MaxOps - 1 THEN 0 ELSE in + 1
      BY <3>1, SuccCases
    <3>5. bufferP'.entry[Succ(in)].buffptr = IF Succ(in) = in THEN p ELSE PtrAt(Succ(in))
      BY <3>2, <3>4
    <3> HIDE DEF in
    <3>6. ASSUME NEW i \in Slot
          PROVE  bufferP'.entry[i].buffptr = NULL
                   <=> bufferP'.entry[Succ(in)].buffptr = NULL /\ i >= Succ(in)
      <4>1. bufferP'.entry[i].buffptr = IF i = in THEN p ELSE PtrAt(i)
        BY <3>2
      <4>2. i \in Nat /\ i < MaxOps /\ in \in Nat /\ in < MaxOps
        BY <3>1, MaxOpsAssumption DEF Slot, in
      <4> QED BY <2>1, <3>1, <3>3, <3>4, <3>5, <4>1, <4>2, MaxOpsAssumption
    <3> QED BY <3>1, <3>6 DEF FilledInOrder, PtrAt
  <2> QED BY <2>1, <2>2, <2>3
<1> QED BY <1>0, <1>1, <1>2, <1>3, <1>4, LoadedCases

\* The unused slots are the ones in_offs has not come to yet.
THEOREM DriverFillsInOrder == Spec => []FilledInOrder
<1>1. Init => FilledInOrder
  BY DEF Init, FilledInOrder
<1> QED BY <1>1, FilledStep, SafeInvariant, PTL DEF Spec

\* What the driver stores in the ring is a line or nothing.
LEMMA LinesStep == Safe /\ EntriesAreLines /\ [Next]_vars => EntriesAreLines'
<1> SUFFICES ASSUME Safe, EntriesAreLines, [Next]_vars, loaded' PROVE EntriesAreLines'
  BY DEF EntriesAreLines
<1>0. DriverInv /\ TypeOK /\ MemorySafe /\ SizesMatch
  BY DEF Safe, DriverInv
<1> DEFINE Line(s) == Len(s) > 0 => OneLine(s)
<1>1. SUFFICES \A i \in Slot : Line(BytesIn(mem', bufferP'.entry[i].buffptr))
  BY DEF EntriesAreLines, OneLine, EOLInside, Bytes, BytesIn, PtrAt
<1>2. loaded => \A i \in Slot : Line(BytesIn(mem, PtrAt(i)))
  BY DEF EntriesAreLines, OneLine, EOLInside, Bytes, BytesIn, PtrAt
<1>3. CASE ~loaded
  <2>1. init_module
    BY <1>0, <1>3, LoadingCases
  <2>2. \A i \in Slot : bufferP'.entry[i].buffptr = NULL
    BY <2>1 DEF init_module, circular_buffer_init, NullEntry
  <2>3. BytesIn(mem', NULL) = << >> /\ Len(<< >>) = 0
    BY DriverAssumption DEF BytesIn
  <2> QED BY <2>2, <2>3
<1> HIDE DEF Line
<1>4. CASE loaded /\ Untouched
  BY <1>2, <1>4 DEF Untouched, PtrAt
<1>5. ASSUME loaded, NEW f \in File, write_fault(f)
      PROVE  \A i \in Slot : Line(BytesIn(mem', bufferP'.entry[i].buffptr))
  BY <1>0, <1>2, <1>5, FaultOutcome DEF PtrAt
<1>6. ASSUME loaded, NEW f \in File, write_locked(f)
      PROVE  \A i \in Slot : Line(BytesIn(mem', bufferP'.entry[i].buffptr))
  <2>1. PICK p \in Ptr :
          /\ BytesIn(mem', p) = Joined(f)
          /\ IF Len(Joined(f)) = 0 \/ OneLine(Joined(f)) THEN Stored(p, Joined(f))
                                                         ELSE Collected(p, Joined(f))
    BY <1>0, <1>6, WriteOutcome
  <2>2. CASE Len(Joined(f)) = 0 \/ OneLine(Joined(f))
    <3>1. Stored(p, Joined(f)) /\ Line(Joined(f))
      BY <2>1, <2>2 DEF Line
    <3>2. \A i \in Slot : bufferP'.entry[i].buffptr = IF i = bufferP.in_offs THEN p ELSE PtrAt(i)
      BY <1>0, <3>1, TypeFacts DEF Stored, PtrAt
    <3>3. \A i \in Slot \ {bufferP.in_offs} : BytesIn(mem', PtrAt(i)) = BytesIn(mem, PtrAt(i))
      BY <3>1 DEF Stored
    <3> QED BY <1>2, <1>6, <2>1, <3>1, <3>2, <3>3
  <2>3. CASE ~(Len(Joined(f)) = 0 \/ OneLine(Joined(f)))
    BY <1>2, <1>6, <2>1, <2>3 DEF Collected, PtrAt
  <2> QED BY <2>2, <2>3
<1> QED BY <1>0, <1>3, <1>4, <1>5, <1>6, LoadedCases

\* Every entry of the ring is one line, or nothing: never part of a command and
\* never two in one, for any payloads and any faults.
THEOREM DriverEntriesAreLines == Spec => []EntriesAreLines
<1>1. Init => EntriesAreLines
  BY DEF Init, EntriesAreLines
<1> QED BY <1>1, LinesStep, SafeInvariant, PTL DEF Spec

\* A newline inside stays inside when more bytes follow.
LEMMA InsideStays ==
  ASSUME NEW s \in Seq(Byte), NEW d \in Seq(Byte), EOLInside(s)
  PROVE  EOLInside(s \o d) /\ Len(s \o d) > 0
<1>1. PICK i \in 1 .. Len(s) - 1 : s[i] = EOL
  BY DEF EOLInside
<1>2. s \o d \in Seq(Byte) /\ Len(s \o d) = Len(s) + Len(d) /\ (s \o d)[i] = s[i]
  BY <1>1
<1>3. i \in 1 .. Len(s \o d) - 1 /\ Len(s \o d) > 0
  BY <1>2
<1> QED BY <1>1, <1>2, <1>3 DEF EOLInside

\* A command with a newline inside stays in dev->entry, and the ring as it is.
LEMMA StuckStep == Safe /\ [Next]_vars /\ Stuck /\ loaded' => Stuck' /\ bufferP'.entry = bufferP.entry
<1> SUFFICES ASSUME Safe, [Next]_vars, Stuck, loaded' PROVE Stuck' /\ bufferP'.entry = bufferP.entry
  OBVIOUS
<1>0. DriverInv /\ TypeOK /\ MemorySafe /\ SizesMatch /\ loaded
  BY DEF Safe, DriverInv, Stuck
<1>1. EOLInside(BytesIn(mem, entry.buffptr)) /\ Bytes(entry.buffptr) = BytesIn(mem, entry.buffptr)
  BY DEF Stuck, Bytes, BytesIn
<1>2. SUFFICES EOLInside(BytesIn(mem', entry'.buffptr)) /\ bufferP'.entry = bufferP.entry
  BY DEF Stuck, Bytes, BytesIn, EOLInside
<1>3. CASE Untouched
  BY <1>1, <1>3 DEF Untouched
<1>4. ASSUME NEW f \in File, write_fault(f)
      PROVE  EOLInside(BytesIn(mem', entry'.buffptr)) /\ bufferP'.entry = bufferP.entry
  <2>1. entry.buffptr # NULL
    <3>1. ~EOLInside(<< >>)
      BY DEF EOLInside
    <3> QED BY <1>1, <3>1, DriverAssumption DEF BytesIn
  <2> QED BY <1>0, <1>1, <1>4, <2>1, FaultOutcome
<1>5. ASSUME NEW f \in File, write_locked(f)
      PROVE  EOLInside(BytesIn(mem', entry'.buffptr)) /\ bufferP'.entry = bufferP.entry
  <2>1. PICK p \in Ptr :
          /\ BytesIn(mem', p) = Joined(f)
          /\ IF Len(Joined(f)) = 0 \/ OneLine(Joined(f)) THEN Stored(p, Joined(f))
                                                         ELSE Collected(p, Joined(f))
    BY <1>0, <1>5, WriteOutcome
  <2>2. frame[f].buf \in Seq(Byte) /\ Bytes(entry.buffptr) \in Seq(Byte)
    <3>1. frame[f].buf \in Payload
      BY <1>0, <1>5, WriteOutcome
    <3> QED BY <1>0, <3>1, PayloadType, BytesType, TypeFacts
  <2>3. EOLInside(Joined(f)) /\ Len(Joined(f)) > 0
    BY <1>1, <2>2, InsideStays DEF Joined
  <2>4. Collected(p, Joined(f))
    BY <2>1, <2>3 DEF OneLine
  <2>5. entry'.buffptr = p /\ bufferP' = bufferP
    BY <2>4 DEF Collected
  <2> QED BY <2>1, <2>3, <2>5
<1> QED BY <1>0, <1>3, <1>4, <1>5, LoadedCases

\* Once a command in progress has a newline inside, nothing is ever moved into the
\* ring again while the module stays loaded, whatever is written.
THEOREM DriverStuckForever == Spec => StuckForever
<1>1. Safe /\ [Next]_vars => [Stuck /\ loaded' => Stuck' /\ bufferP'.entry = bufferP.entry]_vars
  BY StuckStep
<1> QED BY <1>1, SafeInvariant, PTL DEF Spec, StuckForever

\* A write that succeeds loses no block, if "full" is right: the one it overwrites
\* is handed back.
LEMMA NoLeakStep ==
  ASSUME Safe, FilledInOrder, loaded, FullIsRight, NEW f \in File, write_locked(f)
  PROVE  Lost' \subseteq Lost
<1>0. DriverInv /\ TypeOK /\ MemorySafe /\ SizesMatch
  BY DEF Safe, DriverInv
<1> SUFFICES ASSUME NEW b \in Lost' PROVE b \in Lost
  OBVIOUS
<1>1. PICK p \in Ptr : p # NULL /\ (Stored(p, Joined(f)) \/ Collected(p, Joined(f)))
  BY <1>0, WriteOutcome
<1>2. b \in alloc' /\ b # entry'.buffptr /\ \A i \in Slot : b # bufferP'.entry[i].buffptr
  BY DEF Lost, RingPtrs
<1>3. b \in Block
  BY <1>0, <1>1, <1>2, TypeFacts DEF Stored, Collected
<1>4. CASE Collected(p, Joined(f))
  <2>1. b # p /\ b \in alloc /\ b # entry.buffptr
    BY <1>2, <1>4 DEF Collected
  <2>2. \A i \in Slot : b # bufferP.entry[i].buffptr
    BY <1>2, <1>4 DEF Collected
  <2> QED BY <2>1, <2>2 DEF Lost, RingPtrs
<1>5. CASE Stored(p, Joined(f))
  <2>0. bufferP.in_offs \in Slot
    BY <1>0, TypeFacts
  <2>1. \A i \in Slot : bufferP'.entry[i].buffptr = IF i = bufferP.in_offs THEN p ELSE PtrAt(i)
    BY <1>0, <1>5, TypeFacts DEF Stored, PtrAt
  <2>2. b # p /\ b \in alloc /\ b # entry.buffptr /\ b # add_entry_result(bufferP)
    BY <1>2, <1>5, <2>0, <2>1 DEF Stored
  <2>3. \A i \in Slot \ {bufferP.in_offs} : b # PtrAt(i)
    BY <1>2, <2>1
  <2>4. b # PtrAt(bufferP.in_offs)
    <3>1. CASE bufferP.full
      <4>1. bufferP.in_offs < MaxOps
        BY <2>0, MaxOpsAssumption DEF Slot
      <4> QED BY <2>2, <3>1, <4>1 DEF add_entry_result, PtrAt
    <3>2. CASE ~bufferP.full
      <4>1. PICK i \in Slot : PtrAt(i) = NULL
        BY <3>2 DEF FullIsRight
      <4>2. PtrAt(bufferP.in_offs) = NULL
        BY <4>1 DEF FilledInOrder
      <4> QED BY <1>3, <4>2, DriverAssumption
    <3> QED BY <3>1, <3>2
  <2> QED BY <2>2, <2>3, <2>4 DEF Lost, RingPtrs, PtrAt
<1> QED BY <1>1, <1>4, <1>5

\* Without faulting copies no block becomes unreachable in a step that starts with
\* "full" right: the only leak is the one that a wrong "full" causes.
THEOREM DriverNoLeak ==
  ASSUME ~Faults
  PROVE  Spec => NoLeak
<1>1. Safe /\ FilledInOrder /\ [Next]_vars => [loaded /\ loaded' /\ FullIsRight => Lost' \subseteq Lost]_vars
  <2> SUFFICES ASSUME Safe, FilledInOrder, [Next]_vars, loaded, loaded', FullIsRight
               PROVE  Lost' \subseteq Lost
    OBVIOUS
  <2>1. CASE Untouched
    BY <2>1 DEF Untouched, Lost, RingPtrs
  <2>2. ASSUME NEW f \in File, write_fault(f) PROVE FALSE
    BY <2>2 DEF write_fault
  <2> QED BY <2>1, <2>2, NoLeakStep, LoadedCases DEF Safe
<1> QED BY <1>1, SafeInvariant, DriverFillsInOrder, PTL DEF Spec, NoLeak

\* The counter a read has tested is still below the limit when the read increments
\* it, whoever else reads.
THEOREM DriverCounterBelowLimit == Spec => []CounterBelowLimit
BY DriverInvariant, PTL DEF DriverInv
-------------------------------------------------------------------------------
(* The device implements CommandLog.                                       *)

\* The commands kept, in this state and in the next one, while the module is loaded.
LEMMA CommandsAre ==
  /\ loaded => Commands = [k \in 1 .. Kept |-> BytesIn(mem, PtrAt((Oldest + (k - 1)) % MaxOps))]
  /\ loaded' => Commands' = [k \in 1 .. Kept' |->
                  BytesIn(mem', bufferP'.entry[(Oldest' + (k - 1)) % MaxOps].buffptr)]
  /\ loaded => InProgress = BytesIn(mem, entry.buffptr)
  /\ loaded' => InProgress' = BytesIn(mem', entry'.buffptr)
BY DEF Commands, InProgress, Bytes, BytesIn, PtrAt

\* They are where they were when the slots are what they were.
LEMMA CommandsKept ==
  ASSUME TypeOK, loaded, loaded', bufferP'.entry = bufferP.entry, bufferP'.in_offs = bufferP.in_offs,
         \A i \in Slot : BytesIn(mem', PtrAt(i)) = BytesIn(mem, PtrAt(i))
  PROVE  Commands' = Commands
<1>1. Kept' = Kept /\ Oldest' = Oldest
  BY DEF Kept, Oldest, PtrAt
<1>2. Kept \in 0 .. MaxOps /\ Oldest \in Slot
  BY TypeFacts, MaxOpsAssumption DEF Kept, Oldest, Slot
<1>3. \A k \in 1 .. Kept : (Oldest + (k - 1)) % MaxOps \in Slot
  BY <1>2, PlusCases, MaxOpsAssumption
<1>4. \A k \in 1 .. Kept : BytesIn(mem', bufferP'.entry[(Oldest + (k - 1)) % MaxOps].buffptr)
                             = BytesIn(mem, PtrAt((Oldest + (k - 1)) % MaxOps))
  BY <1>3 DEF PtrAt
<1> HIDE DEF Kept, Oldest, Commands
<1> QED BY <1>1, <1>4, CommandsAre

\* A command moved into the ring is pushed onto the commands kept.
LEMMA StoredIsPush ==
  ASSUME TypeOK, FilledInOrder, loaded, loaded', NEW p, p # NULL, NEW s \in Seq(Byte),
         Stored(p, s), BytesIn(mem', p) = s
  PROVE  Commands' = Log!Kept!Pushed(Commands, s)
<1> DEFINE in == bufferP.in_offs
           B(i) == BytesIn(mem, PtrAt(i))
           N(i) == BytesIn(mem', bufferP'.entry[i].buffptr)
<1>1. in \in Slot /\ Succ(in) \in Slot /\ Succ(in) = IF in = MaxOps - 1 THEN 0 ELSE in + 1
  BY TypeFacts, SuccCases
<1>2. bufferP'.in_offs = Succ(in)
  BY DEF Stored
<1>3. \A i \in Slot : bufferP'.entry[i].buffptr = IF i = in THEN p ELSE PtrAt(i)
  BY TypeFacts DEF Stored, PtrAt
<1>4. \A i \in Slot : N(i) = IF i = in THEN s ELSE B(i)
  BY <1>3 DEF Stored
<1>5. \A i \in Slot : B(i) \in Seq(Byte)
  <2>1. << >> \in Seq(Byte)
    OBVIOUS
  <2> QED BY <2>1, TypeFacts DEF BytesIn
<1>6. \A i \in Slot : PtrAt(i) = NULL <=> PtrAt(in) = NULL /\ i >= in
  BY DEF FilledInOrder
<1>7. /\ Commands = [k \in 1 .. Kept |-> B((Oldest + (k - 1)) % MaxOps)]
      /\ Commands' = [k \in 1 .. Kept' |-> N((Oldest' + (k - 1)) % MaxOps)]
  BY CommandsAre
<1>8. /\ Kept = (IF PtrAt(in) = NULL THEN in ELSE MaxOps)
      /\ Oldest = (IF PtrAt(in) = NULL THEN 0 ELSE in)
      /\ Kept' = (IF bufferP'.entry[Succ(in)].buffptr = NULL THEN Succ(in) ELSE MaxOps)
      /\ Oldest' = (IF bufferP'.entry[Succ(in)].buffptr = NULL THEN 0 ELSE Succ(in))
  BY <1>2 DEF Kept, Oldest, PtrAt
<1>9. in \in Nat /\ in < MaxOps /\ MaxOps \in Nat \ {0}
  BY <1>1, MaxOpsAssumption DEF Slot
<1> HIDE DEF in, B, N
<1>10. CASE PtrAt(in) = NULL
  <2>1. Kept = in /\ Oldest = 0
    BY <1>8, <1>10
  <2>2. Kept' = in + 1 /\ Oldest' = 0
    <3>1. CASE in = MaxOps - 1
      <4>1. Succ(in) = 0 /\ 0 \in Slot
        BY <1>1, <3>1
      <4>2. bufferP'.entry[0].buffptr # NULL
        BY <1>3, <1>6, <1>9, <4>1
      <4> QED BY <1>8, <1>9, <3>1, <4>1, <4>2
    <3>2. CASE in # MaxOps - 1
      <4>1. Succ(in) = in + 1 /\ Succ(in) \in Slot
        BY <1>1, <3>2
      <4>2. bufferP'.entry[Succ(in)].buffptr = NULL
        BY <1>3, <1>6, <1>9, <1>10, <4>1
      <4> QED BY <1>8, <4>1, <4>2
    <3> QED BY <3>1, <3>2
  <2>3. \A k \in 1 .. in + 1 : (0 + (k - 1)) % MaxOps = k - 1 /\ k - 1 \in Slot
    BY <1>9 DEF Slot
  <2>4. Commands \in [1 .. in -> Seq(Byte)]
    <3>1. \A k \in 1 .. in : B((0 + (k - 1)) % MaxOps) \in Seq(Byte)
      BY <1>5, <1>9, <2>3
    <3>2. Commands = [k \in 1 .. in |-> B((0 + (k - 1)) % MaxOps)]
      BY <1>7, <2>1
    <3> QED BY <3>1, <3>2
  <2>5. Commands \in Seq(Seq(Byte)) /\ Len(Commands) = in
    BY <1>9, <2>4, MadeSeq
  <2>6. Append(Commands, s) = [k \in 1 .. in + 1 |-> IF k = in + 1 THEN s ELSE Commands[k]]
    BY <2>5, AppendIs
  <2>7. \A k \in 1 .. in + 1 : N((0 + (k - 1)) % MaxOps) = IF k = in + 1 THEN s ELSE Commands[k]
    <3> SUFFICES ASSUME NEW k \in 1 .. in + 1
                 PROVE  N(k - 1) = IF k = in + 1 THEN s ELSE Commands[k]
      BY <2>3
    <3>1. k - 1 \in Slot
      BY <2>3
    <3>2. CASE k = in + 1
      BY <1>4, <1>9, <3>1, <3>2
    <3>3. CASE k # in + 1
      <4>1. k \in 1 .. in /\ k - 1 # in
        BY <1>9, <3>3
      <4>2. Commands[k] = B((0 + (k - 1)) % MaxOps)
        BY <1>7, <2>1, <4>1
      <4>3. N(k - 1) = B(k - 1)
        BY <1>4, <3>1, <4>1
      <4> QED BY <2>3, <3>3, <4>2, <4>3
    <3> QED BY <3>2, <3>3
  <2>8. Commands' = [k \in 1 .. in + 1 |-> N((0 + (k - 1)) % MaxOps)]
    BY <1>7, <2>2
  <2>9. Commands' = Append(Commands, s)
    BY <2>6, <2>7, <2>8
  <2> QED BY <1>9, <2>5, <2>9 DEF Log!Kept!Pushed
<1>11. CASE PtrAt(in) # NULL
  <2>1. Kept = MaxOps /\ Oldest = in
    BY <1>8, <1>11
  <2>2. Kept' = MaxOps /\ Oldest' = Succ(in)
    <3>1. bufferP'.entry[Succ(in)].buffptr # NULL
      BY <1>1, <1>3, <1>6, <1>11
    <3> QED BY <1>8, <3>1
  <2>3. \A k \in 1 .. MaxOps :
          /\ (Succ(in) + (k - 1)) % MaxOps = (in + k) % MaxOps
          /\ (in + k) % MaxOps \in Slot
          /\ (in + k) % MaxOps = in <=> k = MaxOps
    BY <1>1, OnceRound
  <2>4. \A k \in 1 .. MaxOps : (in + (k - 1)) % MaxOps \in Slot
    <3>1. \A k \in 1 .. MaxOps : k - 1 \in 0 .. MaxOps
      BY <1>9
    <3> QED BY <1>1, <3>1, PlusCases
  <2>5. Commands \in [1 .. MaxOps -> Seq(Byte)]
    <3>1. \A k \in 1 .. MaxOps : B((in + (k - 1)) % MaxOps) \in Seq(Byte)
      BY <1>5, <2>4
    <3>2. Commands = [k \in 1 .. MaxOps |-> B((in + (k - 1)) % MaxOps)]
      BY <1>7, <2>1
    <3> QED BY <3>1, <3>2
  <2>6. Commands \in Seq(Seq(Byte)) /\ Len(Commands) = MaxOps
    BY <1>9, <2>5, MadeSeq
  <2>7. Append(Tail(Commands), s) = [k \in 1 .. MaxOps |-> IF k = MaxOps THEN s ELSE Commands[k + 1]]
    <3>1. Len(Commands) > 0
      BY <1>9, <2>6
    <3>2. Append(Tail(Commands), s)
            = [k \in 1 .. Len(Commands) |-> IF k = Len(Commands) THEN s ELSE Commands[k + 1]]
      BY <2>6, <3>1, AppendTailIs
    <3> QED BY <2>6, <3>2
  <2>8. \A k \in 1 .. MaxOps : N((Succ(in) + (k - 1)) % MaxOps) = IF k = MaxOps THEN s ELSE Commands[k + 1]
    <3> SUFFICES ASSUME NEW k \in 1 .. MaxOps
                 PROVE  N((in + k) % MaxOps) = IF k = MaxOps THEN s ELSE Commands[k + 1]
      BY <2>3
    <3>1. (in + k) % MaxOps \in Slot /\ ((in + k) % MaxOps = in <=> k = MaxOps)
      BY <2>3
    <3>2. CASE k = MaxOps
      BY <1>4, <3>1, <3>2
    <3>3. CASE k # MaxOps
      <4>1. k + 1 \in 1 .. MaxOps /\ (k + 1) - 1 = k
        BY <1>9, <3>3
      <4>2. Commands[k + 1] = B((in + k) % MaxOps)
        BY <1>7, <2>1, <4>1
      <4> QED BY <1>4, <3>1, <3>3, <4>2
    <3> QED BY <3>2, <3>3
  <2>9. Commands' = [k \in 1 .. MaxOps |-> N((Succ(in) + (k - 1)) % MaxOps)]
    BY <1>7, <2>2
  <2>10. Commands' = Append(Tail(Commands), s)
    BY <2>7, <2>8, <2>9
  <2>11. ~(Len(Commands) < MaxOps)
    BY <1>9, <2>6
  <2> QED BY <2>10, <2>11 DEF Log!Kept!Pushed
<1> QED BY <1>10, <1>11

\* Every step of the driver is a step of the log, or none.
LEMMA LogStep == Safe /\ FilledInOrder /\ [Next]_vars => [Log!Next]_<<Commands, InProgress>>
<1> SUFFICES ASSUME Safe, FilledInOrder, [Next]_vars PROVE [Log!Next]_<<Commands, InProgress>>
  OBVIOUS
<1>0. DriverInv /\ TypeOK /\ MemorySafe /\ SizesMatch
  BY DEF Safe, DriverInv
<1>1. CASE ~loaded'
  <2>1. Commands' = << >> /\ InProgress' = << >>
    BY <1>1 DEF Commands, InProgress
  <2> QED BY <2>1 DEF Log!Next, Log!Reset
<1>2. CASE ~loaded /\ loaded'
  <2>1. init_module
    BY <1>0, <1>2, LoadingCases
  <2>2. Commands = << >> /\ InProgress = << >>
    BY <1>2 DEF Commands, InProgress
  <2>3. bufferP'.in_offs = 0 /\ bufferP'.entry[0].buffptr = NULL /\ entry'.buffptr = NULL
    BY <2>1, MaxOpsAssumption DEF init_module, circular_buffer_init, NullEntry, Slot
  <2>4. Kept' = 0
    BY <2>3 DEF Kept, PtrAt
  <2>5. Commands' = << >>
    BY <1>2, <2>4 DEF Commands
  <2>6. InProgress' = << >>
    BY <1>2, <2>3, CommandsAre, DriverAssumption DEF BytesIn
  <2> QED BY <2>2, <2>5, <2>6
<1>3. CASE loaded /\ loaded' /\ Untouched
  <2>1. Commands' = Commands
    BY <1>0, <1>3, CommandsKept DEF Untouched
  <2>2. InProgress' = InProgress
    BY <1>3, CommandsAre DEF Untouched
  <2> QED BY <2>1, <2>2
<1>4. ASSUME loaded, loaded', NEW f \in File, write_fault(f)
      PROVE  [Log!Next]_<<Commands, InProgress>>
  <2>1. /\ Faults /\ frame[f].buf \in Payload /\ bufferP' = bufferP
        /\ \A i \in Slot : BytesIn(mem', PtrAt(i)) = BytesIn(mem, PtrAt(i))
    BY <1>0, <1>4, FaultOutcome
  <2>2. Commands' = Commands
    BY <1>0, <1>4, <2>1, CommandsKept
  <2>3. CASE entry.buffptr # NULL
    <3>1. entry' = entry /\ BytesIn(mem', entry.buffptr) = BytesIn(mem, entry.buffptr)
      BY <1>0, <1>4, <2>3, FaultOutcome
    <3>2. InProgress' = InProgress
      BY <1>4, <3>1, CommandsAre
    <3> QED BY <2>2, <3>2
  <2>4. CASE entry.buffptr = NULL
    <3>1. PICK k \in 0 .. Len(frame[f].buf) - 1 :
            BytesIn(mem', entry'.buffptr)
              = [i \in 1 .. Len(frame[f].buf) |-> IF i <= k THEN frame[f].buf[i] ELSE ZERO]
      BY <1>0, <1>4, <2>4, FaultOutcome
    <3>2. InProgress = << >>
      BY <1>4, <2>4, DriverAssumption, CommandsAre DEF BytesIn
    <3>3. InProgress' = [i \in 1 .. Len(frame[f].buf) |-> IF i <= k THEN frame[f].buf[i] ELSE ZERO]
      BY <1>4, <3>1, CommandsAre
    <3>4. Log!Torn(frame[f].buf)
      BY <2>1, <2>2, <3>2, <3>3 DEF Log!Torn
    <3> QED BY <2>1, <3>4 DEF Log!Next
  <2> QED BY <2>3, <2>4
<1>5. ASSUME loaded, loaded', NEW f \in File, write_locked(f)
      PROVE  Log!Next
  <2> DEFINE s == Joined(f)
  <2>1. frame[f].buf \in Payload /\ s \in Seq(Byte)
    BY <1>0, <1>5, WriteOutcome
  <2>2. PICK p \in Ptr :
          /\ p # NULL /\ BytesIn(mem', p) = s
          /\ IF Len(s) = 0 \/ OneLine(s) THEN Stored(p, s) ELSE Collected(p, s)
    BY <1>0, <1>5, WriteOutcome
  <2>3. s = InProgress \o frame[f].buf
    BY <1>5 DEF Joined, InProgress
  <2> HIDE DEF s
  <2>4. Log!Complete(s) <=> Len(s) = 0 \/ OneLine(s)
    BY DEF Log!Complete, OneLine, EOLInside
  <2>5. CASE Len(s) = 0 \/ OneLine(s)
    <3>1. Stored(p, s)
      BY <2>2, <2>5
    <3>2. Commands' = Log!Kept!Pushed(Commands, s)
      BY <1>0, <1>5, <2>1, <2>2, <3>1, StoredIsPush
    <3>3. InProgress' = << >>
      <4>1. entry'.buffptr = NULL
        BY <3>1 DEF Stored, NullEntry
      <4> QED BY <1>5, <4>1, CommandsAre, DriverAssumption DEF BytesIn
    <3>4. Log!Write(frame[f].buf)
      BY <2>3, <2>4, <2>5, <3>2, <3>3 DEF Log!Write, Log!Kept!Push
    <3> QED BY <2>1, <3>4 DEF Log!Next
  <2>6. CASE ~(Len(s) = 0 \/ OneLine(s))
    <3>1. Collected(p, s)
      BY <2>2, <2>6
    <3>2. Commands' = Commands
      BY <1>0, <1>5, <3>1, CommandsKept DEF Collected
    <3>3. InProgress' = s
      <4>1. entry'.buffptr = p
        BY <3>1 DEF Collected
      <4> QED BY <1>5, <2>2, <4>1, CommandsAre
    <3>4. Log!Write(frame[f].buf)
      BY <2>3, <2>4, <2>6, <3>2, <3>3 DEF Log!Write
    <3> QED BY <2>1, <3>4 DEF Log!Next
  <2> QED BY <2>5, <2>6
<1> QED BY <1>0, <1>1, <1>2, <1>3, <1>4, <1>5, LoadedCases

\* The device implements the log of the last MaxOps commands, for every size of the
\* ring, any number of files, any payloads and with faulting copies, although readers
\* and openers move out_offs and make "full" wrong.
THEOREM DriverKeepsCommandLog == Spec => KeepsCommandLog
<1>1. Init => Log!Init
  BY DEF Init, Log!Init, Log!Kept!Init, Commands, InProgress
<1> QED
  BY <1>1, LogStep, SafeInvariant, DriverFillsInOrder, PTL DEF Spec, KeepsCommandLog, Log!Spec
-------------------------------------------------------------------------------
(* One file.                                                               *)

\* The size a read has taken before the lock is still that of the entry it copies
\* from; that is so only where no other file can move out_offs or write meanwhile.
SizeIsFresh == \A f \in File : frame[f].at = "read" => frame[f].size = OutEntry.size

\* With one file, a read copies from the entry it has measured.
LEMMA OneReaderStep ==
  ASSUME \A f, g \in File : f = g,
         Safe, SizeIsFresh, ReadStaysInEntry, [Next]_vars
  PROVE  SizeIsFresh' /\ ReadStaysInEntry'
<1>0. TypeOK /\ DriverInv /\ SizesMatch /\ frame \in [File -> Frame]
  BY TypeFacts DEF Safe, DriverInv
<1>1. CASE UNCHANGED vars
  BY <1>1 DEF vars, dev, heap, SizeIsFresh, ReadStaysInEntry, OutEntry, Bytes
<1>2. CASE init_module \/ cleanup_module
  <2>1. frame' = frame /\ \A f \in File : frame[f] = Closed
    BY <1>0, <1>2 DEF init_module, cleanup_module, DriverInv, ClosedWhenGone
  <2> QED BY <2>1 DEF SizeIsFresh, ReadStaysInEntry, Closed
<1>3. ASSUME NEW f \in File, Start(f) \/ Step(f) \/ interrupted(f)
      PROVE  SizeIsFresh' /\ ReadStaysInEntry'
  <2>1. CASE \E n \in ReadCount : read(f, n)
    <3>1. frame'[f].at = "read" /\ frame'[f].size = OutEntry.size /\ bufferP' = bufferP
      BY <1>0, <2>1, EnterAt DEF read, dev
    <3>2. OutEntry' = OutEntry
      BY <3>1 DEF OutEntry
    <3> QED BY <3>1, <3>2 DEF SizeIsFresh, ReadStaysInEntry
  <2>2. CASE read_copy(f)
    <3>1. /\ frame[f].at = "read" /\ frame[f].count \in Nat /\ frame[f].size \in Nat
          /\ f_pos[f] \in Nat /\ loaded /\ OutEntry.size \in Nat
      BY <1>0, <1>3, <2>2, FrameFields, TypeFacts, LoadedStep DEF read_copy, Reads
    <3>2. Shortened(f) <= frame[f].size
      BY <3>1 DEF Shortened, LastRead
    <3>3. OutEntry.size = Len(Bytes(OutEntry.buffptr))
      BY <1>0, <3>1, TypeFacts DEF SizesMatch, OutEntry, PtrAt
    <3>4. /\ frame'[f].at = "copied" /\ frame'[f].count = Shortened(f)
          /\ frame'[f].buffptr = OutEntry.buffptr /\ mem' = mem
      BY <1>0, <2>2, EnterAt DEF read_copy, heap
    <3>5. Len(BytesIn(mem', frame'[f].buffptr)) = OutEntry.size
      BY <3>3, <3>4 DEF Bytes, BytesIn
    <3>6. frame'[f].count <= Len(BytesIn(mem', frame'[f].buffptr))
      BY <3>1, <3>2, <3>4, <3>5 DEF SizeIsFresh
    <3>7. SizeIsFresh'
      BY <3>4 DEF SizeIsFresh
    <3> QED BY <3>6, <3>7 DEF ReadStaysInEntry, Bytes, BytesIn
  <2>3. ASSUME \E r : Return(f, r) PROVE frame'[f].at \notin {"read", "copied"}
    BY <1>0, <2>3, EnterAt DEF Return, InUser
  <2>4. ASSUME \E fr : Enter(f, fr) /\ fr.at \notin {"read", "copied"}
        PROVE  frame'[f].at \notin {"read", "copied"}
    BY <1>0, <2>4, EnterAt
  <2>5. CASE Start(f) /\ ~\E n \in ReadCount : read(f, n)
    <3>1. (\E r : Return(f, r)) \/ \E fr : Enter(f, fr) /\ fr.at \notin {"read", "copied"}
      <4>1. CASE open(f) \/ release(f) \/ ioctl_rejected(f)
        BY <4>1 DEF open, release, ioctl_rejected, Closed
      <4>2. CASE \E d \in Payload : write(f, d)
        BY <4>2 DEF write
      <4>3. CASE \E off \in SeekOffset, wh \in Whence : llseek(f, off, wh)
        BY <4>3 DEF llseek
      <4>4. CASE \E s \in SeekTo : ioctl(f, s)
        BY <4>4 DEF ioctl
      <4> QED BY <2>5, <4>1, <4>2, <4>3, <4>4 DEF Start
    <3> QED BY <2>3, <2>4, <3>1 DEF SizeIsFresh, ReadStaysInEntry
  <2>6. CASE llseek_sum(f) \/ ioctl_scan(f)
    <3>1. frame'[f].at \notin {"read", "copied"}
      <4>1. CASE llseek_sum(f)
        BY <1>0, <4>1, SumFrame, EnterAt DEF llseek_sum, SeekFrame
      <4>2. CASE ioctl_scan(f)
        <5>1. ScanNext(frame[f]) \in ScanFrame /\ Enter(f, ScanNext(frame[f]))
          BY <1>0, <4>2, NextScanFrame DEF ioctl_scan, ScanNext, DriverInv
        <5> QED BY <1>0, <5>1, EnterAt DEF ScanFrame
      <4> QED BY <2>6, <4>1, <4>2
    <3> QED BY <3>1 DEF SizeIsFresh, ReadStaysInEntry
  <2>7. CASE \/ interrupted(f) \/ open_reset(f) \/ write_locked(f) \/ write_fault(f)
             \/ read_empty(f) \/ read_stop(f) \/ read_fault(f) \/ read_advance(f)
             \/ llseek_locked(f) \/ ioctl_locked(f) \/ ioctl_found(f)
    <3>1. (\E r : Return(f, r)) \/ \E fr : Enter(f, fr) /\ fr.at \notin {"read", "copied"}
      <4>1. CASE ioctl_locked(f)
        BY <4>1 DEF ioctl_locked
      <4>2. CASE write_locked(f) \/ write_fault(f) \/ llseek_locked(f) \/ ioctl_found(f)
        BY <4>2 DEF write_locked, write_fault, llseek_locked, ioctl_found
      <4>3. CASE \/ interrupted(f) \/ open_reset(f)
                 \/ read_empty(f) \/ read_stop(f) \/ read_fault(f) \/ read_advance(f)
        BY <4>3 DEF interrupted, open_reset, read_empty, read_stop, read_fault, read_advance
      <4> QED BY <2>7, <4>1, <4>2, <4>3
    <3> QED BY <2>3, <2>4, <3>1 DEF SizeIsFresh, ReadStaysInEntry
  <2> QED BY <1>3, <2>1, <2>2, <2>5, <2>6, <2>7 DEF Step
<1> QED BY <1>1, <1>2, <1>3 DEF Next

\* A program that has the device open once never reads past the entry: the comment
\* in aesd_read is right of it, whatever it writes, seeks and reads.  (It is wrong of
\* several files, whose opens and reads move out_offs before the lock is taken.)
THEOREM DriverReadStaysInEntry ==
  ASSUME \A f, g \in File : f = g
  PROVE  Spec => []ReadStaysInEntry
<1>1. Init => SizeIsFresh /\ ReadStaysInEntry
  BY DEF Init, SizeIsFresh, ReadStaysInEntry, Closed
<1>2. Safe /\ SizeIsFresh /\ ReadStaysInEntry /\ [Next]_vars => SizeIsFresh' /\ ReadStaysInEntry'
  BY OneReaderStep
<1> QED BY <1>1, <1>2, SafeInvariant, PTL DEF Spec
-------------------------------------------------------------------------------
(* The ioctl.                                                              *)

\* SizeBefore, of any array of entries.
BeforeIn(slots, n) == Starts([i \in Slot |-> slots[i].size])[n]

\* It adds up the sizes in the order of the array.
LEMMA BeforeInIs ==
  ASSUME TypeOK
  PROVE  /\ BeforeIn(bufferP.entry, 0) = 0
         /\ \A n \in Slot :
              /\ BeforeIn(bufferP.entry, n) \in Nat
              /\ BeforeIn(bufferP.entry, n + 1) = BeforeIn(bufferP.entry, n) + bufferP.entry[n].size
<1> DEFINE size == [i \in Slot |-> bufferP.entry[i].size]
<1>1. size \in [Slot -> Nat] /\ \A i \in Slot : size[i] = bufferP.entry[i].size
  BY TypeFacts
<1>2. \A n : BeforeIn(bufferP.entry, n) = Starts(size)[n]
  BY DEF BeforeIn
<1> HIDE DEF size
<1>3. \A n \in Slot : n \in 0 .. MaxOps
  BY MaxOpsAssumption DEF Slot
<1> QED BY <1>1, <1>2, <1>3, StartsAre

\* A step of one file leaves the frames of the others alone.
LEMMA OtherFrames ==
  ASSUME TypeOK, NEW f \in File, Start(f) \/ Step(f) \/ interrupted(f)
  PROVE  \A g \in File \ {f} : frame'[g] = frame[g]
<1>1. frame \in [File -> Frame]
  BY TypeFacts
<1>2. CASE Start(f) \/ interrupted(f)
  BY <1>2, StartQuiet, StepQuiet DEF Quiet
<1>3. CASE Step(f)
  <2>1. \E fr : frame' = [frame EXCEPT ![f] = fr]
    BY <1>3 DEF Step, open_reset, write_locked, write_fault, read_empty, read_stop, read_fault,
       read_copy, read_advance, llseek_sum, llseek_locked, ioctl_locked, ioctl_scan, ioctl_found,
       Return, Enter
  <2> QED BY <1>1, <2>1
<1> QED BY <1>2, <1>3

\* A step that leaves a call scanning was that call's own, or leaves its frame and
\* the slots alone: it holds the lock.
LEMMA ScanCases ==
  ASSUME DriverInv, [Next]_vars, NEW f \in File, frame'[f].at = "scan"
  PROVE  \/ ioctl_locked(f) /\ frame'[f].i = 0 /\ frame'[f].total_size = 0
         \/ ioctl_scan(f)
         \/ frame'[f] = frame[f] /\ bufferP'.entry = bufferP.entry
<1>0. /\ TypeOK /\ LockDiscipline /\ Nobody \notin File /\ frame \in [File -> Frame]
  BY DriverAssumption, TypeFacts DEF DriverInv
<1>1. CASE UNCHANGED vars
  BY <1>1 DEF vars, dev
<1>2. CASE init_module \/ cleanup_module
  <2>1. frame' = frame /\ frame[f] = Closed
    BY <1>2 DEF init_module, cleanup_module, DriverInv, ClosedWhenGone
  <2> QED BY <2>1 DEF Closed
<1>3. ASSUME NEW g \in File, g # f, Start(g) \/ Step(g) \/ interrupted(g)
      PROVE  frame'[f] = frame[f] /\ bufferP'.entry = bufferP.entry
  <2>2. frame'[f] = frame[f]
    BY <1>0, <1>3, OtherFrames
  <2>3. lock = f
    BY <1>0, <2>2 DEF LockDiscipline
  <2>4. ~write_locked(g) /\ ~write_fault(g)
    BY <1>0, <2>3 DEF write_locked, write_fault
  <2> QED BY <1>0, <1>3, <2>2, <2>4, DataUntouched DEF Step
<1>4. CASE Start(f) \/ Step(f) \/ interrupted(f)
  <2>1. ASSUME \E r : Return(f, r) PROVE FALSE
    BY <1>0, <2>1, EnterAt DEF Return, InUser
  <2>2. ASSUME \E fr : Enter(f, fr) /\ fr.at # "scan" PROVE FALSE
    BY <1>0, <2>2, EnterAt
  <2>3. ~Start(f)
    <3>1. CASE open(f) \/ release(f) \/ ioctl_rejected(f)
      BY <2>1, <2>2, <3>1 DEF open, release, ioctl_rejected, Closed
    <3>2. CASE \E d \in Payload : write(f, d)
      BY <2>2, <3>2 DEF write
    <3>3. CASE \E n \in ReadCount : read(f, n)
      BY <2>2, <3>3 DEF read
    <3>4. CASE \E off \in SeekOffset, wh \in Whence : llseek(f, off, wh)
      BY <2>2, <3>4 DEF llseek
    <3>5. CASE \E s \in SeekTo : ioctl(f, s)
      BY <2>2, <3>5 DEF ioctl
    <3> QED BY <3>1, <3>2, <3>3, <3>4, <3>5 DEF Start
  <2>4. ~llseek_sum(f) /\ ~read_copy(f)
    <3>1. ~llseek_sum(f)
      BY <1>0, SumFrame, EnterAt DEF llseek_sum, SeekFrame
    <3>2. ~read_copy(f)
      BY <2>2 DEF read_copy
    <3> QED BY <3>1, <3>2
  <2>5. ioctl_locked(f) => frame'[f].i = 0 /\ frame'[f].total_size = 0
    BY <1>0, <2>1, EnterAt DEF ioctl_locked
  <2>6. \/ ioctl_locked(f) \/ ioctl_scan(f)
    BY <1>4, <2>1, <2>3, <2>4
       DEF Step, open_reset, write_locked, write_fault, read_empty, read_stop, read_fault,
           read_advance, llseek_locked, ioctl_found, interrupted
  <2> QED BY <2>5, <2>6
<1> QED BY <1>1, <1>2, <1>3, <1>4 DEF Next

\* The loop of an ioctl has added up the entries before the one it is at.
LEMMA ScanSumStep == Safe /\ ScanSum /\ [Next]_vars => ScanSum'
<1> SUFFICES ASSUME Safe, ScanSum, [Next]_vars, NEW f \in File, frame'[f].at = "scan"
             PROVE  frame'[f].total_size = BeforeIn(bufferP'.entry, frame'[f].i)
  BY DEF ScanSum, SizeBefore, BeforeIn
<1>0. TypeOK /\ DriverInv /\ ScanInRange /\ frame \in [File -> Frame]
  BY TypeFacts DEF Safe, DriverInv
<1>1. CASE ioctl_locked(f) /\ frame'[f].i = 0 /\ frame'[f].total_size = 0
  <2>1. bufferP' = bufferP
    BY <1>1 DEF ioctl_locked, dev
  <2> QED BY <1>0, <1>1, <2>1, BeforeInIs
<1>2. CASE ioctl_scan(f)
  <2>1. frame[f].at = "scan" /\ frame[f] \in ScanFrame /\ bufferP' = bufferP
    BY <1>0, <1>2, FrameFields DEF ioctl_scan, dev
  <2>2. frame[f].i \in Slot /\ frame[f].total_size = BeforeIn(bufferP.entry, frame[f].i)
    BY <2>1 DEF ScanSum, SizeBefore, BeforeIn, ScanFrame
  <2>3. /\ frame'[f].i = frame[f].i + 1
        /\ frame'[f].total_size = frame[f].total_size + bufferP.entry[frame[f].i].size
    <3>1. frame'[f] = [frame[f] EXCEPT !.i = @ + 1,
                         !.total_size = @ + bufferP.entry[frame[f].i].size]
      BY <1>0, <1>2 DEF ioctl_scan, Enter
    <3> QED BY <2>1, <3>1 DEF ScanFrame
  <2> QED BY <1>0, <2>1, <2>2, <2>3, BeforeInIs
<1>3. CASE frame'[f] = frame[f] /\ bufferP'.entry = bufferP.entry
  BY <1>3 DEF ScanSum, SizeBefore, BeforeIn
<1> QED BY <1>0, <1>1, <1>2, <1>3, ScanCases

\* An ioctl that succeeds puts the file at the byte it was asked for, in the order of
\* the array, when the words copy_from_user did not copy happen to be right; for every
\* ring size, whatever other files are opened, read and written meanwhile.
THEOREM DriverIoctlSeeksThere == Spec => IoctlSeeksThere
<1> DEFINE A == \A f \in File :
                  /\ frame[f].at = "scan" /\ Asked(frame[f])
                  /\ frame'[f].at = "user" /\ frame'[f].ret = 0
                  => /\ f_pos'[f] = SizeBefore(frame[f].asked.write_cmd) + frame[f].asked.write_cmd_offset
                     /\ f_pos'[f] < SizeBefore(frame[f].asked.write_cmd + 1)
<1>1. Init => ScanSum
  BY DEF Init, ScanSum, Closed
<1>2. Safe /\ ScanSum /\ [Next]_vars => [A]_vars
  <2> SUFFICES ASSUME Safe, ScanSum, Next, NEW f \in File,
                      frame[f].at = "scan", Asked(frame[f]), frame'[f].at = "user", frame'[f].ret = 0
               PROVE  /\ f_pos'[f] = SizeBefore(frame[f].asked.write_cmd) + frame[f].asked.write_cmd_offset
                      /\ f_pos'[f] < SizeBefore(frame[f].asked.write_cmd + 1)
    OBVIOUS
  <2>0. TypeOK /\ DriverInv /\ frame \in [File -> Frame] /\ f_pos \in [File -> Nat]
    BY TypeFacts DEF Safe, DriverInv
  <2>1. ioctl_found(f)
    <3>1. CASE init_module \/ cleanup_module
      BY <3>1 DEF init_module, cleanup_module
    <3>2. ASSUME NEW g \in File, g # f, Start(g) \/ Step(g) \/ interrupted(g) PROVE FALSE
      BY <2>0, <3>2, OtherFrames
    <3>3. CASE Start(f) \/ Step(f) \/ interrupted(f)
      <4>1. ~Start(f)
        BY DEF Start, open, release, ioctl_rejected, write, read, llseek, ioctl, Calls, Closed
      <4>2. ~interrupted(f)
        BY DEF interrupted, AtLock
      <4>3. ~ioctl_scan(f)
        <5>1. ASSUME ioctl_scan(f) PROVE FALSE
          <6>1. ScanNext(frame[f]) \in ScanFrame /\ Enter(f, ScanNext(frame[f]))
            BY <2>0, <5>1, NextScanFrame DEF ioctl_scan, ScanNext, DriverInv
          <6> QED BY <2>0, <6>1, EnterAt DEF ScanFrame
        <5> QED BY <5>1
      <4> QED BY <3>3, <4>1, <4>2, <4>3
              DEF Step, open_reset, write_locked, write_fault, read_empty, read_stop, read_fault,
                  read_copy, read_advance, Reads, llseek_sum, llseek_locked, ioctl_locked
    <3> QED BY <3>1, <3>2, <3>3 DEF Next
  <2>2. frame[f] \in ScanFrame
    BY <2>0, FrameFields
  <2> DEFINE w == frame[f].write_cmd
             o == frame[f].write_cmd_offset
  <2>3. /\ w \in Slot /\ o \in Nat /\ frame[f].total_size = BeforeIn(bufferP.entry, w)
        /\ frame[f].asked.write_cmd = w /\ frame[f].asked.write_cmd_offset = o
    <3>1. frame[f].total_size = BeforeIn(bufferP.entry, w)
      BY <2>1 DEF ScanSum, SizeBefore, BeforeIn, ioctl_found
    <3>2. frame[f].asked.write_cmd = w /\ frame[f].asked.write_cmd_offset = o
      BY DEF Asked
    <3> QED BY <2>2, <3>1, <3>2 DEF ScanFrame
  <2>4. ~(o >= bufferP.entry[w].size) /\ f_pos'[f] = frame[f].total_size + o
    <3>1. ASSUME Return(f, -EINVAL) PROVE FALSE
      BY <2>0, <3>1, EnterAt DEF Return, InUser, EINVAL
    <3> QED BY <2>0, <2>1, <3>1 DEF ioctl_found
  <2>5. bufferP.entry[w].size \in Nat
    BY <2>0, <2>3, TypeFacts
  <2> HIDE DEF w, o
  <2>6. /\ BeforeIn(bufferP.entry, w) \in Nat
        /\ BeforeIn(bufferP.entry, w + 1) = BeforeIn(bufferP.entry, w) + bufferP.entry[w].size
    BY <2>0, <2>3, BeforeInIs
  <2>7. f_pos'[f] = BeforeIn(bufferP.entry, w) + o /\ f_pos'[f] < BeforeIn(bufferP.entry, w + 1)
    BY <2>3, <2>4, <2>5, <2>6
  <2> QED BY <2>3, <2>7 DEF SizeBefore, BeforeIn
<1> QED BY <1>1, <1>2, ScanSumStep, SafeInvariant, PTL DEF Spec, IoctlSeeksThere
===============================================================================

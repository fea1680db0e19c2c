------------------------------ MODULE RingProofs ------------------------------
(* Proofs about Ring and about the search of FindEntry in it, for every     *)
(* MaxOps, every set of blocks, of sizes and of offsets.                    *)
EXTENDS FindEntry, CircularBufferLemmas

\* add_entry of a well-typed buffer, field by field: the guard on in_offs
\* never fails.
LEMMA AddEntryFields ==
  ASSUME TypeOK, NEW e \in Entry
  PROVE  /\ add_entry(buffer, e).entry = [buffer.entry EXCEPT ![buffer.in_offs] = e]
         /\ add_entry(buffer, e).in_offs = Succ(buffer.in_offs)
         /\ add_entry(buffer, e).out_offs = OutAfterAdd(buffer)
         /\ add_entry(buffer, e).full
              = (buffer.full \/ Succ(buffer.in_offs) = OutAfterAdd(buffer))
         /\ add_entry(buffer, e) \in BufferOf(Ptr \cup {NULL})
<1>1. buffer.in_offs \in Slot /\ buffer.out_offs \in Slot /\ ~(buffer.in_offs >= MaxOps)
  BY MaxOpsAssumption DEF TypeOK, BufferOf, Slot
<1>2. Succ(buffer.in_offs) \in Slot /\ OutAfterAdd(buffer) \in Slot
  BY <1>1, SuccCases DEF OutAfterAdd
<1>3. e \in EntryOf(Ptr \cup {NULL})
  BY EntryAssumption DEF Entry, EntryOf
<1>4. [buffer.entry EXCEPT ![buffer.in_offs] = e] \in [Slot -> EntryOf(Ptr \cup {NULL})]
  BY <1>1, <1>3 DEF TypeOK, BufferOf
<1>5. buffer.full \in BOOLEAN
  BY DEF TypeOK, BufferOf
<1> QED
  BY <1>1, <1>2, <1>4, <1>5 DEF add_entry, BufferOf

\* Every buffer add_entry produces is well-typed: both positions stay inside
\* the array whatever is added, and however often.
THEOREM RingTypeCorrect == Spec => []TypeOK
<1>1. Init => TypeOK
  BY MaxOpsAssumption DEF Init, TypeOK, BufferOf, EntryOf, circular_buffer_init, NullEntry, Slot
<1>2. TypeOK /\ [Next]_buffer => TypeOK'
  BY AddEntryFields DEF Next, AddEntry, TypeOK
<1> QED
  BY <1>1, <1>2, PTL DEF Spec

\* The ring's invariant: where the two positions are and which slots are in
\* use, in a full ring and in one that is not.
THEOREM RingInvariant == Spec => []RingInv
<1>1. Init => RingInv
  BY DEF Init, RingInv, circular_buffer_init, NullEntry, Used, Slot
<1>2. TypeOK /\ RingInv /\ [Next]_buffer => RingInv'
  <2> SUFFICES ASSUME TypeOK, RingInv, [Next]_buffer PROVE RingInv'
    OBVIOUS
  <2>1. CASE UNCHANGED buffer
    BY <2>1 DEF RingInv, Used
  <2>2. ASSUME NEW e \in Entry, buffer' = add_entry(buffer, e)
        PROVE  RingInv'
    <3>1. /\ buffer.in_offs \in Slot /\ buffer.out_offs \in Slot
          /\ buffer.entry \in [Slot -> EntryOf(Ptr \cup {NULL})]
          /\ buffer.full \in BOOLEAN
      BY DEF TypeOK, BufferOf
    <3>2. /\ buffer'.entry = [buffer.entry EXCEPT ![buffer.in_offs] = e]
          /\ buffer'.in_offs = Succ(buffer.in_offs)
          /\ buffer'.out_offs = OutAfterAdd(buffer)
          /\ buffer'.full = (buffer.full \/ Succ(buffer.in_offs) = OutAfterAdd(buffer))
      BY <2>2, AddEntryFields
    <3>3. \A i \in Slot : Used(buffer', i) <=> (i = buffer.in_offs \/ Used(buffer, i))
      BY <3>1, <3>2, EntryAssumption DEF Used, Entry
    <3>4. CASE buffer.full
      BY <3>1, <3>2, <3>3, <3>4 DEF RingInv, OutAfterAdd
    <3>5. CASE ~buffer.full
      <4>1. OutAfterAdd(buffer) = 0 /\ \A i \in Slot : Used(buffer, i) <=> i < buffer.in_offs
        BY <3>5 DEF RingInv, OutAfterAdd
      <4>2. CASE buffer.in_offs = MaxOps - 1
        <5>1. Succ(buffer.in_offs) = 0 /\ buffer'.full = TRUE
          BY <3>1, <3>2, <4>1, <4>2, SuccCases
        <5>2. \A i \in Slot : i = buffer.in_offs \/ i < buffer.in_offs
          BY <4>2, MaxOpsAssumption DEF Slot
        <5> QED BY <3>2, <3>3, <4>1, <5>1, <5>2 DEF RingInv
      <4>3. CASE buffer.in_offs # MaxOps - 1
        BY <3>1, <3>2, <3>3, <3>5, <4>1, <4>3, SuccCases DEF RingInv, Slot
      <4> QED BY <4>2, <4>3
    <3> QED BY <3>4, <3>5
  <2> QED BY <2>1, <2>2 DEF Next, AddEntry
<1> QED
  BY <1>1, <1>2, RingTypeCorrect, PTL DEF Spec

\* "full" is set exactly when no slot is unused, as its comment says.
THEOREM FullFlagCorrect == Spec => []FullFlag
<1>1. TypeOK /\ RingInv => FullFlag
  <2> SUFFICES ASSUME TypeOK, RingInv PROVE FullFlag
    OBVIOUS
  <2>1. buffer.in_offs \in Slot /\ ~(buffer.in_offs < buffer.in_offs)
    BY MaxOpsAssumption DEF TypeOK, BufferOf, Slot
  <2> QED BY <2>1 DEF RingInv, FullFlag
<1> QED
  BY <1>1, RingInvariant, RingTypeCorrect, PTL

\* What add_entry hands back to be freed is the oldest entry's block, and
\* only when an entry is given up for the new one.
THEOREM ReturnsOldestCorrect == Spec => []ReturnsOldest
<1>1. TypeOK /\ RingInv /\ FullFlag => ReturnsOldest
  <2> SUFFICES ASSUME TypeOK, RingInv, FullFlag PROVE ReturnsOldest
    OBVIOUS
  <2>1. buffer.in_offs < MaxOps
    BY MaxOpsAssumption DEF TypeOK, BufferOf, Slot
  <2> QED BY <2>1 DEF RingInv, FullFlag, ReturnsOldest, add_entry_result
<1> QED
  BY <1>1, FullFlagCorrect, RingInvariant, RingTypeCorrect, PTL
-------------------------------------------------------------------------------
(* The ring implements RecentWrites.                                       *)

\* Adding an entry to the ring is pushing it onto the entries kept.
LEMMA AddIsPush ==
  ASSUME TypeOK, RingInv, NEW e \in Entry
  PROVE  OldestFirst(add_entry(buffer, e)) = Recent!Pushed(OldestFirst(buffer), e)
<1> DEFINE c == add_entry(buffer, e)
           E == EntryOf(Ptr \cup {NULL})
           s == OldestFirst(buffer)
           n == Count(buffer)
<1>1. /\ buffer.in_offs \in Slot /\ buffer.out_offs \in Slot
      /\ buffer.entry \in [Slot -> E]
      /\ buffer.full \in BOOLEAN
  BY DEF TypeOK, BufferOf
<1>2. /\ c.entry = [buffer.entry EXCEPT ![buffer.in_offs] = e]
      /\ c.in_offs = Succ(buffer.in_offs)
      /\ c.out_offs = OutAfterAdd(buffer)
      /\ c.full = (buffer.full \/ Succ(buffer.in_offs) = OutAfterAdd(buffer))
  BY AddEntryFields
<1>3. n \in 0 .. MaxOps
  BY <1>1, MaxOpsAssumption DEF Count, Slot
<1>4. \A k \in 1 .. n : s[k] = buffer.entry[(buffer.out_offs + (k - 1)) % MaxOps]
  BY DEF OldestFirst
<1>5. s \in [1 .. n -> E]
  <2>1. \A k \in 1 .. n : (buffer.out_offs + (k - 1)) % MaxOps \in Slot
    BY <1>1, <1>3, PlusCases, MaxOpsAssumption
  <2> QED BY <1>1, <2>1 DEF OldestFirst
<1>6. s \in Seq(E) /\ Len(s) = n
  <2>1. n \in Nat
    BY <1>3, MaxOpsAssumption
  <2> HIDE DEF n, s, E
  <2> QED BY <1>5, <2>1, MadeSeq
<1>e. e \in E
  BY EntryAssumption DEF Entry, EntryOf
<1> HIDE DEF c, E, s
<1>7. CASE ~buffer.full
  <2>1. n = buffer.in_offs /\ n < MaxOps /\ buffer.out_offs = 0 /\ c.out_offs = 0
    BY <1>1, <1>2, <1>7, MaxOpsAssumption DEF Count, RingInv, OutAfterAdd, Slot
  <2>2. Count(c) = n + 1
    <3>1. CASE buffer.in_offs = MaxOps - 1
      <4>1. Succ(buffer.in_offs) = 0 /\ OutAfterAdd(buffer) = 0
        BY <1>1, <1>2, <2>1, <3>1, SuccCases
      <4>2. c.full = TRUE
        BY <1>2, <4>1
      <4> QED BY <2>1, <3>1, <4>2, MaxOpsAssumption DEF Count
    <3>2. CASE buffer.in_offs # MaxOps - 1
      BY <1>1, <1>2, <2>1, <1>7, <3>2, SuccCases, MaxOpsAssumption DEF Count, Slot
    <3> QED BY <3>1, <3>2
  <2>3. Recent!Pushed(s, e) = Append(s, e)
    BY <1>6, <2>1 DEF Recent!Pushed
  <2>4. \A k \in 1 .. n + 1 : (0 + (k - 1)) % MaxOps = k - 1 /\ k - 1 \in Slot
    BY <1>3, <2>1, MaxOpsAssumption DEF Slot
  <2>5. \A k \in 1 .. n + 1 : c.entry[(0 + (k - 1)) % MaxOps] = IF k = n + 1 THEN e ELSE s[k]
    BY <1>1, <1>2, <1>3, <1>4, <2>1, <2>4
  <2>6. OldestFirst(c) = [k \in 1 .. n + 1 |-> IF k = n + 1 THEN e ELSE s[k]]
    <3> HIDE DEF n
    <3> QED BY <2>1, <2>2, <2>5 DEF OldestFirst
  <2>7. Append(s, e) = [k \in 1 .. n + 1 |-> IF k = n + 1 THEN e ELSE s[k]]
    BY <1>6, <1>e, AppendIs
  <2> QED BY <2>3, <2>6, <2>7 DEF c, s
<1>8. CASE buffer.full
  <2>1. /\ n = MaxOps /\ Count(c) = MaxOps
        /\ buffer.in_offs = buffer.out_offs /\ c.out_offs = Succ(buffer.out_offs)
    BY <1>1, <1>2, <1>8 DEF Count, RingInv, OutAfterAdd
  <2>2. Recent!Pushed(s, e) = Append(Tail(s), e)
    BY <1>6, <2>1, MaxOpsAssumption DEF Recent!Pushed
  <2>3. \A k \in 1 .. MaxOps :
          /\ (Succ(buffer.out_offs) + (k - 1)) % MaxOps = (buffer.out_offs + k) % MaxOps
          /\ (buffer.out_offs + k) % MaxOps \in Slot
          /\ (buffer.out_offs + k) % MaxOps = buffer.out_offs <=> k = MaxOps
    BY <1>1, OnceRound
  <2>4. \A k \in 1 .. MaxOps : c.entry[(Succ(buffer.out_offs) + (k - 1)) % MaxOps]
                               = IF k = MaxOps THEN e ELSE buffer.entry[(buffer.out_offs + k) % MaxOps]
    BY <1>1, <1>2, <2>1, <2>3
  <2>5. \A k \in 1 .. MaxOps - 1 : buffer.entry[(buffer.out_offs + k) % MaxOps] = s[k + 1]
    <3> SUFFICES ASSUME NEW k \in 1 .. MaxOps - 1
                 PROVE  buffer.entry[(buffer.out_offs + k) % MaxOps] = s[k + 1]
      OBVIOUS
    <3>1. k + 1 \in 1 .. n /\ (k + 1) - 1 = k
      BY <2>1, MaxOpsAssumption
    <3> QED BY <1>4, <3>1
  <2>6. OldestFirst(c) = [k \in 1 .. MaxOps |-> IF k = MaxOps THEN e ELSE s[k + 1]]
    <3>1. \A k \in 1 .. MaxOps : k # MaxOps => k \in 1 .. MaxOps - 1
      BY MaxOpsAssumption
    <3> QED BY <2>1, <2>4, <2>5, <3>1 DEF OldestFirst
  <2>7. Append(Tail(s), e) = [k \in 1 .. MaxOps |-> IF k = MaxOps THEN e ELSE s[k + 1]]
    BY <1>6, <1>e, <2>1, AppendTailIs, MaxOpsAssumption
  <2> QED BY <2>2, <2>6, <2>7 DEF c, s
<1> QED BY <1>1, <1>7, <1>8

\* The ring implements the abstract record of the last MaxOps writes, for
\* every size of the ring.
THEOREM RingRefinesRecent == Spec => RingKeepsRecent
<1>1. Init => Recent!Init
  BY DEF Init, circular_buffer_init, Recent!Init, OldestFirst, Count
<1>2. TypeOK /\ RingInv /\ [Next]_buffer => [Recent!Next]_(OldestFirst(buffer))
  <2> SUFFICES ASSUME TypeOK, RingInv, [Next]_buffer
               PROVE  [Recent!Next]_(OldestFirst(buffer))
    OBVIOUS
  <2>1. CASE UNCHANGED buffer
    BY <2>1 DEF OldestFirst, Count
  <2>2. ASSUME NEW e \in Entry, buffer' = add_entry(buffer, e)
        PROVE  Recent!Next
    <3>1. OldestFirst(buffer)' = OldestFirst(add_entry(buffer, e))
      BY <2>2 DEF OldestFirst, Count
    <3> QED BY <3>1, AddIsPush DEF Recent!Next, Recent!Push
  <2> QED BY <2>1, <2>2 DEF Next, AddEntry
<1> QED
  BY <1>1, <1>2, RingTypeCorrect, RingInvariant, PTL DEF Spec, RingKeepsRecent, Recent!Spec
-------------------------------------------------------------------------------
(* The search of FindEntry.                                                *)

\* int16_t arithmetic: what fits is kept, and what is over by less than 2^16
\* comes out 2^16 lower.
LEMMA Int16Keeps ==
  ASSUME NEW x \in Int
  PROVE  /\ int16(x) \in Int
         /\ -32768 <= x /\ x <= 32767 => int16(x) = x
         /\ 32768 <= x /\ x < 65536 => int16(x) = x - 65536
<1>1. \A y \in Int : /\ y % 65536 \in Int
                     /\ 0 <= y /\ y < 65536 => y % 65536 = y
                     /\ 65536 <= y /\ y < 131072 => y % 65536 = y - 65536
  OBVIOUS
<1> QED BY <1>1 DEF int16

\* A sum may be converted before or after its last term.
LEMMA Int16Sums ==
  ASSUME NEW x \in Int, NEW y \in Int
  PROVE  /\ int16(int16(x) - y) = int16(x - y)
         /\ int16(y - int16(x)) = int16(y - x)
<1>1. PICK q \in Int : int16(x) = x - 65536 * q
  <2>1. x + 32768 = 65536 * ((x + 32768) \div 65536) + ((x + 32768) % 65536)
        /\ (x + 32768) \div 65536 \in Int
    OBVIOUS
  <2>2. (x + 32768) % 65536 \in Int
    OBVIOUS
  <2>3. int16(x) = x - 65536 * ((x + 32768) \div 65536)
    BY <2>1, <2>2 DEF int16
  <2> QED BY <2>1, <2>3
<1>2. \A z \in Int : (z - 65536 * q) % 65536 = z % 65536 /\ (z + 65536 * q) % 65536 = z % 65536
  BY <1>1
<1>3. int16(int16(x) - y) = int16(x - y)
  <2>1. int16(x) - y + 32768 = (x - y + 32768) - 65536 * q
    BY <1>1
  <2>2. ((x - y + 32768) - 65536 * q) % 65536 = (x - y + 32768) % 65536
    BY <1>2
  <2> QED BY <2>1, <2>2 DEF int16
<1>4. int16(y - int16(x)) = int16(y - x)
  <2>1. (y - int16(x)) + 32768 = (y - x + 32768) + 65536 * q
    BY <1>1
  <2>2. ((y - x + 32768) + 65536 * q) % 65536 = (y - x + 32768) % 65536
    BY <1>2
  <2> QED BY <2>1, <2>2 DEF int16
<1> QED BY <1>3, <1>4

\* Searching leaves the ring alone.
LEMMA SearchOnly == FSpec => Spec
<1>1. FInit => Init
  BY DEF FInit
<1>2. [FNext]_fvars => [Next]_buffer
  BY DEF FNext, fvars, Add, Call, Found, Iterate, Return
<1> QED BY <1>1, <1>2, PTL DEF FSpec, Spec

\* The sizes of the slots from the oldest entry on.
SizesFrom == [j \in Slot |-> buffer.entry[SlotOf(j)].size]

\* Where the entries start, given as a function of the slots passed.
LEMMA StartFacts ==
  ASSUME TypeOK
  PROVE  /\ SizesFrom \in [Slot -> Nat]
         /\ \A k \in 0 .. MaxOps : Start(k) \in Nat /\ SlotOf(k) \in Slot
         /\ Start(0) = 0
         /\ SlotOf(0) = buffer.out_offs /\ SlotOf(MaxOps) = buffer.out_offs
         /\ \A k \in Slot : /\ Start(k + 1) = Start(k) + buffer.entry[SlotOf(k)].size
                            /\ SlotOf(k + 1) = Succ(SlotOf(k))
                            /\ buffer.entry[SlotOf(k)].size \in Nat
<1>1. buffer.out_offs \in Slot /\ buffer.entry \in [Slot -> EntryOf(Ptr \cup {NULL})]
  BY DEF TypeOK, BufferOf
<1>2. \A k \in 0 .. MaxOps :
        /\ SlotOf(k) \in Slot
        /\ SlotOf(k) = IF buffer.out_offs + k < MaxOps THEN buffer.out_offs + k
                       ELSE buffer.out_offs + k - MaxOps
  BY <1>1, PlusCases DEF SlotOf
<1>3. \A k \in Slot : k \in 0 .. MaxOps /\ k + 1 \in 0 .. MaxOps
  BY MaxOpsAssumption DEF Slot
<1>4. \A k \in Slot : buffer.entry[SlotOf(k)].size \in Nat
  BY <1>1, <1>2, <1>3 DEF EntryOf
<1>5. SizesFrom \in [Slot -> Nat]
  BY <1>4 DEF SizesFrom
<1>6. \A k : Start(k) = Starts(SizesFrom)[k]
  BY DEF Start, SizesFrom
<1>7. /\ Starts(SizesFrom) \in [0 .. MaxOps -> Nat]
      /\ Starts(SizesFrom)[0] = 0
      /\ \A k \in Slot : Starts(SizesFrom)[k + 1] = Starts(SizesFrom)[k] + SizesFrom[k]
  BY <1>5, StartsAre
<1>8. \A k \in Slot : SizesFrom[k] = buffer.entry[SlotOf(k)].size
  BY DEF SizesFrom
<1>9. ASSUME NEW k \in Slot PROVE SlotOf(k + 1) = Succ(SlotOf(k))
  <2>1. Succ(SlotOf(k)) = IF SlotOf(k) = MaxOps - 1 THEN 0 ELSE SlotOf(k) + 1
    BY <1>2, <1>3, SuccCases
  <2>2. k \in Int /\ buffer.out_offs \in Int /\ MaxOps \in Int
        /\ 0 <= buffer.out_offs /\ buffer.out_offs < MaxOps /\ 0 <= k /\ k < MaxOps
    BY <1>1, MaxOpsAssumption DEF Slot
  <2>3. /\ SlotOf(k) = IF buffer.out_offs + k < MaxOps THEN buffer.out_offs + k
                       ELSE buffer.out_offs + k - MaxOps
        /\ SlotOf(k + 1) = IF buffer.out_offs + (k + 1) < MaxOps THEN buffer.out_offs + (k + 1)
                           ELSE buffer.out_offs + (k + 1) - MaxOps
    BY <1>2, <1>3
  <2> QED BY <2>1, <2>2, <2>3
<1>10. SlotOf(0) = buffer.out_offs /\ SlotOf(MaxOps) = buffer.out_offs
  <2>1. 0 \in 0 .. MaxOps /\ MaxOps \in 0 .. MaxOps
    BY MaxOpsAssumption
  <2>2. /\ SlotOf(0) = IF buffer.out_offs + 0 < MaxOps THEN buffer.out_offs + 0
                       ELSE buffer.out_offs + 0 - MaxOps
        /\ SlotOf(MaxOps) = IF buffer.out_offs + MaxOps < MaxOps THEN buffer.out_offs + MaxOps
                            ELSE buffer.out_offs + MaxOps - MaxOps
    BY <1>2, <2>1
  <2>3. buffer.out_offs \in Int /\ 0 <= buffer.out_offs /\ buffer.out_offs < MaxOps /\ MaxOps \in Int
    BY <1>1, MaxOpsAssumption DEF Slot
  <2> QED BY <2>2, <2>3
<1> QED BY <1>2, <1>4, <1>5, <1>6, <1>7, <1>8, <1>9, <1>10

\* Later slots start later, and after the last entry kept nothing is added: the
\* unused slots of a ring that is not full have no bytes.
LEMMA TotalFacts ==
  ASSUME TypeOK, RingInv, UnusedEmpty
  PROVE  /\ Count(buffer) \in 0 .. MaxOps
         /\ Total \in Nat /\ Start(MaxOps) = Total
         /\ \A j, k \in 0 .. MaxOps : j <= k => Start(j) <= Start(k)
         /\ \A k \in 0 .. MaxOps : Start(k) <= Total
<1>1. /\ buffer.out_offs \in Slot /\ buffer.in_offs \in Slot /\ buffer.full \in BOOLEAN
      /\ buffer.entry \in [Slot -> EntryOf(Ptr \cup {NULL})]
  BY DEF TypeOK, BufferOf
<1>2. Count(buffer) \in 0 .. MaxOps /\ MaxOps \in 0 .. MaxOps
  BY <1>1, MaxOpsAssumption DEF Count, Slot
<1>3. /\ SizesFrom \in [Slot -> Nat]
      /\ \A k \in 0 .. MaxOps : Start(k) \in Nat
  BY StartFacts
<1>4. \A k : Start(k) = Starts(SizesFrom)[k]
  BY DEF Start, SizesFrom
<1>5. \A j, k \in 0 .. MaxOps : j <= k => Start(j) <= Start(k)
  <2> SUFFICES ASSUME NEW j \in 0 .. MaxOps, NEW k \in 0 .. MaxOps, j <= k
               PROVE  Start(j) <= Start(k)
    OBVIOUS
  <2>1. k >= j => Starts(SizesFrom)[k] >= Starts(SizesFrom)[j]
    BY <1>3, StartsGrow
  <2> QED BY <1>3, <1>4, <2>1
<1>6. Start(MaxOps) = Total
  <2>1. CASE buffer.full
    BY <2>1 DEF Total, Count
  <2>2. CASE ~buffer.full
    <3>1. buffer.out_offs = 0 /\ Count(buffer) = buffer.in_offs
      BY <2>2 DEF RingInv, Count
    <3>2. ASSUME NEW i \in Slot, i >= Count(buffer) PROVE SizesFrom[i] = 0
      <4>1. SlotOf(i) = i
        BY <3>1, MaxOpsAssumption DEF SlotOf, Slot
      <4>2. ~(i < buffer.in_offs)
        BY <1>1, <3>1, <3>2 DEF Slot
      <4>3. ~Used(buffer, i)
        BY <2>2, <4>2 DEF RingInv
      <4> QED BY <4>1, <4>3 DEF UnusedEmpty, SizesFrom
    <3>3. \A k \in 0 .. MaxOps : k >= Count(buffer)
                                 => Starts(SizesFrom)[k] = Starts(SizesFrom)[Count(buffer)]
      BY <1>2, <1>3, <3>2, StartsStay
    <3> QED BY <1>2, <1>4, <3>3 DEF Total
  <2> QED BY <2>1, <2>2
<1>7. Total \in Nat
  BY <1>2, <1>3, <1>6
<1>8. \A k \in 0 .. MaxOps : Start(k) <= Total
  <2>1. \A k \in 0 .. MaxOps : k <= MaxOps
    BY MaxOpsAssumption
  <2> QED BY <1>2, <1>5, <1>6, <2>1
<1> QED BY <1>2, <1>5, <1>6, <1>7, <1>8

\* The slots passed on the way round are all slots, and coming back to the oldest
\* entry means having passed every one.
LEMMA RoundTheRing ==
  ASSUME TypeOK
  PROVE  /\ \A i \in Slot : \E k \in Slot : i = SlotOf(k)
         /\ \A k \in Slot : SlotOf(k + 1) = buffer.out_offs => k + 1 = MaxOps
<1>1. buffer.out_offs \in Slot
  BY DEF TypeOK, BufferOf
<1>2. ASSUME NEW i \in Slot PROVE \E k \in Slot : i = SlotOf(k)
  <2> DEFINE k == IF i >= buffer.out_offs THEN i - buffer.out_offs ELSE i - buffer.out_offs + MaxOps
  <2>1. k \in Slot /\ k \in 0 .. MaxOps
    BY <1>1, MaxOpsAssumption DEF Slot
  <2>2. i = IF buffer.out_offs + k < MaxOps THEN buffer.out_offs + k ELSE buffer.out_offs + k - MaxOps
    BY <1>1, MaxOpsAssumption DEF Slot
  <2> HIDE DEF k
  <2>3. i = SlotOf(k)
    BY <1>1, <2>1, <2>2, PlusCases DEF SlotOf
  <2> QED BY <2>1, <2>3
<1>3. ASSUME NEW k \in Slot, SlotOf(k + 1) = buffer.out_offs PROVE k + 1 = MaxOps
  <2>1. k + 1 \in 1 .. MaxOps
    BY MaxOpsAssumption DEF Slot
  <2> QED BY <1>1, <1>3, <2>1, OnceRound DEF SlotOf
<1> QED BY <1>2, <1>3

\* A call that is in the loop.
LoopCall == [at : {"loop"}, char_offset : Nat, accumulated_length : Int,
             entry_id : Slot, offset : Int, passed : Nat]

\* What FindType says once the place in the function is known.
LEMMA TypeByPlace ==
  ASSUME FindType
  PROVE  /\ find.at = "loop" => find \in LoopCall
         /\ find.at = "done" => find.char_offset \in Nat /\ find.null \in BOOLEAN
<1>1. CASE find = NoResult
  BY <1>1 DEF NoResult
<1>2. CASE find \in LoopCall
  <2>1. find.at = "loop"
    BY <1>2 DEF LoopCall
  <2> QED BY <1>2, <2>1
<1>3. CASE find \in [at : {"done"}, char_offset : Nat, null : {TRUE}]
  <2>1. find.at = "done" /\ find.char_offset \in Nat /\ find.null = TRUE
    BY <1>3
  <2> QED BY <2>1
<1>4. CASE find \in [at : {"done"}, char_offset : Nat, null : {FALSE}, entry_id : Slot, offset : Int]
  <2>1. find.at = "done" /\ find.char_offset \in Nat /\ find.null = FALSE
    BY <1>4
  <2> QED BY <2>1
<1> QED BY <1>1, <1>2, <1>3, <1>4 DEF FindType, LoopCall

\* AtSlot of a call f.
Past(f, k) ==
  /\ f.entry_id = SlotOf(k)
  /\ k > 0 => f.char_offset > Start(k - 1) /\ Start(k - 1) <= INT16_MAX
  /\ k = MaxOps => f.char_offset < Total \/ Total > INT16_MAX
  /\ f.char_offset = Start(k) => f.offset = 0

\* The invariant of the loop, and of its result, for a call f.
Looping(f) ==
  f.at = "loop" /\ Total < 65536 =>
    \/ Total = 0 /\ f.accumulated_length = 0
    \/ /\ f.passed <= MaxOps /\ Past(f, f.passed)
       /\ f.accumulated_length = int16(Start(f.passed))
Finished(f) ==
  f.at = "done" /\ Total < 65536 =>
    IF f.null THEN f.char_offset >= Total /\ f.char_offset > Start(MaxOps - 1)
    ELSE \/ Total = 0 /\ f.char_offset = 0
         \/ \E k \in 0 .. MaxOps :
              Past(f, k) /\ (f.char_offset <= Start(k) \/ Start(k) > INT16_MAX)

\* While the ring stands still the invariant is about the call alone.
LEMMA CallOnly ==
  /\ Searching <=> Looping(find)
  /\ Searched <=> Finished(find)
  /\ UNCHANGED buffer => (Searching' <=> Looping(find')) /\ (Searched' <=> Finished(find'))
<1>1. (Searching <=> Looping(find)) /\ (Searched <=> Finished(find))
  BY DEF Searching, Looping, Searched, Finished, AtSlot, Past
<1>2. ASSUME UNCHANGED buffer
      PROVE  (Searching' <=> Looping(find')) /\ (Searched' <=> Finished(find'))
  <2>1. Total' = Total /\ \A k : Start(k)' = Start(k) /\ SlotOf(k)' = SlotOf(k)
    BY <1>2 DEF Total, Start, SlotOf, Count
  <2>2. \A k : AtSlot(k)' <=> Past(find', k)
    BY <2>1 DEF AtSlot, Past
  <2> QED BY <2>1, <2>2 DEF Searching, Looping, Searched, Finished
<1> QED BY <1>1, <1>2

\* An iteration of the search: the next slot, or the end of the search with
\* an offset that the ring does not hold.
LEMMA IterateStep ==
  ASSUME TypeOK, RingInv, UnusedEmpty, FindType, Looping(find), Iterate
  PROVE  Looping(find') /\ Finished(find')
<1> SUFFICES ASSUME Total < 65536 PROVE Looping(find') /\ Finished(find')
  BY DEF Looping, Finished
<1> DEFINE c    == find.char_offset
           size == buffer.entry[find.entry_id].size
           acc  == int16(find.accumulated_length + size)
           id   == Succ(find.entry_id)
           left == int16(c - acc)
           off  == IF left < 0 THEN int16(left + buffer.entry[id].size) ELSE left
           give == id = buffer.out_offs /\ GreaterU(c, int16(acc - 1))
           null == [at |-> "done", char_offset |-> c, null |-> TRUE]
           on   == [find EXCEPT !.accumulated_length = acc, !.entry_id = id, !.offset = off,
                                !.passed = OneMore(find.passed)]
<1>1. find \in LoopCall
  BY TypeByPlace DEF Iterate
<1>2. find' = IF give THEN null ELSE on
  BY DEF Iterate
<1>3. find.accumulated_length >= 0 /\ c > find.accumulated_length
  BY DEF Iterate, GreaterU
<1>4. /\ null.at = "done" /\ null.char_offset = c /\ null.null = TRUE
      /\ on.at = "loop" /\ on.char_offset = c /\ on.accumulated_length = acc
      /\ on.entry_id = id /\ on.offset = off /\ on.passed = OneMore(find.passed)
  BY <1>1 DEF LoopCall
<1>5. /\ \A k \in 0 .. MaxOps : Start(k) \in Nat /\ SlotOf(k) \in Slot /\ Start(k) <= Total
      /\ \A k \in Slot : /\ Start(k + 1) = Start(k) + buffer.entry[SlotOf(k)].size
                         /\ SlotOf(k + 1) = Succ(SlotOf(k))
                         /\ buffer.entry[SlotOf(k)].size \in Nat
      /\ Total \in Nat /\ Start(MaxOps) = Total /\ Total < 65536
  BY StartFacts, TotalFacts
<1>6. \A k \in Slot : k \in 0 .. MaxOps /\ k + 1 \in 0 .. MaxOps /\ k + 1 > 0 /\ (k + 1) - 1 = k
  BY MaxOpsAssumption DEF Slot
<1>7. /\ find.at = "loop" /\ c \in Nat /\ find.entry_id \in Slot
      /\ find.accumulated_length \in Int /\ find.passed \in Nat
  BY <1>1 DEF LoopCall
<1> HIDE DEF null, on, c, off
<1>8. CASE Total = 0 /\ find.accumulated_length = 0
  <2>1. PICK k \in Slot : find.entry_id = SlotOf(k)
    BY <1>7, RoundTheRing
  <2>2. size = 0
    BY <1>5, <1>6, <1>8, <2>1
  <2>3. acc = 0 /\ int16(acc - 1) = -1
    <3>1. int16(0) = 0 /\ int16(-1) = -1
      BY Int16Keeps
    <3> HIDE DEF size
    <3> QED BY <1>8, <2>2, <3>1
  <2>4. ~give
    BY <2>3 DEF GreaterU
  <2> QED BY <1>2, <1>4, <1>8, <2>3, <2>4 DEF Looping, Finished
<1>9. ASSUME NEW k \in 0 .. MaxOps, k = find.passed, Past(find, k),
             find.accumulated_length = int16(Start(k))
      PROVE  Looping(find') /\ Finished(find')
  <2>1. Start(k) <= 32767 /\ find.accumulated_length = Start(k) /\ c > Start(k)
    <3>1. /\ Start(k) \in Nat /\ Start(k) < 65536
          /\ Start(k) <= 32767 => int16(Start(k)) = Start(k)
          /\ Start(k) >= 32768 => int16(Start(k)) = Start(k) - 65536
      <4>1. Start(k) \in Nat /\ Start(k) < 65536
        BY <1>5
      <4> QED BY <4>1, Int16Keeps
    <3> QED BY <1>3, <1>7, <1>9, <3>1
  <2>2. k \in Slot
    <3>1. k # MaxOps
      BY <1>5, <1>7, <1>9, <2>1 DEF Past, INT16_MAX, c
    <3> QED BY <3>1, MaxOpsAssumption DEF Slot
  <2>3. id = SlotOf(k + 1)
    BY <1>5, <1>9, <2>2 DEF Past
  <2>4. find.accumulated_length + size = Start(k + 1) /\ Start(k + 1) \in Nat /\ Start(k + 1) < 65536
    BY <1>5, <1>6, <1>9, <2>1, <2>2 DEF Past
  <2>5. acc = int16(Start(k + 1))
    <3> HIDE DEF size
    <3> QED BY <2>4
  <2>6. /\ 1 <= Start(k + 1) /\ Start(k + 1) <= 32768 => int16(acc - 1) = Start(k + 1) - 1
        /\ Start(k + 1) > 32768 => int16(acc - 1) < 0
        /\ int16(acc - 1) \in Int
    <3>1. int16(int16(Start(k + 1)) - 1) = int16(Start(k + 1) - 1)
      BY <2>4, Int16Sums
    <3>2. int16(acc - 1) = int16(Start(k + 1) - 1)
      <4> HIDE DEF acc
      <4> QED BY <2>5, <3>1
    <3>3. Start(k + 1) - 1 \in Int
      BY <2>4
    <3>4. /\ int16(Start(k + 1) - 1) \in Int
          /\ -32768 <= Start(k + 1) - 1 /\ Start(k + 1) - 1 <= 32767
               => int16(Start(k + 1) - 1) = Start(k + 1) - 1
          /\ 32768 <= Start(k + 1) - 1 /\ Start(k + 1) - 1 < 65536
               => int16(Start(k + 1) - 1) = Start(k + 1) - 1 - 65536
      BY <3>3, Int16Keeps
    <3> HIDE DEF acc
    <3> QED BY <2>4, <3>2, <3>4
  <2> HIDE DEF id, acc
  <2>7. CASE give
    <3>1. id = buffer.out_offs /\ int16(acc - 1) >= 0 /\ c > int16(acc - 1)
      BY <2>7 DEF GreaterU
    <3>2. k + 1 = MaxOps /\ MaxOps - 1 = k
      BY <2>2, <2>3, <3>1, RoundTheRing, MaxOpsAssumption DEF Slot
    <3>3. c >= Total
      <4>1. Start(k + 1) = Total /\ Total \in Nat
        BY <1>5, <3>2
      <4>2. 1 <= Total /\ Total <= 32768 => int16(acc - 1) = Total - 1
        BY <2>6, <4>1
      <4>3. Total > 32768 => int16(acc - 1) < 0
        BY <2>6, <4>1
      <4> HIDE DEF c
      <4> QED BY <1>7, <2>6, <3>1, <4>1, <4>2, <4>3
    <3>4. find' = null
      BY <1>2, <2>7
    <3> QED BY <1>4, <2>1, <3>2, <3>3, <3>4 DEF Looping, Finished
  <2>8. CASE ~give
    <3>1. find' = on
      BY <1>2, <2>8
    <3>2. c = Start(k + 1) => off = 0
      <4>1. int16(0) = 0
        BY Int16Keeps
      <4>2. int16(c - int16(Start(k + 1))) = int16(c - Start(k + 1))
        BY <1>7, <2>4, Int16Sums
      <4>3. c = Start(k + 1) => left = 0
        BY <1>7, <2>4, <2>5, <4>1, <4>2
      <4> QED BY <4>3 DEF off
    <3>3. k + 1 = MaxOps => Total = 0 \/ c < Total \/ Total > 32767
      <4>1. SlotOf(MaxOps) = buffer.out_offs
        BY StartFacts
      <4>2. k + 1 = MaxOps => ~GreaterU(c, int16(acc - 1))
        BY <2>3, <2>8, <4>1
      <4>3. k + 1 = MaxOps => Start(k + 1) = Total
        BY <1>5
      <4>4. Total \in Nat
        BY <1>5
      <4>5. k + 1 = MaxOps => (1 <= Total /\ Total <= 32768 => int16(acc - 1) = Total - 1)
        BY <2>6, <4>3
      <4> HIDE DEF c
      <4> QED BY <1>7, <4>2, <4>4, <4>5 DEF GreaterU
    <3>4. OneMore(find.passed) = k + 1
      BY <1>9, <2>2, MaxOpsAssumption DEF OneMore, Slot
    <3>5. Total = 0 => acc = 0
      <4>1. Total = 0 => Start(k + 1) = 0
        BY <1>5, <1>6, <2>2
      <4>2. int16(0) = 0
        BY Int16Keeps
      <4> QED BY <2>5, <4>1, <4>2
    <3>6. Total # 0 => Past(find', k + 1)
      BY <1>4, <1>6, <2>1, <2>2, <2>3, <3>1, <3>2, <3>3 DEF Past, INT16_MAX
    <3>7. k + 1 <= MaxOps
      BY <2>2, MaxOpsAssumption DEF Slot
    <3>8. Looping(find')
      BY <1>4, <2>5, <3>1, <3>4, <3>5, <3>6, <3>7 DEF Looping
    <3>9. Finished(find')
      BY <1>4, <3>1 DEF Finished
    <3> QED BY <3>8, <3>9
  <2> QED BY <2>7, <2>8
<1>10. ASSUME find.passed <= MaxOps PROVE find.passed \in 0 .. MaxOps
  BY <1>7, <1>10, MaxOpsAssumption
<1> QED BY <1>5, <1>7, <1>8, <1>9, <1>10 DEF Looping, c

\* A call starts at the oldest entry with nothing passed.
LEMMA CallStep ==
  ASSUME TypeOK, NEW c \in Offset, Call(c)
  PROVE  Looping(find') /\ Finished(find')
<1>1. /\ find'.at = "loop" /\ find'.char_offset = c /\ find'.accumulated_length = 0
      /\ find'.entry_id = buffer.out_offs /\ find'.offset = int16(c) /\ find'.passed = 0
  BY DEF Call
<1>2. Start(0) = 0 /\ SlotOf(0) = buffer.out_offs /\ 0 <= MaxOps /\ MaxOps # 0
  BY StartFacts, MaxOpsAssumption
<1>3. int16(0) = 0
  BY Int16Keeps
<1>4. Past(find', 0)
  BY <1>1, <1>2, <1>3 DEF Past
<1> QED BY <1>1, <1>2, <1>3, <1>4 DEF Looping, Finished

\* The loop is left with the slot it is at.
LEMMA FoundStep ==
  ASSUME TypeOK, RingInv, UnusedEmpty, FindType, Looping(find), Found
  PROVE  Looping(find') /\ Finished(find')
<1>1. /\ find'.at = "done" /\ find'.char_offset = find.char_offset /\ find'.null = FALSE
      /\ find'.entry_id = find.entry_id /\ find'.offset = find.offset
  BY DEF Found
<1>2. find.at = "loop" /\ ~GreaterU(find.char_offset, find.accumulated_length)
  BY DEF Found
<1>3. find.char_offset \in Nat /\ find.passed \in Nat
  BY <1>2, TypeByPlace DEF LoopCall
<1> SUFFICES ASSUME Total < 65536 PROVE Finished(find')
  BY <1>1 DEF Looping, Finished
<1>4. CASE Total = 0 /\ find.accumulated_length = 0
  BY <1>1, <1>2, <1>3, <1>4 DEF Finished, GreaterU
<1>5. ASSUME NEW k \in 0 .. MaxOps, Past(find, k), find.accumulated_length = int16(Start(k))
      PROVE  Finished(find')
  <2>1. Start(k) \in Nat /\ Start(k) <= Total /\ Total \in Nat
    BY StartFacts, TotalFacts
  <2>2. Start(k) <= 32767 => int16(Start(k)) = Start(k)
    BY <2>1, Int16Keeps
  <2>3. find.char_offset <= Start(k) \/ Start(k) > INT16_MAX
    BY <1>2, <1>3, <1>5, <2>1, <2>2 DEF GreaterU, INT16_MAX
  <2>4. Past(find', k)
    BY <1>1, <1>5 DEF Past
  <2> QED BY <1>1, <2>3, <2>4 DEF Finished
<1>6. ASSUME find.passed <= MaxOps PROVE find.passed \in 0 .. MaxOps
  BY <1>3, <1>6, MaxOpsAssumption
<1> QED BY <1>2, <1>4, <1>5, <1>6 DEF Looping

\* The search keeps its local variables in their types.
LEMMA FindTypeStep ==
  ASSUME TypeOK, FindType, [FNext]_fvars
  PROVE  FindType'
<1>1. buffer.out_offs \in Slot /\ buffer.entry \in [Slot -> EntryOf(Ptr \cup {NULL})]
  BY DEF TypeOK, BufferOf
<1>2. \A x \in Int : int16(x) \in Int
  BY Int16Keeps
<1>3. CASE UNCHANGED find
  BY <1>3 DEF FindType
<1>4. ASSUME NEW c \in Offset, Call(c) PROVE FindType'
  <2>1. c \in Nat /\ int16(c) \in Int
    BY <1>2, OffsetAssumption
  <2>2. find' \in LoopCall
    BY <1>1, <1>4, <2>1 DEF Call, LoopCall
  <2> QED BY <2>2 DEF FindType, LoopCall
<1>5. ASSUME find.at = "loop"
      PROVE  find \in LoopCall
  BY <1>5, TypeByPlace
<1>6. CASE Found
  <2>1. find.char_offset \in Nat /\ find.entry_id \in Slot /\ find.offset \in Int
    BY <1>5, <1>6 DEF Found, LoopCall
  <2> QED BY <1>6, <2>1 DEF FindType, Found
<1>7. CASE Iterate
  <2> DEFINE acc  == int16(find.accumulated_length + buffer.entry[find.entry_id].size)
             id   == Succ(find.entry_id)
             left == int16(find.char_offset - acc)
             off  == IF left < 0 THEN int16(left + buffer.entry[id].size) ELSE left
             null == [at |-> "done", char_offset |-> find.char_offset, null |-> TRUE]
             on   == [find EXCEPT !.accumulated_length = acc, !.entry_id = id, !.offset = off,
                                  !.passed = OneMore(find.passed)]
  <2>1. find.at = "loop" /\ (find' = null \/ find' = on)
    BY <1>7 DEF Iterate
  <2>2. /\ find.char_offset \in Nat /\ find.entry_id \in Slot /\ find.accumulated_length \in Int
        /\ OneMore(find.passed) \in Nat
    BY <1>5, <2>1 DEF LoopCall, OneMore
  <2>3. \A i \in Slot : buffer.entry[i].size \in Int
    BY <1>1 DEF EntryOf
  <2>4. acc \in Int /\ id \in Slot
    BY <1>2, <2>2, <2>3, SuccCases
  <2>5. left \in Int
    <3> HIDE DEF acc
    <3> QED BY <1>2, <2>2, <2>4
  <2>6. off \in Int
    <3> HIDE DEF left, id
    <3> QED BY <1>2, <2>3, <2>4, <2>5
  <2> HIDE DEF acc, id, off
  <2>7. on \in LoopCall
    BY <1>5, <2>1, <2>2, <2>4, <2>6 DEF LoopCall
  <2>8. null \in [at : {"done"}, char_offset : Nat, null : {TRUE}]
    BY <2>2
  <2> HIDE DEF on, null
  <2> QED BY <2>1, <2>7, <2>8 DEF FindType, LoopCall
<1>8. CASE Return
  BY <1>8 DEF Return, FindType
<1> QED BY <1>3, <1>4, <1>6, <1>7, <1>8 DEF FNext, Add, fvars

\* The unused slots stay empty: an entry added is used.
LEMMA UnusedEmptyStep ==
  ASSUME TypeOK, UnusedEmpty, [Next]_buffer
  PROVE  UnusedEmpty'
<1>1. CASE UNCHANGED buffer
  BY <1>1 DEF UnusedEmpty, Used
<1>2. ASSUME NEW e \in Entry, buffer' = add_entry(buffer, e)
      PROVE  UnusedEmpty'
  <2>1. buffer'.entry = [buffer.entry EXCEPT ![buffer.in_offs] = e]
    BY <1>2, AddEntryFields
  <2>2. buffer.in_offs \in Slot /\ buffer.entry \in [Slot -> EntryOf(Ptr \cup {NULL})]
    BY DEF TypeOK, BufferOf
  <2>3. e.buffptr # NULL
    BY EntryAssumption DEF Entry
  <2> QED BY <2>1, <2>2, <2>3 DEF UnusedEmpty, Used
<1> QED BY <1>1, <1>2 DEF Next, AddEntry

\* The search and its result, for every ring it may be called with: where the
\* loop is, how much it has passed, and what has been ruled out by then.
THEOREM FindInvariant == FSpec => []FindInv
<1>1. FSpec => [](TypeOK /\ RingInv)
  BY SearchOnly, RingTypeCorrect, RingInvariant, PTL
<1> DEFINE Own == UnusedEmpty /\ FindType /\ Searching /\ Searched
<1>2. FInit => Own
  <2> SUFFICES ASSUME FInit PROVE Own
    OBVIOUS
  <2>1. find = NoResult /\ find.at = "idle" /\ buffer.entry = [i \in Slot |-> NullEntry]
    BY DEF FInit, NoResult, Init, circular_buffer_init
  <2>2. UnusedEmpty
    BY <2>1 DEF UnusedEmpty, NullEntry
  <2> QED BY <2>1, <2>2 DEF FindType, Searching, Searched
<1>3. TypeOK /\ RingInv /\ Own /\ [FNext]_fvars => Own'
  <2> SUFFICES ASSUME TypeOK, RingInv, Own, [FNext]_fvars PROVE Own'
    OBVIOUS
  <2>1. [Next]_buffer
    BY DEF FNext, fvars, Add, Call, Found, Iterate, Return
  <2>2. UnusedEmpty' /\ FindType'
    BY <2>1, UnusedEmptyStep, FindTypeStep
  <2>3. Looping(find) /\ Finished(find)
    BY CallOnly
  <2>4. CASE UNCHANGED fvars
    BY <2>2, <2>3, <2>4, CallOnly DEF fvars
  <2>5. CASE Add
    BY <2>2, <2>5 DEF Add, NoResult, Searching, Searched
  <2>6. ASSUME NEW c \in Offset, Call(c) PROVE Own'
    <3>1. UNCHANGED buffer
      BY <2>6 DEF Call
    <3> QED BY <2>2, <2>6, <3>1, CallStep, CallOnly
  <2>7. CASE Found
    <3>1. UNCHANGED buffer
      BY <2>7 DEF Found
    <3> QED BY <2>2, <2>3, <2>7, <3>1, FoundStep, CallOnly
  <2>8. CASE Iterate
    <3>1. UNCHANGED buffer
      BY <2>8 DEF Iterate
    <3> QED BY <2>2, <2>3, <2>8, <3>1, IterateStep, CallOnly
  <2>9. CASE Return
    BY <2>2, <2>9 DEF Return, NoResult, Searching, Searched
  <2> QED BY <2>4, <2>5, <2>6, <2>7, <2>8, <2>9 DEF FNext
<1>4. FindInv <=> TypeOK /\ RingInv /\ Own
  BY DEF FindInv
<1> HIDE DEF Own
<1> QED BY <1>1, <1>2, <1>3, <1>4, PTL DEF FSpec

\* In a ring that holds bytes a call passes over no entry twice.
THEOREM PassesOnceCorrect == FSpec => []PassesOnce
<1>1. FindInv => PassesOnce
  BY DEF FindInv, Searching, PassesOnce
<1> QED BY <1>1, FindInvariant, PTL

\* What callers hand over is what the used slots hold.
UsedSizes == \A i \in Slot : Used(buffer, i) => buffer.entry[i].size \in Size

\* Whatever is added, and however often the ring has gone round.
LEMMA UsedSizesCorrect == Spec => []UsedSizes
<1>1. Init => UsedSizes
  BY DEF Init, UsedSizes, Used, circular_buffer_init, NullEntry
<1>2. TypeOK /\ UsedSizes /\ [Next]_buffer => UsedSizes'
  <2> SUFFICES ASSUME TypeOK, UsedSizes, [Next]_buffer PROVE UsedSizes'
    OBVIOUS
  <2>1. CASE UNCHANGED buffer
    BY <2>1 DEF UsedSizes, Used
  <2>2. ASSUME NEW e \in Entry, buffer' = add_entry(buffer, e)
        PROVE  UsedSizes'
    <3>1. buffer'.entry = [buffer.entry EXCEPT ![buffer.in_offs] = e]
      BY <2>2, AddEntryFields
    <3>2. buffer.in_offs \in Slot /\ buffer.entry \in [Slot -> EntryOf(Ptr \cup {NULL})]
      BY DEF TypeOK, BufferOf
    <3>3. e.size \in Size
      BY DEF Entry
    <3> QED BY <3>1, <3>2, <3>3 DEF UsedSizes, Used
  <2> QED BY <2>1, <2>2 DEF Next, AddEntry
<1> QED BY <1>1, <1>2, RingTypeCorrect, PTL DEF Spec

\* The kept entries that hold bytes start one after the other.
LEMMA StartsApart ==
  ASSUME 0 \notin Size, TypeOK, RingInv, UsedSizes, NEW k \in 0 .. Count(buffer) - 1
  PROVE  k \in Slot /\ Start(k) < Start(k + 1)
<1>1. /\ buffer.out_offs \in Slot /\ buffer.in_offs \in Slot /\ buffer.full \in BOOLEAN
  BY DEF TypeOK, BufferOf
<1>2. k \in Slot /\ k \in 0 .. MaxOps
  BY <1>1, MaxOpsAssumption DEF Count, Slot
<1>3. SlotOf(k) \in Slot /\ Start(k) \in Nat /\ Start(k + 1) = Start(k) + buffer.entry[SlotOf(k)].size
  BY <1>2, StartFacts
<1>4. Used(buffer, SlotOf(k))
  <2>1. CASE buffer.full
    BY <1>3, <2>1 DEF RingInv
  <2>2. CASE ~buffer.full
    <3>1. buffer.out_offs = 0 /\ k < buffer.in_offs
      BY <1>1, <1>2, <2>2 DEF RingInv, Count, Slot
    <3>2. SlotOf(k) = k
      BY <1>2, <3>1, MaxOpsAssumption DEF SlotOf, Slot
    <3> QED BY <1>2, <2>2, <3>1, <3>2 DEF RingInv
  <2> QED BY <2>1, <2>2
<1>5. buffer.entry[SlotOf(k)].size \in Nat /\ buffer.entry[SlotOf(k)].size # 0
  BY <1>3, <1>4, EntryAssumption DEF UsedSizes
<1> QED BY <1>2, <1>3, <1>5

\* Which slot an offset leads to that is found where the slots passed reach it.
LEMMA FirstAtOrBeyond ==
  ASSUME 0 \notin Size, TypeOK, RingInv, UnusedEmpty, UsedSizes,
         NEW j \in 0 .. MaxOps, NEW k \in 0 .. Count(buffer),
         j > 0 => Start(k) > Start(j - 1), Start(k) <= Start(j)
  PROVE  j = k
<1>1. /\ Count(buffer) \in 0 .. MaxOps
      /\ \A i \in 0 .. MaxOps : Start(i) \in Nat
      /\ \A h, i \in 0 .. MaxOps : h <= i => Start(h) <= Start(i)
  BY StartFacts, TotalFacts
<1>2. /\ k \in Int /\ 0 <= k /\ k <= Count(buffer) /\ j \in Int /\ 0 <= j /\ j <= MaxOps
      /\ Count(buffer) \in Int /\ Count(buffer) <= MaxOps /\ MaxOps \in Int
  BY <1>1, MaxOpsAssumption
<1>3. k \in 0 .. MaxOps
  BY <1>2
<1>4. CASE j < k
  <2>1. j \in 0 .. Count(buffer) - 1 /\ j + 1 \in 0 .. MaxOps /\ j + 1 <= k
    BY <1>2, <1>4
  <2>2. Start(j) < Start(j + 1)
    BY <2>1, StartsApart
  <2>3. Start(j + 1) <= Start(k) /\ Start(j) \in Nat /\ Start(j + 1) \in Nat /\ Start(k) \in Nat
    BY <1>1, <1>3, <2>1
  <2> QED BY <2>2, <2>3
<1>5. CASE j > k
  <2>1. j - 1 \in 0 .. MaxOps /\ k <= j - 1 /\ j > 0
    BY <1>2, <1>5
  <2>2. Start(k) <= Start(j - 1) /\ Start(j - 1) \in Nat /\ Start(k) \in Nat
    BY <1>1, <1>3, <2>1
  <2> QED BY <2>1, <2>2
<1> QED BY <1>2, <1>4, <1>5

\* The first byte of every kept entry is found, as long as entries hold bytes,
\* which is what the driver sees to: it adds an entry when a newline ends it.
THEOREM FindsEntryStartCorrect ==
  ASSUME 0 \notin Size
  PROVE  FSpec => []FindsEntryStart
<1>1. FindInv /\ UsedSizes => FindsEntryStart
  <2> SUFFICES ASSUME FindInv, UsedSizes, find.at = "done", Total < 65536,
                      find.char_offset <= INT16_MAX, NEW k \in 0 .. Count(buffer) - 1, find.char_offset = Start(k)
               PROVE  Documented(find)
    BY DEF FindsEntryStart
  <2> DEFINE c == find.char_offset
  <2>1. TypeOK /\ RingInv /\ UnusedEmpty /\ FindType /\ Searched
    BY DEF FindInv
  <2>2. /\ Total \in Nat /\ Count(buffer) \in 0 .. MaxOps
        /\ \A j \in 0 .. MaxOps : Start(j) \in Nat /\ Start(j) <= Total
        /\ \A i, j \in 0 .. MaxOps : i <= j => Start(i) <= Start(j)
    BY <2>1, StartFacts, TotalFacts
  <2>3. k \in Slot /\ Start(k) < Start(k + 1)
    BY <2>1, StartsApart
  <2>4. k \in Int /\ 0 <= k /\ k < Count(buffer) /\ k \in 0 .. MaxOps /\ k + 1 \in 0 .. MaxOps
    BY <2>2, MaxOpsAssumption
  <2>5. c < Total /\ c \in Nat
    BY <2>2, <2>3, <2>4
  <2>6. ~find.null
    BY <2>1, <2>2, <2>5 DEF Searched
  <2>7. PICK j \in 0 .. MaxOps : AtSlot(j) /\ c <= Start(j)
    <3>1. PICK j \in 0 .. MaxOps : AtSlot(j) /\ (c <= Start(j) \/ Start(j) > INT16_MAX)
      BY <2>1, <2>5, <2>6 DEF Searched
    <3>2. Start(j) \in Nat
      BY <2>2
    <3> QED BY <2>5, <3>1, <3>2 DEF INT16_MAX
  <2>8. j = k
    <3>1. k \in 0 .. Count(buffer)
      BY <2>2, <2>4
    <3>2. j > 0 => Start(k) > Start(j - 1)
      BY <2>7 DEF AtSlot
    <3>3. Start(k) <= Start(j)
      BY <2>7
    <3> QED BY <2>1, <3>1, <3>2, <3>3, FirstAtOrBeyond
  <2>9. find.entry_id = SlotOf(k) /\ find.offset = 0
    BY <2>7, <2>8 DEF AtSlot
  <2>10. c \in Start(k) .. Start(k + 1) - 1 /\ find.offset = c - Start(k)
    BY <2>2, <2>3, <2>4, <2>5, <2>9
  <2> QED BY <2>2, <2>5, <2>6, <2>9, <2>10 DEF Documented
<1>2. FSpec => []UsedSizes
  BY SearchOnly, UsedSizesCorrect, PTL
<1> QED BY <1>1, <1>2, FindInvariant, PTL

\* Which offsets a ring of entries that hold bytes reports as not available,
\* the one past the last byte included.
THEOREM PastEndCorrect ==
  ASSUME 0 \notin Size
  PROVE  FSpec => []PastEnd
<1>1. FindInv /\ UsedSizes => PastEnd
  <2>0. SUFFICES ASSUME FindInv, UsedSizes, find.at = "done", Total \in 1 .. 65535
               PROVE  IF Total <= INT16_MAX
                      THEN /\ find.null <=> \/ find.char_offset > Total
                                            \/ find.char_offset = Total /\ buffer.full
                           /\ find.char_offset = Total /\ ~buffer.full
                                => find.entry_id = buffer.in_offs /\ find.offset = 0
                      ELSE find.null => find.char_offset >= Total
    BY DEF PastEnd
  <2> DEFINE c == find.char_offset
             n == Count(buffer)
  <2>1. TypeOK /\ RingInv /\ UnusedEmpty /\ FindType /\ Searched /\ UsedSizes
    BY <2>0 DEF FindInv
  <2>2. /\ Total \in Nat /\ n \in 0 .. MaxOps
        /\ \A j \in 0 .. MaxOps : Start(j) \in Nat /\ Start(j) <= Total
        /\ \A i, j \in 0 .. MaxOps : i <= j => Start(i) <= Start(j)
    <3>1. \A j \in 0 .. MaxOps : Start(j) \in Nat
      BY <2>1, StartFacts
    <3>2. /\ Count(buffer) \in 0 .. MaxOps /\ Total \in Nat
          /\ \A j, k \in 0 .. MaxOps : j <= k => Start(j) <= Start(k)
          /\ \A k \in 0 .. MaxOps : Start(k) <= Total
      BY <2>1, TotalFacts
    <3> QED BY <3>1, <3>2
  <2>t. Total = Start(n)
    BY DEF Total
  <2> HIDE DEF c
  <2>3. c \in Nat /\ find.null \in BOOLEAN /\ Total # 0 /\ Total < 65536
    BY <2>0, <2>1, <2>2, TypeByPlace DEF c
  <2>4. find.null => c >= Total /\ c > Start(MaxOps - 1)
    BY <2>0, <2>1, <2>3 DEF Searched, c
  <2>5. ASSUME ~find.null, Total <= 32767
        PROVE  /\ c <= Total
               /\ c = Total => /\ ~buffer.full
                              /\ find.entry_id = buffer.in_offs /\ find.offset = 0
    <3>1. PICK j \in 0 .. MaxOps : AtSlot(j) /\ (c <= Start(j) \/ Start(j) > INT16_MAX)
      BY <2>0, <2>1, <2>3, <2>5 DEF Searched, c
    <3>2. c <= Start(j) /\ c <= Total
      BY <2>2, <2>3, <2>5, <3>1 DEF INT16_MAX
    <3> SUFFICES ASSUME c = Total
                 PROVE  ~buffer.full /\ find.entry_id = buffer.in_offs /\ find.offset = 0
      BY <3>2
    <3>3. j = n
      <4>1. n \in 0 .. Count(buffer)
        BY <2>2
      <4>2. j > 0 => Start(n) > Start(j - 1)
        BY <2>t, <3>1 DEF AtSlot, c
      <4>3. Start(n) <= Start(j)
        BY <2>t, <3>2
      <4> HIDE DEF n
      <4> QED BY <2>1, <4>1, <4>2, <4>3, FirstAtOrBeyond
    <3>4. n # MaxOps
      <4>1. n = MaxOps => Total < Total \/ Total > 32767
        BY <3>1, <3>3 DEF AtSlot, INT16_MAX, c
      <4> QED BY <2>2, <2>5, <4>1
    <3>5. ~buffer.full /\ n = buffer.in_offs /\ buffer.out_offs = 0 /\ buffer.in_offs \in Slot
      BY <2>1, <3>4 DEF Count, RingInv, TypeOK, BufferOf
    <3>6. SlotOf(n) = buffer.in_offs
      BY <3>5, MaxOpsAssumption DEF SlotOf, Slot
    <3>7. find.entry_id = SlotOf(n) /\ (c = Start(n) => find.offset = 0)
      BY <3>1, <3>3 DEF AtSlot, c
    <3> HIDE DEF n
    <3>8. c = Start(n) /\ find.entry_id = buffer.in_offs
      BY <2>t, <3>6, <3>7
    <3>9. find.offset = 0
      BY <3>7, <3>8
    <3>10. ~buffer.full
      BY <3>5
    <3> QED BY <3>8, <3>9, <3>10
  <2>6. find.null /\ c = Total => buffer.full
    <3> SUFFICES ASSUME find.null, c = Total, ~buffer.full PROVE FALSE
      OBVIOUS
    <3>1. n = buffer.in_offs /\ buffer.in_offs \in Slot
      BY <2>1 DEF Count, TypeOK, BufferOf
    <3>2. n <= MaxOps - 1 /\ MaxOps - 1 \in 0 .. MaxOps
      BY <3>1, MaxOpsAssumption DEF Slot
    <3>3. Start(MaxOps - 1) >= Total /\ Start(MaxOps - 1) \in Nat
      <4> HIDE DEF n
      <4> QED BY <2>2, <2>t, <3>2
    <3> QED BY <2>2, <2>4, <3>3
  <2> HIDE DEF n
  <2>7. CASE Total <= 32767
    <3>1. find.null => c > Total \/ (c = Total /\ buffer.full)
      <4>1. find.null => c > Total \/ c = Total
        BY <2>2, <2>3, <2>4
      <4> QED BY <2>6, <4>1
    <3>2. c > Total \/ (c = Total /\ buffer.full) => find.null
      BY <2>2, <2>3, <2>5, <2>7
    <3>3. c = Total /\ ~buffer.full => find.entry_id = buffer.in_offs /\ find.offset = 0
      BY <2>2, <2>5, <2>6, <2>7
    <3>4. find.null <=> c > Total \/ (c = Total /\ buffer.full)
      BY <2>3, <3>1, <3>2
    <3>5. Total <= INT16_MAX
      BY <2>7 DEF INT16_MAX
    <3> QED BY <3>3, <3>4, <3>5 DEF c
  <2>8. CASE ~(Total <= 32767)
    BY <2>4, <2>8 DEF c, INT16_MAX
  <2> QED BY <2>7, <2>8
<1>2. FSpec => []UsedSizes
  BY SearchOnly, UsedSizesCorrect, PTL
<1> QED BY <1>1, <1>2, FindInvariant, PTL
===============================================================================

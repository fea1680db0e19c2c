--------------------------------- MODULE Ring ---------------------------------
(***************************************************************************)
(* aesd_circular_buffer as a component of its own, driven the way the unit *)
(* tests drive it: initialise, then add entries, nobody else moving the    *)
(* read position.                                                          *)
(***************************************************************************)
EXTENDS CircularBuffer, Sequences

CONSTANTS
  Ptr,    \* the blocks of bytes callers hand over
  Size    \* how many bytes they may hold

ASSUME EntryAssumption == NULL \notin Ptr /\ Size \subseteq Nat

Entry == [buffptr : Ptr, size : Size]

VARIABLE buffer

Init == buffer = circular_buffer_init

AddEntry(e) == buffer' = add_entry(buffer, e)

Next == \E e \in Entry : AddEntry(e)

Spec == Init /\ [][Next]_buffer
-------------------------------------------------------------------------------
TypeOK == buffer \in BufferOf(Ptr \cup {NULL})

Used(b, i) == b.entry[i].buffptr # NULL

\* "set to true when the buffer entry structure is full" (the comment on
\* the field "full" in aesd-circular-buffer.h): exactly when no slot is unused.
FullFlag == buffer.full <=> \A i \in Slot : Used(buffer, i)

\* "Returns pointer to the oldest entry" (add_entry's comment): in a full
\* ring the pointer handed back for freeing is the one the read position
\* designates, and only there is one handed back.
ReturnsOldest ==
  add_entry_result(buffer) =
    IF \A i \in Slot : Used(buffer, i)
    THEN buffer.entry[buffer.out_offs].buffptr ELSE NULL

\* Inductive invariant: a ring that is not full has never been read past
\* slot 0 and is filled from there; in a full ring the two positions meet.
RingInv ==
  IF buffer.full
  THEN /\ buffer.in_offs = buffer.out_offs
       /\ \A i \in Slot : Used(buffer, i)
  ELSE /\ buffer.out_offs = 0
       /\ \A i \in Slot : Used(buffer, i) <=> i < buffer.in_offs

\* The entries kept, oldest first, as the two positions and "full" say.
Count(b) == IF b.full THEN MaxOps ELSE b.in_offs
OldestFirst(b) ==
  [k \in 1 .. Count(b) |-> b.entry[(b.out_offs + (k - 1)) % MaxOps]]

Recent == INSTANCE RecentWrites
            WITH Capacity <- MaxOps, Item <- Entry, recent <- OldestFirst(buffer)

\* The ring, read oldest first from out_offs, is the last MaxOps entries added.
RingKeepsRecent == Recent!Spec
===============================================================================

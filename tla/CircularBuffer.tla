---------------------------- MODULE CircularBuffer ----------------------------
(***************************************************************************)
(* The data type of aesd-circular-buffer.[ch]: a ring of the most recent   *)
(* write operations.  Only operators: the test program and the char driver *)
(* each keep a buffer of this type in their own state.                     *)
(*                                                                         *)
(* An entry carries the pointer to its bytes and their number; the ring    *)
(* never looks at the bytes.                                               *)
(***************************************************************************)
EXTENDS Integers

CONSTANTS
  MaxOps,   \* AESDCHAR_MAX_WRITE_OPERATIONS_SUPPORTED (10 in the source)
  NULL      \* the null pointer

ASSUME MaxOpsAssumption == MaxOps \in Nat \ {0}

Slot == 0 .. MaxOps - 1

\* Mutant: no wrap-around.
SuccNoWrap(i) == i + 1

\* One place further round the ring, the "% AESDCHAR_MAX_WRITE_..." idiom.
Succ(i) == (i + 1) % MaxOps

NullEntry == [buffptr |-> NULL, size |-> 0]

EntryOf(Ptr) == [buffptr : Ptr, size : Nat]

BufferOf(Ptr) ==
  [entry : [Slot -> EntryOf(Ptr)], in_offs : Slot, out_offs : Slot, full : BOOLEAN]

\* aesd_circular_buffer_init: memset to zero.
circular_buffer_init ==
  [entry    |-> [i \in Slot |-> NullEntry],
   in_offs  |-> 0,
   out_offs |-> 0,
   full     |-> FALSE]

(***************************************************************************)
(* aesd_circular_buffer_add_entry: the buffer after the call.  A full ring *)
(* first gives up its read position, then "full" is decided by comparing   *)
(* the write position with the read position.                              *)
(***************************************************************************)
OutAfterAdd(b) == IF b.full THEN Succ(b.out_offs) ELSE b.out_offs

\* Mutant: the full test compares before advancing the write position.
AddEntryFullOffByOne(b, e) ==
  [entry    |-> [b.entry EXCEPT ![b.in_offs] = e],
   in_offs  |-> Succ(b.in_offs),
   out_offs |-> OutAfterAdd(b),
   full     |-> b.full \/ Succ(Succ(b.in_offs)) = OutAfterAdd(b)]

\* Mutant: the read position is not advanced when the oldest entry is replaced.
AddEntryKeepOut(b, e) ==
  [entry    |-> [b.entry EXCEPT ![b.in_offs] = e],
   in_offs  |-> Succ(b.in_offs),
   out_offs |-> b.out_offs,
   full     |-> b.full \/ Succ(b.in_offs) = b.out_offs]

add_entry(b, e) ==
  IF b.in_offs >= MaxOps
  THEN b
  ELSE [entry    |-> [b.entry EXCEPT ![b.in_offs] = e],
        in_offs  |-> Succ(b.in_offs),
        out_offs |-> OutAfterAdd(b),
        full     |-> b.full \/ Succ(b.in_offs) = OutAfterAdd(b)]

\* Mutant: nothing is handed back.
AddEntryResultNone(b) == NULL

\* The value add_entry returns: the pointer it is about to overwrite in a
\* full ring, NULL otherwise.
add_entry_result(b) ==
  IF b.full /\ b.in_offs < MaxOps THEN b.entry[b.in_offs].buffptr ELSE NULL
-------------------------------------------------------------------------------
\* Where each of the entries of these sizes starts when they are laid end to end;
\* the last one is where they end.
Starts(size) ==
  LET at[k \in 0 .. MaxOps] == IF k = 0 THEN 0 ELSE at[k - 1] + size[k - 1] IN at
===============================================================================

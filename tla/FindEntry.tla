------------------------------ MODULE FindEntry -------------------------------
(***************************************************************************)
(* aesd_circular_buffer_find_entry_offset_for_fpos on the buffers of Ring: *)
(* the loop of the source, one iteration per step, with the widths of its  *)
(* local variables.                                                        *)
(*                                                                         *)
(* char_offset and the sizes are size_t; accumulated_length, offset and    *)
(* max_position are int16_t.  A negative int16_t compared with a size_t is *)
(* converted to a value above every offset, which is all GreaterU needs.   *)
(* A negative offset handed back stands for that conversion, too.          *)
(*                                                                         *)
(* "passed" is a history variable, not one of the function's: how many     *)
(* entries the call has passed over, counted up to one more than there are *)
(* slots.                                                                  *)
(***************************************************************************)
EXTENDS Ring

CONSTANT Offset    \* the char_offset values asked for

ASSUME OffsetAssumption == Offset \subseteq Nat

VARIABLE find      \* the call in progress

INT16_MAX == 32767

int16(x) == ((x + 32768) % 65536) - 32768

\* Mutant: the comparison lets equality through.
GreaterEqU(u, s) == s >= 0 /\ u >= s

\* "u > s" in C for a size_t u and an int16_t s.
GreaterU(u, s) == s >= 0 /\ u > s

NoResult == [at |-> "idle"]

FInit == Init /\ find = NoResult

\* Callers do the locking: the buffer stands still during a call.
Add == find = NoResult /\ Next /\ UNCHANGED find

Call(c) ==
  /\ find = NoResult
  /\ find' = [at |-> "loop", char_offset |-> c, accumulated_length |-> 0,
              entry_id |-> buffer.out_offs, offset |-> int16(c), passed |-> 0]
  /\ UNCHANGED buffer

\* The loop is left because enough bytes have been passed over.
Found ==
  /\ find.at = "loop"
  /\ ~GreaterU(find.char_offset, find.accumulated_length)
  /\ find' = [at |-> "done", char_offset |-> find.char_offset, null |-> FALSE,
              entry_id |-> find.entry_id, offset |-> find.offset]
  /\ UNCHANGED buffer

OneMore(n) == IF n > MaxOps THEN n ELSE n + 1

\* Mutant: the search never gives up.
IterateNoGiveUp ==
  /\ find.at = "loop"
  /\ GreaterU(find.char_offset, find.accumulated_length)
  /\ LET acc == int16(find.accumulated_length + buffer.entry[find.entry_id].size)
     IN find' = [find EXCEPT !.accumulated_length = acc, !.entry_id = Succ(find.entry_id),
                             !.offset = int16(find.char_offset - acc),
                             !.passed = OneMore(@)]
  /\ UNCHANGED buffer

\* Mutant: the give-up test looks at the bytes left instead of the position.
IterateComparesLeft ==
  /\ find.at = "loop"
  /\ GreaterU(find.char_offset, find.accumulated_length)
  /\ LET acc  == int16(find.accumulated_length + buffer.entry[find.entry_id].size)
         id   == Succ(find.entry_id)
         left == int16(find.char_offset - acc)
     IN find' = IF id = buffer.out_offs /\ left > acc - 1
                THEN [at |-> "done", char_offset |-> find.char_offset, null |-> TRUE]
                ELSE [find EXCEPT !.accumulated_length = acc, !.entry_id = id,
                                  !.offset = left, !.passed = OneMore(@)]
  /\ UNCHANGED buffer

\* One iteration: pass over one entry; having come round to the start with
\* bytes still to go means the position is not there.
Iterate ==
  /\ find.at = "loop"
  /\ GreaterU(find.char_offset, find.accumulated_length)
  /\ LET acc  == int16(find.accumulated_length + buffer.entry[find.entry_id].size)
         id   == Succ(find.entry_id)
         left == int16(find.char_offset - acc)
         off  == IF left < 0 THEN int16(left + buffer.entry[id].size) ELSE left
     IN find' = IF id = buffer.out_offs /\ GreaterU(find.char_offset, int16(acc - 1))
                THEN [at |-> "done", char_offset |-> find.char_offset, null |-> TRUE]
                ELSE [find EXCEPT !.accumulated_length = acc, !.entry_id = id,
                                  !.offset = off, !.passed = OneMore(@)]
  /\ UNCHANGED buffer

Return == find.at = "done" /\ find' = NoResult /\ UNCHANGED buffer

FNext == Add \/ (\E c \in Offset : Call(c)) \/ Found \/ Iterate \/ Return

fvars == <<buffer, find>>

FSpec == FInit /\ [][FNext]_fvars
-------------------------------------------------------------------------------
\* Reference: where the k-th kept entry (0-based, oldest first) starts when
\* all entries are laid end to end, and what the documented answer is.
SlotOf(k) == (buffer.out_offs + k) % MaxOps
Start(k)  == Starts([j \in Slot |-> buffer.entry[SlotOf(j)].size])[k]
Total     == Start(Count(buffer))

Documented(r) ==
  IF r.char_offset >= Total
  THEN r.null
  ELSE \E k \in 0 .. Count(buffer) - 1 :
         /\ r.char_offset \in Start(k) .. Start(k + 1) - 1
         /\ ~r.null /\ r.entry_id = SlotOf(k) /\ r.offset = r.char_offset - Start(k)

\* An offset that is the first byte of a kept entry is answered as documented,
\* from any position of the ring: that entry, byte 0.  The offset has to fit
\* int16_t; the bytes kept may overflow the int16_t sum once, not twice.
FindsEntryStart ==
  /\ find.at = "done"
  /\ Total < 65536 /\ find.char_offset <= INT16_MAX
  /\ \E k \in 0 .. Count(buffer) - 1 : find.char_offset = Start(k)
  => Documented(find)

\* Which offsets are "not available in the buffer" in a ring that holds bytes.
\* The function's comment says those from Total on.  The code answers NULL for
\* them in a full ring only: in one that is not full the offset one past the
\* last byte is answered with the next slot to be written, which is unused.
\* When the bytes kept overflow the int16_t sum, NULL is still never the answer
\* to an offset the ring holds.
PastEnd ==
  find.at = "done" /\ Total \in 1 .. 65535 =>
    IF Total <= INT16_MAX
    THEN /\ find.null <=> \/ find.char_offset > Total
                          \/ find.char_offset = Total /\ buffer.full
         /\ find.char_offset = Total /\ ~buffer.full
              => find.entry_id = buffer.in_offs /\ find.offset = 0
    ELSE find.null => find.char_offset >= Total

\* The loop counts nothing that ends it: "entry_id == out_offs" does, and only
\* with bytes still to go.  In a ring that holds bytes that is enough: a call
\* passes over no entry twice, whatever the offset, and although the int16_t
\* sum may overflow.  (In a ring without bytes a call with an offset above 0
\* never ends; from 65536 bytes on the sum may come round to where it was.)
PassesOnce ==
  find.at = "loop" /\ Total \in 1 .. 65535 => find.passed <= MaxOps

\* find_entry_offset_for_fpos's comment for an offset the ring does hold:
\* the entry and the byte in it that it designates "if all buffer strings
\* were concatenated end to end".
FindsByteInside ==
  find.at = "done" /\ find.char_offset < Total => Documented(find)
-------------------------------------------------------------------------------
(* The inductive invariant behind these.                                   *)

FindType ==
  \/ find = NoResult
  \/ find \in [at : {"loop"}, char_offset : Nat, accumulated_length : Int,
               entry_id : Slot, offset : Int, passed : Nat]
  \/ find \in [at : {"done"}, char_offset : Nat, null : {TRUE}]
  \/ find \in [at : {"done"}, char_offset : Nat, null : {FALSE}, entry_id : Slot, offset : Int]

\* The unused slots have no bytes: what the search passes over after the last
\* entry adds nothing.
UnusedEmpty == \A i \in Slot : ~Used(buffer, i) => buffer.entry[i].size = 0

\* The search is at the k-th slot from the oldest entry on, and the offset is
\* beyond what it passed before the last of them.  It has not gone round unless
\* the byte is there, or the sum no longer says that it is not.
AtSlot(k) ==
  /\ find.entry_id = SlotOf(k)
  /\ k > 0 => find.char_offset > Start(k - 1) /\ Start(k - 1) <= INT16_MAX
  /\ k = MaxOps => find.char_offset < Total \/ Total > INT16_MAX
  /\ find.char_offset = Start(k) => find.offset = 0

\* In a ring without bytes the loop goes round and round.
Searching ==
  find.at = "loop" /\ Total < 65536 =>
    \/ Total = 0 /\ find.accumulated_length = 0
    \/ /\ find.passed <= MaxOps /\ AtSlot(find.passed)
       /\ find.accumulated_length = int16(Start(find.passed))

Searched ==
  find.at = "done" /\ Total < 65536 =>
    IF find.null THEN find.char_offset >= Total /\ find.char_offset > Start(MaxOps - 1)
    ELSE \/ Total = 0 /\ find.char_offset = 0
         \/ \E k \in 0 .. MaxOps :
              AtSlot(k) /\ (find.char_offset <= Start(k) \/ Start(k) > INT16_MAX)

FindInv == TypeOK /\ RingInv /\ UnusedEmpty /\ FindType /\ Searching /\ Searched
===============================================================================

\* Three slots; offsets on, next to and beyond every entry, sizes that overflow int16_t.
CONSTANTS
  MaxOps = 3
  NULL = NULL
  Ptr = {p1, p2}
  Size = {1, 2, 16384, 22000}
  Offset = {0, 1, 2, 3, 4, 5, 6, 7, 16384, 16385, 22000, 22001, 32767, 32768, 44000, 66000}
SPECIFICATION FSpec
INVARIANTS FindInv FullFlag ReturnsOldest FindsEntryStart PastEnd PassesOnce
PROPERTY RingKeepsRecent

\* Two connections at a time, any number in all; cut lines, chunks of two lines, seek commands.
CONSTANTS
  MaxOps = 2
  NULL = NULL
  Conn = {c1, c2}
  File <- Files
  Line <- Uneven
  Nobody = Nobody
  Block = {b1, b2, b3, b4}
  ZERO_SIZE_PTR = ZERO_SIZE_PTR
  Byte = {"a", "n", "z"}
  EOL = "n"
  ZERO = "z"
  ReadLimit = 1
  Payload <- Written
  ReadCount = {0, 1}
  SeekOffset = {0}
  Whence = {"SET", "END"}
  SeekTo <- SecondByte
  StackWord = {0, 1}
  Faults = FALSE
  MaxStaged = 3
  MaxPos = 6
SPECIFICATION DSpec
SYMMETRY Interchangeable
INVARIANTS DeviceInv FullFlag LineStored SeeksSucceed ReplyFromStart
PROPERTY NothingLeaks

\* An open that stores out_offs late.
CONSTANTS
  MaxOps = 3
  NULL = NULL
  Conn = {c1, c2}
  File <- Files
  Line <- Plain
  Nobody = Nobody
  Block = {b1, b2, b3, b4}
  ZERO_SIZE_PTR = ZERO_SIZE_PTR
  Byte = {"a", "n", "z"}
  EOL = "n"
  ZERO = "z"
  ReadLimit = 3
  Payload <- Written
  ReadCount = {0, 1, 2}
  SeekOffset = {0}
  Whence = {"SET", "END"}
  SeekTo <- Nowhere
  StackWord = {0, 1}
  Faults = FALSE
  MaxStaged = 4
  MaxPos = 6
SPECIFICATION DSpec
SYMMETRY Interchangeable
INVARIANT ReadStaysInEntry

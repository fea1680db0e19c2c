\* One file, every system call, reads of several sizes.
CONSTANTS
  MaxOps = 2
  NULL = NULL
  File = {f1}
  Nobody = Nobody
  Block = {b1, b2, b3, b4}
  ZERO_SIZE_PTR = ZERO_SIZE_PTR
  Byte = {"a", "n", "z"}
  EOL = "n"
  ZERO = "z"
  ReadLimit = 2
  Payload <- WithEmpty
  ReadCount = {0, 1, 2, 4}
  SeekOffset <- Offsets
  Whence = {"SET", "CUR", "END", "OTHER"}
  SeekTo <- Places
  StackWord = {0, 1}
  Faults = TRUE
  MaxStaged = 3
  MaxPos = 3
SPECIFICATION Spec
VIEW Relevant
SYMMETRY BlockSymmetry
INVARIANTS DriverInv SizesMatch ReadStaysInEntry EntriesAreLines
PROPERTY IoctlSeeksThere

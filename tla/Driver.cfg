\* Two files race, against the abstract log; a write may end a line and start another.
CONSTANTS
  MaxOps = 2
  NULL = NULL
  File = {f1, f2}
  Nobody = Nobody
  Block = {b1, b2, b3, b4}
  ZERO_SIZE_PTR = ZERO_SIZE_PTR
  Byte = {"a", "n", "z"}
  EOL = "n"
  ZERO = "z"
  ReadLimit = 2
  Payload <- Pieces
  ReadCount = {4}
  SeekOffset = {0}
  Whence = {}
  SeekTo <- Nowhere
  StackWord = {0}
  Faults = FALSE
  MaxStaged = 2
  MaxPos = 2
SPECIFICATION Spec
VIEW Relevant
SYMMETRY BlockSymmetry
INVARIANTS MemorySafe CounterBelowLimit
PROPERTIES KeepsCommandLog StuckForever NoLeak

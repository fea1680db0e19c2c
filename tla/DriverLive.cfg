\* Two files, every system call, under the scheduler's fairness.
CONSTANTS
  MaxOps = 2
  NULL = NULL
  File = {f1, f2}
  Nobody = Nobody
  Block = {b1, b2, b3}
  ZERO_SIZE_PTR = ZERO_SIZE_PTR
  Byte = {"a", "n", "z"}
  EOL = "n"
  ZERO = "z"
  ReadLimit = 1
  Payload <- OneLine1
  ReadCount = {4}
  SeekOffset = {0}
  Whence = {"END"}
  SeekTo <- OnePlace
  StackWord = {0}
  Faults = FALSE
  MaxStaged = 2
  MaxPos = 2
SPECIFICATION FairSpec
PROPERTY CallsReturn

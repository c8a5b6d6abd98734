SPECIFICATION FilesSpec
CONSTANTS
  Names = {n1, n2}
  Calls = {c1, c2}
  UploadSize = 2
  ChunkSlots = 1
  MaxFileCalls = 3
  MaxFileFails = 1
INVARIANTS
  NeverTruncated
CHECK_DEADLOCK FALSE

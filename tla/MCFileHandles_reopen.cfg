SPECIFICATION Spec
CONSTANTS
  Paths = {p}
  Byte = {0, 1}
  Zero = 0
  MaxLen = 1
  MaxBlobSize = 0
  Buffers = {1, 2, 3, 4}
  Handles = {h1}
  InitialRepos <- OneByte
  MaxFiles = 3
  MaxNewFiles = 1
  MaxFlushes = 1
  Faults = FALSE
  NoFile = NoFile
  NoOid = NoOid
  Nil = Nil
  Unused = Unused
PROPERTY
  ReopenSeesEdit

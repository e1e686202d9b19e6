SPECIFICATION Spec
CONSTANTS
  Paths = {p}
  Byte = {0, 1}
  Zero = 0
  MaxLen = 1
  MaxBlobSize = 0
  Buffers = {1, 2, 3, 4}
  Handles = {h1, h2}
  InitialRepos <- Either
  MaxFiles = 2
  MaxNewFiles = 1
  MaxFlushes = 2
  Faults = TRUE
  NoFile = NoFile
  NoOid = NoOid
  Nil = Nil
  Unused = Unused
SYMMETRY AnyHandle
INVARIANTS
  TypeOK
  SpoiltHasOwner
  OidIsContent
  EditKept

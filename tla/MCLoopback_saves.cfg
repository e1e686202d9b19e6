SPECIFICATION Spec
CONSTANTS
  Byte = {0, 1}
  Zero = 0
  MaxLen = 2
  Handles = {h1, h2}
  Commits <- MCCommits
  MaxSaves = 2
  MaxResets = 1
  MaxFaults = 1
  Git = Git
  NoFile = NoFile
  Torn = Torn
  Closed = Closed
SYMMETRY AnyHandle
INVARIANTS
  TypeOK
  EditOnDisk
  RestsWhole
CHECK_DEADLOCK FALSE

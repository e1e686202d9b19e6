SPECIFICATION Spec
CONSTANTS
  Names <- MCNames
  Dirs <- MCDirs
  Files <- MCFiles
  Keep = ".gitkeep"
  Contents = {e, c}
  Empty = e
  Large = {}
  None = None
  Procs = {p1, p2}
  ReadKeys <- MCReadKeys
  Ops <- MCOps
  InitialRepos <- MCInitialRepos
  MaxWrites = 1
  Faults = FALSE
INVARIANTS
  QuietMeansFresh

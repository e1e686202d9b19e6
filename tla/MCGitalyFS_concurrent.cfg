SPECIFICATION FairSpec
CONSTANTS
  Names <- MCNames
  Dirs <- DirsSmall
  Files <- FilesSmall
  Keep = ".gitkeep"
  Contents = {e, c, l}
  Empty = e
  Large = {l}
  None = None
  Procs = {p1, p2}
  ReadKeys <- ReadSmall
  Ops <- OpsSmall
  InitialRepos <- InitialSmall
  MaxWrites = 2
  Faults = TRUE
INVARIANTS
  TypeOK
  StaleExplained
PROPERTY
  Converges

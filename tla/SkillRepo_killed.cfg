SPECIFICATION PromptSpec
CONSTANTS
  Lookups = {l1}
  Pollers = {q}
  MaxCommits = 2
  MaxFaults = 0
  MaxKills = 1
  Cloned = TRUE
  DefaultRef = TRUE
  Absent = Absent
  Nobody = Nobody
  Orphan = Orphan
PROPERTY
  Converges

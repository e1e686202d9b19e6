SPECIFICATION PromptSpec
CONSTANTS
  Lookups = {l1}
  Pollers = {q}
  MaxCommits = 2
  MaxFaults = 0
  MaxKills = 0
  Cloned = TRUE
  DefaultRef = FALSE
  Absent = Absent
  Nobody = Nobody
  Orphan = Orphan
PROPERTY
  Converges

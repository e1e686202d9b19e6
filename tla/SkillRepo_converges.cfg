SPECIFICATION FairSpec
CONSTANTS
  Lookups = {l1, l2}
  Pollers = {q}
  MaxCommits = 2
  MaxFaults = 1
  MaxKills = 1
  Cloned = FALSE
  DefaultRef = TRUE
  Absent = Absent
  Nobody = Nobody
  Orphan = Orphan
PROPERTY
  HeadConverges

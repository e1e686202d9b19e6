SPECIFICATION FairSpec
CONSTANTS
  Skills = {s1, s2, s3}
  Blank = {b}
  MaxConcurrent = 2
  MaxRuns = 3
  MaxWriteFaults = 1
  Absent = Absent
INVARIANTS
  TypeOK
  SummaryTrue
  FailureIsOfThisRun
PROPERTY
  RunEnds
CHECK_DEADLOCK FALSE

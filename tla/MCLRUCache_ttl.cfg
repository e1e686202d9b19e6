SPECIFICATION HSpec
CONSTANTS
  Keys = {k1, k2, k3}
  Values = {v1, v2}
  NoKey = NoKey
  NoValue = NoValue
  PrefixSets <- MCPrefixSets
  MaxEntries = 2
  DefaultMaxEntries = 3
  Ttl = 2
  MaxTime = 4
INVARIANTS
  TypeOK
  CacheConsistent
PROPERTIES
  ImplementsMap
  EvictsLeastRecentlyUsed

\* Two workers, a server that can be reached, two keys, values that are kept.
SPECIFICATION Spec
CONSTANTS
  k1 = k1
  k2 = k2
  Absent = Absent
  Arguments <- MCArguments
  Workers = {w1, w2}
  TableOrder <- MCTables
  Deployments <- MCCaches
  NoBackend = NoBackend
  MaxMishaps = 1
  Keys = {k1, k2}
  Values <- MCKeptValues
  Expirations <- MCUsualExpirations
  Reliable = TRUE
  NoEntry = NoEntry
  Paths = {"api"}
PROPERTY ImplementsSharedCache

\* One worker and a server that may be out of reach.
SPECIFICATION Spec
CONSTANTS
  k1 = k1
  k2 = k2
  Absent = Absent
  Arguments <- MCArguments
  Workers = {w1}
  TableOrder <- MCTables
  Deployments <- MCCaches
  NoBackend = NoBackend
  MaxMishaps = 2
  Keys = {k1}
  Values <- MCKeptValues
  Expirations <- MCUsualExpirations
  Reliable = FALSE
  NoEntry = NoEntry
  Paths = {"api"}
INVARIANT ConnectionErrorsAreHidden

\* One worker, and expirations beyond thirty days.
SPECIFICATION Spec
CONSTANTS
  k1 = k1
  k2 = k2
  Absent = Absent
  Arguments <- MCArguments
  Workers = {w1}
  TableOrder <- MCTables
  Deployments <- MCCaches
  NoBackend = NoBackend
  MaxMishaps = 2
  Keys = {k1}
  Values <- MCKeptValues
  Expirations = {60, 5000000}
  Reliable = TRUE
  NoEntry = NoEntry
  Paths = {"api"}
PROPERTY SetValueIsStored

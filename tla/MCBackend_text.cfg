\* One worker that sets a text and gets it.
SPECIFICATION Spec
CONSTANTS
  k1 = k1
  k2 = k2
  Absent = Absent
  Arguments <- MCArguments
  Workers = {w1}
  TableOrder <- MCTables
  Deployments <- MCCaches
  NoBackend = NoBackend
  MaxMishaps = 2
  Keys = {k1}
  Values <- MCTexts
  Expirations <- MCUsualExpirations
  Reliable = TRUE
  NoEntry = NoEntry
  Paths = {"api"}
PROPERTY SetValueComesBack

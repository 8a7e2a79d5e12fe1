\* Two workers that create two tables, an unreliable cache server with one key.
SPECIFICATION Spec
CONSTANTS
  k1 = k1
  k2 = k2
  Absent = Absent
  Arguments <- MCArguments
  Workers = {w1, w2}
  TableOrder <- MCTables
  Deployments <- MCDeployments
  NoBackend = NoBackend
  MaxMishaps = 2
  Keys = {k1}
  Values <- MCValues
  Expirations = {0, 60, 5000000}
  Reliable = FALSE
  NoEntry = NoEntry
  Paths = {"api", "other"}
INVARIANTS TypeOK ServingHasSchema ClientsFollowTheWorker AnswersFollowTheDeployment
PROPERTIES SchemaIsWhole EveryWorkerServes

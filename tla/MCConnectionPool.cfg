\* Two enrichments and a scoring of one contact; one connection each
\* for two workers, every failure.
SPECIFICATION PSpec
CONSTANTS
  c1 = c1  r1 = r1  r2 = r2  s1 = s1  v1 = v1  w1 = w1  w2 = w2
  Contacts = {c1}
  Providers = {"hunter", "apollo"}
  Emails = {"mock"}
  NoEmail = NoEmail
  HasCompany = {c1}
  MockProviders = {}
  MockEmail <- MCMockEmail
  EnrichRequests = {r1, r2}
  ScoreRequests = {s1}
  IcpConfigs = {v1}
  NoIcp = NoIcp
  Scores = {v1}
  NoScore = NoScore
  ScoreOf <- MCScoreOf
  MaxPriority = 2
  ConfigRows = {}
  InitialConfigs <- MCEmailOnly
  CsvEmails = {NoEmail}
  Failures = {"rollback", "lost_ack", "refresh"}
  NoRequest = NoRequest
  NoJob = NoJob
  Workers = {w1, w2}
  WorkerOf <- MCWorkerOf
  Capacity = 1
  PoolFailures = {"timeout", "worker"}
INVARIANTS PoolTypeOK NothingLeaks LockOwnersNeverWait
PROPERTIES EveryArrivalEnds ImplementsLedger
CHECK_DEADLOCK FALSE

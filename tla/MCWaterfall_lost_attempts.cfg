\* One enrichment; the second row names a provider the registry does not know.
SPECIFICATION Spec
CONSTANTS
  c1 = c1  c2 = c2  e1 = e1  r1 = r1  r2 = r2  s1 = s1  v1 = v1
  Contacts = {c1}
  Providers = {"hunter", "apollo", "appolo"}
  Emails <- MCEmails
  NoEmail = NoEmail
  HasCompany = {c1}
  MockProviders = {}
  MockEmail <- MCMockEmail
  EnrichRequests = {r1}
  ScoreRequests = {}
  IcpConfigs = {}
  NoIcp = NoIcp
  Scores = {}
  NoScore = NoScore
  ScoreOf <- MCScoreOf
  MaxPriority = 2
  ConfigRows = {}
  InitialConfigs <- MCMisspelt
  CsvEmails = {NoEmail, e1}
  Failures = {}
  NoRequest = NoRequest
  NoJob = NoJob
INVARIANTS EveryAttemptIsLogged
CHECK_DEADLOCK FALSE

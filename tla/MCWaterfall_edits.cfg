\* Enrichments of two contacts, every failure, while an operator edits the email waterfall.
SPECIFICATION Spec
CONSTANTS
  c1 = c1  c2 = c2  e1 = e1  r1 = r1  r2 = r2  s1 = s1  v1 = v1
  Contacts = {c1, c2}
  Providers = {"hunter", "apollo"}
  Emails <- MCEmails
  NoEmail = NoEmail
  HasCompany = {c1}
  MockProviders = {"apollo"}
  MockEmail <- MCMockEmail
  EnrichRequests = {r1, r2}
  ScoreRequests = {}
  IcpConfigs = {}
  NoIcp = NoIcp
  Scores = {}
  NoScore = NoScore
  ScoreOf <- MCScoreOf
  MaxPriority = 2
  ConfigRows <- HunterRow
  InitialConfigs <- MCEmailOnly
  CsvEmails = {NoEmail}
  Failures <- AnyFailure
  NoRequest = NoRequest
  NoJob = NoJob
INVARIANTS CheapestFirst
PROPERTIES EveryRequestEnds
CHECK_DEADLOCK FALSE

\* Two enrichments and one scoring of one contact, every failure.
SPECIFICATION Spec
CONSTANTS
  c1 = c1  c2 = c2  e1 = e1  r1 = r1  r2 = r2  s1 = s1  v1 = v1
  Contacts = {c1}
  Providers = {"hunter", "apollo"}
  Emails <- MCEmails
  NoEmail = NoEmail
  HasCompany = {c1}
  MockProviders = {}
  MockEmail <- MCMockEmail
  EnrichRequests = {r1, r2}
  ScoreRequests = {s1}
  IcpConfigs = {v1}
  NoIcp = NoIcp
  Scores = {v1}
  NoScore = NoScore
  ScoreOf <- MCScoreOf
  MaxPriority = 2
  ConfigRows = {}
  InitialConfigs <- MCInitialConfigs
  CsvEmails = {NoEmail, e1}
  Failures <- AnyFailure
  NoRequest = NoRequest
  NoJob = NoJob
INVARIANTS TypeOK EnrichedHasEvidence FailedIsExhausted AuditIsComplete ReplyIsDurable LockDiscipline StaleCopiesAreHarmless
PROPERTIES ColumnsAreIndependent ImplementsLedger
CHECK_DEADLOCK FALSE

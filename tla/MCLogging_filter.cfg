\* One module that has its logger, the filter, and an id in the context.
SPECIFICATION Spec
CONSTANTS
  Callers = {t1}
  Calls <- OneCall
  NoName = NoName
  Loggers <- MCLoggers
  Noisy = {"asyncpg"}
  Silenced = {"asyncpg"}
  Ids = {i1}
  NoId = NoId
  Deployments <- OneDeployment
  Nobody = Nobody
  MaxFailures = 0
INVARIANTS FilteredRecordsCarryTheId

\* One module that asks for its logger when it is imported.
SPECIFICATION Spec
CONSTANTS
  Callers = {t1}
  Calls <- OneCall
  NoName = NoName
  Loggers <- MCLoggers
  Noisy = {"asyncpg"}
  Silenced = {"asyncpg"}
  Ids = {}
  NoId = NoId
  Deployments <- OneDeployment
  Nobody = Nobody
  MaxFailures = 0
INVARIANTS DetectsTheCaller

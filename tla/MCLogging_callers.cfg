\* Two threads that ask for loggers in any order, with a log file that may not open.
SPECIFICATION Spec
CONSTANTS
  Callers = {t1, t2}
  Calls <- MCCalls
  NoName = NoName
  Loggers <- MCLoggers
  Noisy = {"asyncpg"}
  Silenced = {"asyncpg"}
  Ids = {i1, i2}
  NoId = NoId
  Deployments <- MCDeployments
  Nobody = Nobody
  MaxFailures = 1
INVARIANTS TypeOK ReadyMeansConfigured LevelsAreKept
PROPERTIES EveryCallIsAnswered

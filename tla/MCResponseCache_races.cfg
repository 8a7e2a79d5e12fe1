\* A GET and two mutations of two resources on Redis, every failure.
SPECIFICATION Spec
CONSTANTS
  x = x  y = y  kx = kx  ky = ky  list = list  page1 = page1  page2 = page2
  Readers = {g1}
  Writers = {w1, w2}
  Resources = {x, y}
  Keys = {kx, ky, list, page1, page2}
  OwnKey <- MCOwnKey
  ArgExtras <- MCArgExtras
  LiteralExtras <- MCLiteralExtras
  PatternKeys <- MCPatternKeys
  Backend = "redis"
  Failures = {"backend", "handler", "route", "crash"}
  Nothing = Nothing
CHECK_DEADLOCK FALSE
INVARIANTS TypeOK NothingOlderIsLeft
PROPERTIES CacheSelfHeals

\* A GET and a mutation that names the list by a literal id, without any failure.
SPECIFICATION Spec
CONSTANTS
  x = x  y = y  kx = kx  ky = ky  list = list  page1 = page1  page2 = page2
  Readers = {g1}
  Writers = {w1}
  Resources = {y}
  Keys = {ky, list, page1, page2}
  OwnKey <- MCOwnKey
  ArgExtras <- MCArgExtras
  LiteralExtras <- MCLiteralExtras
  PatternKeys <- MCPatternKeys
  Backend = "redis"
  Failures = {}
  Nothing = Nothing
CHECK_DEADLOCK FALSE
INVARIANTS LiteralIdsAreInvalidated

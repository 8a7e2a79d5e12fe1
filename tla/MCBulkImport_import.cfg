\* Two imports of any two files, with empty and unreadable lines; d2 is too long to store.
SPECIFICATION Spec
CONSTANTS
  d1 = d1  d2 = d2
  Imports = {i1, i2}
  Domains = {d1, d2}
  NoDomain = NoDomain
  LongDomains = {d2}
  Files <- AllFiles
  Unreadable = Unreadable
  Garbled = Garbled
  NoCompany = NoCompany
  Failures = {"crash", "connection"}
INVARIANTS TypeOK RowsResolveToTheirCompany ReportIsTrue TolerantUntilSpoilt
PROPERTIES EveryImportEnds
CHECK_DEADLOCK FALSE

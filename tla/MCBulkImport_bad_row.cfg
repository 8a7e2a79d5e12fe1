\* One import of a mixed file, no failure of the infrastructure.
SPECIFICATION Spec
CONSTANTS
  d1 = d1  d2 = d2
  Imports = {i1}
  Domains = {d1, d2}
  NoDomain = NoDomain
  LongDomains = {d2}
  Files <- MixedFiles
  Unreadable = Unreadable
  Garbled = Garbled
  NoCompany = NoCompany
  Failures = {}
CHECK_DEADLOCK FALSE
INVARIANTS BadRowIsNoReasonToReject

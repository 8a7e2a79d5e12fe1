\* Scoring of boundary contacts under profiles of every shape.
SPECIFICATION Spec
CONSTANTS
  a = a  b = b
  Ids = {1, 2}
  ProfilesOf <- MCProfilesOf
  Contacts <- MCContacts
  NoValue = NoValue
  Texts = {a, b}
INVARIANTS ScoreIsThePercentage UnconfiguredIsNeutral MoreMatchesScoreNoLess

SPECIFICATION Spec
CONSTANTS
  c1 = c1
  c2 = c2
  c3 = c3
  Calls = {c1, c2, c3}
  Nobody = Nobody
  Ttl = 2
  OddReplies = {"unusable", "null"}
  MaxVersion = 2
  MaxClock = 3
SYMMETRY CallSymmetry
INVARIANTS TypeOK LockAccounted NoRedundantFetch RefreshSeesLatest
PROPERTIES VersionsAdvance AnsweredAtOnce

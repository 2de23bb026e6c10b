SPECIFICATION Spec
CONSTANTS
  c1 = c1
  c2 = c2
  c3 = c3
  Calls = {c1, c2, c3}
  Fields = {"name", "email"}
  Values = {1, 2}
  Unique = {"email"}
  NoRequest = NoRequest
  MaxId = 4
  MaxCrashes = 1
  Tokens = {"/", "localhost", ":1", "employees"}
  Requests <- GateRequests
  Environments <- GateEnvironments
  DefaultBases <- DefaultAllowlist
  InitialRows <- OneRow
SYMMETRY CallSymmetry
INVARIANTS TypeOK SentOnlyToAllowed DeletedForGood
PROPERTIES ReadOnlyUnlessAllowed AppliedAtomically

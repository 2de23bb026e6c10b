SPECIFICATION Spec
CONSTANTS
  c1 = c1
  c2 = c2
  c3 = c3
  Calls = {c1, c2}
  Fields = {"name", "email"}
  Values = {1, 2}
  Unique = {"email"}
  NoRequest = NoRequest
  MaxId = 2
  MaxCrashes = 0
  Tokens = {"/", "localhost", ":1", "employees"}
  Requests <- PartialRequests
  Environments <- OpenEnvironments
  DefaultBases <- DefaultAllowlist
  InitialRows <- OneRow
PROPERTIES OmittedFieldsKept

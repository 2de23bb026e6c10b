SPECIFICATION Spec
CONSTANTS
  c1 = c1
  c2 = c2
  c3 = c3
  Calls = {c1, c2}
  Requests <- AllRequests
  NoPool = NoPool
  NoExport = NoExport
  Names <- MCNames
  Unnamed = ""
  Lower <- MCLower
  TableAllowlist <- MCAllowlist
  EmployeesView = "emp"
  OrdersView = "ord"
  RowCap = 3
  InlineRowThreshold = 1
  MaxPlanCost = 10
  MaxSize = 1
  Matches = {0, 1, 2, 3, 4, 5}
  Columns = 2
  Costs = {10, 11}
  DiskFaults = TRUE
  MaxCrashes = 1
SYMMETRY CallSymmetry
INVARIANTS TypeOK AuditedOnce AuditMatchesReply StatementsVetted ExportIntact ResultBounded TruncatedIffMore
PROPERTIES AnsweredAtomically

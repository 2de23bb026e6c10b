SPECIFICATION Spec
CONSTANTS
  c1 = c1
  c2 = c2
  c3 = c3
  Calls = {c1}
  Requests <- OpaqueRequests
  NoPool = NoPool
  NoExport = NoExport
  Names <- MCNames
  Unnamed = ""
  Lower <- MCLower
  TableAllowlist <- MCAllowlist
  EmployeesView = "emp"
  OrdersView = "ord"
  RowCap = 3
  InlineRowThreshold = 1
  MaxPlanCost = 10
  MaxSize = 1
  Matches = {3}
  Columns = 2
  Costs = {10, 11}
  DiskFaults = FALSE
  MaxCrashes = 0
INVARIANTS SmallerLimitKept

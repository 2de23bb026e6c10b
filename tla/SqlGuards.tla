------------------------------ MODULE SqlGuards ------------------------------
(***************************************************************************)
(* The guardrails of mcp-analytics that are functions of their input: the  *)
(* SQL validator (validator.py), the LIMIT cap and the plan budget         *)
(* (guardrails.py), and the trimming and shaping of a result (pipeline.py, *)
(* pagination.py).  Nothing here has state: AnalyticsServer calls these    *)
(* operators from its actions.                                             *)
(*                                                                         *)
(* SQL text is represented by what the parser makes of it.  Rows are       *)
(* represented by their number: no guardrail looks at a value.             *)
(***************************************************************************)
EXTENDS Integers, Sequences, FiniteSets

CONSTANTS
  Names,              \* table and view names, as they may be spelled
  Unnamed,            \* the empty name of a table function in a FROM clause
  Lower,              \* str.lower on Names
  TableAllowlist,     \* settings.table_allowlist
  RowCap,             \* settings.row_cap
  InlineRowThreshold, \* settings.inline_row_threshold
  MaxPlanCost         \* settings.max_plan_cost

\* str.lower leaves the empty name empty and leaves a lowered name alone.
ASSUME NamesAssumption ==
  /\ Unnamed \in Names
  /\ Lower \in [Names -> Names]
  /\ \A n \in Names : Lower[Lower[n]] = Lower[n]
  /\ \A n \in Names : Lower[n] = Unnamed <=> n = Unnamed
  /\ TableAllowlist \subseteq Names

\* The settings are plain integers (a cost is a float: only its order counts).
\* Nothing in config.py keeps them positive.
ASSUME SettingsAssumption ==
  /\ RowCap \in Int
  /\ InlineRowThreshold \in Int
  /\ MaxPlanCost \in Int
-----------------------------------------------------------------------------
(***************************************************************************)
(* The outermost LIMIT of a statement: absent, an integer literal, or      *)
(* anything else that bounds the rows by n when the database evaluates it  *)
(* (an expression, a parameter, FETCH FIRST n ROWS).                       *)
(***************************************************************************)
NoLimit  == [kind |-> "none", n |-> 0]
LimitType == [kind : {"none", "literal", "opaque"}, n : Nat]

\* Node types validator.py refuses anywhere in a statement.
ForbiddenNodes == {"Insert", "Update", "Delete", "Merge", "Create", "Drop",
                   "Alter", "TruncateTable", "Command"}

\* The types a statement may have at its root.
QueryRoots == {"Select", "Subquery", "Union"}

\* What sqlglot returns for an input that holds only a comment.
NoTree == [root |-> "None", nodes |-> {}, tables |-> {}, limit |-> NoLimit]

\* One parsed statement: its root, the forbidden node types found in it, the
\* tables it names (CTE names included: sqlglot parses them as tables too).
StatementType ==
  [root : QueryRoots \cup ForbiddenNodes \cup {"None"},
   nodes : SUBSET ForbiddenNodes, tables : SUBSET Names, limit : LimitType]

\* An SQL text: whether it is blank or fails to parse, else its statements.
TextType ==
  [parse : {"ok", "blank", "parse_error", "token_error"}, stmts : Seq(StatementType)]

\* The text of a curated query over the given views: one SELECT, no LIMIT.
Template(views) ==
  [parse |-> "ok",
   stmts |-> << [root |-> "Select", nodes |-> {}, tables |-> views, limit |-> NoLimit] >>]
-----------------------------------------------------------------------------
allowlist_set == {Lower[t] : t \in TableAllowlist}

\* A faulty variant: only the root of the statement is looked at.
ValidateRootOnly(text, allowlist) ==
  /\ text.parse = "ok"
  /\ Len(text.stmts) = 1
  /\ text.stmts[1].root \in QueryRoots

\* Whether validate_select returns the tree (TRUE) or raises (FALSE).  A text
\* with a token error raises an exception of another class: still a failure.
validate_select(text, allowlist) ==
  /\ text.parse = "ok"
  /\ Len(text.stmts) = 1
  /\ LET tree == text.stmts[1] IN
       /\ tree.root \in QueryRoots
       /\ tree.nodes \cap ForbiddenNodes = {}
       /\ \A t \in tree.tables \ {Unnamed} : Lower[t] \in {Lower[a] : a \in allowlist}

\* The LIMIT of the statement that is sent.  Only a literal that is small enough
\* survives; everything else is replaced by the cap.
ensure_limit(limit, max_rows) ==
  IF limit.kind = "literal" /\ limit.n <= max_rows
  THEN limit
  ELSE [kind |-> "literal", n |-> max_rows]

\* ensure_limit raises when the cap is not positive.
CapUsable(max_rows) == max_rows > 0

NoCost == -1   \* EXPLAIN has not returned, or its output names no total cost

\* Whether extract_plan_total_cost returns: whatever EXPLAIN sent, a list or JSON
\* text, comes down to a cost or to an exception.
CostReadable(cost) == cost # NoCost

\* Whether assert_plan_within_budget returns.
WithinBudget(cost) == cost <= MaxPlanCost

Smaller(a, b) == IF a <= b THEN a ELSE b

\* The rows the database returns for a statement with an evaluated LIMIT, out of
\* the rows that match its WHERE clause.
RowsReturned(limit, matching) ==
  IF limit.kind = "none" THEN matching ELSE Smaller(limit.n, matching)
-----------------------------------------------------------------------------
\* len(rows) after rows[:row_cap], and the flag that says rows were dropped.
TrimmedCount(returned) == Smaller(returned, RowCap)

Truncated(returned) == returned > RowCap

\* Whether the large-result path of run_pipeline writes a CSV.
NeedsExport(row_count) == row_count > InlineRowThreshold

\* A faulty variant: rows stay in the result beside the summary.
AllRowsInline(row_count) == row_count

\* The number of rows build_result leaves inline.
InlineRows(row_count) == IF row_count <= InlineRowThreshold THEN row_count ELSE 0

=============================================================================

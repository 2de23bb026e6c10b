-------------------------- MODULE MCAnalyticsServer --------------------------
(***************************************************************************)
(* Instances of AnalyticsServer for TLC: the texts, names and requests     *)
(* that take every branch of the guardrails.                               *)
(***************************************************************************)
EXTENDS AnalyticsServer, TLC

CONSTANTS c1, c2, c3   \* calls

\* "Emp" is another spelling of the allowlisted "emp"; "raw" is not allowlisted.
MCNames == {"emp", "Emp", "ord", "raw", ""}
MCLower == [n \in MCNames |-> IF n = "Emp" THEN "emp" ELSE n]
MCAllowlist == {"emp", "ord"}

Select(tables, limit) ==
  [root |-> "Select", nodes |-> {}, tables |-> tables, limit |-> limit]
Text(stmts) == [parse |-> "ok", stmts |-> stmts]

Literal(n) == [kind |-> "literal", n |-> n]
Opaque(n) == [kind |-> "opaque", n |-> n]

\* Texts the validator accepts: each kind of LIMIT, a name in another spelling, a
\* table function.
GoodTexts ==
  { Text(<<Select({"Emp", ""}, NoLimit)>>),
    Text(<<Select({"emp"}, Literal(0))>>),
    Text(<<Select({"emp"}, Literal(2))>>),
    Text(<<Select({"emp"}, Literal(4))>>),
    Text(<<Select({"emp"}, Literal(5))>>) }

OpaqueText == Text(<<Select({"emp"}, Opaque(2))>>)

\* Texts it refuses, one for each check.
BadTexts ==
  { BlankText,
    [parse |-> "token_error", stmts |-> << >>],
    Text(<<NoTree>>),
    Text(<<Select({"emp"}, NoLimit), Select({"ord"}, NoLimit)>>),
    Text(<<[Select({"emp"}, NoLimit) EXCEPT !.root = "Delete", !.nodes = {"Delete"}]>>),
    Text(<<[Select({"emp"}, NoLimit) EXCEPT !.nodes = {"Update"}]>>),
    Text(<<Select({"emp", "raw"}, NoLimit)>>) }

Ask(tool) == [NoRequest EXCEPT !.tool = tool]
Query(text) == [Ask("run_query") EXCEPT !.sql = text]
On(tool, name) == [Ask(tool) EXCEPT !.name = name]
Export(id) == [Ask("export_csv") EXCEPT !.export = id]

\* Every tool, every way a request can be refused.
ToolRequests ==
  {Ask(t) : t \in {"list_tables", "recent_employees", "inactive_users"}}
    \cup {On(t, n) : t \in {"describe_table", "get_row_count"}, n \in {"emp", "Emp", "raw"}}
    \cup {Query(text) : text \in BadTexts}

\* Every LIMIT, and the exports of what they produce.
LimitRequests == {Query(text) : text \in GoodTexts}
                   \cup {Export(id) : id \in Calls \cup {NoExport}}

AllRequests == ToolRequests \cup LimitRequests

\* Requests for three calls that compete for the pool.
PoolRequests == {Ask("orders_by_status"), On("describe_table", "emp")}

OpaqueRequests == {Query(OpaqueText)}
AuditRequests == {Ask("list_tables"), Ask("orders_by_status"), Export(NoExport)}

CallSymmetry == Permutations(Calls)
=============================================================================

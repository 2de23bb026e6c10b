--------------------------- MODULE AnalyticsServer ---------------------------
(***************************************************************************)
(* The mcp-analytics server: tool calls running as asyncio tasks of one    *)
(* process, the lazily created asyncpg pool they share, the four-layer     *)
(* query pipeline, the CSV exports and the audit log.                      *)
(*                                                                         *)
(* An action is the code between two awaits: nothing else runs in between. *)
(* A call waits in one of five places: for create_pool ("connect"), for a  *)
(* connection ("explain_wait", "fetch_wait") and for the database          *)
(* ("explain", "fetch").  There it may be cancelled by the client, and the *)
(* process may die.  Files survive the process: the audit log and the      *)
(* exports.  Each element of Calls is used for one tool call.              *)
(***************************************************************************)
EXTENDS SqlGuards

CONSTANTS
  Calls,          \* tool calls; a pool and an export are named by the call that made it
  Requests,       \* what a call may ask for
  NoPool,         \* self.pool is None, or the call uses no pool
  NoExport,       \* no export id, or an id nobody was given
  EmployeesView,  \* the view recent_employees reads
  OrdersView,     \* the view orders_by_status and inactive_users read
  MaxSize,        \* max_size of a pool
  Matches,        \* how many rows may match a statement
  Columns,        \* how many columns an allowlisted view has
  Costs,          \* total costs EXPLAIN may report
  DiskFaults,     \* whether writing a file may fail
  MaxCrashes      \* bound on the deaths of the process

Tools == {"list_tables", "export_csv", "describe_table", "get_row_count",
          "recent_employees", "orders_by_status", "inactive_users", "run_query"}

RequestType ==
  [tool : Tools, name : Names, sql : TextType, export : Calls \cup {NoExport}]

ASSUME ServerAssumption ==
  /\ NoPool \notin Calls
  /\ NoExport \notin Calls
  /\ Requests \subseteq RequestType
  /\ {EmployeesView, OrdersView} \subseteq Names
  /\ MaxSize \in Nat \ {0}
  /\ Matches \subseteq Nat
  /\ Columns \in Nat
  /\ Costs \subseteq Nat
  /\ DiskFaults \in BOOLEAN
  /\ MaxCrashes \in Nat

VARIABLES
  pc,        \* where each call is
  req,       \* what each call asks for
  at,        \* the pool a call waits on or holds a connection of
  cost,      \* local of run_pipeline: the cost EXPLAIN reported
  reply,     \* what each call answered
  matching,  \* history: the rows that matched when the database ran the statement
  connected, \* server._connected
  pool,      \* db.pool
  open,      \* the pools that exist in this process
  holders,   \* the calls that hold a connection of each pool
  audit,     \* the lines of queries.jsonl
  exports,   \* the CSV files, by the call that wrote them
  crashes    \* deaths of the process so far

callVars == <<req, matching>>
poolVars == <<connected, pool, open>>
vars == <<pc, req, at, cost, reply, matching, connected, pool, open, holders,
          audit, exports, crashes>>
-----------------------------------------------------------------------------
NoCount == -1   \* row_count=None

BlankText == [parse |-> "blank", stmts |-> << >>]
NoRequest == [tool |-> "list_tables", name |-> Unnamed, sql |-> BlankText, export |-> NoExport]

NoReply == [kind |-> "none", row_count |-> 0, truncated |-> FALSE, inline |-> 0,
            export |-> NoExport]
Plain(kind) == [NoReply EXCEPT !.kind = kind]

ReplyType ==
  [kind : {"none", "tables", "path", "no_export", "result", "error", "cancelled"},
   row_count : Nat, truncated : BOOLEAN, inline : Nat, export : Calls \cup {NoExport}]

\* A line of the audit log, with the fields the properties are about.  The log
\* leaves a None out; here an absent truncated is FALSE.
Line(c, n, trunc, err) ==
  [call |-> c, row_count |-> n, truncated |-> trunc, error |-> err]
LineType ==
  [call : Calls, row_count : Nat \cup {NoCount}, truncated : BOOLEAN, error : BOOLEAN]

\* write_csv opens the file, then writes row by row.
ExportState == {"none", "partial", "complete"}
-----------------------------------------------------------------------------
(***************************************************************************)
(* What a request comes down to.                                           *)
(***************************************************************************)
PipelineTools == {"get_row_count", "recent_employees", "orders_by_status",
                  "inactive_users", "run_query"}
DatabaseTools == PipelineTools \cup {"describe_table"}

\* The SQL text a tool hands to run_pipeline.
SqlOf(r) ==
  CASE r.tool = "run_query"        -> r.sql
    [] r.tool = "get_row_count"    -> Template({r.name})
    [] r.tool = "recent_employees" -> Template({EmployeesView})
    [] OTHER                       -> Template({OrdersView})

\* The name check of describe_table and get_row_count, before anything is audited.
NameRefused(r) ==
  /\ r.tool \in {"describe_table", "get_row_count"}
  /\ Lower[r.name] \notin allowlist_set

\* Whether run_pipeline gets past its two checks of the text.
TextAccepted(r) ==
  /\ validate_select(SqlOf(r), allowlist_set)
  /\ CapUsable(RowCap + 1)

\* A faulty variant: LIMIT row_cap, with no row to spare.
LimitAtCap(r) == ensure_limit(SqlOf(r).stmts[1].limit, RowCap)

\* The LIMIT of the statement run_pipeline sends.
SentLimit(r) == ensure_limit(SqlOf(r).stmts[1].limit, RowCap + 1)

\* The rows that may match a request's statement.  COUNT(*) yields one row.  The
\* catalog spells names in lower case, and describe_table asks for the name as given.
Matching(r) ==
  CASE r.tool = "get_row_count"  -> {1}
    [] r.tool = "describe_table" -> {IF r.name = Lower[r.name] THEN Columns ELSE 0}
    [] OTHER                     -> Matches
-----------------------------------------------------------------------------
(***************************************************************************)
(* Steps that several actions share.                                       *)
(***************************************************************************)
\* The call returns or raises; its locals are gone.
Answer(c, rep) ==
  /\ pc' = [pc EXCEPT ![c] = "done"]
  /\ reply' = [reply EXCEPT ![c] = rep]
  /\ at' = [at EXCEPT ![c] = NoPool]
  /\ cost' = [cost EXCEPT ![c] = NoCost]

\* A faulty variant: a failed audit write is ignored.
AuditBestEffort(c, rep, line) ==
  /\ audit' \in {Append(audit, line), audit}
  /\ Answer(c, rep)

\* A faulty variant: the log is opened for writing, not for appending.
AuditOverwrites(c, rep, line) ==
  /\ audit' = <<line>>
  /\ Answer(c, rep)

\* audit.record, then the answer.  When the write fails its exception replaces
\* the answer (a cancelled request was answered when it was cancelled).
AuditAndAnswer(c, rep, line) ==
  \/ /\ audit' = Append(audit, line)
     /\ Answer(c, rep)
  \/ /\ DiskFaults
     /\ UNCHANGED audit
     /\ Answer(c, IF rep.kind = "cancelled" THEN rep ELSE Plain("error"))

\* A faulty variant: the connection stays with the call.
KeepConnection(c) == UNCHANGED holders

\* The connection the call holds goes back to its pool.
Release(c) == holders' = [p \in Calls |-> holders[p] \ {c}]

WaitFor(c, place, p) ==
  /\ pc' = [pc EXCEPT ![c] = place]
  /\ at' = [at EXCEPT ![c] = p]

\* The body of a database tool from the return of _ensure_db to its first await,
\* with p the value of db.pool.
Start(c, r, p) ==
  \/ /\ NameRefused(r)
     /\ Answer(c, Plain("error"))
     /\ UNCHANGED audit
  \/ /\ ~NameRefused(r)
     /\ r.tool = "describe_table"
     /\ WaitFor(c, "fetch_wait", p)
     /\ UNCHANGED <<reply, cost, audit>>
  \/ /\ ~NameRefused(r)
     /\ r.tool \in PipelineTools
     /\ ~TextAccepted(r)
     /\ AuditAndAnswer(c, Plain("error"), Line(c, NoCount, FALSE, TRUE))
  \/ /\ ~NameRefused(r)
     /\ r.tool \in PipelineTools
     /\ TextAccepted(r)
     /\ WaitFor(c, "explain_wait", p)
     /\ UNCHANGED <<reply, cost, audit>>
-----------------------------------------------------------------------------
Init ==
  /\ pc = [c \in Calls |-> "idle"]
  /\ req = [c \in Calls |-> NoRequest]
  /\ at = [c \in Calls |-> NoPool]
  /\ cost = [c \in Calls |-> NoCost]
  /\ reply = [c \in Calls |-> NoReply]
  /\ matching = [c \in Calls |-> 0]
  /\ connected = FALSE
  /\ pool = NoPool
  /\ open = {}
  /\ holders = [p \in Calls |-> {}]
  /\ audit = << >>
  /\ exports = [c \in Calls |-> "none"]
  /\ crashes = 0

\* list_tables: no await, no audit line.
ListTables(c, r) ==
  /\ pc[c] = "idle"
  /\ r.tool = "list_tables"
  /\ req' = [req EXCEPT ![c] = r]
  /\ Answer(c, Plain("tables"))
  /\ UNCHANGED <<matching, poolVars, holders, audit, exports, crashes>>

\* Whether resolve_export_path finds a file for the id: it only asks whether there is
\* one of that name.
ExportFound(id) == id # NoExport /\ exports[id] # "none"

\* export_csv: no await, no audit line.  A client can only know the ids it was
\* given; any other id finds no file.
ExportCsv(c, r) ==
  /\ pc[c] = "idle"
  /\ r.tool = "export_csv"
  /\ r.export # NoExport => \E d \in Calls : reply[d].export = r.export
  /\ req' = [req EXCEPT ![c] = r]
  /\ Answer(c, Plain(IF ExportFound(r.export) THEN "path" ELSE "no_export"))
  /\ UNCHANGED <<matching, poolVars, holders, audit, exports, crashes>>
-----------------------------------------------------------------------------
\* A faulty variant: every call creates a pool of its own.
AlwaysConnect == TRUE

\* Whether _ensure_db and DB.connect come to create_pool.
MustConnect == ~connected /\ pool = NoPool

\* A database tool called when there is a pool: _ensure_db does not wait.
CallTool(c, r) ==
  /\ pc[c] = "idle"
  /\ r.tool \in DatabaseTools
  /\ ~MustConnect
  /\ req' = [req EXCEPT ![c] = r]
  /\ connected' = TRUE
  /\ Start(c, r, pool)
  /\ UNCHANGED <<matching, pool, open, holders, exports, crashes>>

\* A faulty variant: the flag is set before the pool is there.
CallToolFlagFirst(c, r) ==
  /\ pc[c] = "idle"
  /\ r.tool \in DatabaseTools
  /\ MustConnect
  /\ req' = [req EXCEPT ![c] = r]
  /\ WaitFor(c, "connect", NoPool)
  /\ connected' = TRUE
  /\ UNCHANGED <<cost, reply, matching, pool, open, holders, audit, exports, crashes>>

\* A database tool called when there is none: it waits for create_pool.
CallToolFirst(c, r) ==
  /\ pc[c] = "idle"
  /\ r.tool \in DatabaseTools
  /\ MustConnect
  /\ req' = [req EXCEPT ![c] = r]
  /\ WaitFor(c, "connect", NoPool)
  /\ UNCHANGED <<cost, reply, matching, poolVars, holders, audit, exports, crashes>>

\* create_pool returns: the new pool becomes db.pool, whatever was there.
Connected(c) ==
  /\ pc[c] = "connect"
  /\ open' = open \cup {c}
  /\ pool' = c
  /\ connected' = TRUE
  /\ Start(c, req[c], c)
  /\ UNCHANGED <<callVars, holders, exports, crashes>>

\* create_pool raises: the tool fails before run_pipeline, so nothing is audited.
ConnectFails(c) ==
  /\ pc[c] = "connect"
  /\ Answer(c, Plain("error"))
  /\ UNCHANGED <<callVars, poolVars, holders, audit, exports, crashes>>
-----------------------------------------------------------------------------
\* The pool a call waits on has a connection to give.
CanAcquire(c) ==
  /\ pc[c] \in {"explain_wait", "fetch_wait"}
  /\ at[c] \in open
  /\ Cardinality(holders[at[c]]) < MaxSize

\* A free connection of the pool is handed to a waiting call.
Acquire(c) ==
  /\ CanAcquire(c)
  /\ holders' = [holders EXCEPT ![at[c]] = @ \cup {c}]
  /\ pc' = [pc EXCEPT ![c] = IF pc[c] = "explain_wait" THEN "explain" ELSE "fetch"]
  /\ UNCHANGED <<callVars, at, cost, reply, poolVars, audit, exports, crashes>>

\* EXPLAIN returns with cost k, or with output that has none.  A plan within budget is
\* fetched over a connection of its own, from the pool db.pool is by now.
ExplainReturns(c, k) ==
  /\ pc[c] = "explain"
  /\ Release(c)
  /\ \/ /\ CostReadable(k) /\ WithinBudget(k)
        /\ WaitFor(c, "fetch_wait", pool)
        /\ cost' = [cost EXCEPT ![c] = k]
        /\ UNCHANGED <<reply, audit>>
     \/ /\ ~CostReadable(k) \/ ~WithinBudget(k)
        /\ AuditAndAnswer(c, Plain("error"), Line(c, NoCount, FALSE, TRUE))
  /\ UNCHANGED <<callVars, poolVars, exports, crashes>>

\* The result of a pipeline call for n rows and the line that reports it.
ResultOf(c, n) ==
  [kind |-> "result", row_count |-> TrimmedCount(n), truncated |-> Truncated(n),
   inline |-> InlineRows(TrimmedCount(n)),
   export |-> IF NeedsExport(TrimmedCount(n)) THEN c ELSE NoExport]

\* A faulty variant: a failed write_csv is swallowed and the result returned.
CsvErrorSwallowed(c, n) ==
  \/ /\ ~NeedsExport(TrimmedCount(n))
     /\ UNCHANGED exports
     /\ AuditAndAnswer(c, ResultOf(c, n), Line(c, TrimmedCount(n), Truncated(n), FALSE))
  \/ /\ NeedsExport(TrimmedCount(n))
     /\ exports' \in {[exports EXCEPT ![c] = file] : file \in ExportState}
     /\ AuditAndAnswer(c, ResultOf(c, n), Line(c, TrimmedCount(n), Truncated(n), FALSE))

\* A faulty variant: a failed write_csv is not noted in the audit line.
CsvErrorUnlogged(c, n) ==
  \/ /\ ~NeedsExport(TrimmedCount(n))
     /\ UNCHANGED exports
     /\ AuditAndAnswer(c, ResultOf(c, n), Line(c, TrimmedCount(n), Truncated(n), FALSE))
  \/ /\ NeedsExport(TrimmedCount(n))
     /\ exports' \in {[exports EXCEPT ![c] = file] : file \in {"none", "partial"}}
     /\ AuditAndAnswer(c, Plain("error"), Line(c, TrimmedCount(n), Truncated(n), FALSE))

\* The end of run_pipeline once n rows are there: the CSV if it takes one, which
\* may fail and leave nothing or a part of the file, then the audit line.
Finish(c, n) ==
  \/ /\ ~NeedsExport(TrimmedCount(n))
     /\ UNCHANGED exports
     /\ AuditAndAnswer(c, ResultOf(c, n), Line(c, TrimmedCount(n), Truncated(n), FALSE))
  \/ /\ NeedsExport(TrimmedCount(n))
     /\ exports' = [exports EXCEPT ![c] = "complete"]
     /\ AuditAndAnswer(c, ResultOf(c, n), Line(c, TrimmedCount(n), Truncated(n), FALSE))
  \/ /\ NeedsExport(TrimmedCount(n))
     /\ DiskFaults
     /\ exports' \in {[exports EXCEPT ![c] = file] : file \in {"none", "partial"}}
     /\ AuditAndAnswer(c, Plain("error"), Line(c, TrimmedCount(n), Truncated(n), TRUE))

\* The statement of a pipeline call returns, m rows having matched.
FetchReturns(c, m) ==
  /\ pc[c] = "fetch"
  /\ req[c].tool \in PipelineTools
  /\ Release(c)
  /\ matching' = [matching EXCEPT ![c] = m]
  /\ Finish(c, RowsReturned(SentLimit(req[c]), m))
  /\ UNCHANGED <<req, poolVars, crashes>>

\* A faulty variant: the result of the catalog query has no row count.
DescribeUncounted(c, m) ==
  /\ pc[c] = "fetch"
  /\ req[c].tool = "describe_table"
  /\ Release(c)
  /\ matching' = [matching EXCEPT ![c] = m]
  /\ AuditAndAnswer(c, [Plain("result") EXCEPT !.row_count = NoCount, !.inline = m],
                    Line(c, m, FALSE, FALSE))
  /\ UNCHANGED <<req, poolVars, exports, crashes>>

\* The catalog query of describe_table returns: every row goes inline.
DescribeReturns(c, m) ==
  /\ pc[c] = "fetch"
  /\ req[c].tool = "describe_table"
  /\ Release(c)
  /\ matching' = [matching EXCEPT ![c] = m]
  /\ AuditAndAnswer(c, [Plain("result") EXCEPT !.row_count = m, !.inline = m],
                    Line(c, m, FALSE, FALSE))
  /\ UNCHANGED <<req, poolVars, exports, crashes>>

\* Acquiring, EXPLAIN or the statement raises: a connection that cannot be opened, a
\* timeout, an error of the server.  Waiting for a pool that has nothing to give has
\* no timeout, so it cannot fail.
QueryFails(c) ==
  /\ CanAcquire(c) \/ pc[c] \in {"explain", "fetch"}
  /\ Release(c)
  /\ AuditAndAnswer(c, Plain("error"), Line(c, NoCount, FALSE, TRUE))
  /\ UNCHANGED <<callVars, poolVars, exports, crashes>>
-----------------------------------------------------------------------------
\* A faulty variant: cancelling neither releases the connection nor audits.
CancelLeaks(c) ==
  /\ pc[c] \in {"connect", "explain_wait", "explain", "fetch_wait", "fetch"}
  /\ UNCHANGED <<holders, audit>>
  /\ Answer(c, Plain("cancelled"))
  /\ UNCHANGED <<callVars, poolVars, exports, crashes>>

\* The client cancels the call at an await.  run_pipeline's finally clause still
\* writes a line, with neither a row count nor an error; describe_table's
\* "except Exception" does not see a cancellation.
Cancel(c) ==
  /\ pc[c] \in {"connect", "explain_wait", "explain", "fetch_wait", "fetch"}
  /\ Release(c)
  /\ IF pc[c] = "connect" \/ req[c].tool = "describe_table"
     THEN Answer(c, Plain("cancelled")) /\ UNCHANGED audit
     ELSE AuditAndAnswer(c, Plain("cancelled"), Line(c, NoCount, FALSE, FALSE))
  /\ UNCHANGED <<callVars, poolVars, exports, crashes>>

\* The process dies and is started again: the calls in flight are never answered,
\* the pools and their connections are gone, the files stay.
Die ==
  /\ crashes < MaxCrashes
  /\ crashes' = crashes + 1
  /\ pc' = [c \in Calls |-> IF pc[c] \in {"idle", "done"} THEN pc[c] ELSE "lost"]
  /\ at' = [c \in Calls |-> NoPool]
  /\ cost' = [c \in Calls |-> NoCost]
  /\ connected' = FALSE
  /\ pool' = NoPool
  /\ open' = {}
  /\ holders' = [p \in Calls |-> {}]
  /\ UNCHANGED <<callVars, reply>>

\* It dies while every call waits.
Crash == Die /\ UNCHANGED <<audit, exports>>

\* It dies in the end of run_pipeline, after a part of it took effect: some or all
\* of the CSV; the CSV, or none or a part of it where it failed, and the audit line.
CrashFinishing(c, m) ==
  /\ pc[c] = "fetch"
  /\ req[c].tool \in PipelineTools
  /\ LET n == RowsReturned(SentLimit(req[c]), m) IN
       \/ /\ NeedsExport(TrimmedCount(n))
          /\ exports' \in {[exports EXCEPT ![c] = file] : file \in {"partial", "complete"}}
          /\ UNCHANGED audit
       \/ /\ exports' = [exports EXCEPT ![c] = IF NeedsExport(TrimmedCount(n))
                                                THEN "complete" ELSE @]
          /\ audit' = Append(audit, Line(c, TrimmedCount(n), Truncated(n), FALSE))
       \/ /\ NeedsExport(TrimmedCount(n))
          /\ DiskFaults
          /\ exports' \in {[exports EXCEPT ![c] = file] : file \in {"none", "partial"}}
          /\ audit' = Append(audit, Line(c, TrimmedCount(n), Truncated(n), TRUE))
  /\ Die

\* It dies between the line and the answer of a call whose query failed or whose plan
\* was refused, or of a describe_table with m rows.
CrashReporting(c, m) ==
  /\ \/ /\ pc[c] \in {"explain", "fetch"}
        /\ audit' = Append(audit, Line(c, NoCount, FALSE, TRUE))
     \/ /\ pc[c] = "fetch" /\ req[c].tool = "describe_table"
        /\ audit' = Append(audit, Line(c, m, FALSE, FALSE))
  /\ UNCHANGED exports
  /\ Die
-----------------------------------------------------------------------------
\* Every call has ended: nothing more happens.
Quiet == (\A c \in Calls : pc[c] \in {"done", "lost"}) /\ UNCHANGED vars

\* The steps of a call that do not depend on the client.
Progress(c) ==
  \/ Connected(c)
  \/ ConnectFails(c)
  \/ Acquire(c)
  \/ \E k \in Costs \cup {NoCost} : ExplainReturns(c, k)
  \/ \E m \in Matching(req[c]) : FetchReturns(c, m) \/ DescribeReturns(c, m)
  \/ QueryFails(c)

Next ==
  \/ \E c \in Calls, r \in Requests :
       ListTables(c, r) \/ ExportCsv(c, r) \/ CallTool(c, r) \/ CallToolFirst(c, r)
  \/ \E c \in Calls : Progress(c) \/ Cancel(c)
  \/ Crash
  \/ \E c \in Calls : \E m \in Matching(req[c]) : CrashFinishing(c, m) \/ CrashReporting(c, m)
  \/ Quiet

Spec == Init /\ [][Next]_vars

\* create_pool, EXPLAIN and the statement end by themselves (connection and
\* statement timeouts), and a pool serves a waiting call when it has a free
\* connection.  No client and no crash is ever required to act.
Fairness == \A c \in Calls : WF_vars(Progress(c))

FairSpec == Spec /\ Fairness
-----------------------------------------------------------------------------
(***************************************************************************)
(* Properties.                                                             *)
(***************************************************************************)
Waiting == {"explain_wait", "fetch_wait"}
Running == {"explain", "fetch"}
InFlight == {"connect"} \cup Waiting \cup Running

\* The variables have the types of the fields and locals they stand for.
TypeOK ==
  /\ pc \in [Calls -> {"idle", "done", "lost"} \cup InFlight]
  /\ req \in [Calls -> RequestType]
  /\ at \in [Calls -> Calls \cup {NoPool}]
  /\ cost \in [Calls -> Nat \cup {NoCost}]
  /\ reply \in [Calls -> ReplyType]
  /\ matching \in [Calls -> Nat]
  /\ connected \in BOOLEAN
  /\ pool \in Calls \cup {NoPool}
  /\ open \subseteq Calls
  /\ holders \in [Calls -> SUBSET Calls]
  /\ audit \in Seq(LineType)
  /\ exports \in [Calls -> ExportState]
  /\ crashes \in Nat

\* A connection is held exactly while its call runs EXPLAIN or its statement, and
\* only of a pool that exists: the "async with" of DB.fetch and DB.fetch_explain
\* gives it back on every way out, a timeout and a cancellation included.
ConnectionsAccounted ==
  \A c, p \in Calls :
    /\ c \in holders[p] <=> pc[c] \in Running /\ at[c] = p
    /\ c \in holders[p] => p \in open

\* The assertions of DB.fetch and DB.fetch_explain never fail: a call past
\* _ensure_db has a live pool, whichever call made it and whatever died before.
PoolAssertHolds ==
  /\ connected => pool \in open
  /\ \A c \in Calls : pc[c] \in Waiting \cup Running => at[c] \in open

Connecting == {c \in Calls : pc[c] = "connect"}

\* Once a first call has connected, no call begins another pool: every further pool
\* of this process is one that was already being created.
PoolsOnlyFromFirstCalls ==
  [][connected /\ connected' => open' \cup Connecting' \subseteq open \cup Connecting]_vars

\* One pool per server, as db.py's "asyncpg connection pool" and its guard on
\* self.pool say.
OnePool == Cardinality(open) <= 1

Lines(c) == {i \in 1..Len(audit) : audit[i].call = c}

\* No call is audited twice, and none answers with rows that were not audited:
\* not after a failed CSV, a failed audit write, a cancellation or a crash.
AuditedOnce ==
  /\ \A i, j \in 1..Len(audit) : audit[i].call = audit[j].call => i = j
  /\ \A c \in Calls : reply[c].kind = "result" => Lines(c) # {}

\* A line says what its call answered: rows and truncation of a result, an error
\* for a failure, neither for a cancelled call.
AuditMatchesReply ==
  \A c \in Calls : \A i \in Lines(c) :
    /\ pc[c] = "done" =>
         /\ audit[i].error <=> reply[c].kind = "error"
         /\ ~audit[i].error /\ audit[i].row_count = NoCount <=> reply[c].kind = "cancelled"
    /\ reply[c].kind = "result" =>
         /\ audit[i].row_count = reply[c].row_count
         /\ audit[i].truncated = reply[c].truncated

\* What the finally clause of run_pipeline leaves: a line of the call, or, if the log could
\* not be written, an answer that gives no rows.
LeavesLine(c) ==
  \/ Lines(c)' # {}
  \/ DiskFaults /\ reply'[c].kind \in {"error", "cancelled"}

\* Once run_pipeline has begun, no end of the call goes unaudited: a refused plan, a failed
\* statement, a failed CSV and a cancellation at any await leave their line too.
RunsLeaveLines ==
  [][\A c \in Calls :
       pc[c] \in Waiting \cup Running /\ req[c].tool \in PipelineTools /\ pc'[c] = "done"
         => LeavesLine(c)]_vars

\* Every tool call but list_tables appends a line (README "Every tool call appends one
\* JSON line", TEST_RESULTS "list_tables is the one tool that does not audit").
EveryCallAudited ==
  \A c \in Calls : pc[c] = "done" /\ req[c].tool # "list_tables" => Lines(c) # {}

\* An export id in an answer always leads to a whole file, also after a restart and
\* whatever other exports failed; an incomplete file's id is given to nobody.
ExportIntact ==
  \A c \in Calls :
    /\ reply[c].export # NoExport => exports[reply[c].export] = "complete"
    /\ reply[c].kind = "path" => exports[req[c].export] = "complete"
    /\ reply[c].kind = "no_export" => req[c].export = NoExport

PipelineResult(c) == reply[c].kind = "result" /\ req[c].tool \in PipelineTools

\* A pipeline result counts at most ROW_CAP rows, shows none beyond the inline
\* threshold, and every row it counts is inline or in its export.
ResultBounded ==
  \A c \in Calls : PipelineResult(c) =>
    /\ reply[c].row_count <= RowCap
    /\ reply[c].inline = 0 \/ reply[c].inline <= InlineRowThreshold
    /\ reply[c].inline = reply[c].row_count \/ reply[c].export = c

WrittenLimit(r) == SqlOf(r).stmts[1].limit

\* A result holds as many rows as its author asked for, up to ROW_CAP, and is marked
\* truncated exactly when that drops some, for a LIMIT the pipeline can read.
TruncatedIffMore ==
  \A c \in Calls : PipelineResult(c) /\ WrittenLimit(req[c]).kind # "opaque" =>
    LET asked == RowsReturned(WrittenLimit(req[c]), matching[c]) IN
      /\ reply[c].row_count = Smaller(asked, RowCap)
      /\ reply[c].truncated <=> asked > RowCap

\* A LIMIT smaller than the cap is left alone (ensure_limit's docstring).
SmallerLimitKept ==
  \A c \in Calls : PipelineResult(c) /\ WrittenLimit(req[c]).kind # "none" =>
    reply[c].row_count <= WrittenLimit(req[c]).n

\* What reaches the database for a pipeline call is one SELECT without DML over
\* allowlisted names, with a LIMIT of at most ROW_CAP + 1; and it is fetched only
\* after its own EXPLAIN, within budget.
StatementsVetted ==
  \A c \in Calls : pc[c] \in Waiting \cup Running /\ req[c].tool \in PipelineTools =>
    /\ Len(SqlOf(req[c]).stmts) = 1
    /\ SqlOf(req[c]).stmts[1].root \notin ForbiddenNodes \cup {"None"}
    /\ SqlOf(req[c]).stmts[1].nodes = {}
    /\ \A t \in SqlOf(req[c]).stmts[1].tables :
         t = Unnamed \/ \E a \in TableAllowlist : Lower[a] = Lower[t]
    /\ SentLimit(req[c]).kind = "literal" /\ SentLimit(req[c]).n <= RowCap + 1
    /\ pc[c] \in {"fetch_wait", "fetch"} => cost[c] \in Nat /\ cost[c] <= MaxPlanCost

\* What the client of a call sees of it.
Seen == [c \in Calls |-> IF pc[c] = "lost" THEN Plain("lost") ELSE reply[c]]

Audited == INSTANCE AuditedAnswers
  WITH answer <- Seen, log <- audit, files <- exports,
       Unanswered <- NoReply, Lost <- Plain("lost")

\* Seen from outside a call ends once and in one instant, with its answer, its line in the
\* log and its file, however many steps the server takes and wherever they fail: lines and
\* answers are final, and what an end that failed left behind concerns that call alone.
AnsweredAtomically == Audited!Spec

\* Every call that starts is answered unless the process dies under it: no call waits
\* for a connection for ever, though acquire has no timeout.
Answered ==
  \A c \in Calls : pc[c] # "idle" ~> pc[c] \in {"done", "lost"}
=============================================================================

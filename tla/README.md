# Verification of mcp-claude

TLA+ modules, TLC runs and TLAPS proofs about the code of this repository: two
MCP servers in Python (`mcp-analytics`, `mcp-api-explorer`) and the Spring Boot
API they stand beside (`springboot-api`). Paths below are relative to the
repository; `analytics/` is short for `mcp-analytics/src/mcp_analytics/`,
`explorer/` for `mcp-api-explorer/src/mcp_api_explorer/`.

## The system

Both servers are single asyncio processes. The MCP SDK runs every request as a
task, so tool calls interleave at each `await` and nowhere else, and a client may
cancel a request, which raises `CancelledError` at the await it is suspended on.
`CancelledError` passes `except Exception` but not `finally`. The API runs each request on
a thread of its own, as one transaction of a service method.

| Component | State | Operations | What makes it correct |
|---|---|---|---|
| SQL guardrails (`analytics/validator.py`, `guardrails.py`) | none | validate, cap LIMIT, hold a plan against the budget | only one allowlisted SELECT passes; the cap is never exceeded; truncation is reported exactly |
| Tool calls and pipeline (`server.py`, `tools.py`, `pipeline.py`) | locals of each call | eight tools; the pipeline validates, caps, explains, fetches, exports, audits | nothing unvetted reaches the database; each finished pipeline call is audited once and truthfully |
| Connection pool (`db.py`, `server._connected`) | the pool, the flag | lazy connect, acquire and release | one pool; a connection comes back on every way out; nobody waits for ever |
| Audit log (`audit.py`) | `queries.jsonl` | append a line | a line agrees with the answer |
| Exports (`export.py`) | `exports/*.csv` | write, look up | an id that was handed out leads to a whole file |
| Result shape (`pagination.py`) | none | inline rows or summary | bounded by the threshold, complete with the export |
| Document cache (`explorer/spec.py`) | document, fetch time, stale flag, lock | get, refresh | one fetch at a time, shared; never an older document; the last good one survives failures |
| Explorer tools (`explorer/server.py`, `intent.py`, `examples.py`) | none | list, rank, exemplify endpoints | pure functions of the document |
| Gated calls (`explorer/caller.py`) | none | refuse or send an HTTP request, once | nothing passes the gate that the settings do not allow, whenever its effect comes |
| Spring API (`EmployeeService`, `OrderService`) | two tables | list, read, create, partial update, delete | a request takes effect once or not at all; a deleted row stays deleted; updates keep what they do not give |
| Configuration (`config.py` of both servers) | settings | parse the environment | what it starts with is no more open than what was given |

How they interact: an analytics tool calls `_ensure_db`, then the pipeline (or, for
`describe_table`, the database directly); the pipeline calls guardrails, pool,
exports and audit log in one task. `export_csv` reads files an earlier call wrote.
Explorer tools read the document through `SpecCache`. The document comes from the
Spring API over HTTP; `call_endpoint_tool` sends requests to the same API, and the
analytics server reads the API's tables through views. The two servers share nothing.

What is hard: the read of `db.pool` on one side of an await and its assignment on
the other; cancellation and failure between acquiring and releasing; a finally
clause that writes a file; a crash between CSV, audit line and answer; a lock with
a queue and a second look at the cache behind it; replies that are late, odd or
out of order; a request that outlives the call that sent it; transactions that read a
row another one is about to write or delete. `PROJECT.json` lists each hazard at its line with the properties
that cover it, and the hazards no property covers yet.

## Modules

`SqlGuards` - the guardrails as operators. An SQL text is what sqlglot makes of it:
blank, unparsable, or a sequence of statements, each with its root node, the
forbidden nodes found in it, the tables it names and its outermost LIMIT. A LIMIT is
absent, an integer literal, or *opaque*: an expression, a parameter or FETCH FIRST,
which the database evaluates but `ensure_limit` cannot read. Rows are numbers of
rows: no guardrail looks at a value. Operators keep the names of the functions.

`AnalyticsServer` - the server. Actions are the code between two awaits:

| Action | Code |
|---|---|
| `ListTables`, `ExportCsv` | the two tools without an await |
| `CallTool`, `CallToolFirst` | a database tool up to its first await: `_ensure_db`, then `Start` (name check, `validate_select`, `ensure_limit`), or waiting for `create_pool` |
| `Connected`, `ConnectFails` | `create_pool` returns (and becomes `db.pool`, whatever was there) or raises |
| `Acquire` | `pool.acquire()` |
| `ExplainReturns` | release, `extract_plan_total_cost`, `assert_plan_within_budget`, and the second read of `db.pool` |
| `FetchReturns`, `DescribeReturns` | release, trim, CSV, audit line, answer |
| `QueryFails`, `Cancel` | an exception, or `CancelledError`, at an await |
| `Crash`, `CrashFinishing`, `CrashReporting` | the process dies while all calls wait; inside the end of `run_pipeline` after some of its effects; or between the line and the answer of a call whose query failed or whose plan was refused, or of `describe_table`; it starts again with its module state fresh and the files kept |

`pc` is the await a call is suspended at. A pool and an export are named by the call
that created them, since each call creates at most one. `holders` says which calls
hold a connection of which pool. `matching` is a history variable: how many rows
matched when the statement ran. An element of `Calls` is one call.

`AuditedAnswers` - what the server promises to those who see only answers, log and exports: a
call ends once, and in the same instant it is answered, its line is appended and its export is
there. What a failure or a death may leave beside that is named: a part of a file, a whole file
or a line that no answer tells of.

`SpecCache` - `explorer/spec.py`. `Get`, `Refresh` run up to the lock; asyncio's lock
is first come first served (`queue`), and between a release and the waiter's turn
(`Wake`) other tasks and the clock may run. A fetch sends, the API puts its current
version in the reply (`Serve`), and the reply arrives later (`FetchOk`), is JSON but
not a document (`FetchOdd`), or fails (`FetchFails`). `Deploy` and `Tick` are the
API's and the clock's. `begun` is a history variable.

`DocumentRegister` - what the cache promises to the tools: a register that holds one document.
A call is answered in one instant, by reading the register while it is fresh (`Reads`) or with a
document published while the call lasted (`Fetches`), which the register then holds. What a
failure, an odd reply or a cancellation does to the register is named (`Fails`, `Spoils`,
`GivesUp`). It knows no lock, no queue and no request.

`AtomicStore` - what the API promises, as a specification of its own: a table, what each
call asks for, and the status it was given. Each request is decided in one step that
changes the table as the request says, or not at all (`Missing`, `Fail`).

`EntityStore` - `EmployeeService` and `OrderService`, which have the same shape; `Fields`
and `Unique` tell them apart (employees have a unique email, orders none). A statement is
an action:

| Action | Code |
|---|---|
| `List`, `Get` | the read-only methods |
| `Insert`, `CommitInsert` | `repo.save` of a new entity takes an id from the sequence, which no rollback gives back; the unique column is decided when it commits |
| `Load`, `CommitUpdate` | `update` reads the entity and sets the fields that are given; the flush writes *every* column, and fails if the row is gone or the email taken |
| `Exists`, `Find`, `CommitDelete` | `existsById`; `deleteById` finds the entity, and ignores its absence; the write, which fails if the row is gone by then |
| `Crash` | the API restarts and open transactions are rolled back |

A transaction is READ COMMITTED, PostgreSQL's default, which no setting changes. Its one
write and its commit are one action: the write takes the row's lock, and whoever waits for
it looks at the row again after the commit. Which of two rows with one email wins is left
open, also where the database would decide it by who inserted first.

`GatedCalls` - EXTENDS `EntityStore` with the explorer's side: the composition of the two.

| Action | Code |
|---|---|
| `Start` | `Settings()` in `explorer/config.py`: the flags, the base URL, the allowlist unset, as JSON, or comma-separated (which ends the process, see below) |
| `Call` | `call_endpoint_tool` up to its await: join the URL, `_assert_allowed`, then the request is on its way or refused |
| `Reply` | the reply arrives |
| `ReplyFails` | `httpx.HTTPError`: no connection, a lost reply, or none within `call_timeout_seconds`. It is enabled at every moment between sending and answering, so the API may have done the request, be at it, or do it later. A client that cancels the call leaves the API in the same position |

A URL is a sequence of tokens of which "/" is one, as all that matters of it is where its
segments end. `deleted` is a history variable: the ids whose deletion had been answered when
the call began.

`SchemaExample` - `example_for_schema`, and beside it a validator for the same keywords of
JSON Schema, written from that standard's words and not from the code. Each is defined one level
at a time: where it calls itself stands a parameter (`ExampleOf`, `IsValid`, `IsMinimal`), which
`MCExplorerTools` gives as the operator itself and `SchemaAssumption` describes. Schemas are
finite trees: the cache resolves `$ref`s and writes the document out with `json.dumps`, which
raises on a cycle. `ExplorerTools` EXTENDS it with the tools that answer from the document.
After its await on the cache such a tool runs to its end without another, so it is one action on
one document, and how tools wait for the document is `SpecCache`. Paths and tags are
named by their places in the orders the code sorts by; texts are the sets of their words. Methods
are spelled as the document and the client spell them, and `Lower` and `Upper` are the conversions
the code applies: `iter_operations` filters by the one and shows the other, `find_operation` looks
up the lower-case key. `Sorted` puts an item where the number of items before it says, ties as in
the document, which is what the stable `list.sort` does. The `op` of a summary is the operation it
is of, for which its `operationId` and `summary` stand.

`AnalyticsServerProofs`, `AnalyticsAnswerProofs`, `AnalyticsRefinementProofs` - the theorems about
what reaches the database and the pools, about what the outside is told, and the refinement of
`AuditedAnswers`. `SpecCacheProofs` - the lock, shared fetches, versions, and the refinement of
`DocumentRegister`. `GatedCallsProofs`, `GatedUrlProofs` - the gate's flags and the API with the
refinement of `AtomicStore`; where requests go. `ExplorerToolsProofs` - rankings, listings and
URLs. `ExplorerExamplesProofs` - the examples of schemas. `MCAnalyticsServer`, `MCSpecCache`,
`MCGatedCalls`, `MCExplorerTools` - requests, documents, environments and symmetry sets for TLC.
Operators introduced as "a faulty variant" are not used by the
specifications: each is a plausible bug in the definition that follows it, and the
property paired with it in `PROJECT.json` fails when it takes that definition's place.

## Runs

| Run | Question | Bounds |
|---|---|---|
| `server_calls` | Do audit lines, answers, exports and statements agree, whatever is asked and whatever fails, and do they come in one instant? | 2 calls of any request: every tool, each reason to refuse, LIMIT absent and 0, 2, 4, 5; 0 to 5 matching rows against `ROW_CAP` = 3 and threshold 1, so both sides of cap, cap + 1 and threshold occur; plans within and above budget; failing writes; 1 crash |
| `server_pool` | Do connections come back, is every run audited, and is everyone answered? | 3 calls, a pool of 1 connection: two can wait while one holds; overlapping first calls; 1 crash |
| `cache_order` | Is the lock sound, are fetches shared, do versions advance, and is each call answered as by a register? | 3 calls (holder and two waiters), 2 versions, TTL 2 with the clock to 3 (a document expires and can be replaced), odd replies |
| `cache_serves` | Does a cached document survive failing fetches, and does each call end? | 3 calls, 2 versions, TTL 2, clock to 2 |
| `gated_calls` | Does the gate hold, and does a request take effect once, whatever races it and whatever happens to its reply? | 3 calls of any operation, on a row that is there and on one that may come; updates that meet a creation in their email; a method and a path the gate must refuse; 6 environments; ids to 4 (one row and a creation by each call); 1 crash |
| `explorer_tools` | Are rankings and listings exact in any order of the document, is what was shown what is looked up next, are examples valid, minimal and complete? | every order of the entries of one path and of two; a path with `get`, `GET` and `Get`, and one with `GET` and `Put` only; methods asked for in any of these cases; limits 0, 1, 2, 9 against a maximum of 3, below the number of matches; objects in objects and in arrays, two properties each, every combination of required ones, and a `oneOf` of a number and a string |

Two calls suffice where only files and locals are compared: properties relate one call
to one line or one earlier export. In the API a race takes two transactions, and
`DeletedForGood` a third call after them. Clocks stop at a bound and crashes are counted; both
only end behaviours early.

Fairness. `Progress(c)` is weakly fair: `create_pool` and the statements end by
themselves (connection timeout, `timeout=3.0`/`6.0`, `statement_timeout`), and a pool
hands a free connection to a waiter. Waiting for a connection cannot time out, so
`QueryFails` is enabled there only when one is free, and `Answered` is not helped by
failures. For the cache, `Wake` is the event loop's and a fetch ends by `timeout=10.0`;
the API (`Serve`) owes nothing. Clients, crashes, deployments and cancellation are
never forced. The properties of `gated_calls` are safety properties and need no fairness;
`Quiet` marks the states in which the system may stop.

Refinement. `AnsweredAtomically` is `Audited!Spec`, where `Audited` is `AuditedAnswers` with the
audit log and the exports as they are and, as a call's answer, its reply, or `lost` where the
process died under it (`Seen`). Waiting, connecting and planning are stutters; each end of a call
and each death is one step. A line that replaced another, a second answer, or an answer before
its file would be no step of it.

`AnsweredAtOnce` is `Register!Spec`, where `Register` is `DocumentRegister` with the cache's
document, fetch time and flag as they are, and with what each call that has begun asks for
(`Asked`). Queueing for the lock, waking up, sending a request and the API's reply are stutters;
each end of a call is one step, which looks at the register as it is then.

`AppliedAtomically` is `Atomic!Spec`, where `Atomic` is `AtomicStore` with the
status of each transaction as its outcome and the table and the requests as they are: every
step of `GatedCalls` - start, crash, lost reply, each statement - is a step of `AtomicStore`
or a stutter. It holds where an update gives every field. With partial updates it does not,
as `AtomicStore` merges what is given into the row of that moment: that is `lost_update`,
stated there as a property of its own.

Runs that TLC must refute (findings, quoted in `PROJECT.json`):

| Run | Finding |
|---|---|
| `server_one_pool` | Two overlapping first calls each create a pool; the second assignment drops the first pool, open until the process ends. |
| `server_audit_gap` | `export_csv`, refused names and failed connections leave no audit line, against "every tool call" and "`list_tables` is the one". |
| `server_limit_expr` | A smaller LIMIT that is not a literal is replaced by the cap. |
| `cache_odd_lost` | A status-200 reply that is JSON but no document replaces the last good document before the log line fails. |
| `cache_stale_kept` | After a failed refresh, `get` answers `stale: true` without refetching until the TTL ends. |
| `lost_update` | Two overlapping `PUT`s of different fields both answer 200, and the later commit puts back the old value of the field it did not give, against "partial fields allowed". |

Three more disagreements have no run. `describe_table` checks `name.lower()` against the
allowlist but asks the catalog for the name as given, so an accepted name in another case
has no columns (`tools.py:51`). And `explorer/config.py:37` says "Allow comma-separated env
vars", as `.env.example:17` and `claude_desktop_config.example.json:10` use them, but
pydantic-settings decodes a list from JSON before the validator is called, so the process
ends at once (`Start` models this); the analytics server marks its list `NoDecode`.
A method that the document
does not write in lower case is listed and ranked, in upper case (`spec.py:83`), but not found
(`examples.py:74`), against "Use get_endpoint_details for the full view of a single endpoint"
(`explorer/server.py:50`): for a path with "GET" alone the details are an error, and for one with
"get" and "GET" both are listed as GET and the one written "get" is the one described. The model has
such documents; `ShownIsFound` holds only on its condition `LowerCase`, and without it TLC refutes
it. (OpenAPI writes methods in lower case, so no document that follows it is concerned.)
`describe_table` also returns all its rows inline, outside the pipeline, against
`tools.py:3`; its own docstring says so, and no run repeats it.

## Proofs

TLAPS proves each safety property, action property and refinement that a passing run checks: of `AnalyticsServer` for every set of calls and
requests, every allowlist, setting, pool size, plan cost and number of crashes; of `SpecCache`
for every set of calls and every TTL, however far versions and the clock go; of `GatedCalls` for
every set of calls, requests and environments, every table and number of restarts; of
`ExplorerTools` for every document, query and limit, and schemas of any depth.

| Theorem | Property | Inductive invariant |
|---|---|---|
| `TypeCorrect` | `TypeOK` | `TypeInv` |
| `OnlyVettedStatements` | `StatementsVetted` | `TypeInv` |
| `NoConnectionLeaks`, `NoMissingPool` | `ConnectionsAccounted`, `PoolAssertHolds` | `ConnectionInv` |
| `NoLatePools` | `PoolsOnlyFromFirstCalls` | `TypeInv` |
| `RowsAreAudited`, `LogIsTruthful` | `AuditedOnce`, `AuditMatchesReply` | `AuditInv` |
| `NoRunUnaudited` | `RunsLeaveLines` | `TypeInv` |
| `TruncationIsExact`, `ResultsAreBounded` | `TruncatedIffMore`, `ResultBounded` | `ResultInv` |
| `ExportsStayWhole` | `ExportIntact` | `ExportInv` |
| `EndsInOneStep` | `AnsweredAtomically` (refinement) | `TraceInv`, over `ExportInv` |
| `TypeCorrect`, `LockIsAccounted` (of `SpecCacheProofs`) | `TypeOK`, `LockAccounted` | `LockInv` |
| `FetchesAreShared` | `NoRedundantFetch` | with `LockInv` |
| `RefreshIsCurrent`, `NeverOlder` | `RefreshSeesLatest`, `VersionsAdvance` | `VersionInv` |
| `LastGoodIsServed` | `ServesLastSuccessful` | `ServesInv` |
| `CacheIsRegister` | `AnsweredAtOnce` (refinement) | `RegisterInv`, over `VersionInv` |
| `TypeCorrect` (of `GatedCallsProofs`) | `TypeOK` | `TypeInv` |
| `FlagsHold` | `ReadOnlyUnlessAllowed` | `FlagsInv` |
| `GoneForGood` | `DeletedForGood` | `DeletedInv`, over `IdsInv` |
| `TakesEffectOnce` | `AppliedAtomically` (refinement) | `AtomicInv`, over `IdsInv` |
| `GoesToAllowed` | `SentOnlyToAllowed` | `SentInv` |
| `RankingIsExact`, `ListingIsExact`, `WhatIsShownIsFound`, `UrlIsComplete` | `RankingExact`, `ListingExact`, `ShownIsFound`, `UrlComplete` | `AnswerInv` |
| `ExamplesAreValid`, `ExamplesAreMinimal` | `ExampleValid`, `ExampleMinimal` | `ShownInv` |

Assumptions: `NamesAssumption` (`str.lower` is idempotent and keeps the empty name),
`SettingsAssumption` (settings are integers, of any sign) and `ServerAssumption` (typing
of the parameters; a pool holds at least one connection); `CacheAssumption` (a TTL of any
sign); `StoreAssumption` and `GateAssumption` (typing of requests, URLs and the first rows, which
are unique where they have to be); `ToolsAssumption` (typing of documents; the keys of a JSON
object are unique as they are spelled; case conversions do not depend on the case of what they
convert, as for ASCII; queries are finite); `SchemaAssumption` (schemas are finite trees, and a
parameter that stands for a call of an operator to itself agrees with the operator on each schema
and on the examples of schemas: this is all it says, and the recursion of the code satisfies it).
TLC evaluates them in each run. Four theorems assume more:

- `TakesEffectOnce` that an update gives a whole row (`WholeUpdates`), without which it is false
  (`lost_update`).
- `LastGoodIsServed` that no reply is odd, without which it is false (`cache_odd_lost`).
- `ExamplesAreValid` that schemas are `SchemasExemplifiable`: what a schema gives itself is valid,
  its keywords are those of one kind of schema, what is required is declared, a format is one that
  has a placeholder, and the first alternative of a combinator decides (no other one of a `oneOf`
  takes its example, every other one of an `allOf` does). Each part is one the code relies on: see
  "Request examples" below.
- `ExamplesAreMinimal` also that they are `SchemasStated`: an object says what it requires, and
  what is given is minimal. `MCSchemasAreRight` in `MCExplorerTools` has TLC check that the schemas
  of the run `explorer_tools` are both, so the hypotheses are met by what the run checks.

- `TypeInv` is `TypeOK` and, for each call, `Admitted`: a call in flight passed its name
  and text checks, and past EXPLAIN its cost is within budget. `TypeOK` alone is not
  inductive: a negative `ROW_CAP` would give a negative row count, and it is `TextAccepted`
  (`ensure_limit` raises for a cap that is not positive) that keeps such a call from the
  database. `OnlyVettedStatements` follows from `Admitted`.
- `ConnectionInv` joins the accounting of connections to the pool assertion, and says that
  `db.pool` is open while a call is past `_ensure_db`: a call goes on to its statement over
  whatever `db.pool` is when EXPLAIN returns, not over the pool it started with.
- `AuditInv` adds that only ended calls have lines and only answered calls have answers.
  Each way to end is either silent (then it hands out no rows) or writes a line that
  `Agrees` with the answer; a crash in between leaves a line and no answer, and a failed
  write turns the answer into an error.
- `ResultInv` says that a pipeline result is what `run_pipeline`'s end makes of the rows
  that matched. The lemma `CapPlusOneDecides` then gives `TruncationIsExact`: one row
  beyond the cap is enough to tell.
- `ExportInv` says that an id is told only by the call that wrote the file, after the whole
  of it, and that files of ended calls do not change.

- Of `GatedCalls`, `TypeInv` adds to the types what a transaction `Holds`: an insert an id and
  the row it was given, an update or a delete the id of a row that has been there. `FlagsInv`:
  whatever is on its way passed the gate of the settings in force, which change only before
  the first call.
- `IdsInv`: ids below the sequence, one for each insert, none of them in the table. So an id
  that is gone stays gone (`UsedStays`), and `DeletedInv` says which ids are: those of answered
  deletes, at the first as at the second of two that race. `DeletedForGood` alone is not
  inductive: it says nothing of a delete that has found its row and not yet removed it.
- `AtomicInv` adds that the rows are unique, without which an update that changes nothing
  would not be a step of `AtomicStore`, and that an update holds the row it was given. Each
  statement then maps to a step or a stutter (`StatementMaps`): the response is the instant
  at which a request takes effect.

- `SentInv` says of a request on its way that its URL passed the allowlist in force. That it then
  lies under an allowed base is about sequences: what `rstrip` leaves, and where the first "/"
  after the host is. Both are minima, and the lemma `LeastElement` (naturals are well-founded)
  gives them without an induction over lengths.
- `TraceInv` says that a call leaves no trace before it ends: no answer, no file. So the step
  that ends it is the one step of `AuditedAnswers` for it (`ErrorMaps`, `ResultMaps`, and one
  lemma for each other way to end); `ExportInv` gives that a path told by `export_csv` is that of
  an export some call had been told of.
- `LockInv` is `TypeOK` and `LockAccounted` together: removing a cancelled waiter from the queue
  keeps the others only because nobody is queued twice. A get that waited looks at the cache
  again (`Wake`), which is what `FetchesAreShared` rests on.
- `VersionInv` adds what a call in flight `KnowsVersions` of: the reply it carries is
  no older than what was published when it began, nor than what is cached, as only the holder of
  the lock replaces the document. `ServesInv` adds that what was cached when a call began is a
  lower bound of what is cached when it ends.
- `RegisterInv` joins `VersionInv` and `NoRedundantFetch`, and says that a call shows nothing before
  it begins and is told nothing before it ends. `VersionInv` gives that a document that arrives was
  published while its call lasted and is no older than the one it replaces, `NoRedundantFetch`
  that a get which ends a fetch ends it on an expired register: a fetch takes long, and it is the
  lock that keeps the register from being renewed meanwhile.
- `NoRunUnaudited` needs no more than `TypeInv`: the ways a call can end are gone through one by
  one, and each that starts at an await of `run_pipeline` passes its finally clause. The awaits
  outside it (`create_pool`, `describe_table`) are those of the finding `server_audit_gap`.
- `AnswerInv` is about one answer on one document. Its lemma `PlacesAreTaken` says that in a finite
  set with a strict total order the numbers of smaller elements are exactly 0 to one less than
  the size: a counting argument over injections between finite sets, as tlapm has no induction
  over a sort. `RankedInOrder` and `ListedInOrder` show that scores, paths and methods, and tags,
  make such orders once ties are broken by the place in the document (two spellings of one method
  tie), and `LimitsAreClamped` that cutting at the clamped limit keeps the first places. For
  `WhatIsShownIsFound` the invariant says of which operations the last answer's items are
  (`ShownAreOperations`); where a path has its methods in lower case only one entry can have the
  shown method, and the lookup, which lower-cases what the client asks, meets that entry
  (`ShownAreLookedUp`).

- `ShownInv` says that the body shown is the example of the body's schema. That such an example is
  valid is shown without an induction over schemas: of the schemas whose example is not valid one
  of least depth would have only valid parts (`LeastWrong`, as naturals are well-founded), and
  `OneLevelValid` says that then its own example is valid, one kind of schema at a time. The same
  argument gives `ExamplesAreMinimal`, with the lemma that an object without one of the properties
  it requires is not valid.

Only model-checked: `Answered` in both modules (liveness under fairness, which is out of the
prover's reach). The runs that must fail are counterexamples and have no theorem; where a finding
has a counterpart that holds it is proved (`NoLatePools`, `NoRunUnaudited`, `TruncationIsExact`,
`LastGoodIsServed`, `TakesEffectOnce`).

## Left out

External and assumed: PostgreSQL's evaluation of LIMIT, its locks and the catalog,
Hibernate's flush, asyncpg's pool (at most `max_size` connections, any waiter may be next;
releasing is one step, though it resets the connection over the wire), sqlglot's parse of a
text, httpx, pydantic-settings, the MCP SDK's validation of arguments (a bad
`orders_by_status` never reaches the tool). `DB.close` is never called.

Not modelled, by component:

- Result shape: rows are counted, so the summary by column and duplicate column names
  (`pagination.py:40`) are out of reach; values would multiply the states of
  `AnalyticsServer` without touching another property.
- Explorer tools: `endpoint_resource` is `get_endpoint_details` under a URI.
- Audit log: a write that fails (`audit.py:42`) leaves the log as it was; on disk a part of the
  line may be there.
- Request examples: header parameters, parameters of a whole path item and other media
  types, which the code ignores; keywords the code does not read (`minimum`, `pattern`,
  `$ref` left by the resolver). In the model but outside `SchemasExemplifiable`: a combinator whose
  other members disagree with the first (`allOf` of different objects), of which the code takes the
  first; a type beside a combinator; a required name that is no property; the format `date`, for
  which it writes an instant. For these an example need not be valid. Where a schema requires
  nothing, every property is shown, against the docstring's "only required fields".
- API: validation of a request before its transaction (status 400), filters, reply bodies; a
  database connection that is lost while a transaction commits, where the API answers 500 though
  the commit may have happened.
- Logging, packaging, grants and seed rows: no program logic.

- Deaths of the analytics server between the line and the answer of a call that is refused before
  its first await, or of one that is cancelled: they would leave a line without an answer, as
  `CrashReporting` does elsewhere.

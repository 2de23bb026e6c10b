----------------------- MODULE AnalyticsServerProofs -----------------------
(***************************************************************************)
(* Proofs about AnalyticsServer for every set of calls and requests, every *)
(* setting and every pool size.                                            *)
(***************************************************************************)
EXTENDS AnalyticsServer, TLAPS

\* Rows are counted by naturals, whatever the settings: what is trimmed, shown inline
\* or returned by the database for any LIMIT.
LEMMA RowsAreNatural ==
  ASSUME NEW limit \in LimitType, NEW m \in Nat
  PROVE  /\ Smaller(limit.n, m) \in Nat
         /\ RowsReturned(limit, m) \in Nat
         /\ RowsReturned(limit, m) <= m
         /\ limit.kind # "none" => RowsReturned(limit, m) <= limit.n
BY DEF LimitType, RowsReturned, Smaller

\* ensure_limit always yields a literal of at most the cap, and leaves a literal that
\* is small enough alone.
LEMMA LimitIsCapped ==
  ASSUME NEW limit \in LimitType, NEW cap \in Nat
  PROVE  /\ ensure_limit(limit, cap) \in LimitType
         /\ ensure_limit(limit, cap).kind = "literal"
         /\ ensure_limit(limit, cap).n <= cap
         /\ limit.kind = "literal" /\ limit.n <= cap => ensure_limit(limit, cap) = limit
BY DEF LimitType, ensure_limit

\* With LIMIT row_cap + 1 the trimmed result tells exactly whether its author asked for
\* more rows than the cap, for every LIMIT the pipeline can read.
LEMMA CapPlusOneDecides ==
  ASSUME NEW limit \in LimitType, limit.kind # "opaque", NEW m \in Nat, RowCap \in Nat
  PROVE  LET asked == RowsReturned(limit, m)
             got   == RowsReturned(ensure_limit(limit, RowCap + 1), m)
         IN  /\ TrimmedCount(got) = Smaller(asked, RowCap)
             /\ Truncated(got) <=> asked > RowCap
BY DEF LimitType, RowsReturned, ensure_limit, Smaller, TrimmedCount, Truncated
-----------------------------------------------------------------------------
(***************************************************************************)
(* What a call in flight went through: its name and text were accepted,    *)
(* and past EXPLAIN its plan was within budget.                            *)
(***************************************************************************)
Admitted(c) ==
  /\ pc[c] \in InFlight => req[c].tool \in DatabaseTools
  /\ pc[c] \in {"explain_wait", "explain"} => req[c].tool \in PipelineTools
  /\ pc[c] \in Waiting \cup Running /\ req[c].tool \in PipelineTools => TextAccepted(req[c])
  /\ pc[c] \in {"fetch_wait", "fetch"} /\ req[c].tool \in PipelineTools
       => CostReadable(cost[c]) /\ WithinBudget(cost[c])

TypeInv == TypeOK /\ \A c \in Calls : Admitted(c)

\* Every request stands for a well-formed SQL text.
LEMMA SqlTyped ==
  ASSUME NEW r \in RequestType
  PROVE  SqlOf(r) \in TextType
<1>1. /\ Unnamed \in Names
      /\ EmployeesView \in Names
      /\ OrdersView \in Names
  BY NamesAssumption, ServerAssumption
<1>2. ASSUME NEW v \in SUBSET Names
      PROVE  Template(v) \in TextType
  <2>1. [root |-> "Select", nodes |-> {}, tables |-> v, limit |-> NoLimit] \in StatementType
    BY DEF StatementType, QueryRoots, NoLimit, LimitType
  <2> QED
    BY <2>1 DEF Template, TextType
<1>3. r.name \in Names /\ r.sql \in TextType
  BY DEF RequestType
<1>4. /\ Template({r.name}) \in TextType
      /\ Template({EmployeesView}) \in TextType
      /\ Template({OrdersView}) \in TextType
  BY <1>1, <1>2, <1>3
<1> QED
  BY <1>3, <1>4 DEF SqlOf

\* An accepted text is sent with a literal LIMIT of at most row_cap + 1, and the cap is
\* then a natural number.
LEMMA SentLimitTyped ==
  ASSUME NEW r \in RequestType, TextAccepted(r)
  PROVE  /\ RowCap \in Nat
         /\ SqlOf(r).stmts[1] \in StatementType
         /\ SentLimit(r) \in LimitType
         /\ SentLimit(r).kind = "literal"
         /\ SentLimit(r).n <= RowCap + 1
<1>1. RowCap \in Nat
  BY SettingsAssumption DEF TextAccepted, CapUsable
<1>2. SqlOf(r).stmts[1] \in StatementType
  <2>1. SqlOf(r).stmts \in Seq(StatementType)
    BY SqlTyped DEF TextType
  <2>2. Len(SqlOf(r).stmts) = 1
    BY DEF TextAccepted, validate_select
  <2> QED
    BY <2>1, <2>2
<1>3. SqlOf(r).stmts[1].limit \in LimitType
  BY <1>2 DEF StatementType
<1> QED
  BY <1>1, <1>2, <1>3, LimitIsCapped DEF SentLimit

\* The rows a pipeline call gets are counted by naturals, before and after trimming.
LEMMA CountsTyped ==
  ASSUME NEW r \in RequestType, TextAccepted(r), NEW m \in Nat
  PROVE  /\ RowsReturned(SentLimit(r), m) \in Nat
         /\ TrimmedCount(RowsReturned(SentLimit(r), m)) \in Nat
         /\ InlineRows(TrimmedCount(RowsReturned(SentLimit(r), m))) \in Nat
         /\ Truncated(RowsReturned(SentLimit(r), m)) \in BOOLEAN
<1>1. RowCap \in Nat /\ SentLimit(r) \in LimitType
  BY SentLimitTyped
<1>2. RowsReturned(SentLimit(r), m) \in Nat
  BY <1>1, RowsAreNatural
<1>3. TrimmedCount(RowsReturned(SentLimit(r), m)) \in Nat
  BY <1>1, <1>2 DEF TrimmedCount, Smaller
<1> QED
  BY <1>2, <1>3 DEF InlineRows, Truncated

\* Whatever a request's statement may match is a number of rows.
LEMMA MatchingTyped ==
  ASSUME NEW r \in RequestType, NEW m \in Matching(r)
  PROVE  m \in Nat
BY ServerAssumption DEF Matching
-----------------------------------------------------------------------------
(***************************************************************************)
(* Type correctness.                                                       *)
(***************************************************************************)
\* The answers and the audit lines the actions build are well formed.
LEMMA RepliesTyped ==
  /\ NoReply \in ReplyType
  /\ \A k \in {"none", "tables", "path", "no_export", "result", "error", "cancelled"} :
       Plain(k) \in ReplyType
  /\ \A c \in Calls, n \in Nat \cup {NoCount}, trunc \in BOOLEAN, err \in BOOLEAN :
       Line(c, n, trunc, err) \in LineType
BY DEF NoReply, Plain, ReplyType, Line, LineType

\* The result of an accepted statement is well formed.
LEMMA ResultTyped ==
  ASSUME NEW c \in Calls, NEW r \in RequestType, TextAccepted(r), NEW m \in Nat
  PROVE  ResultOf(c, RowsReturned(SentLimit(r), m)) \in ReplyType
BY CountsTyped DEF ResultOf, ReplyType

\* Answering keeps the variables it writes well formed.
LEMMA AnswerTyped ==
  ASSUME TypeOK, NEW c \in Calls, NEW rep \in ReplyType, Answer(c, rep)
  PROVE  /\ pc' \in [Calls -> {"idle", "done", "lost"} \cup InFlight]
         /\ at' \in [Calls -> Calls \cup {NoPool}]
         /\ cost' \in [Calls -> Nat \cup {NoCost}]
         /\ reply' \in [Calls -> ReplyType]
         /\ pc' = [pc EXCEPT ![c] = "done"]
BY DEF TypeOK, Answer

\* So does auditing and answering, whether or not the audit write fails.
LEMMA AuditAndAnswerTyped ==
  ASSUME TypeOK, NEW c \in Calls, NEW rep \in ReplyType, NEW line \in LineType,
         AuditAndAnswer(c, rep, line)
  PROVE  /\ pc' \in [Calls -> {"idle", "done", "lost"} \cup InFlight]
         /\ at' \in [Calls -> Calls \cup {NoPool}]
         /\ cost' \in [Calls -> Nat \cup {NoCost}]
         /\ reply' \in [Calls -> ReplyType]
         /\ audit' \in Seq(LineType)
         /\ pc' = [pc EXCEPT ![c] = "done"]
<1>1. CASE audit' = Append(audit, line) /\ Answer(c, rep)
  <2>1. audit' \in Seq(LineType)
    BY <1>1 DEF TypeOK
  <2> QED
    BY <1>1, <2>1, AnswerTyped
<1>2. CASE UNCHANGED audit /\ \E other \in ReplyType : Answer(c, other)
  BY <1>2, AnswerTyped DEF TypeOK
<1>3. Plain("error") \in ReplyType
  BY RepliesTyped
<1> QED
  BY <1>1, <1>2, <1>3 DEF AuditAndAnswer

\* Releasing keeps the holders well formed.
LEMMA ReleaseTyped ==
  ASSUME TypeOK, NEW c \in Calls, Release(c)
  PROVE  holders' \in [Calls -> SUBSET Calls]
BY DEF TypeOK, Release

\* The body of a tool up to its first await keeps types, and the call it leaves in
\* flight was admitted.
LEMMA StartTyped ==
  ASSUME TypeInv, NEW c \in Calls, NEW r \in RequestType, NEW p \in Calls \cup {NoPool},
         req' = [req EXCEPT ![c] = r], r.tool \in DatabaseTools, Start(c, r, p)
  PROVE  /\ pc' \in [Calls -> {"idle", "done", "lost"} \cup InFlight]
         /\ at' \in [Calls -> Calls \cup {NoPool}]
         /\ cost' \in [Calls -> Nat \cup {NoCost}]
         /\ reply' \in [Calls -> ReplyType]
         /\ audit' \in Seq(LineType)
         /\ \A d \in Calls : Admitted(d)'
<1> USE DEF TypeInv
<1>0. /\ Plain("error") \in ReplyType
      /\ Line(c, NoCount, FALSE, TRUE) \in LineType
      /\ req'[c] = r
      /\ \A d \in Calls \ {c} : req'[d] = req[d]
  BY RepliesTyped DEF TypeOK
<1>1. CASE NameRefused(r) /\ Answer(c, Plain("error")) /\ UNCHANGED audit
  <2>1. \A d \in Calls : Admitted(d)'
    BY <1>0, <1>1 DEF TypeOK, Answer, Admitted, InFlight, Waiting, Running
  <2> QED
    BY <1>0, <1>1, <2>1, AnswerTyped DEF TypeOK
<1>2. CASE /\ r.tool = "describe_table"
           /\ WaitFor(c, "fetch_wait", p)
           /\ UNCHANGED <<reply, cost, audit>>
  <2>1. \A d \in Calls : Admitted(d)'
    BY <1>0, <1>2 DEF TypeOK, WaitFor, Admitted, InFlight, Waiting, Running, PipelineTools, DatabaseTools
  <2> QED
    BY <1>2, <2>1 DEF TypeOK, WaitFor, InFlight, Waiting
<1>3. CASE AuditAndAnswer(c, Plain("error"), Line(c, NoCount, FALSE, TRUE))
  <2>1. /\ pc' = [pc EXCEPT ![c] = "done"]
        /\ \A d \in Calls \ {c} : cost'[d] = cost[d]
    BY <1>0, <1>3, AuditAndAnswerTyped DEF AuditAndAnswer, Answer, TypeOK
  <2>2. \A d \in Calls : Admitted(d)'
    BY <1>0, <2>1 DEF TypeOK, Admitted, InFlight, Waiting, Running
  <2> QED
    BY <1>0, <1>3, <2>2, AuditAndAnswerTyped
<1>4. CASE /\ r.tool \in PipelineTools
           /\ TextAccepted(r)
           /\ WaitFor(c, "explain_wait", p)
           /\ UNCHANGED <<reply, cost, audit>>
  <2>1. \A d \in Calls : Admitted(d)'
    BY <1>0, <1>4 DEF TypeOK, WaitFor, Admitted, InFlight, Waiting, Running, DatabaseTools
  <2> QED
    BY <1>4, <2>1 DEF TypeOK, WaitFor, InFlight, Waiting
<1> QED
  BY <1>1, <1>2, <1>3, <1>4 DEF Start

\* An answer alone admits nothing new: the call is over.
LEMMA AnswerAdmits ==
  ASSUME TypeInv, NEW c \in Calls, UNCHANGED req,
         pc' = [pc EXCEPT ![c] = "done"],
         \A d \in Calls \ {c} : cost'[d] = cost[d]
  PROVE  \A d \in Calls : Admitted(d)'
BY DEF TypeInv, TypeOK, Admitted, InFlight, Waiting, Running

\* The steps that end in an audited answer and write nothing but holders besides.
LEMMA AuditedEndTyped ==
  ASSUME TypeInv, NEW c \in Calls, NEW rep \in ReplyType, NEW line \in LineType,
         AuditAndAnswer(c, rep, line), Release(c),
         req' = req, matching' \in [Calls -> Nat], exports' \in [Calls -> ExportState],
         UNCHANGED <<poolVars, crashes>>
  PROVE  TypeInv'
<1>1. \A d \in Calls \ {c} : cost'[d] = cost[d]
  BY DEF AuditAndAnswer, Answer, TypeInv, TypeOK
<1>2. \A d \in Calls : Admitted(d)'
  BY <1>1, AnswerAdmits, AuditAndAnswerTyped DEF TypeInv
<1>3. TypeOK'
  BY AuditAndAnswerTyped, ReleaseTyped DEF TypeInv, TypeOK, poolVars
<1> QED
  BY <1>2, <1>3 DEF TypeInv

\* The two ways the process dies keep types, given that the files do.
LEMMA DieTyped ==
  ASSUME TypeInv, Die, audit' \in Seq(LineType), exports' \in [Calls -> ExportState]
  PROVE  TypeInv'
<1>1. /\ crashes' \in Nat
      /\ pc' \in [Calls -> {"idle", "done", "lost"} \cup InFlight]
      /\ at' \in [Calls -> Calls \cup {NoPool}]
      /\ cost' \in [Calls -> Nat \cup {NoCost}]
      /\ holders' \in [Calls -> SUBSET Calls]
      /\ UNCHANGED <<req, reply, matching>>
      /\ connected' = FALSE /\ pool' = NoPool /\ open' = {}
  BY DEF TypeInv, TypeOK, Die, callVars
<1>2. \A c \in Calls : pc'[c] \in {"idle", "done", "lost"}
  BY DEF Die
<1>3. \A c \in Calls : Admitted(c)'
  BY <1>2 DEF Admitted, InFlight, Waiting, Running
<1>4. TypeOK'
  BY <1>1 DEF TypeInv, TypeOK
<1> QED
  BY <1>3, <1>4 DEF TypeInv

\* Initially every variable has its type and no call is in flight.
LEMMA InitTyped == Init => TypeInv
<1> SUFFICES ASSUME Init PROVE TypeInv
  OBVIOUS
<1>1. NoRequest \in RequestType
  BY NamesAssumption DEF NoRequest, RequestType, Tools, TextType, BlankText
<1>2. TypeOK
  <2>1. audit \in Seq(LineType)
    BY DEF Init
  <2>2. reply \in [Calls -> ReplyType]
    BY RepliesTyped DEF Init
  <2>3. req \in [Calls -> RequestType]
    BY <1>1 DEF Init
  <2> QED
    BY <2>1, <2>2, <2>3 DEF Init, TypeOK, ExportState
<1>3. \A c \in Calls : Admitted(c)
  BY DEF Init, Admitted, InFlight, Waiting, Running
<1> QED
  BY <1>2, <1>3 DEF TypeInv

\* Every step keeps TypeInv.
LEMMA NextTyped == TypeInv /\ [Next]_vars => TypeInv'
<1> SUFFICES ASSUME TypeInv, [Next]_vars PROVE TypeInv'
  OBVIOUS
<1> USE DEF TypeInv
<1>0. Requests \subseteq RequestType
  BY ServerAssumption
<1>1. ASSUME NEW c \in Calls, NEW r \in Requests, ListTables(c, r)
      PROVE  TypeInv'
  <2>1. Plain("tables") \in ReplyType
    BY RepliesTyped
  <2>2. TypeOK'
    BY <1>0, <1>1, <2>1, AnswerTyped DEF ListTables, TypeOK, poolVars
  <2>3. \A d \in Calls : Admitted(d)'
    BY <1>1 DEF ListTables, Answer, TypeOK, Admitted, InFlight, Waiting, Running
  <2> QED
    BY <2>2, <2>3
<1>2. ASSUME NEW c \in Calls, NEW r \in Requests, ExportCsv(c, r)
      PROVE  TypeInv'
  <2>1. Plain("path") \in ReplyType /\ Plain("no_export") \in ReplyType
    BY RepliesTyped
  <2>2. TypeOK'
    BY <1>0, <1>2, <2>1, AnswerTyped DEF ExportCsv, TypeOK, poolVars
  <2>3. \A d \in Calls : Admitted(d)'
    BY <1>2 DEF ExportCsv, Answer, TypeOK, Admitted, InFlight, Waiting, Running
  <2> QED
    BY <2>2, <2>3
<1>3. ASSUME NEW c \in Calls, NEW r \in Requests, CallTool(c, r)
      PROVE  TypeInv'
  <2>1. /\ req' = [req EXCEPT ![c] = r] /\ r.tool \in DatabaseTools /\ r \in RequestType
        /\ Start(c, r, pool) /\ pool \in Calls \cup {NoPool}
    BY <1>0, <1>3 DEF CallTool, TypeOK
  <2>2. TypeOK'
    BY <1>0, <1>3, <2>1, StartTyped DEF CallTool, TypeOK
  <2> QED
    BY <2>1, <2>2, StartTyped
<1>4. ASSUME NEW c \in Calls, NEW r \in Requests, CallToolFirst(c, r)
      PROVE  TypeInv'
  <2>1. TypeOK'
    BY <1>0, <1>4 DEF CallToolFirst, WaitFor, TypeOK, poolVars, InFlight
  <2>2. \A d \in Calls : Admitted(d)'
    BY <1>4 DEF CallToolFirst, WaitFor, TypeOK, Admitted, InFlight, Waiting, Running
  <2> QED
    BY <2>1, <2>2
<1>5. ASSUME NEW c \in Calls, Connected(c)
      PROVE  TypeInv'
  <2>1. /\ req' = [req EXCEPT ![c] = req[c]] /\ Start(c, req[c], c)
        /\ req[c] \in RequestType /\ req[c].tool \in DatabaseTools
    BY <1>5 DEF Connected, callVars, TypeOK, Admitted, InFlight
  <2>2. /\ pc' \in [Calls -> {"idle", "done", "lost"} \cup InFlight]
        /\ at' \in [Calls -> Calls \cup {NoPool}]
        /\ cost' \in [Calls -> Nat \cup {NoCost}]
        /\ reply' \in [Calls -> ReplyType]
        /\ audit' \in Seq(LineType)
        /\ \A d \in Calls : Admitted(d)'
    BY <2>1, StartTyped
  <2>3. TypeOK'
    BY <1>5, <2>2 DEF Connected, callVars, TypeOK
  <2> QED
    BY <2>2, <2>3
<1>6. ASSUME NEW c \in Calls, ConnectFails(c)
      PROVE  TypeInv'
  <2>1. Plain("error") \in ReplyType
    BY RepliesTyped
  <2>2. TypeOK'
    BY <1>6, <2>1, AnswerTyped DEF ConnectFails, callVars, poolVars, TypeOK
  <2>3. \A d \in Calls : Admitted(d)'
    BY <1>6, AnswerAdmits DEF ConnectFails, Answer, callVars, TypeOK
  <2> QED
    BY <2>2, <2>3
<1>7. ASSUME NEW c \in Calls, Acquire(c)
      PROVE  TypeInv'
  <2>1. TypeOK'
    BY <1>7 DEF Acquire, CanAcquire, callVars, poolVars, TypeOK, InFlight, Running
  <2>2. \A d \in Calls : Admitted(d)'
    BY <1>7 DEF Acquire, CanAcquire, callVars, TypeOK, Admitted, InFlight, Waiting, Running
  <2> QED
    BY <2>1, <2>2
<1>8. ASSUME NEW c \in Calls, NEW k \in Costs \cup {NoCost}, ExplainReturns(c, k)
      PROVE  TypeInv'
  <2>1. k \in Nat \cup {NoCost}
    BY ServerAssumption
  <2>2. CASE /\ CostReadable(k) /\ WithinBudget(k)
             /\ WaitFor(c, "fetch_wait", pool)
             /\ cost' = [cost EXCEPT ![c] = k]
             /\ UNCHANGED <<reply, audit>>
    <3>1. holders' \in [Calls -> SUBSET Calls]
      BY <1>8, ReleaseTyped DEF ExplainReturns
    <3>2. TypeOK'
      BY <1>8, <2>1, <2>2, <3>1
         DEF ExplainReturns, WaitFor, callVars, poolVars, TypeOK, InFlight, Waiting
    <3>3. \A d \in Calls : Admitted(d)'
      BY <1>8, <2>2
         DEF ExplainReturns, WaitFor, callVars, TypeOK, Admitted, InFlight, Waiting, Running
    <3> QED
      BY <3>2, <3>3
  <2>3. CASE AuditAndAnswer(c, Plain("error"), Line(c, NoCount, FALSE, TRUE))
    BY <1>8, <2>3, RepliesTyped, AuditedEndTyped DEF ExplainReturns, callVars, TypeOK
  <2> QED
    BY <1>8, <2>2, <2>3 DEF ExplainReturns
<1>9. ASSUME NEW c \in Calls, NEW m \in Matching(req[c]), FetchReturns(c, m)
      PROVE  TypeInv'
  <2> DEFINE n == RowsReturned(SentLimit(req[c]), m)
  <2>1. /\ req[c] \in RequestType /\ TextAccepted(req[c]) /\ m \in Nat
    BY <1>9, MatchingTyped DEF FetchReturns, TypeOK, Admitted, Running
  <2>2. /\ ResultOf(c, n) \in ReplyType /\ Plain("error") \in ReplyType
        /\ Line(c, TrimmedCount(n), Truncated(n), FALSE) \in LineType
        /\ Line(c, TrimmedCount(n), Truncated(n), TRUE) \in LineType
    BY <2>1, CountsTyped, ResultTyped, RepliesTyped
  <2>3. matching' \in [Calls -> Nat] /\ req' = req /\ UNCHANGED <<poolVars, crashes>>
        /\ Release(c)
    BY <1>9, <2>1 DEF FetchReturns, TypeOK
  <2>4. exports' \in [Calls -> ExportState]
    BY <1>9 DEF FetchReturns, Finish, TypeOK, ExportState
  <2>5. \/ AuditAndAnswer(c, ResultOf(c, n), Line(c, TrimmedCount(n), Truncated(n), FALSE))
        \/ AuditAndAnswer(c, Plain("error"), Line(c, TrimmedCount(n), Truncated(n), TRUE))
    BY <1>9 DEF FetchReturns, Finish
  <2> QED
    BY <2>2, <2>3, <2>4, <2>5, AuditedEndTyped
<1>10. ASSUME NEW c \in Calls, NEW m \in Matching(req[c]), DescribeReturns(c, m)
       PROVE  TypeInv'
  <2>1. m \in Nat
    BY <1>10, MatchingTyped DEF TypeOK
  <2>2. /\ [Plain("result") EXCEPT !.row_count = m, !.inline = m] \in ReplyType
        /\ Line(c, m, FALSE, FALSE) \in LineType
    BY <2>1, RepliesTyped DEF ReplyType
  <2> QED
    BY <1>10, <2>1, <2>2, AuditedEndTyped DEF DescribeReturns, TypeOK
<1>11. ASSUME NEW c \in Calls, QueryFails(c)
       PROVE  TypeInv'
  BY <1>11, RepliesTyped, AuditedEndTyped DEF QueryFails, callVars, TypeOK
<1>12. ASSUME NEW c \in Calls, Cancel(c)
       PROVE  TypeInv'
  <2>0. Plain("cancelled") \in ReplyType /\ Line(c, NoCount, FALSE, FALSE) \in LineType
    BY RepliesTyped
  <2>1. CASE Answer(c, Plain("cancelled")) /\ UNCHANGED audit
    <3>1. holders' \in [Calls -> SUBSET Calls]
      BY <1>12, ReleaseTyped DEF Cancel
    <3>2. TypeOK'
      BY <1>12, <2>0, <2>1, <3>1, AnswerTyped DEF Cancel, callVars, poolVars, TypeOK
    <3>3. \A d \in Calls : Admitted(d)'
      BY <1>12, <2>1, AnswerAdmits DEF Cancel, Answer, callVars, TypeOK
    <3> QED
      BY <3>2, <3>3
  <2>2. CASE AuditAndAnswer(c, Plain("cancelled"), Line(c, NoCount, FALSE, FALSE))
    BY <1>12, <2>0, <2>2, AuditedEndTyped DEF Cancel, callVars, TypeOK
  <2> QED
    BY <1>12, <2>1, <2>2 DEF Cancel
<1>13. CASE Crash
  BY <1>13, DieTyped DEF Crash, TypeOK
<1>14. ASSUME NEW c \in Calls, NEW m \in Matching(req[c]), CrashFinishing(c, m)
       PROVE  TypeInv'
  <2> DEFINE n == RowsReturned(SentLimit(req[c]), m)
  <2>1. /\ req[c] \in RequestType /\ TextAccepted(req[c]) /\ m \in Nat
    BY <1>14, MatchingTyped DEF CrashFinishing, TypeOK, Admitted, Running
  <2>2. \A err \in BOOLEAN : Line(c, TrimmedCount(n), Truncated(n), err) \in LineType
    BY <2>1, CountsTyped, RepliesTyped
  <2>3. exports' \in [Calls -> ExportState]
    BY <1>14 DEF CrashFinishing, TypeOK, ExportState
  <2>4. audit' \in Seq(LineType)
    <3>1. \/ UNCHANGED audit
          \/ \E err \in BOOLEAN : audit' = Append(audit, Line(c, TrimmedCount(n), Truncated(n), err))
      BY <1>14 DEF CrashFinishing
    <3>2. \A line \in LineType : Append(audit, line) \in Seq(LineType)
      BY DEF TypeOK
    <3> QED
      BY <2>2, <3>1, <3>2 DEF TypeOK
  <2> QED
    BY <1>14, <2>3, <2>4, DieTyped DEF CrashFinishing
<1>15. ASSUME NEW c \in Calls, NEW m \in Matching(req[c]), CrashReporting(c, m)
       PROVE  TypeInv'
  <2>1. m \in Nat
    BY MatchingTyped DEF TypeOK
  <2>2. Line(c, NoCount, FALSE, TRUE) \in LineType /\ Line(c, m, FALSE, FALSE) \in LineType
    BY <2>1, RepliesTyped
  <2>3. audit' \in Seq(LineType)
    <3>1. \A line \in LineType : Append(audit, line) \in Seq(LineType)
      BY DEF TypeOK
    <3> QED
      BY <1>15, <2>2, <3>1 DEF CrashReporting
  <2> QED
    BY <1>15, <2>3, DieTyped DEF CrashReporting, TypeOK
<1>16. CASE UNCHANGED vars
  BY <1>16 DEF vars, TypeOK, Admitted
<1> QED
  BY <1>1, <1>2, <1>3, <1>4, <1>5, <1>6, <1>7, <1>8, <1>9, <1>10, <1>11, <1>12, <1>13,
     <1>14, <1>15, <1>16 DEF Next, Progress, Quiet

\* TypeInv holds in every reachable state.
THEOREM TypeInvariant == Spec => []TypeInv
BY InitTyped, NextTyped, PTL DEF Spec

\* Type correctness, for every instance.
THEOREM TypeCorrect == Spec => []TypeOK
<1>1. TypeInv => TypeOK
  BY DEF TypeInv
<1> QED
  BY <1>1, TypeInvariant, PTL
-----------------------------------------------------------------------------
(***************************************************************************)
(* What reaches the database.                                              *)
(***************************************************************************)
\* A text the validator accepts is one statement without DML over allowlisted names.
LEMMA AcceptedIsVetted ==
  ASSUME NEW r \in RequestType, TextAccepted(r)
  PROVE  LET tree == SqlOf(r).stmts[1] IN
           /\ Len(SqlOf(r).stmts) = 1
           /\ tree.root \notin ForbiddenNodes \cup {"None"}
           /\ tree.nodes = {}
           /\ \A t \in tree.tables :
                t = Unnamed \/ \E a \in TableAllowlist : Lower[a] = Lower[t]
<1> DEFINE tree == SqlOf(r).stmts[1]
<1>1. tree \in StatementType
  BY SentLimitTyped
<1>2. /\ Len(SqlOf(r).stmts) = 1
      /\ tree.root \in QueryRoots
      /\ tree.nodes \cap ForbiddenNodes = {}
      /\ \A t \in tree.tables \ {Unnamed} : Lower[t] \in {Lower[a] : a \in allowlist_set}
  BY DEF TextAccepted, validate_select
<1>3. tree.root \notin ForbiddenNodes \cup {"None"}
  BY <1>2 DEF QueryRoots, ForbiddenNodes
<1>4. tree.nodes = {}
  BY <1>1, <1>2 DEF StatementType
<1>5. ASSUME NEW t \in tree.tables, t # Unnamed
      PROVE  \E a \in TableAllowlist : Lower[a] = Lower[t]
  <2>1. PICK a \in allowlist_set : Lower[a] = Lower[t]
    BY <1>2, <1>5
  <2>2. PICK b \in TableAllowlist : Lower[b] = a
    BY <2>1 DEF allowlist_set
  <2>3. Lower[Lower[b]] = Lower[b]
    BY <2>2, NamesAssumption
  <2> QED
    BY <2>1, <2>2, <2>3
<1> QED
  BY <1>2, <1>3, <1>4, <1>5

\* Only vetted statements reach the database, and only after an EXPLAIN within budget
\* are they fetched: in every reachable state of every instance.
THEOREM OnlyVettedStatements == Spec => []StatementsVetted
<1>1. TypeInv => StatementsVetted
  <2> SUFFICES ASSUME TypeInv, NEW c \in Calls,
                      pc[c] \in Waiting \cup Running, req[c].tool \in PipelineTools
               PROVE  /\ Len(SqlOf(req[c]).stmts) = 1
                      /\ SqlOf(req[c]).stmts[1].root \notin ForbiddenNodes \cup {"None"}
                      /\ SqlOf(req[c]).stmts[1].nodes = {}
                      /\ \A t \in SqlOf(req[c]).stmts[1].tables :
                           t = Unnamed \/ \E a \in TableAllowlist : Lower[a] = Lower[t]
                      /\ SentLimit(req[c]).kind = "literal" /\ SentLimit(req[c]).n <= RowCap + 1
                      /\ pc[c] \in {"fetch_wait", "fetch"}
                           => cost[c] \in Nat /\ cost[c] <= MaxPlanCost
    BY DEF StatementsVetted
  <2>1. TextAccepted(req[c]) /\ req[c] \in RequestType
    BY DEF TypeInv, TypeOK, Admitted
  <2>2. pc[c] \in {"fetch_wait", "fetch"} => cost[c] \in Nat /\ cost[c] <= MaxPlanCost
    BY DEF TypeInv, TypeOK, Admitted, CostReadable, WithinBudget
  <2> QED
    BY <2>1, <2>2, AcceptedIsVetted, SentLimitTyped
<1> QED
  BY <1>1, TypeInvariant, PTL
-----------------------------------------------------------------------------
(***************************************************************************)
(* Connections and pools.                                                  *)
(***************************************************************************)
\* ConnectionsAccounted and PoolAssertHolds need each other, and that a pool is open
\* while db.pool names it: EXPLAIN's return reads db.pool again.
ConnectionInv ==
  /\ ConnectionsAccounted
  /\ PoolAssertHolds
  /\ pool # NoPool => pool \in open
  /\ \A c \in Calls : pc[c] \in Waiting \cup Running => pool \in open

\* A step that takes one call out of its place, and out of any pool, keeps the
\* accounting, wherever the call goes on to wait.
LEMMA LeavingKeepsAccounts ==
  ASSUME TypeInv, ConnectionInv, NEW c \in Calls,
         Release(c) \/ (UNCHANGED holders /\ pc[c] \notin Running),
         UNCHANGED poolVars,
         \A d \in Calls \ {c} : pc'[d] = pc[d] /\ at'[d] = at[d],
         \/ pc'[c] = "done"
         \/ pc'[c] \in Waiting /\ at'[c] = pool /\ pool \in open
  PROVE  ConnectionInv'
<1> USE DEF ConnectionInv, poolVars
<1>1. \A d, p \in Calls : d \in holders'[p] <=> d # c /\ d \in holders[p]
  <2>1. CASE Release(c)
    BY <2>1 DEF Release
  <2>2. CASE UNCHANGED holders /\ pc[c] \notin Running
    BY <2>2 DEF ConnectionsAccounted
  <2> QED
    BY <2>1, <2>2
<1>2. pc'[c] \notin Running
  BY DEF Running, Waiting
<1>3. ConnectionsAccounted'
  <2> SUFFICES ASSUME NEW d \in Calls, NEW p \in Calls
               PROVE  /\ d \in holders'[p] <=> pc'[d] \in Running /\ at'[d] = p
                      /\ d \in holders'[p] => p \in open'
    BY DEF ConnectionsAccounted
  <2>1. CASE d = c
    BY <1>1, <1>2, <2>1
  <2>2. CASE d # c
    BY <1>1, <2>2 DEF ConnectionsAccounted
  <2> QED
    BY <2>1, <2>2
<1>4. PoolAssertHolds' /\ (pool # NoPool => pool \in open)'
  BY <1>2 DEF PoolAssertHolds, Waiting, Running
<1>5. \A d \in Calls : pc'[d] \in Waiting \cup Running => pool' \in open'
  BY DEF Waiting, Running
<1> QED
  BY <1>3, <1>4, <1>5

\* Answering, audited or not, and starting touch the place of no other call.
LEMMA AnswerMovesOne ==
  ASSUME TypeInv, NEW c \in Calls, NEW rep, NEW line,
         Answer(c, rep) \/ AuditAndAnswer(c, rep, line)
  PROVE  /\ pc'[c] = "done"
         /\ \A d \in Calls \ {c} : pc'[d] = pc[d] /\ at'[d] = at[d]
BY DEF TypeInv, TypeOK, Answer, AuditAndAnswer

\* The body of a tool up to its first await moves only its own call.
LEMMA StartMovesOne ==
  ASSUME TypeInv, NEW c \in Calls, NEW r, NEW p, Start(c, r, p)
  PROVE  /\ pc'[c] = "done" \/ (pc'[c] \in Waiting /\ at'[c] = p)
         /\ \A d \in Calls \ {c} : pc'[d] = pc[d] /\ at'[d] = at[d]
<1>1. CASE \E rep, line : Answer(c, rep) \/ AuditAndAnswer(c, rep, line)
  BY <1>1, AnswerMovesOne
<1>2. CASE WaitFor(c, "fetch_wait", p) \/ WaitFor(c, "explain_wait", p)
  BY <1>2 DEF WaitFor, Waiting, TypeInv, TypeOK
<1> QED
  BY <1>1, <1>2 DEF Start

\* Every step keeps the accounting of connections.
LEMMA NextConnections == TypeInv /\ ConnectionInv /\ [Next]_vars => ConnectionInv'
<1> SUFFICES ASSUME TypeInv, ConnectionInv, [Next]_vars PROVE ConnectionInv'
  OBVIOUS
<1>1. ASSUME NEW c \in Calls, NEW r \in Requests, ListTables(c, r) \/ ExportCsv(c, r)
      PROVE  ConnectionInv'
  BY <1>1, AnswerMovesOne, LeavingKeepsAccounts DEF ListTables, ExportCsv, Running
<1>2. ASSUME NEW c \in Calls, NEW r \in Requests, CallTool(c, r)
      PROVE  ConnectionInv'
  <2>1. pool \in open
    BY <1>2 DEF CallTool, MustConnect, ConnectionInv, PoolAssertHolds
  <2>2. /\ pc[c] \notin Running /\ UNCHANGED <<holders, pool, open>> /\ connected' = TRUE
    BY <1>2 DEF CallTool, Running
  <2>3. /\ pc'[c] = "done" \/ (pc'[c] \in Waiting /\ at'[c] = pool)
        /\ \A d \in Calls \ {c} : pc'[d] = pc[d] /\ at'[d] = at[d]
    BY <1>2, StartMovesOne DEF CallTool
  <2>4. ConnectionsAccounted'
    BY <2>2, <2>3 DEF ConnectionInv, ConnectionsAccounted, Waiting, Running
  <2>5. PoolAssertHolds'
    BY <2>1, <2>2, <2>3 DEF ConnectionInv, PoolAssertHolds, Waiting, Running
  <2> QED
    BY <2>1, <2>2, <2>4, <2>5 DEF ConnectionInv
<1>3. ASSUME NEW c \in Calls, NEW r \in Requests, CallToolFirst(c, r)
      PROVE  ConnectionInv'
  <2>1. /\ pc[c] \notin Running /\ UNCHANGED <<holders, poolVars>>
        /\ pc' = [pc EXCEPT ![c] = "connect"] /\ at' = [at EXCEPT ![c] = NoPool]
    BY <1>3 DEF CallToolFirst, WaitFor, Running
  <2>2. ConnectionsAccounted'
    BY <2>1 DEF TypeInv, TypeOK, ConnectionInv, ConnectionsAccounted, Running, poolVars
  <2>3. PoolAssertHolds'
    BY <2>1 DEF TypeInv, TypeOK, ConnectionInv, PoolAssertHolds, Waiting, Running, poolVars
  <2> QED
    BY <2>1, <2>2, <2>3 DEF TypeInv, TypeOK, ConnectionInv, Waiting, Running, poolVars
<1>4. ASSUME NEW c \in Calls, Connected(c)
      PROVE  ConnectionInv'
  <2>1. /\ pc[c] \notin Running /\ UNCHANGED holders
        /\ connected' = TRUE /\ pool' = c /\ open' = open \cup {c}
    BY <1>4 DEF Connected, Running
  <2>2. /\ pc'[c] = "done" \/ (pc'[c] \in Waiting /\ at'[c] = c)
        /\ \A d \in Calls \ {c} : pc'[d] = pc[d] /\ at'[d] = at[d]
    BY <1>4, StartMovesOne DEF Connected
  <2>3. ConnectionsAccounted'
    BY <2>1, <2>2 DEF ConnectionInv, ConnectionsAccounted, Waiting, Running
  <2>4. PoolAssertHolds'
    BY <2>1, <2>2 DEF ConnectionInv, PoolAssertHolds, Waiting, Running
  <2> QED
    BY <2>1, <2>3, <2>4 DEF ConnectionInv
<1>5. ASSUME NEW c \in Calls, ConnectFails(c)
      PROVE  ConnectionInv'
  BY <1>5, AnswerMovesOne, LeavingKeepsAccounts DEF ConnectFails, Running
<1>6. ASSUME NEW c \in Calls, Acquire(c)
      PROVE  ConnectionInv'
  <2>1. /\ pc[c] \in Waiting /\ at[c] \in open /\ at[c] \in Calls
        /\ holders' = [holders EXCEPT ![at[c]] = @ \cup {c}]
        /\ pc'[c] \in Running
        /\ \A d \in Calls \ {c} : pc'[d] = pc[d]
        /\ UNCHANGED <<at, poolVars>>
    BY <1>6 DEF Acquire, CanAcquire, Waiting, Running, TypeInv, TypeOK
  <2>2. \A d, p \in Calls : d \in holders'[p] <=> d \in holders[p] \/ (d = c /\ p = at[c])
    BY <2>1 DEF TypeInv, TypeOK
  <2>3. \A p \in Calls : c \notin holders[p]
    BY <2>1 DEF ConnectionInv, ConnectionsAccounted, Waiting, Running
  <2>4. ConnectionsAccounted'
    BY <2>1, <2>2, <2>3 DEF ConnectionInv, ConnectionsAccounted, poolVars
  <2>5. PoolAssertHolds'
    BY <2>1 DEF ConnectionInv, PoolAssertHolds, Waiting, Running, poolVars
  <2> QED
    BY <2>1, <2>4, <2>5 DEF ConnectionInv, Waiting, Running, poolVars
<1>7. ASSUME NEW c \in Calls, NEW k \in Costs \cup {NoCost}, ExplainReturns(c, k)
      PROVE  ConnectionInv'
  <2>1. Release(c) /\ UNCHANGED poolVars /\ pool \in open
    BY <1>7 DEF ExplainReturns, ConnectionInv, Running
  <2>2. \/ WaitFor(c, "fetch_wait", pool)
        \/ AuditAndAnswer(c, Plain("error"), Line(c, NoCount, FALSE, TRUE))
    BY <1>7 DEF ExplainReturns
  <2>3. CASE WaitFor(c, "fetch_wait", pool)
    <3>1. /\ pc'[c] \in Waiting /\ at'[c] = pool
          /\ \A d \in Calls \ {c} : pc'[d] = pc[d] /\ at'[d] = at[d]
      BY <2>3 DEF WaitFor, Waiting, TypeInv, TypeOK
    <3> QED
      BY <2>1, <3>1, LeavingKeepsAccounts
  <2>4. CASE AuditAndAnswer(c, Plain("error"), Line(c, NoCount, FALSE, TRUE))
    BY <2>1, <2>4, AnswerMovesOne, LeavingKeepsAccounts
  <2> QED
    BY <2>2, <2>3, <2>4
<1>8. ASSUME NEW c \in Calls, Release(c), UNCHANGED poolVars,
             \E rep, line : Answer(c, rep) \/ AuditAndAnswer(c, rep, line)
      PROVE  ConnectionInv'
  BY <1>8, AnswerMovesOne, LeavingKeepsAccounts
<1>9. ASSUME NEW c \in Calls, NEW m \in Matching(req[c]), FetchReturns(c, m)
      PROVE  ConnectionInv'
  BY <1>8, <1>9 DEF FetchReturns, Finish
<1>10. ASSUME NEW c \in Calls, NEW m \in Matching(req[c]), DescribeReturns(c, m)
       PROVE  ConnectionInv'
  BY <1>8, <1>10 DEF DescribeReturns
<1>11. ASSUME NEW c \in Calls, QueryFails(c) \/ Cancel(c)
       PROVE  ConnectionInv'
  BY <1>8, <1>11 DEF QueryFails, Cancel
<1>12. CASE Die
  <2>1. /\ \A c \in Calls : pc'[c] \in {"idle", "done", "lost"}
        /\ holders' = [p \in Calls |-> {}]
        /\ connected' = FALSE /\ pool' = NoPool
    BY <1>12 DEF Die
  <2> QED
    BY <2>1 DEF ConnectionInv, ConnectionsAccounted, PoolAssertHolds, Waiting, Running
<1>13. CASE UNCHANGED vars
  BY <1>13 DEF vars, ConnectionInv, ConnectionsAccounted, PoolAssertHolds
<1> QED
  BY <1>1, <1>2, <1>3, <1>4, <1>5, <1>6, <1>7, <1>9, <1>10, <1>11, <1>12, <1>13
     DEF Next, Progress, Quiet, Crash, CrashFinishing, CrashReporting

\* Initially there is no pool and nobody waits.
LEMMA InitConnections == Init => ConnectionInv
BY ServerAssumption
   DEF Init, ConnectionInv, ConnectionsAccounted, PoolAssertHolds, Waiting, Running

\* ConnectionInv holds in every reachable state.
THEOREM ConnectionInvariant == Spec => []ConnectionInv
BY InitConnections, NextConnections, TypeInvariant, PTL DEF Spec

\* A connection is held exactly while its call runs a query, for any number of calls,
\* pools and crashes.
THEOREM NoConnectionLeaks == Spec => []ConnectionsAccounted
<1>1. ConnectionInv => ConnectionsAccounted
  BY DEF ConnectionInv
<1> QED
  BY <1>1, ConnectionInvariant, PTL

\* The assertions of DB.fetch and DB.fetch_explain never fail.
THEOREM NoMissingPool == Spec => []PoolAssertHolds
<1>1. ConnectionInv => PoolAssertHolds
  BY DEF ConnectionInv
<1> QED
  BY <1>1, ConnectionInvariant, PTL

\* While the server stays connected, every new pool is one that was already being
\* created: the action property of the one place where pools can multiply.
THEOREM NoLatePools == Spec => PoolsOnlyFromFirstCalls
<1>1. ASSUME TypeInv, [Next]_vars, connected, connected'
      PROVE  open' \cup Connecting' \subseteq open \cup Connecting
  <2>1. ASSUME NEW c \in Calls, NEW rep, NEW line,
               Answer(c, rep) \/ AuditAndAnswer(c, rep, line)
        PROVE  Connecting' \subseteq Connecting
    BY <1>1, <2>1, AnswerMovesOne DEF Connecting
  <2>2. ASSUME NEW c \in Calls, NEW r, NEW p, Start(c, r, p)
        PROVE  Connecting' \subseteq Connecting
    BY <1>1, <2>2, StartMovesOne DEF Connecting, Waiting
  <2>3. ASSUME NEW c \in Calls, NEW r \in Requests,
               ListTables(c, r) \/ ExportCsv(c, r) \/ CallTool(c, r) \/ CallToolFirst(c, r)
        PROVE  UNCHANGED open /\ Connecting' \subseteq Connecting
    BY <1>1, <2>1, <2>2, <2>3
       DEF ListTables, ExportCsv, CallTool, CallToolFirst, MustConnect, poolVars
  <2>4. ASSUME NEW c \in Calls, Connected(c)
        PROVE  open' = open \cup {c} /\ c \in Connecting /\ Connecting' \subseteq Connecting
    <3>1. Start(c, req[c], c) /\ open' = open \cup {c} /\ pc[c] = "connect"
      BY <2>4 DEF Connected
    <3> QED
      BY <2>2, <3>1 DEF Connecting
  <2>5. ASSUME NEW c \in Calls, NEW k, ExplainReturns(c, k)
        PROVE  UNCHANGED open /\ Connecting' \subseteq Connecting
    <3>1. CASE WaitFor(c, "fetch_wait", pool)
      BY <2>5, <3>1 DEF ExplainReturns, WaitFor, Connecting, poolVars, TypeInv, TypeOK
    <3>2. CASE AuditAndAnswer(c, Plain("error"), Line(c, NoCount, FALSE, TRUE))
      BY <2>1, <2>5, <3>2 DEF ExplainReturns, poolVars
    <3> QED
      BY <2>5, <3>1, <3>2 DEF ExplainReturns
  <2>6. ASSUME NEW c \in Calls, Acquire(c)
        PROVE  UNCHANGED open /\ Connecting' \subseteq Connecting
    BY <2>6 DEF Acquire, CanAcquire, Connecting, poolVars, TypeInv, TypeOK
  <2>7. ASSUME NEW c \in Calls, NEW m \in Matching(req[c]),
               FetchReturns(c, m) \/ DescribeReturns(c, m)
        PROVE  UNCHANGED open /\ Connecting' \subseteq Connecting
    BY <2>1, <2>7 DEF FetchReturns, Finish, DescribeReturns, poolVars
  <2>8. ASSUME NEW c \in Calls, ConnectFails(c) \/ QueryFails(c) \/ Cancel(c)
        PROVE  UNCHANGED open /\ Connecting' \subseteq Connecting
    BY <2>1, <2>8 DEF ConnectFails, QueryFails, Cancel, poolVars
  <2>9. ~Die
    BY <1>1 DEF Die
  <2>10. CASE UNCHANGED vars
    BY <2>10 DEF vars, Connecting
  <2> QED
    BY <1>1, <2>3, <2>4, <2>5, <2>6, <2>7, <2>8, <2>9, <2>10
       DEF Next, Progress, Quiet, Crash, CrashFinishing, CrashReporting
<1>2. TypeInv /\ [Next]_vars
        => [connected /\ connected' => open' \cup Connecting' \subseteq open \cup Connecting]_vars
  BY <1>1
<1> QED
  BY <1>2, TypeInvariant, PTL DEF Spec, PoolsOnlyFromFirstCalls
=============================================================================

---------------------- MODULE AnalyticsRefinementProofs ----------------------
(***************************************************************************)
(* AnalyticsServer implements AuditedAnswers: however many awaits a call   *)
(* takes, the outside sees it end in one step.                             *)
(***************************************************************************)
EXTENDS AnalyticsAnswerProofs
-----------------------------------------------------------------------------
(***************************************************************************)
(* What has not ended has left no trace.                                   *)
(***************************************************************************)
Ended == {"done", "lost"}

\* A call has no answer before it is done, and no file before it has ended.
Traceless(c) ==
  /\ pc[c] # "done" => reply[c] = NoReply
  /\ pc[c] \notin Ended => exports[c] = "none"

TraceInv == \A c \in Calls : Traceless(c)

\* A call waits, or goes from one wait to the next: nothing is seen of it.
Waits(c) ==
  /\ pc[c] \notin Ended /\ pc'[c] \notin Ended
  /\ \A d \in Calls \ {c} : pc'[d] = pc[d]
  /\ UNCHANGED <<reply, audit, exports>>

\* A call ends with an answer, and touches no file but its own.
AnswersAlone(c) ==
  /\ pc[c] \notin Ended /\ pc'[c] = "done"
  /\ \A d \in Calls \ {c} :
       pc'[d] = pc[d] /\ reply'[d] = reply[d] /\ exports'[d] = exports[d]

LEMMA WaitMaps ==
  ASSUME TypeInv, TraceInv, NEW c \in Calls, Waits(c)
  PROVE  TraceInv' /\ UNCHANGED Audited!vars
<1>1. TraceInv'
  BY DEF Waits, TraceInv, Traceless, Ended
<1>2. \A d \in Calls : pc'[d] = "lost" <=> pc[d] = "lost"
  BY DEF Waits, Ended
<1>3. Seen' = Seen
  BY <1>2 DEF Waits, Seen
<1> QED  BY <1>1, <1>3 DEF Waits, Audited!vars

\* The answer of a call is what its client sees, once.
LEMMA CallEnds ==
  ASSUME TypeInv, TraceInv, NEW c \in Calls, NEW rep, pc[c] \notin Ended, Answer(c, rep)
  PROVE  /\ Audited!Ends(c, rep.kind, rep.export)
         /\ Seen'[c] = rep
<1>1. /\ pc' = [pc EXCEPT ![c] = "done"] /\ DOMAIN pc = Calls
      /\ reply' = [reply EXCEPT ![c] = rep] /\ DOMAIN reply = Calls
  BY DEF Answer, TypeInv, TypeOK
<1>2. \A d \in Calls : /\ pc'[d] = IF d = c THEN "done" ELSE pc[d]
                       /\ reply'[d] = IF d = c THEN rep ELSE reply[d]
  BY <1>1
<1>3. Seen[c] = NoReply /\ Seen'[c] = rep
  BY <1>2 DEF Seen, TraceInv, Traceless, Ended
<1>4. Seen' = [Seen EXCEPT ![c] = rep]
  BY <1>2 DEF Seen
<1> QED  BY <1>3, <1>4 DEF Audited!Ends

LEMMA AnswerIsAlone ==
  ASSUME TypeInv, NEW c \in Calls, NEW rep, pc[c] \notin Ended, Answer(c, rep),
         NEW file, exports' = [exports EXCEPT ![c] = file]
  PROVE  AnswersAlone(c)
BY DEF Answer, AnswersAlone, TypeInv, TypeOK

LEMMA AloneKeepsTraces ==
  ASSUME TraceInv, NEW c \in Calls, AnswersAlone(c)
  PROVE  TraceInv'
BY DEF AnswersAlone, TraceInv, Traceless, Ended

\* A line is appended to the log.
LEMMA LineIsLogged ==
  ASSUME TypeInv, NEW c \in Calls, NEW line \in LineType, line.call = c,
         audit' = Append(audit, line)
  PROVE  Audited!Logged(c) /\ Audited!NewLine = line
<1>1. audit \in Seq(LineType)
  BY DEF TypeInv, TypeOK
<1>2. Len(audit') = Len(audit) + 1 /\ audit'[Len(audit) + 1] = line
  BY <1>1
<1> QED  BY <1>2 DEF Audited!Logged, Audited!NewLine
-----------------------------------------------------------------------------
(***************************************************************************)
(* The ways to end, each of which is a step of AuditedAnswers.             *)
(***************************************************************************)
\* A step of the server that is a step of AuditedAnswers, or one it does not see.
Maps == TraceInv' /\ [Audited!Next]_(Audited!vars)

\* A call that has not ended fails: with its line, and then without a whole file; or
\* without it.
LEMMA ErrorMaps ==
  ASSUME TypeInv, TraceInv, NEW c \in Calls, pc[c] \notin Ended, Answer(c, Plain("error")),
         NEW file, exports' = [exports EXCEPT ![c] = file],
         \/ UNCHANGED audit
         \/ /\ file # "complete"
            /\ \E line \in LineType : /\ line.call = c /\ line.error
                                      /\ audit' = Append(audit, line)
  PROVE  Maps
<1>1. Audited!Ends(c, "error", NoExport)
  <2>1. Plain("error").kind = "error" /\ Plain("error").export = NoExport
    BY DEF Plain, NoReply
  <2> QED  BY <2>1, CallEnds
<1>2. exports'[c] = file
  BY DEF TypeInv, TypeOK
<1>3. Audited!OnlyFileOf(c)
  BY <1>2 DEF Audited!OnlyFileOf
<1>4. UNCHANGED audit \/ (Audited!Logged(c) /\ Audited!NewLine.error /\ exports'[c] # "complete")
  BY <1>2, LineIsLogged
<1>5. Audited!Error(c)
  BY <1>1, <1>3, <1>4 DEF Audited!Error
<1>6. TraceInv'
  BY AnswerIsAlone, AloneKeepsTraces
<1> QED  BY <1>5, <1>6 DEF Maps, Audited!Next

\* The line of a failure comes with it, or could not be written.
LEMMA AuditedErrorMaps ==
  ASSUME TypeInv, TraceInv, NEW c \in Calls, pc[c] \notin Ended,
         NEW line \in LineType, line.call = c, line.error,
         AuditAndAnswer(c, Plain("error"), line),
         NEW file, file # "complete", exports' = [exports EXCEPT ![c] = file]
  PROVE  Maps
<1>1. Answer(c, Plain("error")) /\ (UNCHANGED audit \/ audit' = Append(audit, line))
  BY DEF AuditAndAnswer, Plain, NoReply
<1> QED  BY <1>1, ErrorMaps

\* Rows are given with their line; if that could not be written the call fails.
LEMMA ResultMaps ==
  ASSUME TypeInv, TraceInv, NEW c \in Calls, pc[c] \notin Ended,
         NEW line \in LineType, line.call = c, ~line.error,
         NEW rep, rep.kind = "result",
         line.row_count = rep.row_count, line.truncated = rep.truncated,
         AuditAndAnswer(c, rep, line),
         NEW file, exports' = [exports EXCEPT ![c] = file],
         \/ rep.export = NoExport /\ UNCHANGED exports
         \/ rep.export = c /\ file = "complete"
  PROVE  Maps
<1>1. CASE audit' = Append(audit, line) /\ Answer(c, rep)
  <2>1. Audited!Ends(c, "result", rep.export) /\ Seen'[c] = rep
    BY <1>1, CallEnds
  <2>2. Audited!Logged(c) /\ Audited!NewLine = line
    BY <1>1, LineIsLogged
  <2>3. Audited!Result(c)
    BY <2>1, <2>2 DEF Audited!Result
  <2>4. TraceInv'
    BY <1>1, AnswerIsAlone, AloneKeepsTraces
  <2> QED  BY <2>3, <2>4 DEF Maps, Audited!Next
<1>2. CASE UNCHANGED audit /\ Answer(c, Plain("error"))
  BY <1>2, ErrorMaps
<1> QED  BY <1>1, <1>2 DEF AuditAndAnswer

LEMMA CancelMaps ==
  ASSUME TypeInv, TraceInv, NEW c \in Calls, pc[c] \notin Ended, UNCHANGED exports,
         Answer(c, Plain("cancelled")),
         \/ UNCHANGED audit
         \/ audit' = Append(audit, Line(c, NoCount, FALSE, FALSE))
  PROVE  Maps
<1>1. Audited!Ends(c, "cancelled", NoExport)
  <2>1. Plain("cancelled").kind = "cancelled" /\ Plain("cancelled").export = NoExport
    BY DEF Plain, NoReply
  <2> QED  BY <2>1, CallEnds
<1>2. UNCHANGED audit \/ (/\ Audited!Logged(c)
                          /\ ~Audited!NewLine.error /\ Audited!NewLine.row_count = NoCount)
  <2> DEFINE line == Line(c, NoCount, FALSE, FALSE)
  <2>1. line.call = c /\ ~line.error /\ line.row_count = NoCount
    BY DEF Line
  <2>2. line \in LineType
    BY RepliesTyped
  <2> HIDE DEF line
  <2> QED  BY <2>1, <2>2, LineIsLogged DEF line
<1>3. Audited!Cancelled(c)
  BY <1>1, <1>2 DEF Audited!Cancelled
<1>4. TraceInv'
  <2>1. exports' = [exports EXCEPT ![c] = exports[c]]
    BY DEF TypeInv, TypeOK
  <2> QED  BY <2>1, AnswerIsAlone, AloneKeepsTraces
<1> QED  BY <1>3, <1>4 DEF Maps, Audited!Next

\* list_tables, and export_csv: an id that it finds was told before.
LEMMA FileToolMaps ==
  ASSUME TypeInv, ExportInv, TraceInv, NEW c \in Calls, NEW r \in Requests,
         ListTables(c, r) \/ ExportCsv(c, r)
  PROVE  Maps
<1>1. pc[c] \notin Ended /\ UNCHANGED <<audit, exports>>
  BY DEF ListTables, ExportCsv, Ended
<1>2. PICK k \in {"tables", "path", "no_export"} :
        /\ Answer(c, Plain(k))
        /\ k = "path" => \E d \in Calls : reply[d].export = d
  <2>1. CASE ListTables(c, r)
    BY <2>1 DEF ListTables
  <2>2. CASE ExportCsv(c, r)
    <3>1. r.export # NoExport => \E d \in Calls : reply[d].export = d
      BY <2>2 DEF ExportCsv, ExportInv, ExportsTold
    <3>2. ExportFound(r.export) => r.export # NoExport
      BY DEF ExportFound
    <3> QED  BY <2>2, <3>1, <3>2 DEF ExportCsv
  <2> QED  BY <2>1, <2>2
<1>3. Audited!Ends(c, k, NoExport)
  <2>1. Plain(k).kind = k /\ Plain(k).export = NoExport
    BY DEF Plain, NoReply
  <2> QED  BY <1>1, <1>2, <2>1, CallEnds
<1>4. k = "path" => \E d \in Calls : Seen[d].export = d
  <2> SUFFICES ASSUME NEW d \in Calls, reply[d].export = d PROVE Seen[d].export = d
    BY <1>2
  <2>1. d # NoExport
    BY ServerAssumption
  <2>2. pc[d] = "done"
    BY <2>1 DEF ExportInv, ExportsTold, Settled
  <2> QED  BY <2>2 DEF Seen
<1>5. Audited!Tables(c) \/ Audited!Path(c)
  BY <1>1, <1>2, <1>3, <1>4 DEF Audited!Tables, Audited!Path
<1>6. TraceInv'
  <2>1. exports' = [exports EXCEPT ![c] = exports[c]]
    BY <1>1 DEF TypeInv, TypeOK
  <2> QED  BY <1>1, <1>2, <2>1, AnswerIsAlone, AloneKeepsTraces
<1> QED  BY <1>5, <1>6 DEF Maps, Audited!Next
-----------------------------------------------------------------------------
(***************************************************************************)
(* The deaths of the process.                                              *)
(***************************************************************************)
InTheAir == {c \in Calls : pc[c] \notin {"idle", "done", "lost"}}

\* Death loses the calls in flight, and nobody's answer.
LEMMA DeathIsSeen ==
  ASSUME TypeInv, TraceInv, Die
  PROVE  /\ \A c \in InTheAir : Seen[c] = NoReply
         /\ Seen' = [c \in Calls |-> IF c \in InTheAir THEN Plain("lost") ELSE Seen[c]]
<1>1. \A c \in InTheAir : Seen[c] = NoReply
  BY DEF InTheAir, TraceInv, Traceless, Seen
<1>2. /\ UNCHANGED reply
      /\ \A c \in Calls : pc'[c] = IF pc[c] \in {"idle", "done"} THEN pc[c] ELSE "lost"
  BY DEF Die
<1>3. Seen' = [c \in Calls |-> IF c \in InTheAir THEN Plain("lost") ELSE Seen[c]]
  BY <1>2 DEF Seen, InTheAir
<1> QED  BY <1>1, <1>3

\* Death finds one call at its end at most, with or without its line.
LEMMA DeathMaps ==
  ASSUME TypeInv, TraceInv, Die,
         \/ UNCHANGED <<audit, exports>>
         \/ \E c \in InTheAir, file \in ExportState :
              /\ exports' = [exports EXCEPT ![c] = file]
              /\ \/ UNCHANGED audit
                 \/ \E line \in LineType :
                      /\ line.call = c /\ audit' = Append(audit, line)
                      /\ file # IF line.error THEN "complete" ELSE "partial"
  PROVE  Maps
<1>1. \/ UNCHANGED <<audit, exports>>
      \/ \E c \in InTheAir :
           /\ Audited!OnlyFileOf(c)
           /\ \/ UNCHANGED audit
              \/ /\ Audited!Logged(c)
                 /\ exports'[c] # IF Audited!NewLine.error THEN "complete" ELSE "partial"
  <2> SUFFICES ASSUME NEW c \in InTheAir, NEW file \in ExportState,
                      exports' = [exports EXCEPT ![c] = file],
                      \/ UNCHANGED audit
                      \/ \E line \in LineType :
                           /\ line.call = c /\ audit' = Append(audit, line)
                           /\ file # IF line.error THEN "complete" ELSE "partial"
               PROVE  /\ Audited!OnlyFileOf(c)
                      /\ \/ UNCHANGED audit
                         \/ /\ Audited!Logged(c)
                            /\ exports'[c] # IF Audited!NewLine.error
                                             THEN "complete" ELSE "partial"
    OBVIOUS
  <2>1. c \in Calls
    BY DEF InTheAir
  <2>2. exports'[c] = file
    BY <2>1 DEF TypeInv, TypeOK
  <2>3. Audited!OnlyFileOf(c)
    BY <2>2 DEF Audited!OnlyFileOf
  <2> QED  BY <2>1, <2>2, <2>3, LineIsLogged
<1>2. Audited!Dies(InTheAir)
  BY <1>1, DeathIsSeen DEF Audited!Dies
<1>3. InTheAir \in SUBSET Calls
  BY DEF InTheAir
<1>4. TraceInv'
  <2> SUFFICES ASSUME NEW d \in Calls PROVE Traceless(d)'
    BY DEF TraceInv
  <2>1. UNCHANGED reply /\ pc'[d] = IF pc[d] \in {"idle", "done"} THEN pc[d] ELSE "lost"
    BY DEF Die
  <2>2. pc'[d] \notin Ended => d \notin InTheAir
    BY <2>1 DEF InTheAir, Ended
  <2>3. d \notin InTheAir => exports'[d] = exports[d]
    BY DEF InTheAir, TypeInv, TypeOK
  <2> QED  BY <2>1, <2>2, <2>3 DEF TraceInv, Traceless, Ended
<1> QED  BY <1>2, <1>3, <1>4 DEF Maps, Audited!Next

LEMMA CrashFinishingMaps ==
  ASSUME TypeInv, TraceInv, NEW c \in Calls, NEW m \in Matching(req[c]), CrashFinishing(c, m)
  PROVE  Maps
<1> DEFINE n == RowsReturned(SentLimit(req[c]), m)
           line(err) == Line(c, TrimmedCount(n), Truncated(n), err)
<1>1. /\ req[c] \in RequestType /\ TextAccepted(req[c]) /\ m \in Nat
  BY MatchingTyped DEF CrashFinishing, TypeInv, TypeOK, Admitted, Running
<1>2. \A err \in BOOLEAN : line(err) \in LineType /\ line(err).call = c
  BY <1>1, FinishAgrees
<1>3. \A err \in BOOLEAN : line(err).error = err
  BY DEF Line
<1>4. Die /\ c \in InTheAir /\ exports[c] = "none"
  BY DEF CrashFinishing, InTheAir, TraceInv, Traceless, Ended
<1>5. \E file \in ExportState :
        /\ exports' = [exports EXCEPT ![c] = file]
        /\ \/ UNCHANGED audit
           \/ audit' = Append(audit, line(FALSE)) /\ file # "partial"
           \/ audit' = Append(audit, line(TRUE)) /\ file # "complete"
  BY <1>4 DEF CrashFinishing, ExportState
<1> HIDE DEF line
<1> QED  BY <1>2, <1>3, <1>4, <1>5, DeathMaps

LEMMA CrashReportingMaps ==
  ASSUME TypeInv, TraceInv, NEW c \in Calls, NEW m \in Matching(req[c]), CrashReporting(c, m)
  PROVE  Maps
<1>1. Die /\ c \in InTheAir /\ exports[c] = "none"
  BY DEF CrashReporting, InTheAir, TraceInv, Traceless, Ended
<1>2. exports' = [exports EXCEPT ![c] = "none"] /\ "none" \in ExportState
  BY <1>1 DEF CrashReporting, TypeInv, TypeOK, ExportState
<1>3. PICK line \in {Line(c, NoCount, FALSE, TRUE), Line(c, m, FALSE, FALSE)} :
        audit' = Append(audit, line)
  BY DEF CrashReporting
<1>4. line \in LineType /\ line.call = c
  <2>1. m \in Nat \cup {NoCount} /\ NoCount \in Nat \cup {NoCount}
    BY MatchingTyped DEF TypeInv, TypeOK
  <2>2. Line(c, NoCount, FALSE, TRUE) \in LineType /\ Line(c, m, FALSE, FALSE) \in LineType
    BY <2>1, RepliesTyped
  <2>3. Line(c, NoCount, FALSE, TRUE).call = c /\ Line(c, m, FALSE, FALSE).call = c
    BY DEF Line
  <2> QED  BY <2>2, <2>3
<1> QED  BY <1>1, <1>2, <1>3, <1>4, DeathMaps
-----------------------------------------------------------------------------
(***************************************************************************)
(* The refinement.                                                         *)
(***************************************************************************)
LEMMA StartMaps ==
  ASSUME TypeInv, TraceInv, NEW c \in Calls, NEW r, NEW p, pc[c] \notin Ended,
         UNCHANGED exports, Start(c, r, p)
  PROVE  Maps
<1>0. /\ Line(c, NoCount, FALSE, TRUE) \in LineType
      /\ Line(c, NoCount, FALSE, TRUE).call = c /\ Line(c, NoCount, FALSE, TRUE).error
  BY RepliesTyped DEF Line
<1>1. exports[c] = "none" /\ exports' = [exports EXCEPT ![c] = "none"]
  BY DEF TraceInv, Traceless, TypeInv, TypeOK
<1>2. CASE Answer(c, Plain("error")) /\ UNCHANGED audit
  BY <1>1, <1>2, ErrorMaps
<1>3. CASE AuditAndAnswer(c, Plain("error"), Line(c, NoCount, FALSE, TRUE))
  BY <1>0, <1>1, <1>3, AuditedErrorMaps
<1>4. CASE /\ WaitFor(c, "fetch_wait", p) \/ WaitFor(c, "explain_wait", p)
           /\ UNCHANGED <<reply, audit>>
  <2>1. Waits(c)
    BY <1>4 DEF WaitFor, Waits, Ended, TypeInv, TypeOK
  <2> QED  BY <2>1, WaitMaps DEF Maps
<1> QED  BY <1>2, <1>3, <1>4 DEF Start

\* Every step of the server is a step of AuditedAnswers, or is not seen.
LEMMA NextMaps == TypeInv /\ ExportInv /\ TraceInv /\ [Next]_vars => Maps
<1> SUFFICES ASSUME TypeInv, ExportInv, TraceInv, [Next]_vars PROVE Maps
  OBVIOUS
<1>0. ASSUME NEW c \in Calls
      PROVE  /\ Line(c, NoCount, FALSE, TRUE) \in LineType
             /\ Line(c, NoCount, FALSE, TRUE).call = c /\ Line(c, NoCount, FALSE, TRUE).error
  BY RepliesTyped DEF Line
<1>1. ASSUME NEW c \in Calls, pc[c] \notin Ended, UNCHANGED exports
      PROVE  exports[c] = "none" /\ exports' = [exports EXCEPT ![c] = "none"]
  BY <1>1 DEF TraceInv, Traceless, TypeInv, TypeOK
<1>2. ASSUME NEW c \in Calls, pc[c] \notin Ended, UNCHANGED exports,
             AuditAndAnswer(c, Plain("error"), Line(c, NoCount, FALSE, TRUE))
      PROVE  Maps
  BY <1>0, <1>1, <1>2, AuditedErrorMaps
<1>3. ASSUME NEW c \in Calls, Waits(c)
      PROVE  Maps
  BY <1>3, WaitMaps DEF Maps
<1>4. ASSUME NEW c \in Calls, NEW r \in Requests, ListTables(c, r) \/ ExportCsv(c, r)
      PROVE  Maps
  BY <1>4, FileToolMaps
<1>5. ASSUME NEW c \in Calls, NEW r \in Requests, CallTool(c, r)
      PROVE  Maps
  BY <1>5, StartMaps DEF CallTool, Ended
<1>6. ASSUME NEW c \in Calls, NEW r \in Requests, CallToolFirst(c, r)
      PROVE  Maps
  <2>1. Waits(c)
    BY <1>6 DEF CallToolFirst, WaitFor, Waits, Ended, TypeInv, TypeOK
  <2> QED  BY <1>3, <2>1
<1>7. ASSUME NEW c \in Calls, Connected(c)
      PROVE  Maps
  BY <1>7, StartMaps DEF Connected, Ended
<1>8. ASSUME NEW c \in Calls, ConnectFails(c)
      PROVE  Maps
  <2>1. pc[c] \notin Ended /\ Answer(c, Plain("error")) /\ UNCHANGED <<audit, exports>>
    BY <1>8 DEF ConnectFails, Ended
  <2> QED  BY <1>1, <2>1, ErrorMaps
<1>9. ASSUME NEW c \in Calls, Acquire(c)
      PROVE  Maps
  <2>1. Waits(c)
    BY <1>9 DEF Acquire, CanAcquire, Waits, Ended, TypeInv, TypeOK
  <2> QED  BY <1>3, <2>1
<1>10. ASSUME NEW c \in Calls, NEW k \in Costs \cup {NoCost}, ExplainReturns(c, k)
       PROVE  Maps
  <2>1. pc[c] \notin Ended /\ UNCHANGED exports
    BY <1>10 DEF ExplainReturns, Ended
  <2>2. CASE WaitFor(c, "fetch_wait", pool) /\ UNCHANGED <<reply, audit>>
    <3>1. Waits(c)
      BY <2>1, <2>2 DEF WaitFor, Waits, Ended, TypeInv, TypeOK
    <3> QED  BY <1>3, <3>1
  <2>3. CASE AuditAndAnswer(c, Plain("error"), Line(c, NoCount, FALSE, TRUE))
    BY <1>2, <2>1, <2>3
  <2> QED  BY <1>10, <2>2, <2>3 DEF ExplainReturns
<1>11. ASSUME NEW c \in Calls, NEW m \in Matching(req[c]), FetchReturns(c, m)
       PROVE  Maps
  <2> DEFINE n == RowsReturned(SentLimit(req[c]), m)
             told == Line(c, TrimmedCount(n), Truncated(n), FALSE)
             failed == Line(c, TrimmedCount(n), Truncated(n), TRUE)
             result == ResultOf(c, n)
  <2>1. /\ req[c] \in RequestType /\ TextAccepted(req[c]) /\ m \in Nat
        /\ pc[c] \notin Ended /\ pc[c] = "fetch"
    BY <1>11, MatchingTyped DEF FetchReturns, TypeInv, TypeOK, Admitted, Running, Ended
  <2>2. /\ told \in LineType /\ told.call = c /\ failed \in LineType /\ failed.call = c
    BY <2>1, FinishAgrees
  <2>3. /\ ~told.error /\ failed.error
        /\ told.row_count = result.row_count /\ told.truncated = result.truncated
        /\ result.kind = "result"
        /\ result.export = IF NeedsExport(TrimmedCount(n)) THEN c ELSE NoExport
    BY DEF Line, ResultOf
  <2>4. \/ /\ UNCHANGED exports /\ result.export = NoExport
           /\ AuditAndAnswer(c, result, told)
        \/ /\ exports' = [exports EXCEPT ![c] = "complete"] /\ result.export = c
           /\ AuditAndAnswer(c, result, told)
        \/ /\ \E file \in {"none", "partial"} : exports' = [exports EXCEPT ![c] = file]
           /\ AuditAndAnswer(c, Plain("error"), failed)
    BY <1>11, <2>3 DEF FetchReturns, Finish
  <2> HIDE DEF n, told, failed, result
  <2>5. CASE /\ UNCHANGED exports /\ result.export = NoExport
             /\ AuditAndAnswer(c, result, told)
    BY <1>1, <2>1, <2>2, <2>3, <2>5, ResultMaps
  <2>6. CASE /\ exports' = [exports EXCEPT ![c] = "complete"] /\ result.export = c
             /\ AuditAndAnswer(c, result, told)
    BY <2>1, <2>2, <2>3, <2>6, ResultMaps
  <2>7. CASE /\ \E file \in {"none", "partial"} : exports' = [exports EXCEPT ![c] = file]
             /\ AuditAndAnswer(c, Plain("error"), failed)
    <3>1. PICK file \in {"none", "partial"} : exports' = [exports EXCEPT ![c] = file]
      BY <2>7
    <3>2. file # "complete"
      BY <3>1
    <3> QED  BY <2>1, <2>2, <2>3, <2>7, <3>1, <3>2, AuditedErrorMaps
  <2> QED  BY <2>4, <2>5, <2>6, <2>7
<1>12. ASSUME NEW c \in Calls, NEW m \in Matching(req[c]), DescribeReturns(c, m)
       PROVE  Maps
  <2> DEFINE rep == [Plain("result") EXCEPT !.row_count = m, !.inline = m]
             line == Line(c, m, FALSE, FALSE)
  <2>1. /\ pc[c] \notin Ended /\ UNCHANGED exports
        /\ AuditAndAnswer(c, rep, line)
    BY <1>12 DEF DescribeReturns, Ended
  <2>2. m \in Nat
    BY MatchingTyped DEF TypeInv, TypeOK
  <2>3. line \in LineType
    BY <2>2, RepliesTyped
  <2>4. /\ line.call = c /\ ~line.error /\ rep.kind = "result" /\ rep.export = NoExport
        /\ line.row_count = rep.row_count /\ line.truncated = rep.truncated
    BY DEF Line, Plain, NoReply
  <2> HIDE DEF rep, line
  <2> QED  BY <1>1, <2>1, <2>3, <2>4, ResultMaps
<1>13. ASSUME NEW c \in Calls, QueryFails(c)
       PROVE  Maps
  BY <1>2, <1>13 DEF QueryFails, CanAcquire, Ended
<1>14. ASSUME NEW c \in Calls, Cancel(c)
       PROVE  Maps
  <2>1. pc[c] \notin Ended /\ UNCHANGED exports
    BY <1>14 DEF Cancel, Ended
  <2>2. Plain("cancelled").kind = "cancelled"
    BY DEF Plain, NoReply
  <2>3. /\ Answer(c, Plain("cancelled"))
        /\ UNCHANGED audit \/ audit' = Append(audit, Line(c, NoCount, FALSE, FALSE))
    BY <1>14, <2>2 DEF Cancel, AuditAndAnswer
  <2> QED  BY <2>1, <2>3, CancelMaps
<1>15. CASE Crash
  BY <1>15, DeathMaps DEF Crash
<1>16. ASSUME NEW c \in Calls, NEW m \in Matching(req[c]), CrashFinishing(c, m)
       PROVE  Maps
  BY <1>16, CrashFinishingMaps
<1>17. ASSUME NEW c \in Calls, NEW m \in Matching(req[c]), CrashReporting(c, m)
       PROVE  Maps
  BY <1>17, CrashReportingMaps
<1>18. CASE UNCHANGED vars
  <2>1. TraceInv'
    BY <1>18 DEF vars, TraceInv, Traceless
  <2>2. UNCHANGED Audited!vars
    BY <1>18 DEF vars, Audited!vars, Seen
  <2> QED  BY <2>1, <2>2 DEF Maps
<1> QED
  BY <1>4, <1>5, <1>6, <1>7, <1>8, <1>9, <1>10, <1>11, <1>12, <1>13, <1>14, <1>15, <1>16,
     <1>17, <1>18 DEF Next, Progress, Quiet

\* Initially nobody was answered, the log is empty and there is no file.
LEMMA InitMaps == Init => TraceInv /\ Audited!Init
BY DEF Init, TraceInv, Traceless, Audited!Init, Seen

\* The server implements AuditedAnswers: each call ends in one instant, with its answer, its
\* line and its file, whatever runs between its awaits, fails or dies, for every set of
\* calls and requests, every setting and number of crashes.
THEOREM EndsInOneStep == Spec => AnsweredAtomically
<1>1. Init => TraceInv /\ Audited!Init
  BY InitMaps
<1>2. TypeInv /\ ExportInv /\ TraceInv /\ [Next]_vars
        => TraceInv' /\ [Audited!Next]_(Audited!vars)
  BY NextMaps DEF Maps
<1> QED
  BY <1>1, <1>2, TypeInvariant, ExportInvariant, PTL DEF Spec, AnsweredAtomically, Audited!Spec
=============================================================================

----------------------- MODULE AnalyticsAnswerProofs -----------------------
(***************************************************************************)
(* Proofs about what AnalyticsServer tells the outside: the audit log, the *)
(* results and the exports.  They rest on the type invariant and on the    *)
(* lemmas about admitted calls of AnalyticsServerProofs.                   *)
(***************************************************************************)
EXTENDS AnalyticsServerProofs
-----------------------------------------------------------------------------
(***************************************************************************)
(* The audit log.                                                          *)
(***************************************************************************)
\* A line that tells the truth about an answer.
Agrees(line, rep) ==
  /\ line.error <=> rep.kind = "error"
  /\ ~line.error /\ line.row_count = NoCount <=> rep.kind = "cancelled"
  /\ rep.kind = "result" =>
       line.row_count = rep.row_count /\ line.truncated = rep.truncated

\* Only calls that have ended have lines, and only answered calls have answers.
AuditInv ==
  /\ AuditedOnce
  /\ AuditMatchesReply
  /\ \A i \in 1..Len(audit) : pc[audit[i].call] \in {"done", "lost"}
  /\ \A c \in Calls : pc[c] # "done" => reply[c].kind = "none"

\* What the steps do to the calls they are not about: nothing, or a crash loses them.
OthersKeep(c) ==
  \A d \in Calls \ {c} :
    /\ reply'[d] = reply[d]
    /\ pc'[d] = pc[d] \/ (pc[d] # "done" /\ pc'[d] = "lost")
    /\ pc[d] = "lost" => pc'[d] = "lost"

\* Answering concerns one call.
LEMMA AnswerKeepsOthers ==
  ASSUME TypeInv, NEW c \in Calls, NEW rep, Answer(c, rep)
  PROVE  OthersKeep(c) /\ reply'[c] = rep /\ pc'[c] = "done"
<1>1. /\ pc' = [pc EXCEPT ![c] = "done"]
      /\ reply' = [reply EXCEPT ![c] = rep]
  BY DEF Answer
<1>2. DOMAIN pc = Calls /\ DOMAIN reply = Calls
  BY DEF TypeInv, TypeOK
<1>3. /\ reply'[c] = rep /\ pc'[c] = "done"
      /\ \A d \in Calls \ {c} : reply'[d] = reply[d] /\ pc'[d] = pc[d]
  BY <1>1, <1>2
<1> QED
  BY <1>3 DEF OthersKeep

\* A call that had not ended ends with a line that agrees with its answer, or dies
\* after it wrote the line.
LEMMA LineKeepsAudit ==
  ASSUME TypeInv, AuditInv, NEW c \in Calls, NEW line \in LineType,
         pc[c] \notin {"done", "lost"}, line.call = c,
         audit' = Append(audit, line), OthersKeep(c),
         \/ pc'[c] = "done" /\ Agrees(line, reply'[c])
         \/ pc'[c] = "lost" /\ reply'[c] = reply[c]
  PROVE  AuditInv'
<1>0. /\ AuditedOnce /\ AuditMatchesReply
      /\ \A i \in 1..Len(audit) : pc[audit[i].call] \in {"done", "lost"}
      /\ \A d \in Calls : pc[d] # "done" => reply[d].kind = "none"
      /\ audit \in Seq(LineType)
  BY DEF TypeInv, TypeOK, AuditInv
<1>1. /\ Len(audit') = Len(audit) + 1
      /\ audit'[Len(audit) + 1] = line
      /\ \A i \in 1..Len(audit) : audit'[i] = audit[i]
      /\ Len(audit) \in Nat
      /\ \A i \in 1..Len(audit) : audit[i] \in LineType
  BY <1>0
<1>2. \A i \in 1..Len(audit) : audit[i].call \in Calls \ {c}
  BY <1>0, <1>1 DEF LineType
<1>3. \A i, j \in 1..Len(audit') : audit'[i].call = audit'[j].call => i = j
  BY <1>0, <1>1, <1>2 DEF AuditedOnce
<1>4. \A d \in Calls : reply'[d].kind = "result" => Lines(d)' # {}
  <2>1. Len(audit) + 1 \in Lines(c)'
    BY <1>1 DEF Lines
  <2>2. ASSUME NEW d \in Calls \ {c}, reply'[d].kind = "result"
        PROVE  Lines(d)' # {}
    <3>1. reply'[d] = reply[d] /\ reply[d].kind = "result"
      BY <2>2 DEF OthersKeep
    <3>2. PICK i \in 1..Len(audit) : audit[i].call = d
      BY <1>0, <3>1 DEF AuditedOnce, Lines
    <3>3. i \in Lines(d)'
      BY <1>1, <3>2 DEF Lines
    <3> QED
      BY <3>3
  <2> QED
    BY <2>1, <2>2
<1>5. AuditMatchesReply'
  <2> SUFFICES ASSUME NEW d \in Calls, NEW i \in 1..Len(audit'), audit'[i].call = d
               PROVE  /\ pc'[d] = "done" =>
                           /\ audit'[i].error <=> reply'[d].kind = "error"
                           /\ ~audit'[i].error /\ audit'[i].row_count = NoCount
                                <=> reply'[d].kind = "cancelled"
                      /\ reply'[d].kind = "result" =>
                           /\ audit'[i].row_count = reply'[d].row_count
                           /\ audit'[i].truncated = reply'[d].truncated
    BY DEF AuditMatchesReply, Lines
  <2>1. CASE i = Len(audit) + 1
    <3>1. d = c /\ audit'[i] = line
      BY <1>1, <2>1
    <3>2. pc[c] # "done" => reply[c].kind = "none"
      BY <1>0
    <3> QED
      BY <3>1, <3>2 DEF Agrees
  <2>2. CASE i \in 1..Len(audit)
    <3>0. audit'[i] = audit[i] /\ d \in Calls \ {c}
      BY <1>1, <1>2, <2>2
    <3>1. /\ audit'[i] = audit[i] /\ d \in Calls \ {c}
          /\ reply'[d] = reply[d] /\ (pc'[d] = "done" => pc[d] = "done")
      BY <3>0 DEF OthersKeep
    <3>2. i \in Lines(d)
      BY <2>2, <3>1 DEF Lines
    <3> QED
      BY <1>0, <3>1, <3>2 DEF AuditMatchesReply
  <2> QED
    BY <1>1, <2>1, <2>2
<1>6. \A i \in 1..Len(audit') : pc'[audit'[i].call] \in {"done", "lost"}
  <2> SUFFICES ASSUME NEW i \in 1..Len(audit')
               PROVE  pc'[audit'[i].call] \in {"done", "lost"}
    OBVIOUS
  <2>1. CASE i = Len(audit) + 1
    BY <1>1, <2>1
  <2>2. CASE i \in 1..Len(audit)
    <3>1. audit'[i] = audit[i] /\ audit[i].call \in Calls \ {c}
      BY <1>1, <1>2, <2>2
    <3>2. pc[audit[i].call] \in {"done", "lost"}
      BY <1>0, <2>2
    <3> QED
      BY <3>1, <3>2 DEF OthersKeep
  <2> QED
    BY <1>1, <2>1, <2>2
<1>7. \A d \in Calls : pc'[d] # "done" => reply'[d].kind = "none"
  <2> SUFFICES ASSUME NEW d \in Calls, pc'[d] # "done"
               PROVE  reply'[d].kind = "none"
    OBVIOUS
  <2>1. pc[d] # "done" /\ reply'[d] = reply[d]
    BY DEF OthersKeep
  <2> QED
    BY <1>0, <2>1
<1> QED
  BY <1>3, <1>4, <1>5, <1>6, <1>7 DEF AuditInv, AuditedOnce

\* A step that writes no line, and hands out no rows, keeps the log truthful.
LEMMA SilenceKeepsAudit ==
  ASSUME TypeInv, AuditInv, NEW c \in Calls, UNCHANGED audit, OthersKeep(c),
         pc[c] \notin {"done", "lost"},
         \/ (reply'[c] = reply[c] /\ pc'[c] # "done")
         \/ (reply'[c].kind # "result" /\ pc'[c] = "done")
  PROVE  AuditInv'
<1> USE DEF TypeInv, TypeOK, AuditInv
<1>0. \A i \in 1..Len(audit) : audit[i] \in LineType
  OBVIOUS
<1>1. \A i \in 1..Len(audit) : audit[i].call \in Calls \ {c}
  BY <1>0 DEF LineType
<1>2. Lines(c) = {} /\ \A d \in Calls : Lines(d)' = Lines(d)
  BY <1>1 DEF Lines
<1>3. AuditedOnce'
  BY <1>2 DEF AuditedOnce, OthersKeep
<1>4. AuditMatchesReply'
  <2>1. \A d \in Calls \ {c} : reply'[d] = reply[d] /\ (pc'[d] = "done" => pc[d] = "done")
    BY DEF OthersKeep
  <2> QED
    BY <1>2, <2>1 DEF AuditMatchesReply
<1>5. \A i \in 1..Len(audit') : pc'[audit'[i].call] \in {"done", "lost"}
  BY <1>1 DEF OthersKeep
<1> QED
  BY <1>3, <1>4, <1>5 DEF OthersKeep

\* Going to wait keeps the log truthful.
LEMMA WaitKeepsAudit ==
  ASSUME TypeInv, AuditInv, NEW c \in Calls, NEW p, UNCHANGED <<reply, audit>>,
         pc[c] \notin {"done", "lost"},
         NEW place \in {"connect", "explain_wait", "fetch_wait"}, WaitFor(c, place, p)
  PROVE  AuditInv'
<1>1. /\ pc'[c] = place
      /\ \A d \in Calls \ {c} : pc'[d] = pc[d]
  BY DEF TypeInv, TypeOK, WaitFor
<1>2. OthersKeep(c)
  BY <1>1 DEF OthersKeep
<1> QED
  BY <1>1, <1>2, SilenceKeepsAudit

\* Dying answers nobody.
LEMMA DiesKeepOthers ==
  ASSUME TypeInv, NEW c \in Calls, Die
  PROVE  OthersKeep(c)
<1>1. /\ UNCHANGED reply
      /\ \A d \in Calls : /\ pc[d] \in {"idle", "done"} => pc'[d] = pc[d]
                          /\ pc[d] \notin {"idle", "done"} => pc'[d] = "lost"
  BY DEF Die
<1> QED
  BY <1>1 DEF OthersKeep

\* An answer that hands out no rows may go unaudited.
LEMMA AnswerKeepsAudit ==
  ASSUME TypeInv, AuditInv, NEW c \in Calls, NEW rep \in ReplyType, rep.kind # "result",
         pc[c] \notin {"done", "lost"}, Answer(c, rep), UNCHANGED audit
  PROVE  AuditInv'
<1>1. OthersKeep(c) /\ reply'[c] = rep /\ pc'[c] = "done"
  BY AnswerKeepsOthers
<1> QED
  BY <1>1, SilenceKeepsAudit

\* An audited answer, or the error that a failed audit write makes of it.
LEMMA AuditAndAnswerKeepsAudit ==
  ASSUME TypeInv, AuditInv, NEW c \in Calls, NEW rep \in ReplyType, NEW line \in LineType,
         line.call = c, Agrees(line, rep),
         pc[c] \notin {"done", "lost"}, AuditAndAnswer(c, rep, line)
  PROVE  AuditInv'
<1>1. CASE audit' = Append(audit, line) /\ Answer(c, rep)
  <2>1. OthersKeep(c) /\ reply'[c] = rep /\ pc'[c] = "done"
    BY <1>1, AnswerKeepsOthers
  <2> QED
    BY <1>1, <2>1, LineKeepsAudit
<1>2. CASE UNCHANGED audit /\ Answer(c, IF rep.kind = "cancelled" THEN rep ELSE Plain("error"))
  <2>1. Plain("error") \in ReplyType /\ Plain("error").kind = "error"
    BY RepliesTyped DEF Plain, NoReply
  <2> QED
    BY <1>2, <2>1, AnswerKeepsAudit
<1> QED
  BY <1>1, <1>2 DEF AuditAndAnswer

\* So does the body of a tool up to its first await: nothing has been read yet.
LEMMA StartKeepsAudit ==
  ASSUME TypeInv, AuditInv, NEW c \in Calls, NEW r, NEW p,
         pc[c] \notin {"done", "lost"}, Start(c, r, p)
  PROVE  AuditInv'
<1>0. /\ Plain("error") \in ReplyType /\ Plain("error").kind = "error"
      /\ Line(c, NoCount, FALSE, TRUE) \in LineType
      /\ Line(c, NoCount, FALSE, TRUE).call = c
      /\ Agrees(Line(c, NoCount, FALSE, TRUE), Plain("error"))
  BY RepliesTyped DEF Plain, NoReply, Line, Agrees
<1>1. CASE Answer(c, Plain("error")) /\ UNCHANGED audit
  BY <1>0, <1>1, AnswerKeepsAudit
<1>2. CASE AuditAndAnswer(c, Plain("error"), Line(c, NoCount, FALSE, TRUE))
  BY <1>0, <1>2, AuditAndAnswerKeepsAudit
<1>3. CASE /\ WaitFor(c, "fetch_wait", p) \/ WaitFor(c, "explain_wait", p)
           /\ UNCHANGED <<reply, cost, audit>>
  BY <1>3, WaitKeepsAudit
<1> QED
  BY <1>1, <1>2, <1>3 DEF Start

\* Whatever a pipeline call reads, its line and its answer agree, and so do the line
\* and the error that a failed CSV makes of the answer.
LEMMA FinishAgrees ==
  ASSUME NEW c \in Calls, NEW r \in RequestType, TextAccepted(r), NEW m \in Nat
  PROVE  LET n == RowsReturned(SentLimit(r), m) IN
           /\ ResultOf(c, n) \in ReplyType
           /\ \A err \in BOOLEAN : /\ Line(c, TrimmedCount(n), Truncated(n), err) \in LineType
                                   /\ Line(c, TrimmedCount(n), Truncated(n), err).call = c
           /\ Agrees(Line(c, TrimmedCount(n), Truncated(n), FALSE), ResultOf(c, n))
           /\ Agrees(Line(c, TrimmedCount(n), Truncated(n), TRUE), Plain("error"))
<1> DEFINE n == RowsReturned(SentLimit(r), m)
<1>1. TrimmedCount(n) \in Nat /\ Truncated(n) \in BOOLEAN
  BY CountsTyped
<1>2. TrimmedCount(n) # NoCount
  BY <1>1 DEF NoCount
<1>3. ResultOf(c, n) \in ReplyType
  BY ResultTyped
<1>4. \A err \in BOOLEAN : Line(c, TrimmedCount(n), Truncated(n), err) \in LineType
  BY <1>1, RepliesTyped
<1> HIDE DEF n
<1>5. Agrees(Line(c, TrimmedCount(n), Truncated(n), FALSE), ResultOf(c, n))
  BY <1>1, <1>2 DEF Agrees, Line, ResultOf
<1>6. Agrees(Line(c, TrimmedCount(n), Truncated(n), TRUE), Plain("error"))
  BY DEF Agrees, Line, Plain, NoReply
<1>7. \A err \in BOOLEAN : Line(c, TrimmedCount(n), Truncated(n), err).call = c
  BY DEF Line
<1> QED
  BY <1>3, <1>4, <1>5, <1>6, <1>7 DEF n

\* The process dies in the end of run_pipeline: the line may be there, the answer not.
LEMMA CrashFinishingKeepsAudit ==
  ASSUME TypeInv, AuditInv, NEW c \in Calls, NEW m \in Matching(req[c]), CrashFinishing(c, m)
  PROVE  AuditInv'
<1> DEFINE n == RowsReturned(SentLimit(req[c]), m)
<1>1. /\ req[c] \in RequestType /\ TextAccepted(req[c]) /\ m \in Nat
  BY MatchingTyped DEF CrashFinishing, TypeInv, TypeOK, Admitted, Running
<1>2. \A err \in BOOLEAN : /\ Line(c, TrimmedCount(n), Truncated(n), err) \in LineType
                           /\ Line(c, TrimmedCount(n), Truncated(n), err).call = c
  BY <1>1, FinishAgrees
<1>3. OthersKeep(c) /\ reply' = reply /\ pc[c] = "fetch" /\ pc'[c] = "lost"
  BY DiesKeepOthers DEF CrashFinishing, Die
<1>4. CASE UNCHANGED audit
  BY <1>3, <1>4, SilenceKeepsAudit
<1>5. ASSUME NEW err \in BOOLEAN,
             audit' = Append(audit, Line(c, TrimmedCount(n), Truncated(n), err))
      PROVE  AuditInv'
  BY <1>2, <1>3, <1>5, LineKeepsAudit
<1> QED
  BY <1>4, <1>5 DEF CrashFinishing

\* Nor does one that comes between a line and its answer.
LEMMA CrashReportingKeepsAudit ==
  ASSUME TypeInv, AuditInv, NEW c \in Calls, NEW m \in Matching(req[c]), CrashReporting(c, m)
  PROVE  AuditInv'
<1>1. m \in Nat
  BY MatchingTyped DEF TypeInv, TypeOK
<1>2. PICK line \in {Line(c, NoCount, FALSE, TRUE), Line(c, m, FALSE, FALSE)} :
        audit' = Append(audit, line)
  BY DEF CrashReporting
<1>3. line \in LineType /\ line.call = c
  <2>1. m \in Nat \cup {NoCount} /\ NoCount \in Nat \cup {NoCount}
    BY <1>1
  <2>2. Line(c, NoCount, FALSE, TRUE) \in LineType /\ Line(c, m, FALSE, FALSE) \in LineType
    BY <2>1, RepliesTyped
  <2>3. Line(c, NoCount, FALSE, TRUE).call = c /\ Line(c, m, FALSE, FALSE).call = c
    BY DEF Line
  <2> QED
    BY <1>2, <2>2, <2>3
<1>4. OthersKeep(c) /\ reply' = reply /\ pc[c] \in {"explain", "fetch"} /\ pc'[c] = "lost"
  BY DiesKeepOthers DEF CrashReporting, Die
<1> QED
  BY <1>2, <1>3, <1>4, LineKeepsAudit

\* A crash that finds every call waiting leaves the log as it is.
LEMMA CrashKeepsAudit ==
  ASSUME TypeInv, AuditInv, Crash
  PROVE  AuditInv'
<1> USE DEF TypeInv, TypeOK, AuditInv
<1>1. /\ UNCHANGED <<audit, reply>>
      /\ \A c \in Calls : /\ pc[c] \in {"done", "lost"} => pc'[c] = pc[c]
                          /\ pc'[c] = "done" => pc[c] = "done"
  BY DEF Crash, Die
<1>2. \A i \in 1..Len(audit) : audit[i] \in LineType
  OBVIOUS
<1>3. \A i \in 1..Len(audit) : audit[i].call \in Calls
  BY <1>2 DEF LineType
<1>4. \A c \in Calls : Lines(c)' = Lines(c)
  BY <1>1 DEF Lines
<1>5. AuditedOnce' /\ AuditMatchesReply'
  BY <1>1, <1>4 DEF AuditedOnce, AuditMatchesReply
<1>6. \A i \in 1..Len(audit') : pc'[audit'[i].call] \in {"done", "lost"}
  BY <1>1, <1>3
<1>7. \A c \in Calls : pc'[c] # "done" => reply'[c].kind = "none"
  BY <1>1
<1> QED
  BY <1>5, <1>6, <1>7

\* Every step keeps the audit log truthful.
LEMMA NextAudit == TypeInv /\ AuditInv /\ [Next]_vars => AuditInv'
<1> SUFFICES ASSUME TypeInv, AuditInv, [Next]_vars PROVE AuditInv'
  OBVIOUS
<1>0. /\ \A k \in {"tables", "path", "no_export", "error", "cancelled"} :
           Plain(k) \in ReplyType /\ Plain(k).kind = k
      /\ \A c \in Calls, err \in BOOLEAN : /\ Line(c, NoCount, FALSE, err) \in LineType
                                           /\ Line(c, NoCount, FALSE, err).call = c
      /\ \A c \in Calls : /\ Agrees(Line(c, NoCount, FALSE, TRUE), Plain("error"))
                          /\ Agrees(Line(c, NoCount, FALSE, FALSE), Plain("cancelled"))
  BY RepliesTyped DEF Plain, NoReply, Line, Agrees
<1>1. ASSUME NEW c \in Calls, NEW r \in Requests, ListTables(c, r) \/ ExportCsv(c, r)
      PROVE  AuditInv'
  <2>1. PICK k \in {"tables", "path", "no_export"} : Answer(c, Plain(k))
    BY <1>1 DEF ListTables, ExportCsv
  <2>2. pc[c] = "idle" /\ UNCHANGED audit
    BY <1>1 DEF ListTables, ExportCsv
  <2> QED
    BY <1>0, <2>1, <2>2, AnswerKeepsAudit
<1>2. ASSUME NEW c \in Calls, NEW r \in Requests, CallTool(c, r)
      PROVE  AuditInv'
  BY <1>2, StartKeepsAudit DEF CallTool
<1>3. ASSUME NEW c \in Calls, NEW r \in Requests, CallToolFirst(c, r)
      PROVE  AuditInv'
  <2>1. WaitFor(c, "connect", NoPool) /\ UNCHANGED <<reply, audit>> /\ pc[c] = "idle"
    BY <1>3 DEF CallToolFirst
  <2> QED
    BY <2>1, WaitKeepsAudit
<1>4. ASSUME NEW c \in Calls, Connected(c)
      PROVE  AuditInv'
  BY <1>4, StartKeepsAudit DEF Connected
<1>5. ASSUME NEW c \in Calls, ConnectFails(c)
      PROVE  AuditInv'
  BY <1>0, <1>5, AnswerKeepsAudit DEF ConnectFails
<1>6. ASSUME NEW c \in Calls, Acquire(c)
      PROVE  AuditInv'
  <2>1. /\ pc[c] \in {"explain_wait", "fetch_wait"} /\ UNCHANGED <<reply, audit>>
        /\ pc'[c] \in {"explain", "fetch"}
        /\ \A d \in Calls \ {c} : pc'[d] = pc[d]
    BY <1>6 DEF Acquire, CanAcquire, TypeInv, TypeOK
  <2>2. OthersKeep(c)
    BY <2>1 DEF OthersKeep
  <2> QED
    BY <2>1, <2>2, SilenceKeepsAudit
<1>7. ASSUME NEW c \in Calls, NEW k \in Costs \cup {NoCost}, ExplainReturns(c, k)
      PROVE  AuditInv'
  <2>1. CASE WaitFor(c, "fetch_wait", pool) /\ UNCHANGED <<reply, audit>>
    BY <1>7, <2>1, WaitKeepsAudit DEF ExplainReturns
  <2>2. CASE AuditAndAnswer(c, Plain("error"), Line(c, NoCount, FALSE, TRUE))
    BY <1>0, <1>7, <2>2, AuditAndAnswerKeepsAudit DEF ExplainReturns
  <2> QED
    BY <1>7, <2>1, <2>2 DEF ExplainReturns
<1>8. ASSUME NEW c \in Calls, NEW m \in Matching(req[c]), FetchReturns(c, m)
      PROVE  AuditInv'
  <2> DEFINE n == RowsReturned(SentLimit(req[c]), m)
  <2>1. /\ req[c] \in RequestType /\ TextAccepted(req[c]) /\ m \in Nat /\ pc[c] = "fetch"
    BY <1>8, MatchingTyped DEF FetchReturns, TypeInv, TypeOK, Admitted, Running
  <2> DEFINE told == Line(c, TrimmedCount(n), Truncated(n), FALSE)
             failed == Line(c, TrimmedCount(n), Truncated(n), TRUE)
  <2>2. /\ ResultOf(c, n) \in ReplyType /\ Plain("error") \in ReplyType
        /\ told \in LineType /\ told.call = c /\ Agrees(told, ResultOf(c, n))
        /\ failed \in LineType /\ failed.call = c /\ Agrees(failed, Plain("error"))
    BY <1>0, <2>1, FinishAgrees
  <2>3. AuditAndAnswer(c, ResultOf(c, n), told) \/ AuditAndAnswer(c, Plain("error"), failed)
    BY <1>8 DEF FetchReturns, Finish
  <2> HIDE DEF n, told, failed
  <2> QED
    BY <2>1, <2>2, <2>3, AuditAndAnswerKeepsAudit
<1>9. ASSUME NEW c \in Calls, NEW m \in Matching(req[c]), DescribeReturns(c, m)
      PROVE  AuditInv'
  <2> DEFINE rep == [Plain("result") EXCEPT !.row_count = m, !.inline = m]
  <2>1. m \in Nat /\ m # NoCount /\ pc[c] = "fetch"
    BY <1>9, MatchingTyped DEF DescribeReturns, TypeInv, TypeOK, NoCount
  <2>2. rep \in ReplyType /\ Line(c, m, FALSE, FALSE) \in LineType
    BY <2>1, RepliesTyped DEF ReplyType
  <2>3. Line(c, m, FALSE, FALSE).call = c /\ Agrees(Line(c, m, FALSE, FALSE), rep)
    BY <2>1 DEF Line, Agrees, Plain, NoReply
  <2> QED
    BY <1>9, <2>1, <2>2, <2>3, AuditAndAnswerKeepsAudit DEF DescribeReturns
<1>10. ASSUME NEW c \in Calls, QueryFails(c)
       PROVE  AuditInv'
  BY <1>0, <1>10, AuditAndAnswerKeepsAudit DEF QueryFails, CanAcquire
<1>11. ASSUME NEW c \in Calls, Cancel(c)
       PROVE  AuditInv'
  <2>1. pc[c] \notin {"done", "lost"}
    BY <1>11 DEF Cancel
  <2>2. CASE Answer(c, Plain("cancelled")) /\ UNCHANGED audit
    BY <1>0, <2>1, <2>2, AnswerKeepsAudit
  <2>3. CASE AuditAndAnswer(c, Plain("cancelled"), Line(c, NoCount, FALSE, FALSE))
    BY <1>0, <2>1, <2>3, AuditAndAnswerKeepsAudit
  <2> QED
    BY <1>11, <2>2, <2>3 DEF Cancel
<1>12. CASE Crash
  BY <1>12, CrashKeepsAudit
<1>13. ASSUME NEW c \in Calls, NEW m \in Matching(req[c]), CrashFinishing(c, m)
       PROVE  AuditInv'
  BY <1>13, CrashFinishingKeepsAudit
<1>14. ASSUME NEW c \in Calls, NEW m \in Matching(req[c]), CrashReporting(c, m)
       PROVE  AuditInv'
  BY <1>14, CrashReportingKeepsAudit
<1>15. CASE UNCHANGED vars
  BY <1>15 DEF vars, AuditInv, AuditedOnce, AuditMatchesReply, Lines
<1> QED
  BY <1>1, <1>2, <1>3, <1>4, <1>5, <1>6, <1>7, <1>8, <1>9, <1>10, <1>11, <1>12, <1>13,
     <1>14, <1>15 DEF Next, Progress, Quiet

\* Initially the log is empty and nobody has an answer.
LEMMA InitAudit == Init => AuditInv
<1> SUFFICES ASSUME Init PROVE AuditInv
  OBVIOUS
<1>1. Len(audit) = 0 /\ \A c \in Calls : reply[c].kind = "none"
  BY DEF Init, NoReply
<1>2. \A c \in Calls : Lines(c) = {}
  BY <1>1 DEF Lines
<1> QED
  BY <1>1, <1>2 DEF AuditInv, AuditedOnce, AuditMatchesReply

\* AuditInv holds in every reachable state.
THEOREM AuditInvariant == Spec => []AuditInv
BY InitAudit, NextAudit, TypeInvariant, PTL DEF Spec

\* No call is audited twice and no rows are handed out unaudited, whatever fails,
\* is cancelled or dies.
THEOREM RowsAreAudited == Spec => []AuditedOnce
<1>1. AuditInv => AuditedOnce
  BY DEF AuditInv
<1> QED
  BY <1>1, AuditInvariant, PTL

\* An audited end of a call leaves its line, or no rows and no line where the log failed.
LEMMA AuditedEndLeavesLine ==
  ASSUME TypeInv, NEW c \in Calls, NEW rep, NEW line,
         line.call = c, AuditAndAnswer(c, rep, line)
  PROVE  OthersKeep(c) /\ LeavesLine(c)
<1>1. CASE audit' = Append(audit, line) /\ Answer(c, rep)
  <2>1. /\ Len(audit') = Len(audit) + 1 /\ Len(audit) \in Nat
        /\ audit'[Len(audit) + 1] = line
    BY <1>1 DEF TypeInv, TypeOK
  <2>2. Len(audit) + 1 \in Lines(c)'
    BY <2>1 DEF Lines
  <2> QED
    BY <1>1, <2>2, AnswerKeepsOthers DEF LeavesLine
<1>2. CASE /\ DiskFaults
           /\ Answer(c, IF rep.kind = "cancelled" THEN rep ELSE Plain("error"))
  <2>1. PICK told : told.kind \in {"error", "cancelled"} /\ Answer(c, told)
    <3>1. Plain("error").kind = "error"
      BY DEF Plain, NoReply
    <3> QED
      BY <1>2, <3>1
  <2>2. OthersKeep(c) /\ reply'[c] = told
    BY <2>1, AnswerKeepsOthers
  <2> QED
    BY <1>2, <2>1, <2>2 DEF LeavesLine
<1> QED
  BY <1>1, <1>2 DEF AuditAndAnswer

\* Once run_pipeline has begun its finally clause audits every end of the call, for any
\* number of calls that fail or are cancelled at any of its awaits.
THEOREM NoRunUnaudited == Spec => RunsLeaveLines
<1> DEFINE Runs(c) == pc[c] \in Waiting \cup Running /\ req[c].tool \in PipelineTools
           EndLeaves(c) == OthersKeep(c) /\ (Runs(c) /\ pc'[c] = "done" => LeavesLine(c))
<1>1. ASSUME TypeInv, [Next]_vars
      PROVE  \A c \in Calls : Runs(c) /\ pc'[c] = "done" => LeavesLine(c)
  <2>0. \A c, n, trunc, err : Line(c, n, trunc, err).call = c
    BY DEF Line
  <2>1. ASSUME NEW c \in Calls, EndLeaves(c)
        PROVE  \A d \in Calls : Runs(d) /\ pc'[d] = "done" => LeavesLine(d)
    <3>1. ASSUME NEW d \in Calls, d # c, Runs(d)
          PROVE  pc'[d] # "done"
      <4>1. pc[d] # "done"
        BY <3>1 DEF Waiting, Running
      <4> QED
        BY <2>1, <3>1, <4>1 DEF OthersKeep
    <3> QED
      BY <2>1, <3>1
  <2>2. ASSUME NEW c \in Calls, NEW rep, NEW line, line.call = c, AuditAndAnswer(c, rep, line)
        PROVE  EndLeaves(c)
    BY <1>1, <2>2, AuditedEndLeavesLine
  <2>3. ASSUME NEW c \in Calls, NEW rep, Answer(c, rep), ~Runs(c)
        PROVE  EndLeaves(c)
    BY <1>1, <2>3, AnswerKeepsOthers
  <2>4. ASSUME NEW c \in Calls, NEW p, NEW place \in {"connect"} \cup Waiting \cup Running,
               WaitFor(c, place, p), UNCHANGED reply
        PROVE  EndLeaves(c)
    <3>1. pc'[c] = place /\ place # "done" /\ \A d \in Calls \ {c} : pc'[d] = pc[d]
      BY <1>1, <2>4 DEF TypeInv, TypeOK, WaitFor, Waiting, Running
    <3> QED
      BY <2>4, <3>1 DEF OthersKeep
  <2>5. ASSUME NEW c \in Calls, NEW r, NEW p, Start(c, r, p), ~Runs(c)
        PROVE  EndLeaves(c)
    <3>1. CASE AuditAndAnswer(c, Plain("error"), Line(c, NoCount, FALSE, TRUE))
      BY <2>0, <2>2, <3>1
    <3>2. CASE /\ WaitFor(c, "fetch_wait", p) \/ WaitFor(c, "explain_wait", p)
               /\ UNCHANGED <<reply, cost, audit>>
      BY <2>4, <3>2 DEF Waiting
    <3> QED
      BY <2>3, <2>5, <3>1, <3>2 DEF Start
  <2>6. ASSUME NEW c \in Calls, NEW r \in Requests,
               ListTables(c, r) \/ ExportCsv(c, r) \/ CallTool(c, r) \/ CallToolFirst(c, r)
        PROVE  EndLeaves(c)
    <3>1. ~Runs(c)
      BY <2>6 DEF ListTables, ExportCsv, CallTool, CallToolFirst, Waiting, Running
    <3>2. CASE \E rep : Answer(c, rep)
      BY <2>3, <3>1, <3>2
    <3>3. CASE Start(c, r, pool)
      BY <2>5, <3>1, <3>3
    <3>4. CASE WaitFor(c, "connect", NoPool) /\ UNCHANGED reply
      BY <2>4, <3>4
    <3> HIDE DEF EndLeaves, Runs
    <3> QED
      BY <2>6, <3>2, <3>3, <3>4 DEF ListTables, ExportCsv, CallTool, CallToolFirst
  <2>7. ASSUME NEW c \in Calls, Connected(c) \/ ConnectFails(c)
        PROVE  EndLeaves(c)
    <3>1. ~Runs(c)
      BY <2>7 DEF Connected, ConnectFails, Waiting, Running
    <3> HIDE DEF EndLeaves, Runs
    <3> QED
      BY <2>3, <2>5, <2>7, <3>1 DEF Connected, ConnectFails
  <2>8. ASSUME NEW c \in Calls, Acquire(c)
        PROVE  EndLeaves(c)
    <3>1. /\ UNCHANGED reply /\ pc'[c] # "done"
          /\ \A d \in Calls \ {c} : pc'[d] = pc[d]
      BY <1>1, <2>8 DEF Acquire, CanAcquire, TypeInv, TypeOK
    <3> QED
      BY <3>1 DEF OthersKeep
  <2>9. ASSUME NEW c \in Calls, NEW k, ExplainReturns(c, k)
        PROVE  EndLeaves(c)
    <3>1. CASE WaitFor(c, "fetch_wait", pool) /\ UNCHANGED <<reply, audit>>
      BY <2>4, <3>1 DEF Waiting
    <3>2. CASE AuditAndAnswer(c, Plain("error"), Line(c, NoCount, FALSE, TRUE))
      BY <2>0, <2>2, <3>2
    <3> QED
      BY <2>9, <3>1, <3>2 DEF ExplainReturns
  <2>10. ASSUME NEW c \in Calls, NEW m, FetchReturns(c, m) \/ DescribeReturns(c, m) \/ QueryFails(c)
         PROVE  EndLeaves(c)
    <3>1. PICK rep, n, trunc, err : AuditAndAnswer(c, rep, Line(c, n, trunc, err))
      BY <2>10 DEF FetchReturns, Finish, DescribeReturns, QueryFails
    <3> QED
      BY <2>0, <2>2, <3>1
  <2>11. ASSUME NEW c \in Calls, Cancel(c)
         PROVE  EndLeaves(c)
    <3>1. CASE pc[c] = "connect" \/ req[c].tool = "describe_table"
      <4>1. ~Runs(c)
        BY <3>1 DEF Waiting, Running, PipelineTools
      <4> QED
        BY <2>3, <2>11, <3>1, <4>1 DEF Cancel
    <3>2. CASE AuditAndAnswer(c, Plain("cancelled"), Line(c, NoCount, FALSE, FALSE))
      BY <2>0, <2>2, <3>2
    <3> QED
      BY <2>11, <3>1, <3>2 DEF Cancel
  <2>12. ASSUME Die  PROVE \A c \in Calls : EndLeaves(c)
    <3>1. \A c \in Calls : pc'[c] = "done" => pc[c] = "done"
      BY <2>12 DEF Die
    <3>2. \A c \in Calls : OthersKeep(c)
      BY <1>1, <2>12, DiesKeepOthers
    <3> QED
      BY <3>1, <3>2 DEF Waiting, Running
  <2>13. CASE UNCHANGED vars
    BY <2>13 DEF vars, Waiting, Running
  <2> HIDE DEF EndLeaves
  <2>14. CASE Crash \/ \E c \in Calls : \E m \in Matching(req[c]) :
                         CrashFinishing(c, m) \/ CrashReporting(c, m)
    <3>1. Die
      BY <2>14 DEF Crash, CrashFinishing, CrashReporting
    <3> QED
      BY <2>1, <2>12, <3>1
  <2> QED
    BY <1>1, <2>1, <2>6, <2>7, <2>8, <2>9, <2>10, <2>11, <2>13, <2>14
       DEF Next, Progress, Quiet
<1>2. TypeInv /\ [Next]_vars
        => [\A c \in Calls : Runs(c) /\ pc'[c] = "done" => LeavesLine(c)]_vars
  BY <1>1
<1> QED
  BY <1>2, TypeInvariant, PTL DEF Spec, RunsLeaveLines

\* Every line of the log tells the truth about the answer of its call.
THEOREM LogIsTruthful == Spec => []AuditMatchesReply
<1>1. AuditInv => AuditMatchesReply
  BY DEF AuditInv
<1> QED
  BY <1>1, AuditInvariant, PTL
-----------------------------------------------------------------------------
(***************************************************************************)
(* What a result says.                                                     *)
(***************************************************************************)
\* The rows the database returned for a call's statement.
Fetched(c) == RowsReturned(SentLimit(req[c]), matching[c])

\* A pipeline result is, for good, what the end of run_pipeline makes of the rows that
\* matched when the database ran the accepted statement.
ResultInv ==
  \A c \in Calls : PipelineResult(c) =>
    pc[c] = "done" /\ TextAccepted(req[c]) /\ reply[c] = ResultOf(c, Fetched(c))

\* A step that gives no call a pipeline result and leaves the calls that have one alone
\* keeps ResultInv.
LEMMA NoNewResult ==
  ASSUME ResultInv,
         \A c \in Calls : \/ ~PipelineResult(c)'
                          \/ /\ reply'[c] = reply[c] /\ req'[c] = req[c]
                             /\ matching'[c] = matching[c]
                             /\ pc[c] = "done" => pc'[c] = "done"
  PROVE  ResultInv'
<1> SUFFICES ASSUME NEW c \in Calls, PipelineResult(c)'
             PROVE  pc'[c] = "done" /\ TextAccepted(req'[c]) /\ reply'[c] = ResultOf(c, Fetched(c)')
  BY DEF ResultInv
<1>1. /\ reply'[c] = reply[c] /\ req'[c] = req[c] /\ matching'[c] = matching[c]
      /\ pc[c] = "done" => pc'[c] = "done"
  OBVIOUS
<1>2. PipelineResult(c) /\ Fetched(c)' = Fetched(c)
  BY <1>1 DEF PipelineResult, Fetched
<1> QED
  BY <1>1, <1>2 DEF ResultInv

\* The steps in which one call that has not ended answers without rows, or not at all.
LEMMA OtherAnswer ==
  ASSUME TypeInv, ResultInv, NEW c \in Calls, pc[c] # "done",
         \A d \in Calls \ {c} : /\ reply'[d] = reply[d] /\ req'[d] = req[d]
                                /\ matching'[d] = matching[d] /\ pc'[d] = pc[d],
         \/ reply'[c].kind # "result"
         \/ req'[c].tool \notin PipelineTools
         \/ reply'[c] = reply[c] /\ req'[c] = req[c]
  PROVE  ResultInv'
<1>1. ~PipelineResult(c)
  BY DEF ResultInv
<1>2. ~PipelineResult(c)'
  BY <1>1 DEF PipelineResult
<1> QED
  BY <1>2, NoNewResult

\* Answering, audited or not, gives the answer or an error to one call.
LEMMA AnswerGives ==
  ASSUME TypeInv, NEW c \in Calls, NEW rep, NEW line,
         Answer(c, rep) \/ AuditAndAnswer(c, rep, line)
  PROVE  /\ reply'[c] \in {rep, Plain("error")} /\ pc'[c] = "done"
         /\ \A d \in Calls \ {c} : reply'[d] = reply[d] /\ pc'[d] = pc[d]
<1>1. PICK other \in {rep, Plain("error")} : Answer(c, other)
  BY DEF AuditAndAnswer
<1>2. /\ pc' = [pc EXCEPT ![c] = "done"]
      /\ reply' = [reply EXCEPT ![c] = other]
  BY <1>1 DEF Answer
<1>3. DOMAIN pc = Calls /\ DOMAIN reply = Calls
  BY DEF TypeInv, TypeOK
<1> QED
  BY <1>2, <1>3

\* The body of a tool up to its first await gives one call an error or nothing.
LEMMA StartGives ==
  ASSUME TypeInv, NEW c \in Calls, NEW r, NEW p, Start(c, r, p)
  PROVE  /\ reply'[c] = reply[c] \/ reply'[c] = Plain("error")
         /\ \A d \in Calls \ {c} : reply'[d] = reply[d] /\ pc'[d] = pc[d]
<1>1. CASE \E line : \/ Answer(c, Plain("error"))
                     \/ AuditAndAnswer(c, Plain("error"), line)
  BY <1>1, AnswerGives
<1>2. CASE /\ WaitFor(c, "fetch_wait", p) \/ WaitFor(c, "explain_wait", p)
           /\ UNCHANGED <<reply, cost, audit>>
  BY <1>2 DEF WaitFor, TypeInv, TypeOK
<1> QED
  BY <1>1, <1>2 DEF Start

\* The statement of a pipeline call returns: its result is made of what matched, or the
\* call fails.
LEMMA FetchKeepsResults ==
  ASSUME TypeInv, ResultInv, NEW c \in Calls, NEW m \in Matching(req[c]), FetchReturns(c, m)
  PROVE  ResultInv'
<1> DEFINE n == RowsReturned(SentLimit(req[c]), m)
<1>1. /\ pc[c] = "fetch" /\ req' = req /\ TextAccepted(req[c])
      /\ matching'[c] = m /\ \A d \in Calls \ {c} : matching'[d] = matching[d]
  BY DEF FetchReturns, callVars, TypeInv, TypeOK, Admitted, Running
<1>2. /\ reply'[c] \in {ResultOf(c, n), Plain("error")} /\ pc'[c] = "done"
      /\ \A d \in Calls \ {c} : reply'[d] = reply[d] /\ pc'[d] = pc[d]
  BY AnswerGives DEF FetchReturns, Finish
<1>3. CASE reply'[c] = Plain("error")
  <2>1. reply'[c].kind # "result"
    BY <1>3 DEF Plain, NoReply
  <2> QED
    BY <1>1, <1>2, <2>1, OtherAnswer
<1>4. CASE reply'[c] = ResultOf(c, n)
  <2>1. ASSUME NEW d \in Calls \ {c}, PipelineResult(d)'
        PROVE  pc'[d] = "done" /\ TextAccepted(req'[d]) /\ reply'[d] = ResultOf(d, Fetched(d)')
    <3>1. PipelineResult(d) /\ Fetched(d)' = Fetched(d)
      BY <1>1, <1>2, <2>1 DEF PipelineResult, Fetched
    <3> QED
      BY <1>1, <1>2, <3>1 DEF ResultInv
  <2>2. Fetched(c)' = n
    BY <1>1 DEF Fetched
  <2>3. pc'[c] = "done" /\ TextAccepted(req'[c]) /\ reply'[c] = ResultOf(c, Fetched(c)')
    BY <1>1, <1>2, <1>4, <2>2
  <2> QED
    BY <2>1, <2>3 DEF ResultInv
<1> QED
  BY <1>2, <1>3, <1>4

\* Every step keeps ResultInv.
LEMMA NextResults == TypeInv /\ AuditInv /\ ResultInv /\ [Next]_vars => ResultInv'
<1> SUFFICES ASSUME TypeInv, AuditInv, ResultInv, [Next]_vars PROVE ResultInv'
  OBVIOUS
<1>0. /\ \A k \in {"tables", "path", "no_export", "error", "cancelled"} : Plain(k).kind # "result"
      /\ \A c \in Calls : pc[c] # "done" => reply[c].kind # "result"
  BY DEF Plain, NoReply, AuditInv
<1>1. ASSUME NEW c \in Calls, NEW r \in Requests,
             ListTables(c, r) \/ ExportCsv(c, r) \/ CallTool(c, r) \/ CallToolFirst(c, r)
      PROVE  ResultInv'
  <2>1. /\ pc[c] = "idle" /\ req' = [req EXCEPT ![c] = r] /\ UNCHANGED matching
    BY <1>1 DEF ListTables, ExportCsv, CallTool, CallToolFirst
  <2>2. \A d \in Calls \ {c} : req'[d] = req[d]
    BY <2>1 DEF TypeInv, TypeOK
  <2>3. /\ reply'[c] = reply[c] \/ reply'[c].kind # "result"
        /\ \A d \in Calls \ {c} : reply'[d] = reply[d] /\ pc'[d] = pc[d]
    <3>1. CASE ListTables(c, r) \/ ExportCsv(c, r)
      <4>1. PICK k \in {"tables", "path", "no_export"} : Answer(c, Plain(k))
        BY <3>1 DEF ListTables, ExportCsv
      <4> QED
        BY <1>0, <4>1, AnswerGives
    <3>2. CASE CallTool(c, r)
      BY <1>0, <3>2, StartGives DEF CallTool
    <3>3. CASE CallToolFirst(c, r)
      BY <3>3 DEF CallToolFirst, WaitFor, TypeInv, TypeOK
    <3> QED
      BY <1>1, <3>1, <3>2, <3>3
  <2>4. reply'[c].kind # "result"
    BY <1>0, <2>1, <2>3
  <2> QED
    BY <2>1, <2>2, <2>3, <2>4, OtherAnswer
<1>2. ASSUME NEW c \in Calls, Connected(c)
      PROVE  ResultInv'
  <2>1. pc[c] = "connect" /\ UNCHANGED callVars /\ Start(c, req[c], c)
    BY <1>2 DEF Connected
  <2>2. /\ reply'[c] = reply[c] \/ reply'[c] = Plain("error")
        /\ \A d \in Calls \ {c} : reply'[d] = reply[d] /\ pc'[d] = pc[d]
    BY <2>1, StartGives
  <2>3. reply'[c].kind # "result"
    BY <1>0, <2>1, <2>2
  <2> QED
    BY <2>1, <2>2, <2>3, OtherAnswer DEF callVars
<1>3. ASSUME NEW c \in Calls, pc[c] # "done", UNCHANGED callVars,
             NEW k \in {"error", "cancelled"}, NEW line,
             Answer(c, Plain(k)) \/ AuditAndAnswer(c, Plain(k), line)
      PROVE  ResultInv'
  <2>1. /\ reply'[c].kind # "result"
        /\ \A d \in Calls \ {c} : reply'[d] = reply[d] /\ pc'[d] = pc[d]
    BY <1>0, <1>3, AnswerGives
  <2> QED
    BY <1>3, <2>1, OtherAnswer DEF callVars
<1>4. ASSUME NEW c \in Calls, ConnectFails(c) \/ QueryFails(c) \/ Cancel(c)
      PROVE  ResultInv'
  BY <1>3, <1>4 DEF ConnectFails, QueryFails, CanAcquire, Cancel
<1>5. ASSUME NEW c \in Calls, pc[c] # "done", UNCHANGED <<callVars, reply>>,
             \A d \in Calls \ {c} : pc'[d] = pc[d]
      PROVE  ResultInv'
  BY <1>5, OtherAnswer DEF callVars
<1>6. ASSUME NEW c \in Calls, Acquire(c)
      PROVE  ResultInv'
  <2>1. /\ pc[c] # "done" /\ UNCHANGED <<callVars, reply>>
        /\ \A d \in Calls \ {c} : pc'[d] = pc[d]
    BY <1>6 DEF Acquire, CanAcquire, TypeInv, TypeOK
  <2> QED
    BY <1>5, <2>1
<1>7. ASSUME NEW c \in Calls, NEW k \in Costs \cup {NoCost}, ExplainReturns(c, k)
      PROVE  ResultInv'
  <2>1. CASE WaitFor(c, "fetch_wait", pool) /\ UNCHANGED reply
    <3>1. /\ pc[c] # "done" /\ UNCHANGED <<callVars, reply>>
          /\ \A d \in Calls \ {c} : pc'[d] = pc[d]
      BY <1>7, <2>1 DEF ExplainReturns, WaitFor, TypeInv, TypeOK
    <3> QED
      BY <1>5, <3>1
  <2>2. CASE AuditAndAnswer(c, Plain("error"), Line(c, NoCount, FALSE, TRUE))
    BY <1>3, <1>7, <2>2 DEF ExplainReturns
  <2> QED
    BY <1>7, <2>1, <2>2 DEF ExplainReturns
<1>8. ASSUME NEW c \in Calls, NEW m \in Matching(req[c]), FetchReturns(c, m)
      PROVE  ResultInv'
  BY <1>8, FetchKeepsResults
<1>9. ASSUME NEW c \in Calls, NEW m \in Matching(req[c]), DescribeReturns(c, m)
      PROVE  ResultInv'
  <2>1. /\ pc[c] = "fetch" /\ UNCHANGED req /\ req[c].tool \notin PipelineTools
        /\ \A d \in Calls \ {c} : matching'[d] = matching[d]
    BY <1>9 DEF DescribeReturns, PipelineTools, TypeInv, TypeOK
  <2>2. \A d \in Calls \ {c} : reply'[d] = reply[d] /\ pc'[d] = pc[d]
    BY <1>9, AnswerGives DEF DescribeReturns
  <2> QED
    BY <2>1, <2>2, OtherAnswer
<1>10. CASE Die
  <2>1. \A c \in Calls : /\ reply'[c] = reply[c] /\ req'[c] = req[c]
                         /\ matching'[c] = matching[c] /\ (pc[c] = "done" => pc'[c] = "done")
    BY <1>10 DEF Die, callVars
  <2> QED
    BY <2>1, NoNewResult
<1>11. CASE UNCHANGED vars
  BY <1>11, NoNewResult DEF vars
<1> QED
  BY <1>1, <1>2, <1>4, <1>6, <1>7, <1>8, <1>9, <1>10, <1>11
     DEF Next, Progress, Crash, CrashFinishing, CrashReporting, Quiet

\* Initially nobody has a result.
LEMMA InitResults == Init => ResultInv
BY DEF Init, ResultInv, PipelineResult, NoReply

\* ResultInv holds in every reachable state.
THEOREM ResultInvariant == Spec => []ResultInv
BY InitResults, NextResults, TypeInvariant, AuditInvariant, PTL DEF Spec

\* For every cap and every LIMIT the pipeline can read, a result holds as many rows as
\* its author asked for, up to the cap, and says truncated exactly when rows are missing.
THEOREM TruncationIsExact == Spec => []TruncatedIffMore
<1>1. TypeInv /\ ResultInv => TruncatedIffMore
  <2> SUFFICES ASSUME TypeInv, ResultInv, NEW c \in Calls, PipelineResult(c),
                      WrittenLimit(req[c]).kind # "opaque"
               PROVE  LET asked == RowsReturned(WrittenLimit(req[c]), matching[c]) IN
                        /\ reply[c].row_count = Smaller(asked, RowCap)
                        /\ reply[c].truncated <=> asked > RowCap
    BY DEF TruncatedIffMore
  <2>1. /\ TextAccepted(req[c]) /\ req[c] \in RequestType /\ matching[c] \in Nat
        /\ reply[c] = ResultOf(c, Fetched(c))
    BY DEF ResultInv, TypeInv, TypeOK
  <2>2. /\ RowCap \in Nat
        /\ WrittenLimit(req[c]) \in LimitType
    BY <2>1, SentLimitTyped DEF WrittenLimit, StatementType
  <2>3. Fetched(c) = RowsReturned(ensure_limit(WrittenLimit(req[c]), RowCap + 1), matching[c])
    BY DEF Fetched, SentLimit, WrittenLimit
  <2>4. /\ reply[c].row_count = TrimmedCount(Fetched(c))
        /\ reply[c].truncated = Truncated(Fetched(c))
    BY <2>1 DEF ResultOf
  <2> QED
    BY <2>1, <2>2, <2>3, <2>4, CapPlusOneDecides
<1> QED
  BY <1>1, TypeInvariant, ResultInvariant, PTL

\* No result counts more rows than the cap, shows more than the inline threshold, or
\* counts a row that is neither inline nor in its export.
THEOREM ResultsAreBounded == Spec => []ResultBounded
<1>1. TypeInv /\ ResultInv => ResultBounded
  <2> SUFFICES ASSUME TypeInv, ResultInv, NEW c \in Calls, PipelineResult(c)
               PROVE  /\ reply[c].row_count <= RowCap
                      /\ reply[c].inline = 0 \/ reply[c].inline <= InlineRowThreshold
                      /\ reply[c].inline = reply[c].row_count \/ reply[c].export = c
    BY DEF ResultBounded
  <2> DEFINE n == Fetched(c)
  <2>1. /\ TextAccepted(req[c]) /\ req[c] \in RequestType /\ matching[c] \in Nat
        /\ reply[c] = ResultOf(c, n)
    BY DEF ResultInv, TypeInv, TypeOK
  <2>2. RowCap \in Nat /\ n \in Nat /\ TrimmedCount(n) \in Nat
    BY <2>1, SentLimitTyped, CountsTyped DEF Fetched
  <2> HIDE DEF n
  <2>3. /\ reply[c].row_count = TrimmedCount(n)
        /\ reply[c].inline = InlineRows(TrimmedCount(n))
        /\ NeedsExport(TrimmedCount(n)) => reply[c].export = c
    BY <2>1 DEF ResultOf
  <2>4. TrimmedCount(n) <= RowCap
    BY <2>2 DEF TrimmedCount, Smaller
  <2> QED
    BY <2>2, <2>3, <2>4, SettingsAssumption DEF InlineRows, NeedsExport
<1> QED
  BY <1>1, TypeInvariant, ResultInvariant, PTL
-----------------------------------------------------------------------------
(***************************************************************************)
(* The exports.                                                            *)
(***************************************************************************)
\* A whole file that nobody writes any more.
Settled(id) == id \in Calls /\ pc[id] = "done" /\ exports[id] = "complete"

\* What a call was told about exports is true, and was told when it ended.
ExportsTold(c) ==
  /\ reply[c].export # NoExport => reply[c].export = c /\ Settled(c)
  /\ reply[c].kind = "path" => pc[c] = "done" /\ Settled(req[c].export)
  /\ reply[c].kind = "no_export" => pc[c] = "done" /\ req[c].export = NoExport

ExportInv == \A c \in Calls : ExportsTold(c)

\* An answer that says nothing about exports.
Silent(rep) == rep.export = NoExport /\ rep.kind \notin {"path", "no_export"}

\* A step keeps ExportInv if ended calls stay as they are, their files too, and every
\* other call is told nothing or the truth.
LEMMA ExportsKept ==
  ASSUME ExportInv,
         \A d \in Calls : pc[d] = "done" => /\ pc'[d] = "done" /\ exports'[d] = exports[d]
                                            /\ reply'[d] = reply[d] /\ req'[d] = req[d],
         \A d \in Calls : pc[d] # "done" =>
           reply'[d] = reply[d] \/ Silent(reply'[d]) \/ ExportsTold(d)'
  PROVE  ExportInv'
<1> SUFFICES ASSUME NEW d \in Calls PROVE ExportsTold(d)'
  BY DEF ExportInv
<1>1. \A id : Settled(id) => Settled(id)'
  BY DEF Settled
<1>2. CASE pc[d] = "done"
  <2>1. ExportsTold(d) /\ reply'[d] = reply[d] /\ req'[d] = req[d] /\ pc'[d] = "done"
    BY <1>2 DEF ExportInv
  <2> QED
    BY <1>1, <2>1 DEF ExportsTold
<1>3. CASE pc[d] # "done"
  <2>1. Silent(reply[d])
    BY <1>3 DEF ExportInv, ExportsTold, Settled, Silent
  <2>2. CASE Silent(reply'[d])
    BY <2>2 DEF Silent, ExportsTold
  <2> QED
    BY <1>3, <2>1, <2>2
<1> QED
  BY <1>2, <1>3

\* The steps of one call that has not ended.
LEMMA OneCallExports ==
  ASSUME TypeInv, ExportInv, NEW c \in Calls, pc[c] # "done",
         \A d \in Calls \ {c} : /\ reply'[d] = reply[d] /\ req'[d] = req[d]
                                /\ pc'[d] = pc[d] /\ exports'[d] = exports[d],
         reply'[c] = reply[c] \/ Silent(reply'[c]) \/ ExportsTold(c)'
  PROVE  ExportInv'
BY ExportsKept

\* export_csv finds the file of every id that was given to a client.
LEMMA ExportCsvTold ==
  ASSUME TypeInv, ExportInv, NEW c \in Calls, NEW r \in Requests, ExportCsv(c, r)
  PROVE  ExportInv'
<1>1. /\ pc[c] = "idle" /\ req' = [req EXCEPT ![c] = r] /\ UNCHANGED exports
      /\ Answer(c, Plain(IF ExportFound(r.export) THEN "path" ELSE "no_export"))
      /\ r.export # NoExport => \E d \in Calls : reply[d].export = r.export
  BY DEF ExportCsv
<1>2. req'[c] = r /\ \A d \in Calls \ {c} : req'[d] = req[d]
  BY <1>1 DEF TypeInv, TypeOK
<1>3. /\ pc'[c] = "done"
      /\ reply'[c] = Plain(IF ExportFound(r.export) THEN "path" ELSE "no_export")
      /\ \A d \in Calls \ {c} : reply'[d] = reply[d] /\ pc'[d] = pc[d]
  <2>1. /\ pc' = [pc EXCEPT ![c] = "done"]
        /\ reply' = [reply EXCEPT ![c] = Plain(IF ExportFound(r.export) THEN "path" ELSE "no_export")]
    BY <1>1 DEF Answer
  <2> QED
    BY <2>1 DEF TypeInv, TypeOK
<1>4. r.export # NoExport => Settled(r.export) /\ Settled(r.export)'
  <2> SUFFICES ASSUME r.export # NoExport PROVE Settled(r.export) /\ Settled(r.export)'
    OBVIOUS
  <2>1. PICK d \in Calls : reply[d].export = r.export
    BY <1>1
  <2>2. r.export = d /\ Settled(d)
    BY <2>1 DEF ExportInv, ExportsTold
  <2> QED
    BY <1>1, <1>3, <2>2 DEF Settled
<1>5. /\ reply'[c].export = NoExport
      /\ reply'[c].kind = IF ExportFound(r.export) THEN "path" ELSE "no_export"
  BY <1>3 DEF Plain, NoReply
<1>6. ExportFound(r.export) <=> r.export # NoExport
  BY <1>4 DEF ExportFound, Settled
<1>7. ExportsTold(c)'
  BY <1>2, <1>3, <1>4, <1>5, <1>6 DEF ExportsTold
<1> QED
  BY <1>1, <1>2, <1>3, <1>7, OneCallExports

\* A result names its export only when the whole file is written.
LEMMA FetchTellsExports ==
  ASSUME TypeInv, ExportInv, NEW c \in Calls, NEW m \in Matching(req[c]), FetchReturns(c, m)
  PROVE  ExportInv'
<1> DEFINE n == RowsReturned(SentLimit(req[c]), m)
<1>1. /\ pc[c] = "fetch" /\ req' = req
      /\ \A d \in Calls \ {c} : exports'[d] = exports[d]
  BY DEF FetchReturns, Finish, TypeInv, TypeOK
<1>2. /\ reply'[c] \in {ResultOf(c, n), Plain("error")} /\ pc'[c] = "done"
      /\ \A d \in Calls \ {c} : reply'[d] = reply[d] /\ pc'[d] = pc[d]
  BY AnswerGives DEF FetchReturns, Finish
<1>3. CASE reply'[c] = Plain("error")
  <2>1. Silent(reply'[c])
    BY <1>3 DEF Silent, Plain, NoReply
  <2> QED
    BY <1>1, <1>2, <2>1, OneCallExports
<1>4. CASE reply'[c] = ResultOf(c, n) /\ reply'[c] # Plain("error")
  <2>1. CASE ~NeedsExport(TrimmedCount(n))
    <3>1. Silent(reply'[c])
      BY <1>4, <2>1 DEF Silent, ResultOf
    <3> QED
      BY <1>1, <1>2, <3>1, OneCallExports
  <2>2. CASE NeedsExport(TrimmedCount(n))
    <3>1. ~ \E line : AuditAndAnswer(c, Plain("error"), line)
      BY <1>4, AnswerGives
    <3>2. exports' = [exports EXCEPT ![c] = "complete"]
      BY <2>2, <3>1 DEF FetchReturns, Finish
    <3>3. Settled(c)'
      BY <1>2, <3>2 DEF Settled, TypeInv, TypeOK
    <3>4. reply'[c].export = c /\ reply'[c].kind = "result"
      BY <1>4, <2>2 DEF ResultOf
    <3>5. ExportsTold(c)'
      BY <3>3, <3>4 DEF ExportsTold
    <3> QED
      BY <1>1, <1>2, <3>5, OneCallExports
  <2> QED
    BY <2>1, <2>2
<1> QED
  BY <1>2, <1>3, <1>4

\* Every step keeps the exports and what was told about them.
LEMMA NextExports == TypeInv /\ ExportInv /\ [Next]_vars => ExportInv'
<1> SUFFICES ASSUME TypeInv, ExportInv, [Next]_vars PROVE ExportInv'
  OBVIOUS
<1>0. \A k \in {"tables", "error", "cancelled"} : Silent(Plain(k))
  BY DEF Silent, Plain, NoReply
<1>1. ASSUME NEW c \in Calls, pc[c] # "done", UNCHANGED exports,
             \A d \in Calls \ {c} : req'[d] = req[d],
             NEW k \in {"tables", "error", "cancelled"}, NEW line,
             Answer(c, Plain(k)) \/ AuditAndAnswer(c, Plain(k), line)
      PROVE  ExportInv'
  <2>1. /\ Silent(reply'[c])
        /\ \A d \in Calls \ {c} : reply'[d] = reply[d] /\ pc'[d] = pc[d]
    BY <1>0, <1>1, AnswerGives
  <2> QED
    BY <1>1, <2>1, OneCallExports
<1>2. ASSUME NEW c \in Calls, NEW r \in Requests, ListTables(c, r)
      PROVE  ExportInv'
  BY <1>1, <1>2 DEF ListTables, TypeInv, TypeOK
<1>3. ASSUME NEW c \in Calls, NEW r \in Requests, ExportCsv(c, r)
      PROVE  ExportInv'
  BY <1>3, ExportCsvTold
<1>4. ASSUME NEW c \in Calls, NEW r, NEW p, pc[c] # "done", Start(c, r, p), UNCHANGED exports,
             \A d \in Calls \ {c} : req'[d] = req[d]
      PROVE  ExportInv'
  <2>1. /\ reply'[c] = reply[c] \/ Silent(reply'[c])
        /\ \A d \in Calls \ {c} : reply'[d] = reply[d] /\ pc'[d] = pc[d]
    BY <1>0, <1>4, StartGives
  <2> QED
    BY <1>4, <2>1, OneCallExports
<1>5. ASSUME NEW c \in Calls, NEW r \in Requests, CallTool(c, r)
      PROVE  ExportInv'
  BY <1>4, <1>5 DEF CallTool, TypeInv, TypeOK
<1>6. ASSUME NEW c \in Calls, Connected(c)
      PROVE  ExportInv'
  BY <1>4, <1>6 DEF Connected, callVars
<1>7. ASSUME NEW c \in Calls, pc[c] # "done", UNCHANGED <<reply, exports>>,
             \A d \in Calls \ {c} : pc'[d] = pc[d] /\ req'[d] = req[d]
      PROVE  ExportInv'
  BY <1>7, OneCallExports
<1>8. ASSUME NEW c \in Calls, NEW r \in Requests, CallToolFirst(c, r)
      PROVE  ExportInv'
  <2>1. /\ pc[c] # "done" /\ UNCHANGED <<reply, exports>>
        /\ \A d \in Calls \ {c} : pc'[d] = pc[d] /\ req'[d] = req[d]
    BY <1>8 DEF CallToolFirst, WaitFor, TypeInv, TypeOK
  <2> QED
    BY <1>7, <2>1
<1>9. ASSUME NEW c \in Calls, Acquire(c)
      PROVE  ExportInv'
  <2>1. /\ pc[c] # "done" /\ UNCHANGED <<reply, exports>>
        /\ \A d \in Calls \ {c} : pc'[d] = pc[d] /\ req'[d] = req[d]
    BY <1>9 DEF Acquire, CanAcquire, callVars, TypeInv, TypeOK
  <2> QED
    BY <1>7, <2>1
<1>10. ASSUME NEW c \in Calls, NEW k \in Costs \cup {NoCost}, ExplainReturns(c, k)
       PROVE  ExportInv'
  <2>1. pc[c] # "done" /\ UNCHANGED exports /\ UNCHANGED req
    BY <1>10 DEF ExplainReturns, callVars
  <2>2. CASE WaitFor(c, "fetch_wait", pool) /\ UNCHANGED reply
    <3>1. \A d \in Calls \ {c} : pc'[d] = pc[d]
      BY <2>2 DEF WaitFor, TypeInv, TypeOK
    <3> QED
      BY <1>7, <2>1, <2>2, <3>1
  <2>3. CASE AuditAndAnswer(c, Plain("error"), Line(c, NoCount, FALSE, TRUE))
    BY <1>1, <2>1, <2>3
  <2> QED
    BY <1>10, <2>2, <2>3 DEF ExplainReturns
<1>11. ASSUME NEW c \in Calls, ConnectFails(c) \/ QueryFails(c) \/ Cancel(c)
       PROVE  ExportInv'
  BY <1>1, <1>11 DEF ConnectFails, QueryFails, CanAcquire, Cancel, callVars
<1>12. ASSUME NEW c \in Calls, NEW m \in Matching(req[c]), FetchReturns(c, m)
       PROVE  ExportInv'
  BY <1>12, FetchTellsExports
<1>13. ASSUME NEW c \in Calls, NEW m \in Matching(req[c]), DescribeReturns(c, m)
       PROVE  ExportInv'
  <2> DEFINE rep == [Plain("result") EXCEPT !.row_count = m, !.inline = m]
  <2>1. pc[c] = "fetch" /\ UNCHANGED <<req, exports>>
    BY <1>13 DEF DescribeReturns
  <2>2. /\ reply'[c] \in {rep, Plain("error")}
        /\ \A d \in Calls \ {c} : reply'[d] = reply[d] /\ pc'[d] = pc[d]
    BY <1>13, AnswerGives DEF DescribeReturns
  <2>3. Silent(rep)
    BY DEF Silent, Plain, NoReply
  <2> QED
    BY <1>0, <2>1, <2>2, <2>3, OneCallExports
<1>14. ASSUME Die, \A d \in Calls : pc[d] = "done" => exports'[d] = exports[d]
       PROVE  ExportInv'
  <2>1. /\ UNCHANGED <<reply, req>>
        /\ \A d \in Calls : pc[d] = "done" => pc'[d] = "done"
    BY <1>14 DEF Die, callVars
  <2> QED
    BY <1>14, <2>1, ExportsKept
<1>15. CASE Crash
  BY <1>14, <1>15 DEF Crash
<1>16. ASSUME NEW c \in Calls, NEW m \in Matching(req[c]), CrashFinishing(c, m)
       PROVE  ExportInv'
  <2>1. pc[c] = "fetch" /\ \A d \in Calls \ {c} : exports'[d] = exports[d]
    BY <1>16 DEF CrashFinishing, TypeInv, TypeOK
  <2> QED
    BY <1>14, <1>16, <2>1 DEF CrashFinishing
<1>17. ASSUME NEW c \in Calls, NEW m \in Matching(req[c]), CrashReporting(c, m)
       PROVE  ExportInv'
  BY <1>14, <1>17 DEF CrashReporting
<1>18. CASE UNCHANGED vars
  BY <1>18, ExportsKept DEF vars
<1> QED
  BY <1>2, <1>3, <1>5, <1>6, <1>8, <1>9, <1>10, <1>11, <1>12, <1>13, <1>15, <1>16, <1>17,
     <1>18 DEF Next, Progress, Quiet

\* Initially nobody was told anything.
LEMMA InitExports == Init => ExportInv
BY DEF Init, ExportInv, ExportsTold, NoReply

\* ExportInv holds in every reachable state.
THEOREM ExportInvariant == Spec => []ExportInv
BY InitExports, NextExports, TypeInvariant, PTL DEF Spec

\* An export id in an answer leads to a whole file for ever, through failed exports,
\* failed audit writes and crashes.
THEOREM ExportsStayWhole == Spec => []ExportIntact
<1>1. ExportInv => ExportIntact
  BY DEF ExportInv, ExportsTold, Settled, ExportIntact
<1> QED
  BY <1>1, ExportInvariant, PTL
=============================================================================

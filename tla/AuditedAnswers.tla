---------------------------- MODULE AuditedAnswers ----------------------------
(***************************************************************************)
(* What the analytics server promises to those who see it from outside:    *)
(* each call ends once, and in the same instant it is answered, its line   *)
(* is appended to the audit log and its export is there.  What fails or    *)
(* dies in between shows in one of the ways named here and no other.       *)
(***************************************************************************)
EXTENDS Integers, Sequences

CONSTANTS
  Calls,
  NoExport,    \* the answer gives no export id
  NoCount,     \* the line gives no number of rows
  Unanswered,  \* a call that has not ended
  Lost         \* the process died under the call

VARIABLES
  answer,  \* what each call was answered
  log,     \* the lines of the audit log, oldest first
  files    \* the export of each call

vars == <<answer, log, files>>
-----------------------------------------------------------------------------
Init ==
  /\ answer = [c \in Calls |-> Unanswered]
  /\ log = << >>
  /\ files = [c \in Calls |-> "none"]

\* A line about the call is added to the log, which keeps those it had.
Logged(c) ==
  /\ Len(log') = Len(log) + 1
  /\ log' = Append(log, log'[Len(log) + 1])
  /\ log'[Len(log) + 1].call = c

NewLine == log'[Len(log) + 1]

\* No export but the call's own is touched.
OnlyFileOf(c) == files' = [files EXCEPT ![c] = files'[c]]

Ends(c, kind, export) ==
  /\ answer[c] = Unanswered
  /\ answer' = [answer EXCEPT ![c] = answer'[c]]
  /\ answer'[c].kind = kind
  /\ answer'[c].export = export
-----------------------------------------------------------------------------
\* Rows are given with the line that says so, and an export with the whole file.
Result(c) ==
  /\ \/ Ends(c, "result", NoExport) /\ UNCHANGED files
     \/ Ends(c, "result", c) /\ files' = [files EXCEPT ![c] = "complete"]
  /\ Logged(c)
  /\ ~NewLine.error
  /\ NewLine.row_count = answer'[c].row_count
  /\ NewLine.truncated = answer'[c].truncated

\* A failure may leave a file whose id nobody is told: a part of one, or, if it was the
\* log that failed, a whole one.
Error(c) ==
  /\ Ends(c, "error", NoExport)
  /\ OnlyFileOf(c)
  /\ \/ UNCHANGED log
     \/ Logged(c) /\ NewLine.error /\ files'[c] # "complete"

Cancelled(c) ==
  /\ Ends(c, "cancelled", NoExport)
  /\ UNCHANGED files
  /\ \/ UNCHANGED log
     \/ Logged(c) /\ ~NewLine.error /\ NewLine.row_count = NoCount

\* The list of the tables.
Tables(c) ==
  /\ Ends(c, "tables", NoExport)
  /\ UNCHANGED <<log, files>>

\* The path of an export, once some call was told its id.
Path(c) ==
  /\ \/ Ends(c, "path", NoExport) /\ \E d \in Calls : answer[d].export = d
     \/ Ends(c, "no_export", NoExport)
  /\ UNCHANGED <<log, files>>

\* The process dies under the calls of S.  One of them may have written its file or a
\* part of it, or its line, which reports an error if the file is not whole.
Dies(S) ==
  /\ \A c \in S : answer[c] = Unanswered
  /\ answer' = [c \in Calls |-> IF c \in S THEN Lost ELSE answer[c]]
  /\ \/ UNCHANGED <<log, files>>
     \/ \E c \in S :
          /\ OnlyFileOf(c)
          /\ \/ UNCHANGED log
             \/ Logged(c) /\ files'[c] # IF NewLine.error THEN "complete" ELSE "partial"

Next ==
  \/ \E c \in Calls : Result(c) \/ Error(c) \/ Cancelled(c) \/ Tables(c) \/ Path(c)
  \/ \E S \in SUBSET Calls : Dies(S)

Spec == Init /\ [][Next]_vars
=============================================================================

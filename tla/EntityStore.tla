----------------------------- MODULE EntityStore -----------------------------
(***************************************************************************)
(* The sample Spring Boot API: EmployeeService and OrderService over their *)
(* table.  The two services have the same shape; Fields and Unique tell    *)
(* them apart.                                                             *)
(*                                                                         *)
(* Every service method is one READ COMMITTED transaction.  An action is   *)
(* one statement of it; what it writes at its end, and the commit, are one *)
(* action, as the row lock the write takes is held until the commit.       *)
(* Entities have no version column.                                        *)
(***************************************************************************)
EXTENDS Integers

CONSTANTS
  Calls,      \* requests are told apart by the call that makes them
  Fields,     \* the columns of a row other than its id
  Values,     \* the values of a column
  Unique,     \* the columns with a unique constraint
  NoRequest,  \* the call has not been made
  MaxId,      \* bound on the ids given out
  MaxCrashes  \* bound on the restarts of the API

ASSUME StoreAssumption ==
  /\ Unique \subseteq Fields
  /\ MaxId \in Nat
  /\ MaxCrashes \in Nat

VARIABLES
  table,    \* the committed rows by id
  nextId,   \* the next value of the id's sequence
  request,  \* what each call asks for
  tx,       \* the transaction of each request: where it is, the id and the row it
            \* works on, the status of its response
  crashes   \* restarts of the API so far

storeVars == <<table, nextId, request, tx, crashes>>
-----------------------------------------------------------------------------
NoRow == << >>

Unsent == [phase |-> "unsent", id |-> 0, row |-> NoRow, status |-> 0]

\* What a call promises to leave behind, or to read, in one step.
Atomic == INSTANCE AtomicStore WITH outcome <- [c \in Calls |-> tx[c].status]

StoreInit(rows) ==
  /\ table = rows
  /\ nextId \in 1..(MaxId + 1)
  /\ \A id \in DOMAIN rows : id < nextId
  /\ nextId = 1 \/ nextId - 1 \in DOMAIN rows
  /\ request = [c \in Calls |-> NoRequest]
  /\ tx = [c \in Calls |-> Unsent]
  /\ crashes = 0

Present(c) == request[c].id \in DOMAIN table

\* The transaction of c is at a phase of a method.
At(c, op, phase) ==
  /\ tx[c].phase = phase
  /\ request[c].op = op

Continue(c, phase) == tx' = [tx EXCEPT ![c].phase = phase]

Respond(c, status) == tx' = [tx EXCEPT ![c].phase = "answered", ![c].status = status]

\* A faulty variant: a write that fails has no answer of its own.
WriteUnanswered(c, possible, rows, status) ==
  \/ /\ possible
     /\ table' = rows
     /\ Respond(c, status)
  \/ /\ ~possible
     /\ Continue(c, "rolled back")
     /\ UNCHANGED table

\* A write at the end of the transaction: it commits, or the transaction is rolled
\* back with an error.
Write(c, possible, rows, status) ==
  \/ /\ possible
     /\ table' = rows
     /\ Respond(c, status)
  \/ /\ ~possible
     /\ Respond(c, 500)
     /\ UNCHANGED table
-----------------------------------------------------------------------------
List(c) ==
  /\ At(c, "list", "sent")
  /\ Respond(c, 200)
  /\ UNCHANGED <<table, nextId, request, crashes>>

Get(c) ==
  /\ At(c, "get", "sent")
  /\ Respond(c, IF Present(c) THEN 200 ELSE 404)
  /\ UNCHANGED <<table, nextId, request, crashes>>

\* repo.save of a new entity: the insert takes an id from the sequence.
Insert(c) ==
  /\ At(c, "create", "sent")
  /\ nextId <= MaxId
  /\ tx' = [tx EXCEPT ![c].phase = "inserted", ![c].id = nextId, ![c].row = request[c].given]
  /\ nextId' = nextId + 1
  /\ UNCHANGED <<table, request, crashes>>

\* Of two rows with one unique value the first to commit stays.
CommitInsert(c) ==
  /\ At(c, "create", "inserted")
  /\ Write(c, Atomic!Free(table, tx[c].id, tx[c].row),
           Atomic!Put(table, tx[c].id, tx[c].row), 201)
  /\ UNCHANGED <<nextId, request, crashes>>

\* update reads the row and sets the fields that are given; a row that is as before is
\* not written.
Load(c) ==
  LET old == table[request[c].id]
      new == Atomic!Merge(old, request[c].given) IN
    /\ At(c, "update", "sent")
    /\ \/ ~Present(c) /\ Respond(c, 404)
       \/ Present(c) /\ new = old /\ Respond(c, 200)
       \/ /\ Present(c) /\ new # old
          /\ tx' = [tx EXCEPT ![c].phase = "loaded", ![c].row = new]
    /\ UNCHANGED <<table, nextId, request, crashes>>

\* A faulty variant: the row is inserted again when it is gone.
CommitUpdateOrInsert(c) ==
  /\ At(c, "update", "loaded")
  /\ Write(c, Atomic!Free(table, request[c].id, tx[c].row),
           Atomic!Put(table, request[c].id, tx[c].row), 200)
  /\ UNCHANGED <<nextId, request, crashes>>

\* The flush writes every column of the entity; no row of that id is an error.
CommitUpdate(c) ==
  /\ At(c, "update", "loaded")
  /\ Write(c, Present(c) /\ Atomic!Free(table, request[c].id, tx[c].row),
           Atomic!Put(table, request[c].id, tx[c].row), 200)
  /\ UNCHANGED <<nextId, request, crashes>>

\* delete: existsById, then deleteById, which finds the entity again and ignores its
\* absence, then the write.
Exists(c) ==
  /\ At(c, "delete", "sent")
  /\ \/ Present(c) /\ Continue(c, "exists")
     \/ ~Present(c) /\ Respond(c, 404)
  /\ UNCHANGED <<table, nextId, request, crashes>>

Find(c) ==
  /\ At(c, "delete", "exists")
  /\ \/ Present(c) /\ Continue(c, "loaded")
     \/ ~Present(c) /\ Respond(c, 204)
  /\ UNCHANGED <<table, nextId, request, crashes>>

CommitDelete(c) ==
  /\ At(c, "delete", "loaded")
  /\ Write(c, Present(c), Atomic!Remove(table, request[c].id), 204)
  /\ UNCHANGED <<nextId, request, crashes>>

\* The API restarts: what was not committed is rolled back.
Crash ==
  /\ crashes < MaxCrashes
  /\ crashes' = crashes + 1
  /\ tx' = [c \in Calls |->
              IF tx[c].phase \in {"sent", "exists", "loaded", "inserted"}
              THEN [tx[c] EXCEPT !.phase = "lost"] ELSE tx[c]]
  /\ UNCHANGED <<table, nextId, request>>

StoreStep(c) ==
  \/ List(c) \/ Get(c)
  \/ Insert(c) \/ CommitInsert(c)
  \/ Load(c) \/ CommitUpdate(c)
  \/ Exists(c) \/ Find(c) \/ CommitDelete(c)
-----------------------------------------------------------------------------
Phases == {"unsent", "sent", "exists", "loaded", "inserted", "answered", "lost"}
Statuses == {0, 200, 201, 204, 404, 500}
TxType ==
  [phase: Phases, id: 0..MaxId, row: {NoRow} \cup [Fields -> Values], status: Statuses]

\* The variables have the types of the rows, requests and transactions they stand for.
StoreTypeOK ==
  /\ DOMAIN table \subseteq 1..MaxId
  /\ table \in [DOMAIN table -> [Fields -> Values]]
  /\ nextId \in 1..(MaxId + 1)
  /\ tx \in [Calls -> TxType]
  /\ crashes \in 0..MaxCrashes

\* A request takes effect once, at one instant between its being sent and its answer, or
\* leaves no trace: whatever transactions run beside it, whether or not its reply
\* arrives, and across a restart of the API ("@Transactional").  It holds where an update
\* gives a whole row; partial updates that overlap break OmittedFieldsKept below.
AppliedAtomically == Atomic!Spec

\* A field of a row changes only by a request that gives it ("partial fields allowed").
OmittedFieldsKept ==
  [][\A id \in DOMAIN table \cap DOMAIN table' : \A f \in Fields :
       table'[id][f] # table[id][f]
         => \E c \in Calls :
              /\ tx[c].status = 0 /\ tx'[c].status = 200
              /\ f \in DOMAIN request[c].given]_storeVars
=============================================================================

----------------------------- MODULE AtomicStore -----------------------------
(***************************************************************************)
(* What a transactional service over one table promises: each request that *)
(* reaches it takes effect once, at one instant, or not at all.            *)
(***************************************************************************)
EXTENDS Integers

CONSTANTS
  Calls,     \* requests are told apart by the call that makes them
  Fields,    \* the columns of a row other than its id
  Unique,    \* the columns with a unique constraint
  NoRequest  \* the call has not been made

VARIABLES
  table,     \* the rows by id
  request,   \* what each call asks for
  outcome    \* the status each request was given, 0 before it takes effect

vars == <<table, request, outcome>>
-----------------------------------------------------------------------------
\* No row but id has the value of row in a unique column.
Free(rows, id, row) ==
  \A other \in DOMAIN rows \ {id} : \A f \in Unique : rows[other][f] # row[f]

\* The fields a request gives, over the current ones.
Merge(row, given) == [f \in Fields |-> IF f \in DOMAIN given THEN given[f] ELSE row[f]]

\* The rows with row under id.
Put(rows, id, row) == [i \in DOMAIN rows \cup {id} |-> IF i = id THEN row ELSE rows[i]]

Remove(rows, id) == [i \in DOMAIN rows \ {id} |-> rows[i]]
-----------------------------------------------------------------------------
Init ==
  /\ request = [c \in Calls |-> NoRequest]
  /\ outcome = [c \in Calls |-> 0]

Decide(c, status) ==
  /\ outcome[c] = 0
  /\ outcome' = [outcome EXCEPT ![c] = status]
  /\ UNCHANGED request

\* A call asks for something, once.
Ask(c) ==
  /\ request[c] = NoRequest
  /\ request' = [request EXCEPT ![c] = request'[c]]
  /\ UNCHANGED <<table, outcome>>

\* A new row gets an id no row has.
Create(c) ==
  /\ request[c].op = "create"
  /\ \E id \in DOMAIN table' \ DOMAIN table :
       /\ Free(table, id, request[c].given)
       /\ table' = Put(table, id, request[c].given)
  /\ Decide(c, 201)

\* An update changes the fields it gives and no other.
Update(c) ==
  LET id == request[c].id IN
    /\ request[c].op = "update"
    /\ id \in DOMAIN table
    /\ table' = Put(table, id, Merge(table[id], request[c].given))
    /\ Free(table, id, table'[id])
    /\ Decide(c, 200)

Delete(c) ==
  /\ request[c].op = "delete"
  /\ request[c].id \in DOMAIN table
  /\ table' = Remove(table, request[c].id)
  /\ Decide(c, 204)

Read(c) ==
  /\ \/ request[c].op = "list"
     \/ request[c].op = "get" /\ request[c].id \in DOMAIN table
  /\ Decide(c, 200)
  /\ UNCHANGED table

\* The row is not there; of two racing deletes the second may answer 204 as well.
Missing(c) ==
  /\ request[c].op \in {"get", "update", "delete"}
  /\ request[c].id \notin DOMAIN table
  /\ \/ Decide(c, 404)
     \/ request[c].op = "delete" /\ Decide(c, 204)
  /\ UNCHANGED table

\* An error leaves no trace.
Fail(c) ==
  /\ Decide(c, 500)
  /\ UNCHANGED table

Next ==
  \E c \in Calls :
    \/ Ask(c)
    \/ /\ request[c] # NoRequest
       /\ Create(c) \/ Update(c) \/ Delete(c) \/ Read(c) \/ Missing(c) \/ Fail(c)

Spec == Init /\ [][Next]_vars
=============================================================================

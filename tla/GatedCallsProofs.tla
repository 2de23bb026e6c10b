--------------------------- MODULE GatedCallsProofs ---------------------------
(***************************************************************************)
(* Proofs about GatedCalls for every set of calls and requests, every      *)
(* environment, every table and every number of restarts.                  *)
(***************************************************************************)
EXTENDS GatedCalls, TLAPS

\* An update that is given whole columns of a row keeps the row's type.
LEMMA MergeTyped ==
  ASSUME NEW r \in Requests, r.op = "update", NEW row \in [Fields -> Values]
  PROVE  Atomic!Merge(row, r.given) \in [Fields -> Values]
BY GateAssumption DEF Atomic!Merge

LEMMA PutTyped ==
  ASSUME NEW rows, rows \in [DOMAIN rows -> [Fields -> Values]], DOMAIN rows \subseteq 1..MaxId,
         NEW id \in 1..MaxId, NEW row \in [Fields -> Values]
  PROVE  LET new == Atomic!Put(rows, id, row) IN
           /\ DOMAIN new = DOMAIN rows \cup {id}
           /\ DOMAIN new \subseteq 1..MaxId
           /\ new \in [DOMAIN new -> [Fields -> Values]]
           /\ new[id] = row
           /\ \A i \in DOMAIN rows \ {id} : new[i] = rows[i]
BY DEF Atomic!Put

LEMMA RemoveTyped ==
  ASSUME NEW rows, rows \in [DOMAIN rows -> [Fields -> Values]], DOMAIN rows \subseteq 1..MaxId,
         NEW id
  PROVE  LET new == Atomic!Remove(rows, id) IN
           /\ DOMAIN new = DOMAIN rows \ {id}
           /\ DOMAIN new \subseteq 1..MaxId
           /\ new \in [DOMAIN new -> [Fields -> Values]]
           /\ \A i \in DOMAIN new : new[i] = rows[i]
BY DEF Atomic!Remove
-----------------------------------------------------------------------------
(***************************************************************************)
(* What a transaction holds: an insert an id of its own and a row, an      *)
(* update or a delete the id of a row that has been there.                 *)
(***************************************************************************)
Holds(c) ==
  /\ request[c] = NoRequest => tx[c].phase = "unsent" /\ tx[c].id = 0
  /\ tx[c].phase = "inserted" =>
       /\ request[c].op = "create"
       /\ tx[c].id \in 1..MaxId
       /\ tx[c].row = request[c].given
  /\ tx[c].phase \in {"loaded", "exists"} =>
       /\ request[c].id \in 1..MaxId
       /\ request[c].op \in {"update", "delete"}
       /\ request[c].op = "update" => tx[c].row \in [Fields -> Values]
  /\ tx[c].status = 204 => request[c].op = "delete" /\ request[c].id \in 1..MaxId
  /\ tx[c].phase # "answered" => tx[c].status = 0
  /\ answer[c] = 204 => tx[c].status = 204

TypeInv == TypeOK /\ \A c \in Calls : Holds(c)

LEMMA TypeInit == Init => TypeInv
<1> SUFFICES ASSUME Init PROVE TypeInv
  OBVIOUS
<1> USE DEF Init, StoreInit
<1>1. TypeOK
  BY StoreAssumption, GateAssumption
  DEF TypeOK, StoreTypeOK, TxType, Phases, Statuses, Unsent, NoRow, Pending, Refused, HttpError
<1>2. ASSUME NEW c \in Calls PROVE Holds(c)
  <2>1. tx[c] = Unsent /\ request[c] = NoRequest /\ answer[c] = 0
    BY DEF Pending
  <2> QED
    BY <2>1 DEF Holds, Unsent
<1> QED
  BY <1>1, <1>2 DEF TypeInv

\* The status of a transaction can be changed within its type.
LEMMA TxAnswered ==
  ASSUME tx \in [Calls -> TxType], NEW c \in Calls, NEW p \in Phases, NEW s \in Statuses
  PROVE  [tx EXCEPT ![c].phase = p, ![c].status = s] \in [Calls -> TxType]
BY DEF TxType

Typed(rows) ==
  /\ DOMAIN rows \subseteq 1..MaxId
  /\ rows \in [DOMAIN rows -> [Fields -> Values]]

\* A response ends a transaction, whatever the table has become.
LEMMA RespondKeepsTypes ==
  ASSUME TypeInv, NEW c \in Calls, NEW status \in Statuses,
         Respond(c, status), request[c] # NoRequest,
         status = 204 => request[c].op = "delete" /\ request[c].id \in 1..MaxId,
         Typed(table)', answer[c] # 204,
         UNCHANGED <<nextId, request, crashes, explorerVars>>
  PROVE  TypeInv'
<1>0. tx' \in [Calls -> TxType]
  <2>1. /\ tx \in [Calls -> TxType]
        /\ "answered" \in Phases
        /\ status \in Statuses
    BY DEF TypeInv, TypeOK, StoreTypeOK, Phases, Statuses
  <2>2. [tx EXCEPT ![c].phase = "answered", ![c].status = status] \in [Calls -> TxType]
    BY <2>1, TxAnswered
  <2> QED
    BY <2>2 DEF Respond
<1> USE DEF TypeInv, TypeOK, StoreTypeOK, explorerVars, Respond, Typed
<1>1. TypeOK'
  BY <1>0
<1>2. ASSUME NEW d \in Calls PROVE Holds(d)'
  <2>1. CASE d = c
    BY <2>1 DEF Holds
  <2>2. CASE d # c
    BY <2>2 DEF Holds
  <2> QED
    BY <2>1, <2>2
<1> QED
  BY <1>1, <1>2

\* Between two statements only what the transaction holds changes.
LEMMA StatementKeepsTypes ==
  ASSUME TypeInv, NEW c \in Calls, NEW phase \in {"exists", "loaded", "inserted"},
         NEW id \in 0..MaxId, NEW row \in {NoRow} \cup [Fields -> Values],
         tx' = [tx EXCEPT ![c].phase = phase, ![c].id = id, ![c].row = row],
         tx[c].phase \notin {"unsent", "answered"}, request[c] # NoRequest,
         phase = "inserted" =>
           request[c].op = "create" /\ id \in 1..MaxId /\ row = request[c].given,
         phase # "inserted" =>
           /\ request[c].id \in 1..MaxId
           /\ request[c].op \in {"update", "delete"}
           /\ request[c].op = "update" => row \in [Fields -> Values],
         nextId' \in 1..(MaxId + 1),
         UNCHANGED <<table, request, crashes, explorerVars>>
  PROVE  TypeInv'
<1>0. tx' \in [Calls -> TxType]
  <2>1. tx \in [Calls -> TxType] /\ phase \in Phases
    BY DEF TypeInv, TypeOK, StoreTypeOK, Phases
  <2> QED
    BY <2>1 DEF TxType
<1> USE DEF TypeInv, TypeOK, StoreTypeOK, explorerVars
<1>1. TypeOK'
  BY <1>0
<1>2. ASSUME NEW d \in Calls PROVE Holds(d)'
  <2>1. CASE d = c
    BY <2>1 DEF Holds
  <2>2. CASE d # c
    BY <2>2 DEF Holds
  <2> QED
    BY <2>1, <2>2
<1> QED
  BY <1>1, <1>2

\* A statement of a transaction keeps the types and what the transactions hold.
LEMMA StoreKeepsTypes ==
  ASSUME TypeInv, NEW c \in Calls, StoreStep(c), UNCHANGED explorerVars
  PROVE  TypeInv'
<1> USE DEF At, Present
<1>t. /\ Typed(table)
      /\ nextId \in 1..(MaxId + 1)
      /\ tx \in [Calls -> TxType]
      /\ request \in [Calls -> Requests \cup {NoRequest}]
  BY DEF TypeInv, TypeOK, StoreTypeOK, Typed
<1>h. Holds(c)
  BY DEF TypeInv
<1>r. tx[c].phase # "unsent" => request[c] \in Requests /\ request[c] # NoRequest
  BY <1>t, <1>h, GateAssumption DEF Holds
<1>a. tx[c].phase # "answered" => answer[c] # 204
  BY <1>h DEF Holds
<1>s. {200, 201, 204, 404, 500} \subseteq Statuses
  BY DEF Statuses
<1>1. CASE List(c)
  BY <1>1, <1>t, <1>r, <1>a, <1>s, RespondKeepsTypes DEF List, Typed
<1>2. CASE Get(c)
  BY <1>2, <1>t, <1>r, <1>a, <1>s, RespondKeepsTypes DEF Get, Typed
<1>3. CASE Insert(c)
  <2>1. /\ request[c].given \in [Fields -> Values]
        /\ nextId \in 1..MaxId /\ nextId \in 0..MaxId
        /\ nextId' \in 1..(MaxId + 1)
    BY <1>3, <1>t, <1>r, GateAssumption, StoreAssumption DEF Insert
  <2>2. /\ tx' = [tx EXCEPT ![c].phase = "inserted", ![c].id = nextId, ![c].row = request[c].given]
        /\ tx[c].phase \notin {"unsent", "answered"}
        /\ request[c] # NoRequest /\ request[c].op = "create"
        /\ UNCHANGED <<table, request, crashes>>
    BY <1>3, <1>r DEF Insert
  <2> QED
    BY <2>1, <2>2, StatementKeepsTypes
<1>4. CASE CommitInsert(c)
  <2>1. /\ tx[c].id \in 1..MaxId
        /\ tx[c].row \in [Fields -> Values]
    BY <1>4, <1>h, <1>r, GateAssumption DEF CommitInsert, Holds
  <2>2. Typed(Atomic!Put(table, tx[c].id, tx[c].row))
    BY <2>1, <1>t, PutTyped DEF Typed
  <2> QED
    BY <1>4, <2>2, <1>t, <1>r, <1>a, <1>s, RespondKeepsTypes DEF CommitInsert, Write, Typed
<1>5. CASE Load(c)
  <2> DEFINE new == Atomic!Merge(table[request[c].id], request[c].given)
  <2>1. CASE Respond(c, 404)
    BY <1>5, <2>1, <1>t, <1>r, <1>a, <1>s, RespondKeepsTypes DEF Load, Typed
  <2>2. CASE Respond(c, 200)
    BY <1>5, <2>2, <1>t, <1>r, <1>a, <1>s, RespondKeepsTypes DEF Load, Typed
  <2>3. CASE Present(c) /\ tx' = [tx EXCEPT ![c].phase = "loaded", ![c].row = new]
    <3>1. /\ request[c].id \in 1..MaxId
          /\ table[request[c].id] \in [Fields -> Values]
      BY <2>3, <1>t DEF Typed
    <3>2. new \in [Fields -> Values]
      BY <1>5, <3>1, <1>r, MergeTyped DEF Load
    <3>3. /\ tx[c].id \in 0..MaxId
          /\ tx' = [tx EXCEPT ![c].phase = "loaded", ![c].id = tx[c].id, ![c].row = new]
      BY <2>3, <1>t DEF TxType
    <3> HIDE DEF new
    <3> QED
      BY <1>5, <3>1, <3>2, <3>3, <1>t, <1>r, StatementKeepsTypes DEF Load
  <2> QED
    BY <1>5, <2>1, <2>2, <2>3 DEF Load
<1>6. CASE CommitUpdate(c)
  <2>1. /\ request[c].id \in 1..MaxId
        /\ tx[c].row \in [Fields -> Values]
    BY <1>6, <1>h DEF CommitUpdate, Holds
  <2>2. Typed(Atomic!Put(table, request[c].id, tx[c].row))
    BY <2>1, <1>t, PutTyped DEF Typed
  <2>3. Typed(table)' /\ (Respond(c, 200) \/ Respond(c, 500))
    BY <1>6, <2>2, <1>t DEF CommitUpdate, Write, Typed
  <2> QED
    BY <1>6, <2>3, <1>t, <1>r, <1>a, <1>s, RespondKeepsTypes DEF CommitUpdate
<1>7. CASE Exists(c)
  <2>1. CASE Respond(c, 404)
    BY <1>7, <2>1, <1>t, <1>r, <1>a, <1>s, RespondKeepsTypes DEF Exists, Typed
  <2>2. CASE Present(c) /\ Continue(c, "exists")
    <3>1. /\ tx[c].id \in 0..MaxId
          /\ tx[c].row \in {NoRow} \cup [Fields -> Values]
          /\ tx' = [tx EXCEPT ![c].phase = "exists", ![c].id = tx[c].id, ![c].row = tx[c].row]
      BY <2>2, <1>t DEF Continue, TxType
    <3> QED
      BY <1>7, <2>2, <3>1, <1>t, <1>r, StatementKeepsTypes DEF Exists, Typed
  <2> QED
    BY <1>7, <2>1, <2>2 DEF Exists
<1>8. CASE Find(c)
  <2>1. CASE Respond(c, 204)
    BY <1>8, <2>1, <1>t, <1>h, <1>r, <1>a, <1>s, RespondKeepsTypes DEF Find, Typed, Holds
  <2>2. CASE Present(c) /\ Continue(c, "loaded")
    <3>1. /\ tx[c].id \in 0..MaxId
          /\ tx[c].row \in {NoRow} \cup [Fields -> Values]
          /\ tx' = [tx EXCEPT ![c].phase = "loaded", ![c].id = tx[c].id, ![c].row = tx[c].row]
      BY <2>2, <1>t DEF Continue, TxType
    <3> QED
      BY <1>8, <2>2, <3>1, <1>t, <1>r, StatementKeepsTypes DEF Find, Typed
  <2> QED
    BY <1>8, <2>1, <2>2 DEF Find
<1>9. CASE CommitDelete(c)
  <2>1. request[c].id \in 1..MaxId
    BY <1>9, <1>h DEF CommitDelete, Holds
  <2>2. Typed(Atomic!Remove(table, request[c].id))
    BY <2>1, <1>t, RemoveTyped DEF Typed
  <2> QED
    BY <1>9, <2>1, <2>2, <1>t, <1>r, <1>a, <1>s, RespondKeepsTypes DEF CommitDelete, Write, Typed
<1> QED
  BY <1>1, <1>2, <1>3, <1>4, <1>5, <1>6, <1>7, <1>8, <1>9 DEF StoreStep

\* What is left of Next: the explorer's own steps and the API's restart.
ExplorerStep ==
  \/ \E e \in Environments : Start(e)
  \/ \E c \in Calls : (\E r \in Requests : Call(c, r)) \/ Reply(c) \/ ReplyFails(c)

LEMMA ExplorerKeepsTypes ==
  ASSUME TypeInv, ExplorerStep
  PROVE  TypeInv'
<1>t. ASSUME NEW c \in Calls, NEW p \in Phases
      PROVE  [tx EXCEPT ![c].phase = p] \in [Calls -> TxType]
  <2>1. tx \in [Calls -> TxType]
    BY DEF TypeInv, TypeOK, StoreTypeOK
  <2> QED
    BY <2>1 DEF TxType
<1>s. "sent" \in Phases
  BY DEF Phases
<1>e. ASSUME NEW e \in Environments, Start(e)
      PROVE  settings'.baseUrl \in Seq(Tokens) /\ settings'.bases \subseteq Seq(Tokens)
  <2>1. CASE UNCHANGED settings
    BY <2>1 DEF TypeInv, TypeOK
  <2>2. CASE settings' = [allowCall |-> e.allowCall, allowMutating |-> e.allowMutating,
                          baseUrl |-> e.baseUrl,
                          bases |-> IF e.allowlist.format = "unset" THEN DefaultBases
                                    ELSE e.allowlist.urls]
    BY <2>2, GateAssumption
  <2> QED
    BY <1>e, <2>1, <2>2 DEF Start
<1> USE DEF TypeInv, TypeOK, StoreTypeOK, Phases
<1>1. ASSUME NEW e \in Environments, Start(e) PROVE TypeInv'
  <2>1. UNCHANGED <<storeVars, answer, deleted>> /\ server' \in {"failed", "up"}
    BY <1>1 DEF Start
  <2>2. TypeOK'
    BY <1>1, <1>e, <2>1 DEF storeVars
  <2>3. \A c \in Calls : Holds(c)'
    BY <2>1 DEF storeVars, Holds
  <2> QED
    BY <2>2, <2>3
<1>2. ASSUME NEW c \in Calls, NEW r \in Requests, Call(c, r) PROVE TypeInv'
  <2>1. \A d \in Calls : answer[d] = 204 => request[d].id \in 1..MaxId
    BY DEF Holds
  <2>2. deleted' \in [Calls -> SUBSET (1..MaxId)]
    BY <1>2, <2>1 DEF Call
  <2>3. tx' \in [Calls -> TxType]
    <3>1. CASE UNCHANGED tx
      BY <3>1
    <3>2. CASE tx' = [tx EXCEPT ![c].phase = "sent"]
      BY <3>2, <1>t, <1>s
    <3> QED
      BY <1>2, <3>1, <3>2 DEF Call
  <2>4. /\ request' \in [Calls -> Requests \cup {NoRequest}]
        /\ answer' \in [Calls -> {Pending, Refused, HttpError, 200, 201, 204, 404, 500}]
    BY <1>2 DEF Call
  <2>5. TypeOK'
    BY <1>2, <2>2, <2>3, <2>4 DEF Call
  <2>6. ASSUME NEW d \in Calls PROVE Holds(d)'
    <3>1. CASE d = c
      <4>1. /\ request[c] = NoRequest /\ request'[c] = r /\ r # NoRequest
            /\ tx[c].phase = "unsent" /\ tx[c].id = 0 /\ tx[c].status = 0 /\ answer[c] # 204
        BY <1>2, GateAssumption DEF Call, Holds
      <4>2. /\ tx'[c].phase \in {"unsent", "sent"} /\ tx'[c].id = 0 /\ tx'[c].status = 0
            /\ answer'[c] # 204
        BY <1>2, <4>1 DEF Call, TxType, Refused
      <4> QED
        BY <3>1, <4>1, <4>2 DEF Holds
    <3>2. CASE d # c
      BY <1>2, <3>2 DEF Call, Holds
    <3> QED
      BY <3>1, <3>2
  <2> QED
    BY <2>5, <2>6
<1>3. ASSUME NEW c \in Calls, Reply(c) PROVE TypeInv'
  <2>1. answer' \in [Calls -> {Pending, Refused, HttpError, 200, 201, 204, 404, 500}]
    BY <1>3 DEF Reply, TxType, Statuses, Pending
  <2> QED
    BY <1>3, <2>1 DEF Reply, storeVars, Holds
<1>4. ASSUME NEW c \in Calls, ReplyFails(c) PROVE TypeInv'
  BY <1>4 DEF ReplyFails, storeVars, Holds, HttpError
<1> QED
  BY <1>1, <1>2, <1>3, <1>4 DEF ExplorerStep

LEMMA CrashKeepsTypes ==
  ASSUME TypeInv, Crash, UNCHANGED explorerVars
  PROVE  TypeInv'
<1>1. tx' \in [Calls -> TxType]
  <2>1. "lost" \in Phases /\ tx \in [Calls -> TxType]
    BY DEF Phases, TypeInv, TypeOK, StoreTypeOK
  <2> QED
    BY <2>1 DEF Crash, TxType
<1> USE DEF TypeInv, TypeOK, StoreTypeOK, explorerVars
<1>2. TypeOK'
  BY <1>1, StoreAssumption DEF Crash
<1>3. ASSUME NEW c \in Calls PROVE Holds(c)'
  BY DEF Crash, Holds, TxType
<1> QED
  BY <1>2, <1>3

LEMMA StepIsOneOf ==
  ASSUME [Next]_vars
  PROVE  \/ ExplorerStep
         \/ (\E c \in Calls : StoreStep(c)) /\ UNCHANGED explorerVars
         \/ Crash /\ UNCHANGED explorerVars
         \/ UNCHANGED vars
BY DEF Next, ExplorerStep, Quiet

LEMMA TypeStep == TypeInv /\ [Next]_vars => TypeInv'
<1> SUFFICES ASSUME TypeInv, [Next]_vars PROVE TypeInv'
  OBVIOUS
<1>1. CASE UNCHANGED vars
  BY <1>1 DEF TypeInv, TypeOK, StoreTypeOK, Holds, vars, storeVars, explorerVars
<1> QED
  BY <1>1, StepIsOneOf, ExplorerKeepsTypes, StoreKeepsTypes, CrashKeepsTypes

\* Type correctness of the gate and of the API's transactions.
THEOREM TypeCorrect == Spec => []TypeOK
<1>1. TypeInv => TypeOK
  BY DEF TypeInv
<1> QED
  BY <1>1, TypeInit, TypeStep, PTL DEF Spec
-----------------------------------------------------------------------------
\* A statement belongs to one transaction, that is on its way and has no status yet.
LEMMA StatementIsLocal ==
  ASSUME TypeInv, NEW c \in Calls, StoreStep(c)
  PROVE  /\ tx[c].phase \in {"sent", "exists", "loaded", "inserted"} /\ tx[c].status = 0
         /\ request[c] \in Requests /\ request' = request
         /\ \A d \in Calls \ {c} : tx'[d] = tx[d]
         /\ table' # table => request[c].op \in {"create", "update", "delete"}
<1> USE DEF TypeInv, TypeOK, StoreTypeOK, Holds
<1> USE DEF StoreStep, List, Get, Insert, CommitInsert, Load, CommitUpdate, Exists, Find, CommitDelete
<1> USE DEF At, Respond, Continue, Write
<1>1. tx[c].phase \in {"sent", "exists", "loaded", "inserted"}
  OBVIOUS
<1>2. tx[c].status = 0 /\ request[c] \in Requests /\ request' = request
  BY <1>1
<1>3. \A d \in Calls \ {c} : tx'[d] = tx[d]
  OBVIOUS
<1>4. table' # table => request[c].op \in {"create", "update", "delete"}
  OBVIOUS
<1> QED
  BY <1>1, <1>2, <1>3, <1>4

\* Whatever is on its way passed the gate of the settings that are in force.
Passed(c) ==
  tx[c].phase # "unsent" =>
    /\ settings.allowCall
    /\ request[c].op \in {"create", "update", "delete"} => settings.allowMutating

FlagsInv ==
  /\ TypeInv
  /\ server # "up" => \A c \in Calls : request[c] = NoRequest
  /\ \A c \in Calls : Passed(c)

LEMMA FlagsInit == Init => FlagsInv
BY TypeInit DEF Init, StoreInit, Unsent, FlagsInv, Passed

LEMMA FlagsStep ==
  ASSUME FlagsInv, [Next]_vars
  PROVE  FlagsInv'
<1>t. TypeInv /\ TypeInv'
  BY TypeStep DEF FlagsInv
<1>1. ASSUME NEW e \in Environments, Start(e) PROVE FlagsInv'
  <2>1. \A c \in Calls : request[c] = NoRequest /\ tx[c].phase = "unsent"
    BY <1>1, <1>t DEF FlagsInv, Start, TypeInv, Holds
  <2> QED
    BY <1>1, <1>t, <2>1 DEF FlagsInv, Start, storeVars, Passed
<1>2. ASSUME NEW c \in Calls, NEW r \in Requests, Call(c, r) PROVE FlagsInv'
  <2>1. ASSUME NEW d \in Calls PROVE Passed(d)'
    <3>1. CASE d = c
      BY <1>2, <3>1, <1>t DEF Call, Passed, Allowed, Method, MutatingMethods, TypeInv, TypeOK, StoreTypeOK, Holds
    <3>2. CASE d # c
      BY <1>2, <3>2, <1>t DEF FlagsInv, Call, Passed, TypeInv, TypeOK, StoreTypeOK
    <3> QED
      BY <3>1, <3>2
  <2> QED
    BY <1>2, <1>t, <2>1 DEF FlagsInv, Call
<1>3. ASSUME NEW c \in Calls, Reply(c) \/ ReplyFails(c) PROVE FlagsInv'
  BY <1>3, <1>t DEF FlagsInv, Reply, ReplyFails, storeVars, Passed
<1>4. ASSUME NEW c \in Calls, StoreStep(c), UNCHANGED explorerVars PROVE FlagsInv'
  <2>1. ASSUME NEW d \in Calls PROVE Passed(d)'
    BY <1>4, <1>t, StatementIsLocal DEF FlagsInv, Passed, explorerVars
  <2> QED
    BY <1>4, <1>t, <2>1, StatementIsLocal DEF FlagsInv, explorerVars
<1>5. CASE Crash /\ UNCHANGED explorerVars
  BY <1>5, <1>t DEF FlagsInv, Crash, explorerVars, Passed
<1>6. CASE UNCHANGED vars
  BY <1>6, <1>t DEF FlagsInv, vars, storeVars, explorerVars, Passed
<1> QED
  BY <1>1, <1>2, <1>3, <1>4, <1>5, <1>6, StepIsOneOf DEF ExplorerStep

\* The rows of the API change only while both flags are on, whenever the change comes.
THEOREM FlagsHold == Spec => ReadOnlyUnlessAllowed
<1>1. ASSUME FlagsInv, [Next]_vars
      PROVE  table' # table => settings.allowCall /\ settings.allowMutating
  <2>1. ASSUME NEW c \in Calls, StoreStep(c), table' # table
        PROVE  settings.allowCall /\ settings.allowMutating
    BY <1>1, <2>1, StatementIsLocal DEF FlagsInv, Passed
  <2>2. ExplorerStep \/ Crash \/ UNCHANGED vars => table' = table
    BY DEF ExplorerStep, Start, Call, Reply, ReplyFails, Crash, vars, storeVars
  <2> QED
    BY <1>1, <2>1, <2>2, StepIsOneOf
<1>2. FlagsInv /\ [Next]_vars => FlagsInv'
  BY FlagsStep
<1> QED
  BY <1>1, <1>2, FlagsInit, PTL DEF Spec, ReadOnlyUnlessAllowed
-----------------------------------------------------------------------------
(***************************************************************************)
(* Ids.  The sequence gives each insert an id of its own, so a row that is *)
(* gone stays gone: no table and no transaction that inserts has its id.   *)
(***************************************************************************)
Inserting(c) == tx[c].phase = "inserted"

IdsInv ==
  /\ TypeInv
  /\ \A id \in DOMAIN table : id < nextId
  /\ \A c \in Calls : Inserting(c) => tx[c].id < nextId /\ tx[c].id \notin DOMAIN table
  /\ \A c, d \in Calls : Inserting(c) /\ Inserting(d) /\ c # d => tx[c].id # tx[d].id

\* A row of this id has been there.
Was(id) == id < nextId /\ \A c \in Calls : Inserting(c) => tx[c].id # id

Gone(id) == Was(id) /\ id \notin DOMAIN table

\* What a step does to ids.
LEMMA IdsMove ==
  ASSUME IdsInv, [Next]_vars
  PROVE  \/ \E c \in Calls :
              /\ Insert(c)
              /\ nextId' = nextId + 1 /\ table' = table
              /\ tx'[c].id = nextId /\ \A d \in Calls \ {c} : tx'[d] = tx[d]
         \/ \E c \in Calls :
              /\ CommitInsert(c) /\ Inserting(c) /\ nextId' = nextId
              /\ DOMAIN table' \subseteq DOMAIN table \cup {tx[c].id}
              /\ tx'[c].phase = "answered" /\ \A d \in Calls \ {c} : tx'[d] = tx[d]
         \/ /\ nextId' = nextId
            /\ DOMAIN table' \subseteq DOMAIN table
            /\ \A c \in Calls : Inserting(c)' => Inserting(c) /\ tx'[c].id = tx[c].id
<1> DEFINE Rest == /\ nextId' = nextId
                   /\ DOMAIN table' \subseteq DOMAIN table
                   /\ \A c \in Calls : Inserting(c)' => Inserting(c) /\ tx'[c].id = tx[c].id
<1>t. /\ tx \in [Calls -> TxType]
      /\ table \in [DOMAIN table -> [Fields -> Values]]
      /\ DOMAIN table \subseteq 1..MaxId
      /\ TypeInv
  BY DEF IdsInv, TypeInv, TypeOK, StoreTypeOK
<1>1. ASSUME NEW c \in Calls, Insert(c)
      PROVE  /\ nextId' = nextId + 1 /\ table' = table
             /\ tx'[c].id = nextId /\ \A d \in Calls \ {c} : tx'[d] = tx[d]
  BY <1>1, <1>t DEF Insert, TxType
<1>2. ASSUME NEW c \in Calls, CommitInsert(c)
      PROVE  /\ Inserting(c) /\ nextId' = nextId
             /\ DOMAIN table' \subseteq DOMAIN table \cup {tx[c].id}
             /\ tx'[c].phase = "answered" /\ \A d \in Calls \ {c} : tx'[d] = tx[d]
  BY <1>2, <1>t DEF CommitInsert, Write, Respond, At, Inserting, TxType, Atomic!Put
<1>3. ASSUME NEW c \in Calls, Load(c) \/ Exists(c) \/ Find(c) \/ List(c) \/ Get(c)
      PROVE  Rest
  BY <1>3, <1>t DEF Load, Exists, Find, List, Get, Respond, Continue, Inserting, TxType
<1>4. ASSUME NEW c \in Calls, CommitUpdate(c) \/ CommitDelete(c)
      PROVE  Rest
  BY <1>4, <1>t DEF CommitUpdate, CommitDelete, Write, Respond, Present, Inserting, TxType,
                    Atomic!Put, Atomic!Remove
<1>5. CASE ExplorerStep
  BY <1>5, <1>t DEF ExplorerStep, Start, Call, Reply, ReplyFails, storeVars, Inserting, TxType
<1>6. CASE Crash
  BY <1>6, <1>t DEF Crash, Inserting, TxType
<1>7. CASE UNCHANGED vars
  BY <1>7 DEF vars, storeVars, Inserting
<1> QED
  BY <1>1, <1>2, <1>3, <1>4, <1>5, <1>6, <1>7, StepIsOneOf DEF StoreStep

LEMMA IdsInit == Init => IdsInv
BY TypeInit DEF Init, StoreInit, Unsent, IdsInv, Inserting

LEMMA IdsStep ==
  ASSUME IdsInv, [Next]_vars
  PROVE  IdsInv'
<1>t. TypeInv /\ TypeInv' /\ nextId \in Int /\ DOMAIN table \subseteq Int
  BY TypeStep DEF IdsInv, TypeInv, TypeOK, StoreTypeOK
<1> HIDE DEF TypeInv
<1>1. ASSUME NEW c \in Calls,
             nextId' = nextId + 1, table' = table,
             tx'[c].id = nextId, \A d \in Calls \ {c} : tx'[d] = tx[d]
      PROVE  IdsInv'
  <2>1. /\ \A id \in DOMAIN table : id < nextId /\ id # nextId
        /\ \A d \in Calls : Inserting(d) =>
             tx[d].id < nextId /\ tx[d].id \notin DOMAIN table /\ tx[d].id \in Int
    BY <1>t DEF IdsInv, TypeInv, TypeOK, StoreTypeOK, TxType
  <2>2. \A id \in DOMAIN table' : id < nextId'
    BY <1>1, <1>t, <2>1
  <2>3. ASSUME NEW d \in Calls, Inserting(d)'
        PROVE  tx'[d].id < nextId' /\ tx'[d].id \notin DOMAIN table'
    BY <1>1, <1>t, <2>1, <2>3 DEF Inserting
  <2>4. ASSUME NEW d \in Calls, NEW e \in Calls, Inserting(d)', Inserting(e)', d # e
        PROVE  tx'[d].id # tx'[e].id
    BY <1>1, <1>t, <2>1, <2>4 DEF Inserting, IdsInv
  <2> QED
    BY <1>t, <2>2, <2>3, <2>4 DEF IdsInv
<1>2. ASSUME NEW c \in Calls, Inserting(c), nextId' = nextId,
             DOMAIN table' \subseteq DOMAIN table \cup {tx[c].id},
             tx'[c].phase = "answered", \A d \in Calls \ {c} : tx'[d] = tx[d]
      PROVE  IdsInv'
  BY <1>2, <1>t DEF IdsInv, Inserting
<1>3. ASSUME nextId' = nextId, DOMAIN table' \subseteq DOMAIN table,
             \A c \in Calls : Inserting(c)' => Inserting(c) /\ tx'[c].id = tx[c].id
      PROVE  IdsInv'
  BY <1>3, <1>t DEF IdsInv
<1> QED
  BY <1>1, <1>2, <1>3, IdsMove

\* An id that has been used is not used again.
LEMMA UsedStays ==
  ASSUME IdsInv, [Next]_vars, NEW id \in Int
  PROVE  /\ Was(id) => Was(id)'
         /\ Gone(id) => Gone(id)'
<1>t. nextId \in Int
  BY DEF IdsInv, TypeInv, TypeOK, StoreTypeOK
<1>1. ASSUME NEW c \in Calls,
             nextId' = nextId + 1, table' = table,
             tx'[c].id = nextId, \A d \in Calls \ {c} : tx'[d] = tx[d]
      PROVE  (Was(id) => Was(id)') /\ (Gone(id) => Gone(id)')
  BY <1>1, <1>t DEF Was, Gone, Inserting
<1>2. ASSUME NEW c \in Calls, Inserting(c), nextId' = nextId,
             DOMAIN table' \subseteq DOMAIN table \cup {tx[c].id},
             tx'[c].phase = "answered", \A d \in Calls \ {c} : tx'[d] = tx[d]
      PROVE  (Was(id) => Was(id)') /\ (Gone(id) => Gone(id)')
  BY <1>2, <1>t DEF Was, Gone, Inserting
<1>3. ASSUME nextId' = nextId, DOMAIN table' \subseteq DOMAIN table,
             \A c \in Calls : Inserting(c)' => Inserting(c) /\ tx'[c].id = tx[c].id
      PROVE  (Was(id) => Was(id)') /\ (Gone(id) => Gone(id)')
  BY <1>3, <1>t DEF Was, Gone
<1> QED
  BY <1>1, <1>2, <1>3, IdsMove
-----------------------------------------------------------------------------
(***************************************************************************)
(* Deletions.  Late(c): c asks for a row whose deletion had been answered  *)
(* when it began.                                                          *)
(***************************************************************************)
Late(c) ==
  /\ request[c] # NoRequest
  /\ request[c].op \in {"get", "update", "delete"}
  /\ request[c].id \in deleted[c]

DeletedInvOf(c) ==
  /\ tx[c].phase \in {"exists", "loaded"} => Was(request[c].id)
  /\ tx[c].status = 204 => Gone(request[c].id)
  /\ \A id \in deleted[c] : Gone(id)
  /\ tx[c].id \notin deleted[c]
  /\ Late(c) => tx[c].phase \notin {"exists", "loaded"} /\ tx[c].status \in {0, 404}

DeletedInv == IdsInv /\ \A c \in Calls : DeletedInvOf(c)

LEMMA DeletedInit == Init => DeletedInv
BY IdsInit DEF Init, StoreInit, Unsent, DeletedInv, DeletedInvOf, Late

\* A call that does nothing keeps its part of the invariant.
LEMMA DeletedIdle ==
  ASSUME DeletedInv, [Next]_vars, NEW d \in Calls,
         tx'[d].id = tx[d].id, tx'[d].status = tx[d].status,
         tx'[d].phase \in {"exists", "loaded"} => tx[d].phase \in {"exists", "loaded"},
         request'[d] = request[d], deleted'[d] = deleted[d]
  PROVE  DeletedInvOf(d)'
<1>1. /\ tx[d].phase \in {"exists", "loaded"} => request[d].id \in Int
      /\ tx[d].status = 204 => request[d].id \in Int
      /\ deleted[d] \subseteq Int
  BY DEF DeletedInv, IdsInv, TypeInv, TypeOK, Holds
<1>2. \A id \in Int : (Was(id) => Was(id)') /\ (Gone(id) => Gone(id)')
  BY UsedStays DEF DeletedInv
<1>3. /\ tx[d].phase \in {"exists", "loaded"} => Was(request[d].id)'
      /\ tx[d].status = 204 => Gone(request[d].id)'
      /\ \A id \in deleted[d] : Gone(id)'
  BY <1>1, <1>2 DEF DeletedInv, DeletedInvOf
<1> QED
  BY <1>3 DEF DeletedInv, DeletedInvOf, Late

\* What one statement does to its own transaction.
LEMMA StatementOutcome ==
  ASSUME TypeInv, NEW c \in Calls, StoreStep(c)
  PROVE  /\ tx'[c].phase \in {"exists", "loaded"} =>
              /\ tx'[c].status = 0 /\ tx'[c].id = tx[c].id
              /\ request[c].id \in DOMAIN table
         /\ tx'[c].phase \notin {"exists", "loaded"} /\ tx'[c].id # tx[c].id =>
              tx'[c].id = nextId /\ tx'[c].status = 0
         /\ tx'[c].status = 204 =>
              /\ tx[c].phase \in {"exists", "loaded"} /\ request[c].id \notin DOMAIN table'
         /\ /\ tx[c].phase \notin {"exists", "loaded"}
            /\ request[c].op \in {"get", "update", "delete"}
            /\ request[c].id \notin DOMAIN table
            => tx'[c].status \in {0, 404}
<1>t. /\ tx \in [Calls -> TxType] /\ Holds(c)
  BY DEF TypeInv, TypeOK, StoreTypeOK
<1> USE DEF At, Present, Respond, Continue, TxType, Holds
<1>1. CASE List(c) \/ Get(c)
  BY <1>1, <1>t DEF List, Get
<1>2. CASE Insert(c)
  BY <1>2, <1>t DEF Insert
<1>3. CASE CommitInsert(c)
  BY <1>3, <1>t DEF CommitInsert, Write
<1>4. CASE Load(c)
  BY <1>4, <1>t DEF Load
<1>5. CASE CommitUpdate(c)
  BY <1>5, <1>t DEF CommitUpdate, Write
<1>6. CASE Exists(c)
  BY <1>6, <1>t DEF Exists
<1>7. CASE Find(c)
  BY <1>7, <1>t DEF Find
<1>8. CASE CommitDelete(c)
  BY <1>8, <1>t DEF CommitDelete, Write, Atomic!Remove
<1> QED
  BY <1>1, <1>2, <1>3, <1>4, <1>5, <1>6, <1>7, <1>8 DEF StoreStep

LEMMA DeletedStatement ==
  ASSUME DeletedInv, [Next]_vars, NEW c \in Calls, StoreStep(c), UNCHANGED explorerVars
  PROVE  DeletedInvOf(c)'
<1>t. TypeInv /\ DeletedInvOf(c) /\ IdsInv
  BY DEF DeletedInv, IdsInv
<1>i. /\ deleted[c] \subseteq Int /\ nextId \in Int /\ DOMAIN table \subseteq Int
      /\ tx[c].phase \in {"exists", "loaded"} => request[c].id \in Int
  BY <1>t DEF TypeInv, TypeOK, StoreTypeOK, Holds
<1>u. \A id \in Int : (Was(id) => Was(id)') /\ (Gone(id) => Gone(id)')
  BY <1>t, UsedStays
<1>s. /\ request' = request /\ deleted' = deleted
      /\ tx[c].status = 0
  BY <1>t, StatementIsLocal DEF explorerVars
<1>1. tx'[c].phase \in {"exists", "loaded"} => Was(request[c].id)'
  <2>1. \A id \in DOMAIN table : Was(id)
    BY <1>t DEF IdsInv, Was, Inserting
  <2> QED
    BY <2>1, <1>t, <1>i, <1>u, <1>s, StatementOutcome
<1>2. tx'[c].status = 204 => Gone(request[c].id)'
  BY <1>t, <1>i, <1>u, <1>s, StatementOutcome DEF DeletedInvOf, Gone
<1>3. \A id \in deleted[c] : Gone(id)'
  BY <1>t, <1>i, <1>u DEF DeletedInvOf
<1>4. tx'[c].id \notin deleted[c]
  BY <1>t, <1>i, StatementOutcome DEF DeletedInvOf, Gone, Was
<1>5. Late(c) => tx'[c].phase \notin {"exists", "loaded"} /\ tx'[c].status \in {0, 404}
  BY <1>t, <1>s, StatementOutcome DEF DeletedInvOf, Gone, Late
<1> QED
  BY <1>1, <1>2, <1>3, <1>4, <1>5, <1>s DEF DeletedInvOf, Late

LEMMA DeletedCall ==
  ASSUME DeletedInv, [Next]_vars, NEW c \in Calls, NEW r \in Requests, Call(c, r)
  PROVE  DeletedInvOf(c)'
<1>t. /\ TypeInv /\ IdsInv /\ TypeOK' /\ tx \in [Calls -> TxType]
      /\ deleted \in [Calls -> SUBSET (1..MaxId)]
  BY TypeStep DEF DeletedInv, IdsInv, TypeInv, TypeOK, StoreTypeOK
<1>1. /\ tx'[c].phase \in {"sent", "unsent"}
      /\ tx'[c].id = 0 /\ tx'[c].status = 0
  BY <1>t DEF Call, TypeInv, Holds, TxType
<1>2. deleted'[c] = {request[d].id : d \in {d \in Calls : answer[d] = 204}}
  BY <1>t DEF Call
<1>3. ASSUME NEW id \in deleted'[c]
      PROVE  Gone(id)' /\ id \in 1..MaxId
  <2>1. PICK d \in Calls : answer[d] = 204 /\ id = request[d].id
    BY <1>2, <1>3
  <2>2. tx[d].status = 204 /\ id \in 1..MaxId
    BY <2>1, <1>t DEF TypeInv, Holds
  <2>3. Gone(id)
    BY <2>1, <2>2 DEF DeletedInv, DeletedInvOf
  <2> QED
    BY <2>2, <2>3, <1>t, UsedStays
<1>4. tx'[c].id \notin deleted'[c]
  BY <1>1, <1>3
<1> QED
  BY <1>1, <1>3, <1>4 DEF DeletedInvOf

LEMMA DeletedStep ==
  ASSUME DeletedInv, [Next]_vars
  PROVE  DeletedInv'
<1>t. /\ TypeInv /\ IdsInv' /\ tx \in [Calls -> TxType]
      /\ request \in [Calls -> Requests \cup {NoRequest}]
      /\ deleted \in [Calls -> SUBSET (1..MaxId)]
  BY IdsStep DEF DeletedInv, IdsInv, TypeInv, TypeOK, StoreTypeOK
<1>1. ASSUME NEW c \in Calls, NEW r \in Requests, Call(c, r), NEW d \in Calls
      PROVE  DeletedInvOf(d)'
  <2>1. CASE d = c
    BY <1>1, <2>1, DeletedCall
  <2>2. CASE d # c
    BY <1>1, <2>2, <1>t, DeletedIdle DEF Call
  <2> QED
    BY <2>1, <2>2
<1>2. ASSUME NEW c \in Calls, StoreStep(c), UNCHANGED explorerVars, NEW d \in Calls
      PROVE  DeletedInvOf(d)'
  <2>1. CASE d = c
    BY <1>2, <2>1, DeletedStatement
  <2>2. CASE d # c
    BY <1>2, <2>2, <1>t, StatementIsLocal, DeletedIdle DEF explorerVars
  <2> QED
    BY <2>1, <2>2
<1>3. ASSUME Crash /\ UNCHANGED explorerVars, NEW d \in Calls
      PROVE  DeletedInvOf(d)'
  BY <1>3, <1>t, DeletedIdle DEF Crash, explorerVars, TxType
<1>4. ASSUME UNCHANGED storeVars /\ UNCHANGED deleted, NEW d \in Calls
      PROVE  DeletedInvOf(d)'
  BY <1>4, DeletedIdle DEF storeVars
<1>5. ASSUME NEW d \in Calls
      PROVE  DeletedInvOf(d)'
  BY <1>1, <1>2, <1>3, <1>4, <1>5, StepIsOneOf
  DEF ExplorerStep, Start, Reply, ReplyFails, vars, explorerVars
<1> QED
  BY <1>t, <1>5 DEF DeletedInv

\* Once a call was told that a row is deleted, no later call finds, changes, deletes or
\* creates a row of that id.
THEOREM GoneForGood == Spec => []DeletedForGood
<1>1. DeletedInv => DeletedForGood
  BY DEF DeletedInv, DeletedInvOf, Late, DeletedForGood
<1>2. DeletedInv /\ [Next]_vars => DeletedInv'
  BY DeletedStep
<1> QED
  BY <1>1, <1>2, DeletedInit, PTL DEF Spec
-----------------------------------------------------------------------------
(***************************************************************************)
(* The refinement of AtomicStore, where updates give whole rows.           *)
(***************************************************************************)
WholeUpdates == \A r \in Requests : r.op = "update" => r.given \in [Fields -> Values]

UniqueRows(rows) == \A id \in DOMAIN rows : Atomic!Free(rows, id, rows[id])

\* A row that is free among unique rows can be put there.
LEMMA PutKeepsUnique ==
  ASSUME NEW rows, UniqueRows(rows), NEW id, NEW row, Atomic!Free(rows, id, row)
  PROVE  UniqueRows(Atomic!Put(rows, id, row))
BY DEF UniqueRows, Atomic!Free, Atomic!Put

LEMMA RemoveKeepsUnique ==
  ASSUME NEW rows, UniqueRows(rows), NEW id
  PROVE  UniqueRows(Atomic!Remove(rows, id))
BY DEF UniqueRows, Atomic!Free, Atomic!Remove

LEMMA MergeWhole ==
  ASSUME NEW row, NEW given \in [Fields -> Values]
  PROVE  Atomic!Merge(row, given) = given
BY DEF Atomic!Merge

AtomicInv ==
  /\ IdsInv
  /\ UniqueRows(table)
  /\ \A c \in Calls :
       tx[c].phase = "loaded" /\ request[c].op = "update" => tx[c].row = request[c].given

LEMMA AtomicInit == Init => AtomicInv
BY IdsInit, GateAssumption DEF Init, StoreInit, Unsent, AtomicInv, UniqueRows

LEMMA AtomicStep ==
  ASSUME WholeUpdates, AtomicInv, [Next]_vars
  PROVE  AtomicInv'
<1>t. /\ TypeInv /\ IdsInv' /\ UniqueRows(table)
      /\ tx \in [Calls -> TxType]
      /\ request \in [Calls -> Requests \cup {NoRequest}]
  BY IdsStep DEF AtomicInv, IdsInv, TypeInv, TypeOK, StoreTypeOK
<1> DEFINE Written(c) ==
             tx[c].phase = "loaded" /\ request[c].op = "update" => tx[c].row = request[c].given
<1>w. \A c \in Calls : Written(c)
  BY DEF AtomicInv
<1>1. ASSUME NEW c \in Calls, StoreStep(c)
      PROVE  UniqueRows(table')
  <2>1. CASE table' = table
    BY <2>1, <1>t
  <2>2. CASE CommitInsert(c)
    BY <2>2, <1>t, PutKeepsUnique DEF CommitInsert, Write
  <2>3. CASE CommitUpdate(c)
    BY <2>3, <1>t, PutKeepsUnique DEF CommitUpdate, Write
  <2>4. CASE CommitDelete(c)
    BY <2>4, <1>t, RemoveKeepsUnique DEF CommitDelete, Write
  <2> QED
    BY <1>1, <2>1, <2>2, <2>3, <2>4 DEF StoreStep, List, Get, Insert, Load, Exists, Find
<1>2. ASSUME NEW c \in Calls, StoreStep(c)
      PROVE  Written(c)'
  <2>1. CASE Load(c)
    <3>1. request[c] \in Requests /\ request' = request
      BY <1>2, <1>t, StatementIsLocal
    <3>2. request[c].given \in [Fields -> Values]
      BY <2>1, <3>1 DEF Load, At, WholeUpdates
    <3> QED
      BY <2>1, <3>1, <3>2, <1>t, MergeWhole DEF Load, Respond, TxType
  <2>2. CASE tx'[c].phase # "loaded"
    BY <2>2
  <2>3. CASE Find(c)
    BY <2>3 DEF Find, At
  <2> QED
    BY <1>2, <1>t, <2>1, <2>2, <2>3
    DEF StoreStep, List, Get, Insert, CommitInsert, CommitUpdate, Exists, CommitDelete,
        Write, Respond, Continue, TxType
<1>3. ASSUME NEW c \in Calls, StoreStep(c), NEW d \in Calls
      PROVE  Written(d)'
  BY <1>2, <1>3, <1>t, <1>w, StatementIsLocal
<1>4. ASSUME ExplorerStep
      PROVE  table' = table /\ \A c \in Calls : Written(c)'
  BY <1>4, <1>t, <1>w
  DEF ExplorerStep, Start, Call, Reply, ReplyFails, storeVars, TxType, TypeInv, Holds
<1>5. ASSUME Crash
      PROVE  table' = table /\ \A c \in Calls : Written(c)'
  BY <1>5, <1>t, <1>w DEF Crash, TxType
<1>6. ASSUME UNCHANGED vars
      PROVE  table' = table /\ \A c \in Calls : Written(c)'
  BY <1>6, <1>w DEF vars, storeVars
<1> QED
  BY <1>t, <1>1, <1>3, <1>4, <1>5, <1>6, StepIsOneOf DEF AtomicInv

LEMMA AtomicInitMaps == Init => Atomic!Init
BY DEF Init, StoreInit, Unsent, Atomic!Init

\* A response decides the request, and is the only thing that does.
LEMMA ResponseDecides ==
  ASSUME TypeInv, NEW c \in Calls, NEW status, Respond(c, status),
         tx[c].status = 0, request' = request
  PROVE  Atomic!Decide(c, status)
<1>1. tx \in [Calls -> TxType]
  BY DEF TypeInv, TypeOK, StoreTypeOK
<1> QED
  BY <1>1 DEF TxType, Respond, Atomic!Decide

LEMMA Stutters ==
  ASSUME table' = table, request' = request, \A c \in Calls : tx'[c].status = tx[c].status
  PROVE  UNCHANGED Atomic!vars
BY DEF Atomic!vars

LEMMA StatementMaps ==
  ASSUME WholeUpdates, AtomicInv, NEW c \in Calls, StoreStep(c)
  PROVE  [Atomic!Next]_Atomic!vars
<1>t. /\ TypeInv /\ tx \in [Calls -> TxType]
      /\ table \in [DOMAIN table -> [Fields -> Values]]
      /\ tx[c].status = 0 /\ request' = request
      /\ request[c] \in Requests /\ request[c] # NoRequest
  BY StatementIsLocal, GateAssumption DEF AtomicInv, IdsInv, TypeInv, TypeOK, StoreTypeOK
<1>d. ASSUME NEW status, Respond(c, status)
      PROVE  Atomic!Decide(c, status)
  BY <1>t, <1>d, ResponseDecides
<1>n. Atomic!Create(c) \/ Atomic!Update(c) \/ Atomic!Delete(c) \/ Atomic!Read(c)
        \/ Atomic!Missing(c) \/ Atomic!Fail(c) => Atomic!Next
  BY <1>t DEF Atomic!Next
<1>f. table' = table /\ Respond(c, 500) => Atomic!Fail(c)
  BY <1>d DEF Atomic!Fail
<1>1. CASE List(c)
  BY <1>1, <1>d, <1>n DEF List, At, Atomic!Read
<1>2. CASE Get(c)
  BY <1>2, <1>d, <1>n DEF Get, At, Present, Atomic!Read, Atomic!Missing
<1>3. CASE Insert(c)
  BY <1>3, <1>t, Stutters DEF Insert, TxType
<1>4. CASE CommitInsert(c)
  <2>1. /\ tx[c].id \notin DOMAIN table
        /\ tx[c].row = request[c].given
    BY <1>4, <1>t DEF CommitInsert, At, AtomicInv, IdsInv, Inserting, TypeInv, Holds
  <2>2. CASE Respond(c, 201) /\ table' = Atomic!Put(table, tx[c].id, tx[c].row)
                             /\ Atomic!Free(table, tx[c].id, tx[c].row)
    <3>1. tx[c].id \in DOMAIN table'
      BY <2>2 DEF Atomic!Put
    <3>2. Atomic!Create(c)
      BY <1>4, <2>1, <2>2, <3>1, <1>d DEF CommitInsert, At, Atomic!Create
    <3> QED
      BY <3>2, <1>n
  <2> QED
    BY <1>4, <2>2, <1>f, <1>n DEF CommitInsert, Write
<1>5. CASE Load(c)
  <2>1. CASE Respond(c, 404) /\ ~Present(c)
    BY <1>5, <2>1, <1>d, <1>n DEF Load, At, Present, Atomic!Missing
  <2>2. CASE Respond(c, 200) /\ Present(c)
             /\ Atomic!Merge(table[request[c].id], request[c].given) = table[request[c].id]
    <3> DEFINE id == request[c].id
    <3>1. table' = table /\ id \in DOMAIN table
      BY <1>5, <2>2 DEF Load, Present
    <3>2. table' = Atomic!Put(table, id, table[id])
      BY <3>1, <1>t DEF Atomic!Put
    <3>3. Atomic!Free(table, id, table'[id])
      BY <3>1 DEF AtomicInv, UniqueRows
    <3>4. Atomic!Update(c)
      BY <1>5, <2>2, <3>1, <3>2, <3>3, <1>d DEF Load, At, Atomic!Update
    <3> QED
      BY <3>4, <1>n
  <2>3. CASE tx' = [tx EXCEPT ![c].phase = "loaded",
                      ![c].row = Atomic!Merge(table[request[c].id], request[c].given)]
    BY <1>5, <2>3, <1>t, Stutters DEF Load, TxType
  <2> QED
    BY <1>5, <2>1, <2>2, <2>3 DEF Load
<1>6. CASE CommitUpdate(c)
  <2> DEFINE id == request[c].id
  <2>1. tx[c].row = request[c].given /\ request[c].given \in [Fields -> Values]
    BY <1>6, <1>t DEF CommitUpdate, At, AtomicInv, WholeUpdates
  <2>2. CASE Respond(c, 200) /\ table' = Atomic!Put(table, id, tx[c].row)
             /\ Present(c) /\ Atomic!Free(table, id, tx[c].row)
    <3>1. table'[id] = tx[c].row
      BY <2>2 DEF Atomic!Put
    <3>2. Atomic!Merge(table[id], request[c].given) = tx[c].row
      BY <2>1, MergeWhole
    <3>3. Atomic!Update(c)
      BY <1>6, <2>2, <3>1, <3>2, <1>d DEF CommitUpdate, At, Present, Atomic!Update
    <3> QED
      BY <3>3, <1>n
  <2> QED
    BY <1>6, <2>2, <1>f, <1>n DEF CommitUpdate, Write
<1>7. CASE Exists(c)
  BY <1>7, <1>d, <1>n, <1>t, Stutters
  DEF Exists, At, Present, Continue, TxType, Atomic!Missing
<1>8. CASE Find(c)
  BY <1>8, <1>d, <1>n, <1>t, Stutters
  DEF Find, At, Present, Continue, TxType, Atomic!Missing
<1>9. CASE CommitDelete(c)
  BY <1>9, <1>d, <1>f, <1>n DEF CommitDelete, Write, At, Present, Atomic!Delete
<1> QED
  BY <1>1, <1>2, <1>3, <1>4, <1>5, <1>6, <1>7, <1>8, <1>9 DEF StoreStep

LEMMA OthersMap ==
  ASSUME AtomicInv, ExplorerStep \/ Crash \/ UNCHANGED vars
  PROVE  [Atomic!Next]_Atomic!vars
<1>t. /\ tx \in [Calls -> TxType]
      /\ request \in [Calls -> Requests \cup {NoRequest}]
  BY DEF AtomicInv, IdsInv, TypeInv, TypeOK, StoreTypeOK
<1>1. ASSUME NEW c \in Calls, NEW r \in Requests, Call(c, r)
      PROVE  Atomic!Next
  <2>1. request' = [request EXCEPT ![c] = request'[c]]
    BY <1>1, <1>t DEF Call
  <2>2. \A d \in Calls : tx'[d].status = tx[d].status
    BY <1>1, <1>t DEF Call, TxType
  <2>3. Atomic!Ask(c)
    BY <1>1, <2>1, <2>2 DEF Call, Atomic!Ask
  <2> QED
    BY <2>3 DEF Atomic!Next
<1>2. CASE UNCHANGED storeVars
  BY <1>2, Stutters DEF storeVars
<1>3. CASE Crash
  BY <1>3, <1>t, Stutters DEF Crash, TxType
<1> QED
  BY <1>1, <1>2, <1>3 DEF ExplorerStep, Start, Reply, ReplyFails, vars

\* Each request takes effect once, at one instant, or leaves no trace: the API under the
\* explorer implements AtomicStore, where updates give whole rows.
THEOREM TakesEffectOnce ==
  ASSUME WholeUpdates
  PROVE  Spec => AppliedAtomically
<1>1. AtomicInv /\ [Next]_vars => AtomicInv'
  BY AtomicStep
<1>2. AtomicInv /\ [Next]_vars => [Atomic!Next]_Atomic!vars
  BY StatementMaps, OthersMap, StepIsOneOf
<1> QED
  BY <1>1, <1>2, AtomicInit, AtomicInitMaps, PTL DEF Spec, AppliedAtomically, Atomic!Spec
=============================================================================

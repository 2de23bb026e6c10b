--------------------------- MODULE SpecCacheProofs ---------------------------
(***************************************************************************)
(* Theorems about SpecCache: the lock and its queue, the fetches that are  *)
(* shared, the versions of the document, and that the cache implements     *)
(* DocumentRegister: every step of it is a step of the register or leaves  *)
(* what the register shows as it is.                                       *)
(***************************************************************************)
EXTENDS SpecCache, SequenceTheorems, TLAPS

-----------------------------------------------------------------------------
(***************************************************************************)
(* The queue of the lock.                                                  *)
(***************************************************************************)
Waits(q, c) == \E i \in 1..Len(q) : q[i] = c

Distinct(q) == \A i, j \in 1..Len(q) : q[i] = q[j] => i = j

\* A call that joins the queue comes to wait beside the others.
LEMMA JoinQueue ==
  ASSUME NEW S, NEW q \in Seq(S), NEW c \in S, Distinct(q), ~Waits(q, c)
  PROVE  /\ Append(q, c) \in Seq(S)
         /\ Distinct(Append(q, c))
         /\ \A d : Waits(Append(q, c), d) <=> Waits(q, d) \/ d = c
<1> DEFINE r == Append(q, c)
<1>1. r \in Seq(S) /\ Len(r) = Len(q) + 1 /\ r[Len(q) + 1] = c
      /\ \A i \in 1..Len(q) : r[i] = q[i]
  BY AppendProperties
<1>2. Len(q) \in Nat
  BY LenProperties
<1> HIDE DEF r
<1>3. Distinct(r)
  BY <1>1, <1>2 DEF Distinct, Waits
<1>4. \A d : Waits(r, d) <=> Waits(q, d) \/ d = c
  BY <1>1, <1>2 DEF Waits
<1> QED  BY <1>1, <1>3, <1>4 DEF r

\* The first waiter leaves the queue, the others keep waiting.
LEMMA LeaveFirst ==
  ASSUME NEW S, NEW q \in Seq(S), q # << >>, Distinct(q)
  PROVE  /\ Head(q) \in S /\ Waits(q, Head(q))
         /\ Tail(q) \in Seq(S)
         /\ Distinct(Tail(q))
         /\ \A d : Waits(Tail(q), d) <=> Waits(q, d) /\ d # Head(q)
<1> DEFINE r == Tail(q)
<1>1. Head(q) \in S /\ r \in Seq(S) /\ Len(r) = Len(q) - 1
      /\ \A i \in 1..Len(r) : r[i] = q[i + 1]
  BY HeadTailProperties
<1>2. Len(q) \in Nat \ {0} /\ Head(q) = q[1]
  BY LenProperties, EmptySeq
<1> HIDE DEF r
<1>3. Distinct(r)
  BY <1>1, <1>2 DEF Distinct
<1>4. ASSUME NEW d, Waits(q, d), d # Head(q)  PROVE Waits(r, d)
  <2>1. PICK i \in 1..Len(q) : q[i] = d
    BY <1>4 DEF Waits
  <2>2. i - 1 \in 1..Len(r) /\ r[i - 1] = d
    BY <2>1, <1>1, <1>2, <1>4
  <2> QED  BY <2>2 DEF Waits
<1>5. ASSUME NEW d, Waits(r, d)  PROVE Waits(q, d) /\ d # Head(q)
  <2>1. PICK i \in 1..Len(r) : r[i] = d
    BY <1>5 DEF Waits
  <2>2. i + 1 \in 1..Len(q) /\ q[i + 1] = d /\ i + 1 # 1
    BY <2>1, <1>1, <1>2
  <2> QED  BY <2>2, <1>2 DEF Waits, Distinct
<1> QED  BY <1>1, <1>2, <1>3, <1>4, <1>5 DEF r, Waits

\* A waiter that gives up leaves the queue, wherever it stands; the others keep waiting.
LEMMA LeaveQueue ==
  ASSUME NEW S, NEW q \in Seq(S), NEW c, Distinct(q)
  PROVE  /\ RemoveFirst(q, c) \in Seq(S)
         /\ Distinct(RemoveFirst(q, c))
         /\ \A d : Waits(RemoveFirst(q, c), d) <=> Waits(q, d) /\ d # c
<1>1. CASE ~Waits(q, c)
  BY <1>1 DEF Waits, RemoveFirst
<1>2. CASE Waits(q, c)
  <2>1. PICK k \in 1..Len(q) : q[k] = c
    BY <1>2 DEF Waits
  <2> DEFINE I == {i \in 1..Len(q) : q[i] = c}
  <2>2. I = {k}
    BY <2>1 DEF Distinct
  <2>3. Len(q) \in Nat /\ \A i \in 1..Len(q) : q[i] \in S
    BY LenProperties, ElementOfSeq
  <2>4. Min(I) = k
    BY <2>1, <2>2, <2>3 DEF Min
  <2>5. SelectInSeq(q, LAMBDA v : v = c) = k
    BY <2>2, <2>4 DEF SelectInSeq
  <2> DEFINE a == SubSeq(q, 1, k - 1)
             b == SubSeq(q, k + 1, Len(q))
             r == a \o b
  <2>6. RemoveFirst(q, c) = r
    BY <2>5, <2>1 DEF RemoveFirst, RemoveAt
  <2>7. a \in Seq(S) /\ Len(a) = k - 1 /\ \A i \in 1..(k - 1) : a[i] = q[i]
    BY <2>1, <2>3, SubSeqProperties
  <2>8. b \in Seq(S) /\ Len(b) = Len(q) - k /\ \A i \in 1..(Len(q) - k) : b[i] = q[i + k]
    BY <2>1, <2>3, SubSeqProperties
  <2> HIDE DEF a, b
  <2>9. /\ r \in Seq(S) /\ Len(r) = Len(q) - 1
        /\ \A i \in 1..(k - 1) : r[i] = q[i]
        /\ \A i \in k..(Len(q) - 1) : r[i] = q[i + 1]
    <3>1. /\ r \in Seq(S) /\ Len(r) = Len(a) + Len(b)
          /\ \A i \in 1..Len(a) + Len(b) : r[i] = IF i <= Len(a) THEN a[i] ELSE b[i - Len(a)]
      BY <2>7, <2>8, ConcatProperties
    <3> HIDE DEF r
    <3>2. Len(a) + Len(b) = Len(q) - 1 /\ k \in Nat \ {0} /\ k <= Len(q)
      BY <2>1, <2>3, <2>7, <2>8
    <3>3. ASSUME NEW i \in 1..(k - 1)  PROVE r[i] = q[i]
      <4>1. i \in 1..(Len(q) - 1) /\ i <= Len(a)
        BY <3>2, <2>3, <2>7
      <4>2. r[i] = a[i]
        BY <4>1, <3>1, <3>2
      <4> QED  BY <4>2, <2>7
    <3>4. ASSUME NEW i \in k..(Len(q) - 1)  PROVE r[i] = q[i + 1]
      <4>1. r[i] = b[i - (k - 1)]
        BY <3>1, <3>2, <2>3, <2>7
      <4>2. i - (k - 1) \in 1..(Len(q) - k) /\ i - (k - 1) + k = i + 1
        BY <3>2, <2>3
      <4> QED  BY <4>1, <4>2, <2>8
    <3> QED  BY <3>1, <3>2, <3>3, <3>4
  <2> HIDE DEF r
  <2>10. Distinct(r)
    BY <2>1, <2>3, <2>9 DEF Distinct
  <2>11. ASSUME NEW d, Waits(q, d), d # c  PROVE Waits(r, d)
    <3>1. PICK i \in 1..Len(q) : q[i] = d
      BY <2>11 DEF Waits
    <3>2. CASE i < k
      <4>1. i \in 1..Len(r) /\ r[i] = d
        BY <3>1, <3>2, <2>1, <2>3, <2>9
      <4> QED  BY <4>1 DEF Waits
    <3>3. CASE i > k
      <4>1. i - 1 \in 1..Len(r) /\ r[i - 1] = d
        BY <3>1, <3>3, <2>1, <2>3, <2>9
      <4> QED  BY <4>1 DEF Waits
    <3> QED  BY <3>1, <3>2, <3>3, <2>1, <2>3, <2>11
  <2>12. ASSUME NEW d, Waits(r, d)  PROVE Waits(q, d) /\ d # c
    <3>1. PICK i \in 1..Len(r) : r[i] = d
      BY <2>12 DEF Waits
    <3>2. CASE i < k
      BY <3>1, <3>2, <2>1, <2>3, <2>9 DEF Waits, Distinct
    <3>3. CASE i >= k
      <4>1. i + 1 \in 1..Len(q) /\ q[i + 1] = d /\ i + 1 # k
        BY <3>1, <3>3, <2>1, <2>3, <2>9
      <4> QED  BY <4>1, <2>1 DEF Waits, Distinct
    <3> QED  BY <3>1, <3>2, <3>3, <2>1, <2>3, <2>9
  <2> QED  BY <2>6, <2>9, <2>10, <2>11, <2>12
<1> QED  BY <1>1, <1>2
-----------------------------------------------------------------------------
(***************************************************************************)
(* Types.                                                                  *)
(***************************************************************************)
LEMMA PhasesHold ==
  "idle" \in Phases /\ "queued" \in Phases /\ "fetching" \in Phases /\ "done" \in Phases
BY DEF Phases

\* What a call can be told has the type of a reply.
LEMMA RepliesHold ==
  /\ NoReply \in Replies /\ Failure \in Replies /\ Cancelled \in Replies
  /\ \A doc \in Int, flag \in BOOLEAN : Served(doc, flag) \in Replies
BY DEF NoReply, Failure, Cancelled, Served, NoSpec, Replies

LEMMA InitTyped == Init => TypeOK
<1> SUFFICES ASSUME Init PROVE TypeOK
  OBVIOUS
<1>1. pc \in [Calls -> Phases] /\ reply \in [Calls -> Replies]
  BY RepliesHold, PhasesHold DEF Init
<1>2. begun \in [Calls -> Beginnings]
  BY DEF Init, NoSpec, NotServed, Beginnings
<1>3. queue \in Seq(Calls)
  BY EmptySeq DEF Init
<1>4. spec \in Int /\ carried \in [Calls -> Nat] /\ fetchedAt \in Nat /\ published \in Nat /\ now \in Nat
  BY DEF Init, NoSpec, NotServed
<1>5. kind \in [Calls -> {"get", "refresh"}] /\ stale \in BOOLEAN /\ lock \in Calls \cup {Nobody}
  BY DEF Init
<1> QED  BY <1>1, <1>2, <1>3, <1>4, <1>5 DEF TypeOK

\* Returning and entering the lock keep the types of what they change.
LEMMA ReturnTyped ==
  ASSUME TypeOK, NEW c \in Calls, NEW rep \in Replies, Return(c, rep)
  PROVE  pc' \in [Calls -> Phases] /\ reply' \in [Calls -> Replies]
BY PhasesHold DEF TypeOK, Return

LEMMA StartFetchTyped ==
  ASSUME TypeOK, NEW c \in Calls, StartFetch(c)
  PROVE  pc' \in [Calls -> Phases] /\ reply' = reply /\ lock' \in Calls \cup {Nobody}
BY PhasesHold DEF TypeOK, StartFetch

LEMMA EnterLockTyped ==
  ASSUME TypeOK, NEW c \in Calls, EnterLock(c)
  PROVE  /\ pc' \in [Calls -> Phases]
         /\ reply' = reply
         /\ lock' \in Calls \cup {Nobody}
         /\ queue' \in Seq(Calls)
<1>1. CASE StartFetch(c) /\ UNCHANGED queue
  BY <1>1, StartFetchTyped DEF TypeOK
<1>2. CASE /\ pc' = [pc EXCEPT ![c] = "queued"]
           /\ queue' = Append(queue, c)
           /\ UNCHANGED <<reply, lock>>
  <2>1. queue' \in Seq(Calls)
    BY <1>2, AppendProperties DEF TypeOK
  <2> QED  BY <1>2, <2>1, PhasesHold DEF TypeOK
<1> QED  BY <1>1, <1>2 DEF EnterLock

LEMMA BeginTyped ==
  ASSUME TypeOK, NEW c \in Calls, NEW k \in {"get", "refresh"}, Begin(c, k)
  PROVE  kind' \in [Calls -> {"get", "refresh"}] /\ begun' \in [Calls -> Beginnings]
<1>1. [spec |-> spec, published |-> published] \in Beginnings
  BY DEF TypeOK, Beginnings
<1> QED  BY <1>1 DEF TypeOK, Begin

\* The actions of a call keep the types, one by one.
LEMMA CallTyped ==
  ASSUME TypeOK, Distinct(queue), NEW c \in Calls,
         Get(c) \/ Refresh(c) \/ Wake(c) \/ Serve(c) \/ FetchEnds(c) \/ Cancel(c)
  PROVE  TypeOK'
<1>1. CASE Get(c)
  <2>1. kind' \in [Calls -> {"get", "refresh"}] /\ begun' \in [Calls -> Beginnings]
    BY <1>1, BeginTyped DEF Get
  <2>2. CASE Return(c, Served(spec, stale)) /\ UNCHANGED <<lock, queue>>
    <3>1. pc' \in [Calls -> Phases] /\ reply' \in [Calls -> Replies]
      BY <2>2, RepliesHold, ReturnTyped DEF TypeOK
    <3> QED  BY <1>1, <2>1, <2>2, <3>1 DEF Get, TypeOK, cacheVars, worldVars
  <2>3. CASE EnterLock(c)
    BY <1>1, <2>1, <2>3, EnterLockTyped DEF Get, TypeOK, cacheVars, worldVars
  <2> QED  BY <1>1, <2>2, <2>3 DEF Get
<1>2. CASE Refresh(c)
  <2>1. kind' \in [Calls -> {"get", "refresh"}] /\ begun' \in [Calls -> Beginnings]
    BY <1>2, BeginTyped DEF Refresh
  <2> QED  BY <1>2, <2>1, EnterLockTyped DEF Refresh, TypeOK, cacheVars, worldVars
<1>3. CASE Wake(c)
  <2>1. queue' \in Seq(Calls)
    BY <1>3, HeadTailProperties DEF Wake, TypeOK
  <2>2. CASE Return(c, Served(spec, stale)) /\ UNCHANGED lock
    <3>1. pc' \in [Calls -> Phases] /\ reply' \in [Calls -> Replies]
      BY <2>2, RepliesHold, ReturnTyped DEF TypeOK
    <3> QED  BY <1>3, <2>1, <2>2, <3>1 DEF Wake, TypeOK, cacheVars, worldVars
  <2>3. CASE StartFetch(c)
    BY <1>3, <2>1, <2>3, StartFetchTyped DEF Wake, TypeOK, cacheVars, worldVars
  <2> QED  BY <1>3, <2>2, <2>3 DEF Wake
<1>4. CASE Serve(c)
  BY <1>4 DEF Serve, TypeOK, cacheVars, worldVars
<1>5. CASE FetchOk(c)
  <2>1. carried[c] \in Int
    BY DEF TypeOK
  <2>2. pc' \in [Calls -> Phases] /\ reply' \in [Calls -> Replies]
    <3>1. Served(carried[c], FALSE) \in Replies
      BY <2>1, RepliesHold
    <3> QED  BY <1>5, <3>1, ReturnTyped DEF FetchOk
  <2> QED  BY <1>5, <2>1, <2>2 DEF FetchOk, TypeOK, worldVars
<1>6. CASE FetchFails(c)
  <2>1. pc' \in [Calls -> Phases] /\ reply' \in [Calls -> Replies]
    BY <1>6, RepliesHold, ReturnTyped DEF FetchFails, TypeOK
  <2> QED  BY <1>6, <2>1 DEF FetchFails, TypeOK, worldVars
<1>7. ASSUME NEW odd \in OddReplies, FetchOdd(c, odd)  PROVE TypeOK'
  <2>1. Unusable \in Int /\ NoSpec \in Int
    BY DEF Unusable, NoSpec
  <2>2. Served(Unusable, TRUE) \in Replies /\ Failure \in Replies
    BY <2>1, RepliesHold
  <2>3. pc' \in [Calls -> Phases] /\ reply' \in [Calls -> Replies]
    BY <1>7, <2>2, ReturnTyped DEF FetchOdd
  <2> QED  BY <1>7, <2>1, <2>3 DEF FetchOdd, TypeOK, worldVars
<1>8. CASE Cancel(c)
  <2>1. queue' \in Seq(Calls)
    BY <1>8, LeaveQueue DEF Cancel, TypeOK
  <2>2. pc' \in [Calls -> Phases] /\ reply' \in [Calls -> Replies]
    BY <1>8, RepliesHold, ReturnTyped DEF Cancel
  <2> QED  BY <1>8, <2>1, <2>2 DEF Cancel, TypeOK, cacheVars, worldVars
<1> QED  BY <1>1, <1>2, <1>3, <1>4, <1>5, <1>6, <1>7, <1>8 DEF FetchEnds
-----------------------------------------------------------------------------
(***************************************************************************)
(* The lock.                                                               *)
(***************************************************************************)
\* Removing a waiter needs a queue without doubles, so types and lock go together.
LockInv == TypeOK /\ LockAccounted

LEMMA LockAccountedIs ==
  LockAccounted <=>
    /\ \A c \in Calls : lock = c <=> pc[c] = "fetching"
    /\ \A c \in Calls : pc[c] = "queued" <=> Waits(queue, c)
    /\ Distinct(queue)
BY DEF LockAccounted, Waits, Distinct

LEMMA InitLocked == Init => LockAccounted
BY CacheAssumption DEF Init, LockAccounted

\* A call that enters the lock takes it or joins the queue.
LEMMA EnterLockKeeps ==
  ASSUME LockInv, NEW c \in Calls, pc[c] = "idle", EnterLock(c)
  PROVE  LockAccounted'
<1>1. CASE lock = Nobody /\ queue = << >> /\ StartFetch(c) /\ UNCHANGED queue
  BY <1>1, CacheAssumption DEF LockInv, TypeOK, LockAccounted, StartFetch
<1>2. CASE /\ pc' = [pc EXCEPT ![c] = "queued"]
           /\ queue' = Append(queue, c)
           /\ UNCHANGED <<reply, lock>>
  <2>1. Distinct(queue) /\ ~Waits(queue, c)
    BY LockAccountedIs DEF LockInv
  <2>2. Distinct(queue') /\ \A d \in Calls : Waits(queue', d) <=> Waits(queue, d) \/ d = c
    BY <1>2, <2>1, JoinQueue DEF LockInv, TypeOK
  <2>3. \A d \in Calls : pc'[d] = IF d = c THEN "queued" ELSE pc[d]
    BY <1>2 DEF LockInv, TypeOK
  <2>4. \A d \in Calls : lock' = d <=> pc'[d] = "fetching"
    BY <1>2, <2>3, LockAccountedIs DEF LockInv
  <2>5. \A d \in Calls : pc'[d] = "queued" <=> Waits(queue', d)
    BY <2>2, <2>3, LockAccountedIs DEF LockInv
  <2> QED  BY <2>2, <2>4, <2>5 DEF LockAccounted, Waits, Distinct
<1> QED  BY <1>1, <1>2 DEF EnterLock

\* A call that ends lets go of the lock it holds.
LEMMA ReleaseKeeps ==
  ASSUME LockInv, NEW c \in Calls, NEW rep, pc[c] = "fetching", Return(c, rep),
         lock' = Nobody, UNCHANGED queue
  PROVE  LockAccounted'
BY CacheAssumption DEF LockInv, TypeOK, LockAccounted, Return

LEMMA CallKeepsLock ==
  ASSUME LockInv, NEW c \in Calls,
         Get(c) \/ Refresh(c) \/ Wake(c) \/ Serve(c) \/ FetchEnds(c) \/ Cancel(c)
  PROVE  LockAccounted'
<1>1. CASE Get(c)
  <2>1. pc[c] = "idle"
    BY <1>1 DEF Get, Begin
  <2>2. CASE Return(c, Served(spec, stale)) /\ UNCHANGED <<lock, queue>>
    BY <2>1, <2>2 DEF LockInv, TypeOK, LockAccounted, Return
  <2> QED  BY <1>1, <2>1, <2>2, EnterLockKeeps DEF Get
<1>2. CASE Refresh(c)
  BY <1>2, EnterLockKeeps DEF Refresh, Begin
<1>3. CASE Wake(c)
  <2>1. /\ queue # << >> /\ lock = Nobody /\ c = Head(queue) /\ queue' = Tail(queue)
        /\ Distinct(queue)
    BY <1>3, LockAccountedIs DEF LockInv, Wake
  <2>2. /\ Waits(queue, c) /\ Distinct(queue')
        /\ \A d \in Calls : Waits(queue', d) <=> Waits(queue, d) /\ d # c
    BY <2>1, LeaveFirst DEF LockInv, TypeOK
  <2>3. pc[c] = "queued" /\ \A d \in Calls : pc[d] # "fetching"
    BY <2>1, <2>2, CacheAssumption, LockAccountedIs DEF LockInv
  <2>4. CASE Return(c, Served(spec, stale)) /\ UNCHANGED lock
    <3>1. \A d \in Calls : pc'[d] = IF d = c THEN "done" ELSE pc[d]
      BY <2>4 DEF LockInv, TypeOK, Return
    <3>2. \A d \in Calls : lock' = d <=> pc'[d] = "fetching"
      BY <2>1, <2>3, <2>4, <3>1, CacheAssumption
    <3>3. \A d \in Calls : pc'[d] = "queued" <=> Waits(queue', d)
      BY <2>2, <2>3, <3>1, LockAccountedIs DEF LockInv
    <3> QED  BY <2>2, <3>2, <3>3 DEF LockAccounted, Waits, Distinct
  <2>5. CASE StartFetch(c)
    <3>1. \A d \in Calls : pc'[d] = IF d = c THEN "fetching" ELSE pc[d]
      BY <2>5 DEF LockInv, TypeOK, StartFetch
    <3>2. \A d \in Calls : lock' = d <=> pc'[d] = "fetching"
      BY <2>3, <2>5, <3>1 DEF StartFetch
    <3>3. \A d \in Calls : pc'[d] = "queued" <=> Waits(queue', d)
      BY <2>2, <2>3, <3>1, LockAccountedIs DEF LockInv
    <3> QED  BY <2>2, <3>2, <3>3 DEF LockAccounted, Waits, Distinct
  <2> QED  BY <1>3, <2>4, <2>5 DEF Wake
<1>4. CASE Serve(c)
  BY <1>4 DEF Serve, LockInv, LockAccounted
<1>5. CASE FetchEnds(c)
  BY <1>5, ReleaseKeeps DEF FetchEnds, FetchOk, FetchFails, FetchOdd
<1>6. CASE Cancel(c)
  <2>1. Distinct(queue') /\ \A d \in Calls : Waits(queue', d) <=> Waits(queue, d) /\ d # c
    BY <1>6, LockAccountedIs, LeaveQueue DEF LockInv, TypeOK, Cancel
  <2>2. \A d \in Calls : pc'[d] = IF d = c THEN "done" ELSE pc[d]
    BY <1>6 DEF LockInv, TypeOK, Cancel, Return
  <2>3. \A d \in Calls : lock' = d <=> pc'[d] = "fetching"
    BY <1>6, <2>2, CacheAssumption, LockAccountedIs DEF LockInv, Cancel
  <2>4. \A d \in Calls : pc'[d] = "queued" <=> Waits(queue', d)
    BY <2>1, <2>2, LockAccountedIs DEF LockInv
  <2> QED  BY <2>1, <2>3, <2>4 DEF LockAccounted, Waits, Distinct
<1> QED  BY <1>1, <1>2, <1>3, <1>4, <1>5, <1>6

LEMMA LockInvInductive == LockInv /\ [Next]_vars => LockInv'
<1> SUFFICES ASSUME LockInv, [Next]_vars PROVE LockInv'
  OBVIOUS
<1>1. ASSUME NEW c \in Calls,
             Get(c) \/ Refresh(c) \/ Wake(c) \/ Serve(c) \/ FetchEnds(c) \/ Cancel(c)
      PROVE  LockInv'
  BY <1>1, CallTyped, CallKeepsLock, LockAccountedIs DEF LockInv
<1>2. CASE Deploy
  BY <1>2 DEF Deploy, LockInv, TypeOK, LockAccounted, cacheVars
<1>3. CASE Tick
  BY <1>3 DEF Tick, LockInv, TypeOK, LockAccounted, cacheVars
<1>4. CASE UNCHANGED vars
  BY <1>4 DEF vars, LockInv, TypeOK, LockAccounted
<1> QED  BY <1>1, <1>2, <1>3, <1>4 DEF Next, Quiet

\* In every state the lock, its queue and what the calls wait for agree.
THEOREM LockHolds == Spec => []LockInv
BY InitTyped, InitLocked, LockInvInductive, PTL DEF Spec, LockInv

\* The variables have the types of the fields and locals they stand for, for every set of
\* calls, TTL, kind of reply, and however far versions and the clock go.
THEOREM TypeCorrect == Spec => []TypeOK
BY LockHolds, PTL DEF LockInv

\* The lock is held by exactly the call that fetches and the waiters are exactly the queued
\* calls, whatever is cancelled, fails or returns early.
THEOREM LockIsAccounted == Spec => []LockAccounted
BY LockHolds, PTL DEF LockInv
-----------------------------------------------------------------------------
(***************************************************************************)
(* Shared fetches.                                                         *)
(***************************************************************************)
\* A call that enters the lock changes no other call.
LEMMA EnterLockLocal ==
  ASSUME TypeOK, NEW c \in Calls, EnterLock(c)
  PROVE  /\ pc'[c] \in {"queued", "fetching"}
         /\ \A d \in Calls : d # c => pc'[d] = pc[d]
         /\ reply' = reply
BY DEF TypeOK, EnterLock, StartFetch

\* While one call fetches, no other does: once it has ended, nobody fetches.
LEMMA NobodyFetchesAfter ==
  ASSUME LockInv, NEW c \in Calls, FetchEnds(c)
  PROVE  /\ pc[c] = "fetching" /\ pc'[c] = "done"
         /\ \A d \in Calls : d # c => pc'[d] = pc[d] /\ pc[d] # "fetching"
BY DEF LockInv, TypeOK, LockAccounted, FetchEnds, FetchOk, FetchFails, FetchOdd, Return

LEMMA CallSharesFetch ==
  ASSUME LockInv, NoRedundantFetch, NEW c \in Calls,
         Get(c) \/ Refresh(c) \/ Wake(c) \/ Serve(c) \/ FetchEnds(c) \/ Cancel(c)
  PROVE  NoRedundantFetch'
<1> USE DEF LockInv
<1> SUFFICES ASSUME NEW d \in Calls, pc'[d] = "fetching", kind'[d] = "get"
             PROVE  ~IsFresh'
  BY DEF NoRedundantFetch
<1>1. ASSUME UNCHANGED <<cacheVars, now>>, pc[d] = "fetching", kind[d] = "get"  PROVE ~IsFresh'
  BY <1>1 DEF NoRedundantFetch, IsFresh, cacheVars
<1>2. CASE Get(c)
  <2>1. UNCHANGED <<cacheVars, now>> /\ (d # c => kind[d] = "get")
    BY <1>2 DEF Get, Begin, TypeOK, worldVars
  <2>2. CASE Return(c, Served(spec, stale))
    BY <1>1, <2>1, <2>2 DEF Return, TypeOK
  <2>3. CASE ~IsFresh /\ EnterLock(c)
    BY <2>1, <2>3 DEF IsFresh, cacheVars
  <2> QED  BY <1>2, <2>2, <2>3 DEF Get
<1>3. CASE Refresh(c)
  BY <1>1, <1>3, EnterLockLocal DEF Refresh, Begin, TypeOK, worldVars
<1>4. CASE Wake(c)
  <2>1. UNCHANGED <<cacheVars, now, kind>>
    BY <1>4 DEF Wake, worldVars
  <2>2. CASE Return(c, Served(spec, stale))
    BY <1>1, <2>1, <2>2 DEF Return, TypeOK
  <2>3. CASE (kind[c] = "refresh" \/ ~IsFresh) /\ StartFetch(c)
    <3>1. CASE d = c
      BY <2>1, <2>3, <3>1 DEF IsFresh, cacheVars
    <3>2. CASE d # c
      BY <1>1, <2>1, <2>3, <3>2 DEF StartFetch, TypeOK
    <3> QED  BY <3>1, <3>2
  <2> QED  BY <1>4, <2>2, <2>3 DEF Wake
<1>5. CASE Serve(c)
  BY <1>1, <1>5 DEF Serve, worldVars
<1>6. CASE FetchEnds(c)
  BY <1>6, NobodyFetchesAfter
<1>7. CASE Cancel(c)
  BY <1>1, <1>7 DEF Cancel, Return, TypeOK, worldVars
<1> QED  BY <1>2, <1>3, <1>4, <1>5, <1>6, <1>7

LEMMA NoRedundantFetchInductive ==
  LockInv /\ NoRedundantFetch /\ [Next]_vars => NoRedundantFetch'
<1> SUFFICES ASSUME LockInv, NoRedundantFetch, [Next]_vars PROVE NoRedundantFetch'
  OBVIOUS
<1>1. CASE Deploy
  BY <1>1 DEF Deploy, NoRedundantFetch, IsFresh, cacheVars
<1>2. CASE Tick
  BY <1>2, CacheAssumption DEF Tick, NoRedundantFetch, IsFresh, cacheVars, LockInv, TypeOK
<1>3. CASE UNCHANGED vars
  BY <1>3 DEF vars, NoRedundantFetch, IsFresh
<1> QED  BY <1>1, <1>2, <1>3, CallSharesFetch DEF Next, Quiet

\* A get fetches only while the document in the cache is not fresh, however many calls found
\* it expired together and whatever order they come to the lock in.
THEOREM FetchesAreShared == Spec => []NoRedundantFetch
<1>1. Init => NoRedundantFetch
  BY DEF Init, NoRedundantFetch
<1> QED  BY <1>1, LockHolds, NoRedundantFetchInductive, PTL DEF Spec
-----------------------------------------------------------------------------
(***************************************************************************)
(* Versions.                                                               *)
(***************************************************************************)
\* What a call knows of versions: nothing that is not published yet; and while its fetch
\* is on its way, a reply no older than the cached document, which only it can replace.
KnowsVersions(c) ==
  /\ carried[c] <= published
  /\ begun[c].published <= published
  /\ pc[c] \in {"idle", "queued"} => carried[c] = NotServed
  /\ pc[c] = "fetching" /\ carried[c] # NotServed
       => carried[c] >= spec /\ carried[c] >= begun[c].published
  /\ pc[c] # "done" => reply[c].kind = "none"

VersionInv ==
  /\ LockInv
  /\ spec <= published
  /\ \A c \in Calls : KnowsVersions(c)
  /\ RefreshSeesLatest

\* A step that leaves the cache, the published version and a call alone leaves alone what
\* the call knows.
LEMMA KnowsAsBefore ==
  ASSUME NEW d \in Calls, KnowsVersions(d),
         UNCHANGED <<spec, published, carried[d], begun[d], pc[d], reply[d]>>
  PROVE  KnowsVersions(d)'
BY DEF KnowsVersions

LEMMA InitVersions == Init => VersionInv
<1> SUFFICES ASSUME Init PROVE VersionInv
  OBVIOUS
<1>1. LockInv
  BY InitTyped, InitLocked DEF LockInv
<1>2. spec <= published /\ \A c \in Calls : KnowsVersions(c)
  BY DEF Init, KnowsVersions, NotServed, NoSpec, NoReply
<1>3. RefreshSeesLatest
  BY DEF Init, RefreshSeesLatest, NoReply
<1> QED  BY <1>1, <1>2, <1>3 DEF VersionInv

\* What a step leaves of the calls it is not about.
LEMMA OthersUntouched ==
  ASSUME TypeOK, NEW c \in Calls, NEW d \in Calls, d # c,
         Get(c) \/ Refresh(c) \/ Wake(c) \/ Serve(c) \/ FetchEnds(c) \/ Cancel(c)
  PROVE  UNCHANGED <<published, carried[d], begun[d], pc[d], reply[d], kind[d]>>
<1>1. ASSUME NEW k, Begin(c, k)  PROVE UNCHANGED <<begun[d], kind[d]>>
  BY <1>1 DEF Begin, TypeOK
<1>2. ASSUME NEW rep, Return(c, rep)  PROVE UNCHANGED <<pc[d], reply[d]>>
  BY <1>2 DEF Return, TypeOK
<1>3. ASSUME EnterLock(c)  PROVE UNCHANGED <<pc[d], reply[d]>>
  BY <1>3, EnterLockLocal
<1>4. ASSUME StartFetch(c)  PROVE UNCHANGED <<pc[d], reply[d]>>
  BY <1>4 DEF StartFetch, TypeOK
<1>5. CASE Get(c) \/ Refresh(c)
  BY <1>1, <1>2, <1>3, <1>5 DEF Get, Refresh, worldVars
<1>6. CASE Wake(c)
  BY <1>2, <1>4, <1>6 DEF Wake, worldVars
<1>7. CASE Serve(c)
  BY <1>7 DEF Serve, worldVars, TypeOK
<1>8. CASE FetchEnds(c)
  BY <1>2, <1>8 DEF FetchEnds, FetchOk, FetchFails, FetchOdd, worldVars
<1>9. CASE Cancel(c)
  BY <1>2, <1>9 DEF Cancel, worldVars
<1> QED  BY <1>5, <1>6, <1>7, <1>8, <1>9

\* The cached document is replaced by the reply a fetch carries, if by a document at all.
LEMMA SpecReplaced ==
  ASSUME VersionInv, NEW c \in Calls,
         Get(c) \/ Refresh(c) \/ Wake(c) \/ Serve(c) \/ FetchEnds(c) \/ Cancel(c)
  PROVE  \/ UNCHANGED spec
         \/ FetchOk(c) /\ spec' = carried[c] /\ carried[c] >= spec /\ carried[c] <= published
         \/ spec' \in {NoSpec, Unusable}
<1>1. CASE FetchOk(c)
  BY <1>1 DEF FetchOk, VersionInv, KnowsVersions
<1>2. CASE ~FetchOk(c)
  BY <1>2 DEF FetchEnds, Get, Refresh, Wake, Serve, FetchFails, FetchOdd, Cancel, cacheVars
<1> QED  BY <1>1, <1>2

LEMMA CallKnowsVersions ==
  ASSUME VersionInv, NEW c \in Calls,
         Get(c) \/ Refresh(c) \/ Wake(c) \/ Serve(c) \/ FetchEnds(c) \/ Cancel(c)
  PROVE  /\ spec' <= published'
         /\ \A d \in Calls : KnowsVersions(d)'
<1> USE DEF VersionInv, LockInv
<1>1. /\ spec \in Int /\ published \in Nat /\ carried \in [Calls -> Nat]
      /\ pc \in [Calls -> Phases] /\ reply \in [Calls -> Replies]
      /\ begun \in [Calls -> Beginnings] /\ KnowsVersions(c)
  BY DEF TypeOK
<1>2. spec' <= published'
  <2>1. published' = published
    BY DEF Get, Refresh, Wake, Serve, FetchEnds, FetchOk, FetchFails, FetchOdd, Cancel, worldVars
  <2> QED  BY <1>1, <2>1, SpecReplaced DEF NoSpec, Unusable
<1>3. ASSUME NEW d \in Calls, d # c  PROVE KnowsVersions(d)'
  <2>1. UNCHANGED <<published, carried[d], begun[d], pc[d], reply[d]>>
    BY <1>3, OthersUntouched
  <2>2. CASE FetchEnds(c)
    <3>1. pc[d] # "fetching"
      BY <1>3, <2>2, NobodyFetchesAfter
    <3> QED  BY <2>1, <3>1 DEF KnowsVersions
  <2>3. CASE ~FetchEnds(c)
    <3>1. UNCHANGED spec
      BY <2>3 DEF Get, Refresh, Wake, Serve, Cancel, cacheVars
    <3> QED  BY <2>1, <3>1, KnowsAsBefore
  <2> QED  BY <2>2, <2>3
<1>4. KnowsVersions(c)'
  <2>1. ASSUME pc'[c] = "done", UNCHANGED <<published, carried>>,
               begun'[c].published = begun[c].published \/ begun'[c].published = published
        PROVE  KnowsVersions(c)'
    BY <1>1, <2>1 DEF KnowsVersions
  <2>2. ASSUME NEW rep, Return(c, rep)  PROVE pc'[c] = "done"
    BY <1>1, <2>2 DEF Return
  <2>3. ASSUME NEW k, Begin(c, k)
        PROVE  begun'[c].published = published /\ pc[c] = "idle"
    BY <1>1, <2>3 DEF Begin
  <2>4. ASSUME pc[c] # "done", pc'[c] \in {"queued", "fetching"}, carried[c] = NotServed,
               reply' = reply, UNCHANGED <<published, carried>>,
               begun'[c].published = begun[c].published \/ begun'[c].published = published
        PROVE  KnowsVersions(c)'
    BY <1>1, <2>4 DEF KnowsVersions
  <2>5. CASE Get(c) \/ Refresh(c)
    <3>1. begun'[c].published = published /\ pc[c] = "idle" /\ UNCHANGED <<published, carried>>
      BY <2>3, <2>5 DEF Get, Refresh, worldVars
    <3>2. CASE EnterLock(c)
      BY <1>1, <2>4, <3>1, <3>2, EnterLockLocal DEF KnowsVersions
    <3>3. CASE Return(c, Served(spec, stale))
      BY <2>1, <2>2, <3>1, <3>3
    <3> QED  BY <2>5, <3>2, <3>3 DEF Get, Refresh
  <2>6. CASE Wake(c)
    <3>1. UNCHANGED <<published, carried, begun>> /\ pc[c] = "queued"
      <4>1. Waits(queue, c)
        BY <2>6, LeaveFirst, LockAccountedIs DEF Wake, TypeOK
      <4> QED  BY <2>6, <4>1, LockAccountedIs DEF Wake, worldVars
    <3>2. CASE StartFetch(c)
      <4>1. pc'[c] = "fetching" /\ reply' = reply
        BY <1>1, <3>2 DEF StartFetch
      <4> QED  BY <1>1, <2>4, <3>1, <4>1 DEF KnowsVersions
    <3>3. CASE Return(c, Served(spec, stale))
      BY <2>1, <2>2, <3>1, <3>3
    <3> QED  BY <2>6, <3>2, <3>3 DEF Wake
  <2>7. CASE Serve(c)
    BY <1>1, <2>7 DEF Serve, KnowsVersions, cacheVars, worldVars
  <2>8. CASE FetchEnds(c)
    BY <2>1, <2>2, <2>8 DEF FetchEnds, FetchOk, FetchFails, FetchOdd, worldVars
  <2>9. CASE Cancel(c)
    BY <2>1, <2>2, <2>9 DEF Cancel, worldVars
  <2> QED  BY <2>5, <2>6, <2>7, <2>8, <2>9
<1> QED  BY <1>2, <1>3, <1>4

LEMMA CallSeesLatest ==
  ASSUME VersionInv, NEW c \in Calls,
         Get(c) \/ Refresh(c) \/ Wake(c) \/ Serve(c) \/ FetchEnds(c) \/ Cancel(c)
  PROVE  RefreshSeesLatest'
<1> USE DEF VersionInv, LockInv
<1>1. /\ kind \in [Calls -> {"get", "refresh"}] /\ reply \in [Calls -> Replies]
      /\ KnowsVersions(c)
  BY DEF TypeOK
<1> SUFFICES ASSUME NEW d \in Calls,
                    kind'[d] = "refresh", reply'[d].kind = "spec", ~reply'[d].stale
             PROVE  reply'[d].spec >= begun'[d].published
  BY DEF RefreshSeesLatest
<1>2. ASSUME UNCHANGED <<kind[d], reply[d], begun[d]>>
      PROVE  reply'[d].spec >= begun'[d].published
  BY <1>2 DEF RefreshSeesLatest
<1>3. CASE d # c
  BY <1>2, <1>3, OthersUntouched
<1>4. CASE d = c
  <2>1. CASE Get(c)
    BY <1>1, <1>4, <2>1 DEF Get, Begin
  <2>2. CASE Refresh(c)
    BY <1>1, <1>4, <2>2, EnterLockLocal DEF Refresh, Begin, KnowsVersions
  <2>3. CASE Wake(c)
    BY <1>1, <1>2, <1>4, <2>3 DEF Wake, StartFetch
  <2>4. CASE Serve(c)
    BY <1>2, <2>4 DEF Serve
  <2>5. CASE FetchOk(c)
    BY <1>1, <1>4, <2>5 DEF FetchOk, Return, Served, KnowsVersions
  <2>6. CASE FetchFails(c)
    BY <1>1, <1>4, <2>6 DEF FetchFails, Return, Served, Failure
  <2>7. CASE \E odd \in OddReplies : FetchOdd(c, odd)
    BY <1>1, <1>4, <2>7 DEF FetchOdd, Return, Served, Failure
  <2>8. CASE Cancel(c)
    BY <1>1, <1>4, <2>8 DEF Cancel, Return, Cancelled
  <2> QED  BY <2>1, <2>2, <2>3, <2>4, <2>5, <2>6, <2>7, <2>8 DEF FetchEnds
<1> QED  BY <1>3, <1>4

LEMMA VersionInvInductive == VersionInv /\ [Next]_vars => VersionInv'
<1> SUFFICES ASSUME VersionInv, [Next]_vars PROVE VersionInv'
  OBVIOUS
<1>1. LockInv'
  BY LockInvInductive DEF VersionInv
<1>2. ASSUME NEW c \in Calls,
             Get(c) \/ Refresh(c) \/ Wake(c) \/ Serve(c) \/ FetchEnds(c) \/ Cancel(c)
      PROVE  VersionInv'
  BY <1>1, <1>2, CallKnowsVersions, CallSeesLatest DEF VersionInv
<1>3. CASE Deploy
  <2>1. spec' <= published' /\ RefreshSeesLatest'
    BY <1>3 DEF Deploy, VersionInv, LockInv, TypeOK, RefreshSeesLatest, cacheVars
  <2>2. ASSUME NEW d \in Calls  PROVE KnowsVersions(d)'
    <3>1. carried[d] \in Nat /\ begun[d].published \in Nat /\ published \in Nat /\ KnowsVersions(d)
      BY DEF VersionInv, LockInv, TypeOK, Beginnings
    <3> QED  BY <1>3, <3>1 DEF Deploy, KnowsVersions, cacheVars
  <2> QED  BY <1>1, <2>1, <2>2 DEF VersionInv
<1>4. CASE Tick \/ UNCHANGED vars
  <2>1. UNCHANGED <<pc, kind, carried, reply, begun, spec, published>>
    BY <1>4 DEF Tick, vars, cacheVars
  <2> QED  BY <1>1, <2>1 DEF VersionInv, KnowsVersions, RefreshSeesLatest
<1> QED  BY <1>2, <1>3, <1>4 DEF Next, Quiet

\* In every state the cache, the fetch in flight and the answers are in the order of versions.
THEOREM VersionsHold == Spec => []VersionInv
BY InitVersions, VersionInvInductive, PTL DEF Spec

\* A refresh that answers "stale": false returns a document published no earlier than the
\* refresh began, whatever it waited for and however its reply was delayed.
THEOREM RefreshIsCurrent == Spec => []RefreshSeesLatest
BY VersionsHold, PTL DEF VersionInv

\* A cached document is never replaced by an older one, however replies are delayed.
THEOREM NeverOlder == Spec => VersionsAdvance
<1>1. ASSUME VersionInv, [Next]_vars, {spec, spec'} \subseteq Versions
      PROVE  spec' >= spec
  <2>1. spec \in Int /\ spec' \notin {NoSpec, Unusable} /\ (UNCHANGED spec => spec' >= spec)
    BY <1>1 DEF VersionInv, LockInv, TypeOK, NoSpec, Unusable, Versions
  <2>2. ASSUME NEW c \in Calls,
               Get(c) \/ Refresh(c) \/ Wake(c) \/ Serve(c) \/ FetchEnds(c) \/ Cancel(c)
        PROVE  spec' >= spec
    BY <1>1, <2>1, <2>2, SpecReplaced
  <2>3. CASE Deploy \/ Tick \/ UNCHANGED vars
    BY <2>1, <2>3 DEF Deploy, Tick, vars, cacheVars
  <2> QED  BY <1>1, <2>2, <2>3 DEF Next, Quiet
<1>2. VersionInv /\ [Next]_vars => [({spec, spec'} \subseteq Versions) => spec' >= spec]_vars
  BY <1>1
<1> QED  BY <1>2, VersionsHold, PTL DEF Spec, VersionsAdvance
-----------------------------------------------------------------------------
(***************************************************************************)
(* The last good document.                                                 *)
(***************************************************************************)
\* Where every reply that is JSON is a document, the cache only ever goes forward, from
\* nothing through the published versions: so what was cached when a call began is a lower
\* bound of what is cached when it is answered.
ServesInv ==
  /\ VersionInv
  /\ spec \in Nat
  /\ \A c \in Calls : begun[c].spec \in Nat /\ begun[c].spec <= spec
  /\ ServesLastSuccessful

LEMMA InitServes == Init => ServesInv
<1> SUFFICES ASSUME Init PROVE ServesInv
  OBVIOUS
<1>1. spec \in Nat /\ \A c \in Calls : begun[c].spec \in Nat /\ begun[c].spec <= spec
  BY DEF Init, NoSpec
<1>2. ServesLastSuccessful
  BY DEF Init, NoReply, ServesLastSuccessful
<1> QED  BY <1>1, <1>2, InitVersions DEF ServesInv

\* Without odd replies the cached document never gets older, nor is it lost.
LEMMA SpecAdvances ==
  ASSUME ServesInv, OddReplies = {}, [Next]_vars
  PROVE  spec' \in Nat /\ spec' >= spec
<1>1. ASSUME UNCHANGED spec  PROVE spec' \in Nat /\ spec' >= spec
  BY <1>1 DEF ServesInv
<1>2. ASSUME NEW c \in Calls, FetchOk(c)  PROVE spec' \in Nat /\ spec' >= spec
  BY <1>2, SpecReplaced DEF FetchOk, ServesInv, VersionInv, LockInv, TypeOK, KnowsVersions
<1>3. ASSUME NEW c \in Calls,
             Get(c) \/ Refresh(c) \/ Wake(c) \/ Serve(c) \/ FetchFails(c) \/ Cancel(c)
      PROVE  UNCHANGED spec
  BY <1>3 DEF Get, Refresh, Wake, Serve, FetchFails, Cancel, cacheVars
<1>4. ASSUME Deploy \/ Tick \/ UNCHANGED vars  PROVE UNCHANGED spec
  BY <1>4 DEF Deploy, Tick, vars, cacheVars
<1> QED  BY <1>1, <1>2, <1>3, <1>4 DEF Next, FetchEnds, Quiet

LEMMA CallServes ==
  ASSUME ServesInv, OddReplies = {}, NEW c \in Calls,
         Get(c) \/ Refresh(c) \/ Wake(c) \/ Serve(c) \/ FetchEnds(c) \/ Cancel(c)
  PROVE  /\ \A d \in Calls : begun'[d].spec \in Nat /\ begun'[d].spec <= spec'
         /\ ServesLastSuccessful'
<1> USE DEF ServesInv, VersionInv, LockInv
<1>1. spec \in Nat /\ spec' \in Nat /\ spec' >= spec
  BY SpecAdvances DEF Next
<1>2. /\ begun \in [Calls -> Beginnings] /\ reply \in [Calls -> Replies]
      /\ carried \in [Calls -> Nat] /\ begun[c].spec \in Nat /\ begun[c].spec <= spec
      /\ KnowsVersions(c)
  BY DEF TypeOK
<1>3. \A d \in Calls : begun'[d].spec \in Nat /\ begun'[d].spec <= spec'
  <2>1. ASSUME NEW d \in Calls, d # c
        PROVE  begun'[d].spec \in Nat /\ begun'[d].spec <= spec'
    <3>1. begun'[d] = begun[d]
      BY <2>1, OthersUntouched
    <3> QED  BY <1>1, <3>1
  <2>2. begun'[c].spec \in Nat /\ begun'[c].spec <= spec'
    <3>1. begun'[c].spec = begun[c].spec \/ begun'[c].spec = spec
      <4>1. ASSUME NEW k, Begin(c, k)  PROVE begun'[c].spec = spec
        BY <1>2, <4>1 DEF Begin
      <4>2. CASE Get(c) \/ Refresh(c)
        BY <4>1, <4>2 DEF Get, Refresh
      <4>3. CASE Wake(c) \/ Serve(c) \/ FetchEnds(c) \/ Cancel(c)
        BY <4>3 DEF Wake, Serve, FetchEnds, FetchOk, FetchFails, FetchOdd, Cancel
      <4> QED  BY <4>2, <4>3
    <3> QED  BY <1>1, <1>2, <3>1
  <2> QED  BY <2>1, <2>2
<1>4. ServesLastSuccessful'
  <2> SUFFICES ASSUME NEW d \in Calls,
                      begun'[d].spec \in Versions, reply'[d].kind \in {"spec", "error"}
               PROVE  reply'[d].kind = "spec" /\ reply'[d].spec >= begun'[d].spec
    BY DEF ServesLastSuccessful
  <2>1. ASSUME UNCHANGED <<begun[d], reply[d]>>
        PROVE  reply'[d].kind = "spec" /\ reply'[d].spec >= begun'[d].spec
    BY <2>1 DEF ServesLastSuccessful
  <2>2. ASSUME NEW doc \in Nat, NEW flag, Return(c, Served(doc, flag)), doc >= begun'[c].spec
        PROVE  reply'[c].kind = "spec" /\ reply'[c].spec >= begun'[c].spec
    BY <1>2, <2>2 DEF Return, Served
  <2>3. CASE d # c
    BY <2>1, <2>3, OthersUntouched
  <2>4. CASE d = c
    <3>1. ASSUME NEW k, Begin(c, k)  PROVE begun'[c].spec = spec /\ reply[c].kind = "none"
      BY <1>2, <3>1 DEF Begin, KnowsVersions
    <3>2. CASE Get(c) \/ Refresh(c)
      <4>1. begun'[c].spec = spec /\ reply[c].kind = "none"
        BY <3>1, <3>2 DEF Get, Refresh
      <4>2. CASE EnterLock(c)
        BY <2>4, <4>1, <4>2, EnterLockLocal
      <4>3. CASE Return(c, Served(spec, stale))
        BY <1>1, <2>2, <2>4, <4>1, <4>3
      <4> QED  BY <3>2, <4>2, <4>3 DEF Get, Refresh
    <3>3. CASE Wake(c)
      <4>1. begun' = begun
        BY <3>3 DEF Wake
      <4>2. CASE StartFetch(c)
        BY <2>1, <4>1, <4>2 DEF StartFetch
      <4>3. CASE Return(c, Served(spec, stale))
        BY <1>1, <1>2, <2>2, <2>4, <4>1, <4>3
      <4> QED  BY <3>3, <4>2, <4>3 DEF Wake
    <3>4. CASE Serve(c)
      BY <2>1, <3>4 DEF Serve
    <3>5. CASE FetchOk(c)
      <4>1. carried[c] >= spec /\ begun' = begun /\ Return(c, Served(carried[c], FALSE))
        BY <1>2, <3>5 DEF FetchOk, KnowsVersions
      <4>2. carried[c] \in Nat /\ carried[c] >= begun'[c].spec
        BY <1>1, <1>2, <4>1
      <4> QED  BY <2>2, <2>4, <4>1, <4>2
    <3>6. CASE FetchFails(c)
      <4>1. begun' = begun
        BY <3>6 DEF FetchFails
      <4>2. spec # NoSpec
        BY <1>1, <1>2, <2>4, <4>1 DEF Versions, NoSpec
      <4>3. Return(c, Served(spec, TRUE))
        BY <3>6, <4>2 DEF FetchFails
      <4> QED  BY <1>1, <1>2, <2>2, <2>4, <4>1, <4>3
    <3>7. CASE Cancel(c)
      BY <1>2, <2>4, <3>7 DEF Cancel, Return, Cancelled
    <3> QED  BY <3>2, <3>3, <3>4, <3>5, <3>6, <3>7 DEF FetchEnds
  <2> QED  BY <2>3, <2>4
<1> QED  BY <1>3, <1>4

LEMMA ServesInvInductive ==
  ASSUME OddReplies = {}
  PROVE  ServesInv /\ [Next]_vars => ServesInv'
<1> SUFFICES ASSUME ServesInv, [Next]_vars PROVE ServesInv'
  OBVIOUS
<1>1. VersionInv' /\ spec' \in Nat
  BY VersionInvInductive, SpecAdvances DEF ServesInv
<1>2. ASSUME NEW c \in Calls,
             Get(c) \/ Refresh(c) \/ Wake(c) \/ Serve(c) \/ FetchEnds(c) \/ Cancel(c)
      PROVE  ServesInv'
  BY <1>1, <1>2, CallServes DEF ServesInv
<1>3. CASE Deploy \/ Tick \/ UNCHANGED vars
  <2>1. UNCHANGED <<begun, spec, reply>>
    BY <1>3 DEF Deploy, Tick, vars, cacheVars
  <2> QED  BY <1>1, <2>1 DEF ServesInv, ServesLastSuccessful
<1> QED  BY <1>2, <1>3 DEF Next, Quiet

\* Where every reply that is JSON is a document, a call that begins while a document is
\* cached is answered with one at least as new, or cancelled: it never fails, whatever
\* fetches fail.  With odd replies this is false (run cache_odd_lost).
THEOREM LastGoodIsServed ==
  ASSUME OddReplies = {}
  PROVE  Spec => []ServesLastSuccessful
<1>1. ServesInv /\ [Next]_vars => ServesInv'
  BY ServesInvInductive
<1>2. ServesInv => ServesLastSuccessful
  BY DEF ServesInv
<1> QED  BY <1>1, <1>2, InitServes, PTL DEF Spec
-----------------------------------------------------------------------------
(***************************************************************************)
(* The register: the invariant.                                            *)
(***************************************************************************)
\* A call shows nothing before it begins and is told nothing before it ends.
ShowsNothing(c) ==
  /\ pc[c] = "idle" => begun[c].published = NotServed
  /\ pc[c] # "done" => reply[c] = NoReply

RegisterInv ==
  /\ VersionInv
  /\ NoRedundantFetch
  /\ \A c \in Calls : ShowsNothing(c)

LEMMA CallShowsNothing ==
  ASSUME RegisterInv, NEW c \in Calls,
         Get(c) \/ Refresh(c) \/ Wake(c) \/ Serve(c) \/ FetchEnds(c) \/ Cancel(c)
  PROVE  \A d \in Calls : ShowsNothing(d)'
<1> USE DEF RegisterInv, VersionInv, LockInv
<1>1. /\ pc \in [Calls -> Phases] /\ reply \in [Calls -> Replies]
      /\ begun \in [Calls -> Beginnings] /\ ShowsNothing(c)
  BY DEF TypeOK
<1>2. ASSUME NEW d \in Calls, d # c  PROVE ShowsNothing(d)'
  <2>1. UNCHANGED <<begun[d], pc[d], reply[d]>>
    BY <1>2, OthersUntouched
  <2> QED  BY <2>1 DEF ShowsNothing
<1>3. ShowsNothing(c)'
  <2>1. ASSUME NEW rep, Return(c, rep)  PROVE pc'[c] = "done"
    BY <1>1, <2>1 DEF Return
  <2>2. CASE Get(c) \/ Refresh(c)
    <3>1. pc[c] = "idle"
      BY <2>2 DEF Get, Refresh, Begin
    <3> QED  BY <1>1, <2>1, <2>2, <3>1, EnterLockLocal DEF Get, Refresh, ShowsNothing
  <2>3. CASE Wake(c)
    <3>1. pc[c] = "queued"
      <4>1. Waits(queue, c)
        BY <2>3, LeaveFirst, LockAccountedIs DEF Wake, TypeOK
      <4> QED  BY <4>1, LockAccountedIs
    <3>2. CASE StartFetch(c)
      BY <1>1, <3>1, <3>2 DEF StartFetch, ShowsNothing
    <3> QED  BY <2>1, <2>3, <3>2 DEF Wake, ShowsNothing
  <2>4. CASE Serve(c)
    BY <1>1, <2>4 DEF Serve, ShowsNothing
  <2>5. CASE FetchEnds(c) \/ Cancel(c)
    BY <2>1, <2>5 DEF FetchEnds, FetchOk, FetchFails, FetchOdd, Cancel, ShowsNothing
  <2> QED  BY <2>2, <2>3, <2>4, <2>5
<1> QED  BY <1>2, <1>3

LEMMA RegisterInvInductive == RegisterInv /\ [Next]_vars => RegisterInv'
<1> SUFFICES ASSUME RegisterInv, [Next]_vars PROVE RegisterInv'
  OBVIOUS
<1>1. VersionInv' /\ NoRedundantFetch'
  BY VersionInvInductive, NoRedundantFetchInductive DEF RegisterInv, VersionInv
<1>2. \A c \in Calls : ShowsNothing(c)'
  <2>1. CASE Deploy \/ Tick \/ UNCHANGED vars
    <3>1. UNCHANGED <<begun, pc, reply>>
      BY <2>1 DEF Deploy, Tick, vars
    <3> QED  BY <3>1 DEF RegisterInv, ShowsNothing
  <2> QED  BY <2>1, CallShowsNothing DEF Next, Quiet
<1> QED  BY <1>1, <1>2 DEF RegisterInv

\* In every state the calls in flight know the versions they know, and show nothing of it.
THEOREM RegisterHolds == Spec => []RegisterInv
<1>1. Init => RegisterInv
  <2> SUFFICES ASSUME Init PROVE RegisterInv
    OBVIOUS
  <2>1. NoRedundantFetch /\ \A c \in Calls : ShowsNothing(c)
    BY DEF Init, NoRedundantFetch, ShowsNothing
  <2> QED  BY <2>1, InitVersions DEF RegisterInv
<1> QED  BY <1>1, RegisterInvInductive, PTL DEF Spec
-----------------------------------------------------------------------------
(***************************************************************************)
(* What the register shows of a call.                                      *)
(***************************************************************************)
\* A call that has begun keeps what it asked for.
LEMMA AskedStays ==
  ASSUME UNCHANGED <<kind, begun>>, \A d \in Calls : pc'[d] = "idle" <=> pc[d] = "idle"
  PROVE  Asked' = Asked
BY DEF Asked

\* A call that begins asks for what it asks for from then on; the others are as they were.
LEMMA AsksOnce ==
  ASSUME RegisterInv, NEW c \in Calls, NEW k \in {"get", "refresh"}, Begin(c, k),
         \A d \in Calls : pc'[d] = "idle" <=> pc[d] = "idle" /\ d # c
  PROVE  Register!Asks(c, k)
<1>1. /\ pc[c] = "idle" /\ ShowsNothing(c)
      /\ kind \in [Calls -> {"get", "refresh"}] /\ begun \in [Calls -> Beginnings]
  BY DEF Begin, RegisterInv, VersionInv, LockInv, TypeOK
<1>2. Asked[c] = Register!NotAsked
  BY <1>1 DEF Asked, Register!NotAsked, ShowsNothing, NotServed
<1>3. Asked' = [Asked EXCEPT ![c] = [kind |-> k, since |-> published]]
  <2>1. ASSUME NEW d \in Calls
        PROVE  Asked'[d] = [Asked EXCEPT ![c] = [kind |-> k, since |-> published]][d]
    <3>1. CASE d = c
      BY <1>1, <3>1 DEF Begin, Asked
    <3>2. CASE d # c
      BY <1>1, <3>2 DEF Begin, Asked
    <3> QED  BY <3>1, <3>2
  <2> QED  BY <2>1 DEF Asked
<1> QED  BY <1>2, <1>3 DEF Register!Asks

\* A call that waits or fetches is one the register has still to answer.
LEMMA InFlightPends ==
  ASSUME RegisterInv, NEW c \in Calls, pc[c] \in {"queued", "fetching"}
  PROVE  /\ Register!Pending(c)
         /\ Asked[c].kind = kind[c] /\ Asked[c].since = begun[c].published
<1>1. /\ ShowsNothing(c) /\ kind[c] \in {"get", "refresh"}
  BY DEF RegisterInv, VersionInv, LockInv, TypeOK
<1>2. Asked[c].kind = kind[c] /\ Asked[c].since = begun[c].published /\ Asked[c].kind # "none"
  BY <1>1 DEF Asked
<1>3. Asked[c] # Register!NotAsked
  BY <1>2 DEF Register!NotAsked
<1> QED  BY <1>1, <1>2, <1>3 DEF Register!Pending, ShowsNothing

LEMMA FreshIs == Register!Fresh <=> IsFresh
BY DEF Register!Fresh, IsFresh

\* A call that fetches is one that may: a get fetches only for an expired document.
LEMMA FetcherMay ==
  ASSUME RegisterInv, NEW c \in Calls, pc[c] = "fetching"
  PROVE  Register!MayFetch(c)
<1>1. Register!Pending(c) /\ Asked[c].kind = kind[c]
  BY InFlightPends
<1>2. kind[c] = "get" => ~IsFresh
  BY DEF RegisterInv, NoRedundantFetch
<1> QED  BY <1>1, <1>2, FreshIs DEF Register!MayFetch

\* A call that has begun and returns asks for what it asked for.
LEMMA ReturnAnswers ==
  ASSUME RegisterInv, NEW c \in Calls, pc[c] # "idle", NEW k, NEW doc, NEW flag,
         Return(c, [kind |-> k, spec |-> doc, stale |-> flag]), UNCHANGED <<kind, begun>>
  PROVE  Asked' = Asked /\ Register!Answers(c, k, doc, flag)
<1>1. \A d \in Calls : pc'[d] = "idle" <=> pc[d] = "idle"
  BY DEF Return, RegisterInv, VersionInv, LockInv, TypeOK
<1> QED  BY <1>1, AskedStays DEF Return, Register!Answers
-----------------------------------------------------------------------------
(***************************************************************************)
(* The steps.                                                              *)
(***************************************************************************)
LEMMA BeginningMaps ==
  ASSUME RegisterInv, NEW c \in Calls, Get(c) \/ Refresh(c)
  PROVE  Register!Reads(c) \/ Register!Begins(c)
<1> USE DEF RegisterInv, VersionInv, LockInv
<1>1. pc \in [Calls -> Phases]
  BY DEF TypeOK
<1>2. UNCHANGED <<spec, fetchedAt, stale, published, now>>
  BY DEF Get, Refresh, cacheVars, worldVars
<1>3. ASSUME NEW k \in {"get", "refresh"}, Begin(c, k), EnterLock(c)
      PROVE  Register!Begins(c)
  <2>1. reply' = reply /\ \A d \in Calls : pc'[d] = "idle" <=> pc[d] = "idle" /\ d # c
    BY <1>3, EnterLockLocal
  <2>2. Register!Asks(c, k)
    BY <1>3, <2>1, AsksOnce
  <2> QED  BY <1>2, <2>1, <2>2 DEF Register!Begins, Register!register
<1>4. ASSUME Begin(c, "get"), IsFresh, Return(c, Served(spec, stale))
      PROVE  Register!Reads(c)
  <2>1. \A d \in Calls : pc'[d] = "idle" <=> pc[d] = "idle" /\ d # c
    BY <1>1, <1>4 DEF Return
  <2>2. Register!Asks(c, "get")
    BY <1>4, <2>1, AsksOnce
  <2>3. Register!Answers(c, "spec", spec, stale)
    BY <1>4 DEF Return, Served, Register!Answers
  <2> QED  BY <1>2, <1>4, <2>2, <2>3, FreshIs DEF Register!Reads, Register!register
<1> QED  BY <1>3, <1>4 DEF Get, Refresh

LEMMA WakeMaps ==
  ASSUME RegisterInv, NEW c \in Calls, Wake(c)
  PROVE  Register!Reads(c) \/ UNCHANGED Register!vars
<1> USE DEF RegisterInv, VersionInv, LockInv
<1>1. pc[c] = "queued" /\ pc \in [Calls -> Phases]
  <2>1. Waits(queue, c)
    BY LeaveFirst, LockAccountedIs DEF Wake, TypeOK
  <2> QED  BY <2>1, LockAccountedIs DEF TypeOK
<1>2. UNCHANGED <<kind, begun, spec, fetchedAt, stale, published, now>>
  BY DEF Wake, cacheVars, worldVars
<1>3. CASE kind[c] = "get" /\ IsFresh /\ Return(c, Served(spec, stale))
  <2>1. Asked' = Asked /\ Register!Answers(c, "spec", spec, stale)
    BY <1>1, <1>2, <1>3, ReturnAnswers DEF Served
  <2>2. Register!Pending(c) /\ Asked[c].kind = "get"
    BY <1>1, <1>3, InFlightPends
  <2> QED  BY <1>2, <1>3, <2>1, <2>2, FreshIs DEF Register!Reads, Register!register
<1>4. CASE StartFetch(c)
  <2>1. reply' = reply /\ \A d \in Calls : pc'[d] = "idle" <=> pc[d] = "idle"
    BY <1>1, <1>4 DEF StartFetch
  <2> QED  BY <1>2, <2>1, AskedStays DEF Register!vars, Register!register
<1> QED  BY <1>3, <1>4 DEF Wake

LEMMA FetchOkMaps ==
  ASSUME RegisterInv, NEW c \in Calls, FetchOk(c)
  PROVE  Register!Fetches(c)
<1> USE DEF RegisterInv, VersionInv, LockInv
<1>1. Register!MayFetch(c) /\ Asked[c].since = begun[c].published
  BY FetcherMay, InFlightPends DEF FetchOk
<1>2. Asked' = Asked /\ Register!Answers(c, "spec", carried[c], FALSE)
  BY ReturnAnswers DEF FetchOk, Served
<1>3. carried[c] \in begun[c].published..published /\ carried[c] >= spec
  <2>1. KnowsVersions(c) /\ carried[c] \in Nat /\ published \in Nat /\ begun[c].published \in Nat
    BY DEF TypeOK, Beginnings
  <2> QED  BY <2>1 DEF KnowsVersions, FetchOk
<1> QED  BY <1>1, <1>2, <1>3 DEF FetchOk, Register!Fetches, worldVars

LEMMA FetchOddMaps ==
  ASSUME RegisterInv, NEW c \in Calls, NEW odd \in OddReplies, FetchOdd(c, odd)
  PROVE  Register!Spoils(c)
<1>1. Register!MayFetch(c)
  BY FetcherMay DEF FetchOdd
<1>2. CASE odd = "null"
  <2>1. Asked' = Asked /\ Register!Answers(c, "error", NoSpec, FALSE)
    BY <1>2, ReturnAnswers DEF FetchOdd, Failure
  <2> QED  BY <1>1, <1>2, <2>1 DEF FetchOdd, Register!Spoils, worldVars
<1>3. CASE odd # "null"
  <2>1. Asked' = Asked /\ Register!Answers(c, "spec", Unusable, TRUE)
    BY <1>3, ReturnAnswers DEF FetchOdd, Served
  <2> QED  BY <1>1, <1>3, <2>1 DEF FetchOdd, Register!Spoils, worldVars
<1> QED  BY <1>2, <1>3

LEMMA FetchFailsMaps ==
  ASSUME RegisterInv, NEW c \in Calls, FetchFails(c)
  PROVE  Register!Fails(c)
<1>1. Register!MayFetch(c)
  BY FetcherMay DEF FetchFails
<1>2. CASE spec # NoSpec /\ stale' = TRUE /\ Return(c, Served(spec, TRUE))
  <2>1. Asked' = Asked /\ Register!Answers(c, "spec", spec, TRUE)
    BY <1>2, ReturnAnswers DEF FetchFails, Served
  <2> QED  BY <1>1, <1>2, <2>1 DEF FetchFails, Register!Fails, worldVars
<1>3. CASE spec = NoSpec /\ UNCHANGED stale /\ Return(c, Failure)
  <2>1. Asked' = Asked /\ Register!Answers(c, "error", NoSpec, FALSE)
    BY <1>3, ReturnAnswers DEF FetchFails, Failure
  <2> QED  BY <1>1, <1>3, <2>1 DEF FetchFails, Register!Fails, worldVars
<1> QED  BY <1>2, <1>3 DEF FetchFails

LEMMA CancelMaps ==
  ASSUME RegisterInv, NEW c \in Calls, Cancel(c)
  PROVE  Register!GivesUp(c)
<1>1. Register!Pending(c)
  BY InFlightPends DEF Cancel
<1>2. Asked' = Asked /\ Register!Answers(c, "cancelled", NoSpec, FALSE)
  BY ReturnAnswers DEF Cancel, Cancelled
<1> QED  BY <1>1, <1>2 DEF Cancel, Register!GivesUp, Register!register, cacheVars, worldVars

\* Every step of the cache is one of the register, or none.
LEMMA StepMaps ==
  ASSUME RegisterInv, [Next]_vars
  PROVE  [Register!Next]_(Register!vars)
<1>1. ASSUME NEW c \in Calls, Get(c) \/ Refresh(c)  PROVE Register!Next
  BY <1>1, BeginningMaps DEF Register!Next
<1>2. ASSUME NEW c \in Calls, Wake(c)  PROVE [Register!Next]_(Register!vars)
  BY <1>2, WakeMaps DEF Register!Next
<1>3. ASSUME NEW c \in Calls, Serve(c)  PROVE UNCHANGED Register!vars
  BY <1>3, AskedStays DEF Serve, Register!vars, Register!register, cacheVars, worldVars
<1>4. ASSUME NEW c \in Calls, FetchEnds(c)  PROVE Register!Next
  BY <1>4, FetchOkMaps, FetchOddMaps, FetchFailsMaps DEF FetchEnds, Register!Next
<1>5. ASSUME NEW c \in Calls, Cancel(c)  PROVE Register!Next
  BY <1>5, CancelMaps DEF Register!Next
<1>6. CASE Deploy
  <2>1. Register!Publishes
    BY <1>6, AskedStays DEF Deploy, Register!Publishes, Register!register, cacheVars
  <2> QED  BY <2>1 DEF Register!Next
<1>7. CASE Tick
  <2>1. Register!TimePasses
    BY <1>7, AskedStays DEF Tick, Register!TimePasses, Register!register, cacheVars
  <2> QED  BY <2>1 DEF Register!Next
<1>8. CASE UNCHANGED vars
  BY <1>8, AskedStays DEF vars, Register!vars, Register!register
<1> QED  BY <1>1, <1>2, <1>3, <1>4, <1>5, <1>6, <1>7, <1>8 DEF Next, Quiet

\* To its callers the cache is one register: each call is answered at one instant, from the
\* register or with a document published while the call lasted, for every set of calls and
\* TTL, whatever replies are odd, late or lost and whoever is cancelled.
THEOREM CacheIsRegister == Spec => AnsweredAtOnce
<1>1. Init => Register!Init
  BY DEF Init, Register!Init, Register!NotAsked, Asked, NotServed
<1>2. RegisterInv /\ [Next]_vars => [Register!Next]_(Register!vars)
  BY StepMaps
<1> QED  BY <1>1, <1>2, RegisterHolds, PTL DEF Spec, AnsweredAtOnce, Register!Spec
=============================================================================

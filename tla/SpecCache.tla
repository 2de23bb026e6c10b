------------------------------ MODULE SpecCache ------------------------------
(***************************************************************************)
(* The OpenAPI document cache of mcp-api-explorer (spec.py): tool calls    *)
(* that read it (get) and calls that force a fetch (refresh), one asyncio  *)
(* lock, a TTL, and an API that is redeployed meanwhile.                   *)
(*                                                                         *)
(* An action is the code between two awaits.  A document is represented by *)
(* its version.  Each element of Calls is used for one call.               *)
(***************************************************************************)
EXTENDS Integers, Sequences, SequencesExt

CONSTANTS
  Calls,       \* calls of the explorer's tools
  Nobody,      \* the lock is free
  Ttl,         \* ttl_seconds
  OddReplies,  \* replies with status 200 that are JSON but not a document:
               \* "unusable" (no mapping, or no mapping of paths) or "null"
  MaxVersion,  \* bound on the deployments of the API
  MaxClock     \* bound on the clock

ASSUME CacheAssumption ==
  /\ Nobody \notin Calls
  /\ Ttl \in Int
  /\ OddReplies \subseteq {"unusable", "null"}
  /\ MaxVersion \in Nat \ {0}
  /\ MaxClock \in Nat

VARIABLES
  pc,        \* where each call is
  kind,      \* "get" or "refresh"
  carried,   \* the version the API put in the reply to a call's request
  reply,     \* what each call returned
  begun,     \* history: what was cached and what was published when a call began
  lock,      \* the call inside "async with self._lock"
  queue,     \* the calls waiting for the lock, in order
  spec,      \* self._spec
  fetchedAt, \* self._fetched_at
  stale,     \* self._stale
  published, \* the version the API serves
  now        \* time.monotonic()

cacheVars == <<spec, fetchedAt, stale>>
worldVars == <<published, now>>
vars == <<pc, kind, carried, reply, begun, lock, queue, spec, fetchedAt, stale,
          published, now>>
-----------------------------------------------------------------------------
NoSpec == 0         \* self._spec is None
Unusable == -1      \* self._spec is a value the tools cannot read
Versions == Nat \ {0}

NotServed == 0      \* the API has not answered the request yet

NoReply == [kind |-> "none", spec |-> NoSpec, stale |-> FALSE]
Failure == [kind |-> "error", spec |-> NoSpec, stale |-> FALSE]
Cancelled == [kind |-> "cancelled", spec |-> NoSpec, stale |-> FALSE]
Served(doc, flag) == [kind |-> "spec", spec |-> doc, stale |-> flag]

IsFresh == spec # NoSpec /\ now - fetchedAt < Ttl

Init ==
  /\ pc = [c \in Calls |-> "idle"]
  /\ kind = [c \in Calls |-> "get"]
  /\ carried = [c \in Calls |-> NotServed]
  /\ reply = [c \in Calls |-> NoReply]
  /\ begun = [c \in Calls |-> [spec |-> NoSpec, published |-> NotServed]]
  /\ lock = Nobody
  /\ queue = << >>
  /\ spec = NoSpec
  /\ fetchedAt = 0
  /\ stale = FALSE
  /\ published = 1
  /\ now = 0
-----------------------------------------------------------------------------
Return(c, rep) ==
  /\ pc' = [pc EXCEPT ![c] = "done"]
  /\ reply' = [reply EXCEPT ![c] = rep]

\* The call holds the lock and sends its request.
StartFetch(c) ==
  /\ lock' = c
  /\ pc' = [pc EXCEPT ![c] = "fetching"]
  /\ UNCHANGED reply

\* asyncio.Lock.acquire: at once if the lock is free and nobody waits, else the call
\* queues.  When get comes here the cache is not fresh, and no time passes before it
\* looks again, so the call that gets the lock at once fetches.
EnterLock(c) ==
  \/ /\ lock = Nobody /\ queue = << >>
     /\ StartFetch(c)
     /\ UNCHANGED queue
  \/ /\ lock # Nobody \/ queue # << >>
     /\ pc' = [pc EXCEPT ![c] = "queued"]
     /\ queue' = Append(queue, c)
     /\ UNCHANGED <<reply, lock>>

Begin(c, k) ==
  /\ pc[c] = "idle"
  /\ kind' = [kind EXCEPT ![c] = k]
  /\ begun' = [begun EXCEPT ![c] = [spec |-> spec, published |-> published]]

\* get: a fresh document is returned without the lock, with the flag of the last
\* fetch that ended.
Get(c) ==
  /\ Begin(c, "get")
  /\ \/ /\ IsFresh
        /\ Return(c, Served(spec, stale))
        /\ UNCHANGED <<lock, queue>>
     \/ /\ ~IsFresh
        /\ EnterLock(c)
  /\ UNCHANGED <<carried, cacheVars, worldVars>>

\* A faulty variant: a forced fetch does not wait for the lock.
RefreshUnlocked(c) ==
  /\ Begin(c, "refresh")
  /\ StartFetch(c)
  /\ UNCHANGED <<carried, queue, cacheVars, worldVars>>

\* A faulty variant: refresh is content with a fresh document.
RefreshIfExpired(c) ==
  /\ Begin(c, "refresh")
  /\ \/ /\ IsFresh
        /\ Return(c, Served(spec, stale))
        /\ UNCHANGED <<lock, queue>>
     \/ /\ ~IsFresh
        /\ EnterLock(c)
  /\ UNCHANGED <<carried, cacheVars, worldVars>>

Refresh(c) ==
  /\ Begin(c, "refresh")
  /\ EnterLock(c)
  /\ UNCHANGED <<carried, cacheVars, worldVars>>

\* A faulty variant: get does not look again once it has the lock.
WakeAndFetch(c) ==
  /\ lock = Nobody /\ queue # << >> /\ c = Head(queue)
  /\ queue' = Tail(queue)
  /\ StartFetch(c)
  /\ UNCHANGED <<kind, carried, begun, cacheVars, worldVars>>

\* The first waiter gets the lock that was released.  A get looks again, and when the
\* document has become fresh returns it and lets the lock go; otherwise it fetches.
Wake(c) ==
  /\ lock = Nobody /\ queue # << >> /\ c = Head(queue)
  /\ queue' = Tail(queue)
  /\ \/ /\ kind[c] = "get" /\ IsFresh
        /\ Return(c, Served(spec, stale))
        /\ UNCHANGED lock
     \/ /\ kind[c] = "refresh" \/ ~IsFresh
        /\ StartFetch(c)
  /\ UNCHANGED <<kind, carried, begun, cacheVars, worldVars>>
-----------------------------------------------------------------------------
\* The API handles the request; its reply is on the way.
Serve(c) ==
  /\ pc[c] = "fetching"
  /\ carried[c] = NotServed
  /\ carried' = [carried EXCEPT ![c] = published]
  /\ UNCHANGED <<pc, kind, reply, begun, lock, queue, cacheVars, worldVars>>

\* A faulty variant: the flag of an earlier failure stays.
FetchOkStillStale(c) ==
  /\ pc[c] = "fetching"
  /\ carried[c] # NotServed
  /\ spec' = carried[c]
  /\ fetchedAt' = now
  /\ Return(c, Served(carried[c], FALSE))
  /\ lock' = Nobody
  /\ UNCHANGED <<kind, carried, begun, queue, stale, worldVars>>

\* The reply arrives and is a document.
FetchOk(c) ==
  /\ pc[c] = "fetching"
  /\ carried[c] # NotServed
  /\ spec' = carried[c]
  /\ fetchedAt' = now
  /\ stale' = FALSE
  /\ Return(c, Served(carried[c], FALSE))
  /\ lock' = Nobody
  /\ UNCHANGED <<kind, carried, begun, queue, worldVars>>

\* The reply is JSON but not a document: _spec and _fetched_at are assigned before the
\* log line reads the paths and raises.  The handler then takes what was just assigned
\* for the last good document, or finds None and raises.
FetchOdd(c, odd) ==
  /\ pc[c] = "fetching"
  /\ odd \in OddReplies
  /\ spec' = IF odd = "null" THEN NoSpec ELSE Unusable
  /\ fetchedAt' = now
  /\ stale' = (odd # "null")
  /\ Return(c, IF odd = "null" THEN Failure ELSE Served(Unusable, TRUE))
  /\ lock' = Nobody
  /\ UNCHANGED <<kind, carried, begun, queue, worldVars>>

\* A faulty variant: a failed fetch empties the cache.
FetchFailsAndClears(c) ==
  /\ pc[c] = "fetching"
  /\ spec' = NoSpec
  /\ stale' = TRUE
  /\ Return(c, IF spec = NoSpec THEN Failure ELSE Served(spec, TRUE))
  /\ lock' = Nobody
  /\ UNCHANGED <<kind, carried, begun, queue, fetchedAt, worldVars>>

\* A faulty variant: a failed fetch makes the document expire at once.
FetchFailsAndExpires(c) ==
  /\ pc[c] = "fetching"
  /\ fetchedAt' = now - Ttl
  /\ stale' = (spec # NoSpec)
  /\ Return(c, IF spec = NoSpec THEN Failure ELSE Served(spec, TRUE))
  /\ lock' = Nobody
  /\ UNCHANGED <<kind, carried, begun, queue, spec, worldVars>>

\* No connection, a timeout, an error status, a body that is not JSON, references
\* that cannot be resolved: the cached document is returned as stale, if there is one.
FetchFails(c) ==
  /\ pc[c] = "fetching"
  /\ \/ /\ spec # NoSpec
        /\ stale' = TRUE
        /\ Return(c, Served(spec, TRUE))
     \/ /\ spec = NoSpec
        /\ UNCHANGED stale
        /\ Return(c, Failure)
  /\ lock' = Nobody
  /\ UNCHANGED <<kind, carried, begun, queue, spec, fetchedAt, worldVars>>

\* A faulty variant: a cancelled fetch keeps the lock.
CancelKeepsLock(c) ==
  /\ pc[c] \in {"queued", "fetching"}
  /\ Return(c, Cancelled)
  /\ queue' = RemoveFirst(queue, c)
  /\ UNCHANGED <<kind, carried, begun, lock, cacheVars, worldVars>>

\* The client cancels the call: "async with" lets the lock go, a waiter leaves the
\* queue, and "except Exception" does not see the cancellation.
Cancel(c) ==
  /\ pc[c] \in {"queued", "fetching"}
  /\ Return(c, Cancelled)
  /\ queue' = RemoveFirst(queue, c)
  /\ lock' = IF lock = c THEN Nobody ELSE lock
  /\ UNCHANGED <<kind, carried, begun, cacheVars, worldVars>>
-----------------------------------------------------------------------------
Deploy ==
  /\ published < MaxVersion
  /\ published' = published + 1
  /\ UNCHANGED <<pc, kind, carried, reply, begun, lock, queue, cacheVars, now>>

Tick ==
  /\ now < MaxClock
  /\ now' = now + 1
  /\ UNCHANGED <<pc, kind, carried, reply, begun, lock, queue, cacheVars, published>>

\* Every call has ended.
Quiet == (\A c \in Calls : pc[c] = "done") /\ UNCHANGED vars

FetchEnds(c) == FetchOk(c) \/ FetchFails(c) \/ \E odd \in OddReplies : FetchOdd(c, odd)

Next ==
  \/ \E c \in Calls :
       Get(c) \/ Refresh(c) \/ Wake(c) \/ Serve(c) \/ FetchEnds(c) \/ Cancel(c)
  \/ Deploy
  \/ Tick
  \/ Quiet

Spec == Init /\ [][Next]_vars

\* The event loop runs a woken waiter, and a request ends: by the reply or by the
\* timeout of client.get.  The API need never answer.
Fairness == \A c \in Calls : WF_vars(Wake(c)) /\ WF_vars(FetchEnds(c))

FairSpec == Spec /\ Fairness
-----------------------------------------------------------------------------
(***************************************************************************)
(* Properties.                                                             *)
(***************************************************************************)
Phases == {"idle", "queued", "fetching", "done"}

Replies ==
  [kind : {"none", "spec", "error", "cancelled"}, spec : Int, stale : BOOLEAN]

Beginnings == [spec : Int, published : Nat]

\* The variables have the types of the fields and locals they stand for.
TypeOK ==
  /\ pc \in [Calls -> Phases]
  /\ kind \in [Calls -> {"get", "refresh"}]
  /\ carried \in [Calls -> Nat]
  /\ reply \in [Calls -> Replies]
  /\ begun \in [Calls -> Beginnings]
  /\ lock \in Calls \cup {Nobody}
  /\ queue \in Seq(Calls)
  /\ spec \in Int
  /\ fetchedAt \in Nat
  /\ stale \in BOOLEAN
  /\ published \in Nat
  /\ now \in Nat

\* The lock is held exactly by the one call that fetches, and the waiters are exactly
\* the queued calls: no cancellation, failure or quick return strands the lock or a
\* waiter.
LockAccounted ==
  /\ \A c \in Calls : lock = c <=> pc[c] = "fetching"
  /\ \A c \in Calls : pc[c] = "queued" <=> \E i \in 1..Len(queue) : queue[i] = c
  /\ \A i, j \in 1..Len(queue) : queue[i] = queue[j] => i = j

\* A get fetches only while the cached document is not fresh: of the calls that find it
\* expired together, one fetches and the others use its result.
NoRedundantFetch ==
  \A c \in Calls : pc[c] = "fetching" /\ kind[c] = "get" => ~IsFresh

\* A cached document is never replaced by an older one, however replies are delayed.
VersionsAdvance ==
  [][({spec, spec'} \subseteq Versions) => spec' >= spec]_vars

\* A refresh that answers "stale": false returns a document published no earlier than
\* the refresh began.
RefreshSeesLatest ==
  \A c \in Calls :
    kind[c] = "refresh" /\ reply[c].kind = "spec" /\ ~reply[c].stale
      => reply[c].spec >= begun[c].published

\* Once a document was cached, a call never fails and never answers with anything but a
\* document at least as new ("serve the last successful cached version ... Don't
\* hard-fail").
ServesLastSuccessful ==
  \A c \in Calls :
    begun[c].spec \in Versions /\ reply[c].kind \in {"spec", "error"}
      => reply[c].kind = "spec" /\ reply[c].spec >= begun[c].spec

\* A get that answers "stale": true tried to fetch and failed: the next call after a
\* failure refetches (DEMO.md, "the spec refetches on the next call").
StaleMeansTried ==
  [][\A c \in Calls :
       kind'[c] = "get" /\ reply[c].kind = "none" /\ reply'[c].kind = "spec" /\ reply'[c].stale
         => pc[c] = "fetching"]_vars

\* What each call asked for, to those who do not see the lock.
Asked ==
  [c \in Calls |->
     [kind |-> IF pc[c] = "idle" THEN "none" ELSE kind[c], since |-> begun[c].published]]

Register == INSTANCE DocumentRegister
  WITH asked <- Asked, answer <- reply, document <- spec,
       NoDocument <- NoSpec, Unreadable <- Unusable, Unanswered <- NoReply

\* To its callers the cache is one register: each call is answered at one instant, with what
\* the register holds then, flag and all, or with a document that was published while the
\* call lasted; failures and cancelled calls leave the register as it is.
AnsweredAtOnce == Register!Spec

\* Every call ends, also behind others whose fetches fail or are cancelled.
Answered == \A c \in Calls : pc[c] # "idle" ~> pc[c] = "done"
=============================================================================

--------------------------- MODULE DocumentRegister ---------------------------
(***************************************************************************)
(* What the document cache of mcp-api-explorer promises to the tools that  *)
(* ask it: a register that holds one document.  Each call is answered at   *)
(* one instant, from the register as it is then or with a document that    *)
(* was published while the call lasted, which the register then holds.     *)
(* Locks, queues and requests are not seen.                                *)
(***************************************************************************)
EXTENDS Integers

CONSTANTS
  Calls,
  Ttl,         \* how long a document is fresh
  NoDocument,  \* the register is empty
  Unreadable,  \* what the register holds is no document
  Unanswered   \* the answer of a call that has none yet

VARIABLES
  asked,     \* what each call asks for, and the version published when it began
  answer,    \* what each call was answered
  document,  \* the version the register holds
  fetchedAt, \* since when
  stale,     \* the last fetch failed
  published, \* the version the API serves
  now

register == <<document, fetchedAt, stale>>
vars == <<asked, answer, register, published, now>>
-----------------------------------------------------------------------------
NotAsked == [kind |-> "none", since |-> 0]

Init ==
  /\ asked = [c \in Calls |-> NotAsked]
  /\ answer = [c \in Calls |-> Unanswered]
  /\ document = NoDocument
  /\ stale = FALSE

Fresh == document # NoDocument /\ now - fetchedAt < Ttl

Asks(c, kind) ==
  /\ asked[c] = NotAsked
  /\ asked' = [asked EXCEPT ![c] = [kind |-> kind, since |-> published]]

Pending(c) == asked[c] # NotAsked /\ answer[c] = Unanswered

\* The call may fetch: a refresh always, a get only if what the register holds expired.
MayFetch(c) == Pending(c) /\ (asked[c].kind = "get" => ~Fresh)

Answers(c, kind, doc, flag) ==
  answer' = [answer EXCEPT ![c] = [kind |-> kind, spec |-> doc, stale |-> flag]]
-----------------------------------------------------------------------------
\* A call begins.
Begins(c) ==
  /\ \E kind \in {"get", "refresh"} : Asks(c, kind)
  /\ UNCHANGED <<answer, register, published, now>>

\* A get is answered with the fresh document, when it asks or once it has become fresh.
Reads(c) ==
  /\ Fresh
  /\ Asks(c, "get") \/ (Pending(c) /\ asked[c].kind = "get" /\ UNCHANGED asked)
  /\ Answers(c, "spec", document, stale)
  /\ UNCHANGED <<register, published, now>>

\* A document that was published while the call lasted takes the place of an older one.
Fetches(c) ==
  /\ MayFetch(c)
  /\ \E version \in asked[c].since..published :
       /\ version >= document
       /\ document' = version
       /\ Answers(c, "spec", version, FALSE)
  /\ fetchedAt' = now
  /\ stale' = FALSE
  /\ UNCHANGED <<asked, published, now>>

\* What was fetched is no document: the register loses the one it held.
Spoils(c) ==
  /\ MayFetch(c)
  /\ \/ /\ document' = NoDocument /\ stale' = FALSE
        /\ Answers(c, "error", NoDocument, FALSE)
     \/ /\ document' = Unreadable /\ stale' = TRUE
        /\ Answers(c, "spec", Unreadable, TRUE)
  /\ fetchedAt' = now
  /\ UNCHANGED <<asked, published, now>>

\* Nothing could be fetched: what the register holds is kept and given as stale.
Fails(c) ==
  /\ MayFetch(c)
  /\ \/ /\ document # NoDocument /\ stale' = TRUE
        /\ Answers(c, "spec", document, TRUE)
     \/ /\ document = NoDocument /\ UNCHANGED stale
        /\ Answers(c, "error", NoDocument, FALSE)
  /\ UNCHANGED <<asked, document, fetchedAt, published, now>>

\* The client gives up; the register is as if the call had not been made.
GivesUp(c) ==
  /\ Pending(c)
  /\ Answers(c, "cancelled", NoDocument, FALSE)
  /\ UNCHANGED <<asked, register, published, now>>

Publishes ==
  /\ published' = published + 1
  /\ UNCHANGED <<asked, answer, register, now>>

TimePasses ==
  /\ now' = now + 1
  /\ UNCHANGED <<asked, answer, register, published>>

Next ==
  \/ \E c \in Calls :
       Begins(c) \/ Reads(c) \/ Fetches(c) \/ Spoils(c) \/ Fails(c) \/ GivesUp(c)
  \/ Publishes
  \/ TimePasses

Spec == Init /\ [][Next]_vars
=============================================================================

----------------------------- MODULE GatedCalls -----------------------------
(***************************************************************************)
(* call_endpoint of mcp-api-explorer (caller.py, config.py, server.py)     *)
(* against the sample API: the settings are loaded, each call passes the   *)
(* gate or is refused, is sent once, and ends with the reply, or with an   *)
(* error while the API may still be at it.                                 *)
(*                                                                         *)
(* A URL is a sequence of tokens, of which "/" is one.                     *)
(***************************************************************************)
EXTENDS EntityStore, Sequences, SequencesExt

CONSTANTS
  Tokens,         \* what URLs consist of
  Requests,       \* [op, id, given, path]: what the explorer may be asked to call
  Environments,   \* [allowCall, allowMutating, baseUrl, allowlist]; allowlist is a
                  \* [format, urls] with format "unset", "json" or "csv"
  DefaultBases,   \* the default of call_base_url_allowlist
  InitialRows     \* the rows of the table before the first call

ASSUME GateAssumption ==
  /\ "/" \in Tokens
  /\ NoRequest \notin Requests
  /\ \A r \in Requests :
       /\ r.op \in {"list", "get", "create", "update", "delete", "head"}
       /\ r.path \in Seq(Tokens)
       /\ r.op = "create" => r.given \in [Fields -> Values]
       /\ r.op = "update" => \A f \in Fields \cap DOMAIN r.given : r.given[f] \in Values
  /\ DefaultBases \subseteq Seq(Tokens)
  /\ \A e \in Environments : e.baseUrl \in Seq(Tokens) /\ e.allowlist.urls \subseteq Seq(Tokens)
  /\ DOMAIN InitialRows \subseteq 1..MaxId
  /\ InitialRows \in [DOMAIN InitialRows -> [Fields -> Values]]
  /\ \A id \in DOMAIN InitialRows : Atomic!Free(InitialRows, id, InitialRows[id])

VARIABLES
  server,    \* the explorer: "starting", "up", or "failed"
  settings,  \* its settings
  answer,    \* the answer to each call
  deleted    \* history: the ids whose deletion was answered before the call began

explorerVars == <<server, settings, answer, deleted>>
vars == <<storeVars, explorerVars>>
-----------------------------------------------------------------------------
\* An answer is the status of the reply, or one of these.
Pending == 0
Refused == -1
HttpError == -2

Method ==
  [list |-> "GET", get |-> "GET", create |-> "POST", update |-> "PUT",
   delete |-> "DELETE", head |-> "HEAD"]

SafeMethods == {"GET"}
MutatingMethods == {"POST", "PUT", "PATCH", "DELETE"}

\* str.rstrip("/")
RStrip(url) ==
  LET last == CHOOSE n \in 0..Len(url) :
                /\ n = 0 \/ url[n] # "/"
                /\ \A i \in (n + 1)..Len(url) : url[i] = "/"
  IN SubSeq(url, 1, last)

Url(r) == RStrip(settings.baseUrl) \o r.path

\* A faulty variant: the base need not end where a segment of the URL ends.
InAllowlistByText(url) ==
  \E b \in settings.bases : IsPrefix(RStrip(b), url)

InAllowlist(url) ==
  \E b \in settings.bases : IsPrefix(Append(RStrip(b), "/"), url) \/ url = RStrip(b)

\* A faulty variant: what is not known to mutate is let through.
AllowedUnlessMutating(r) ==
  /\ settings.allowCall
  /\ r.op \in {"create", "delete"} => settings.allowMutating
  /\ InAllowlist(Url(r))

\* _assert_allowed
Allowed(r) ==
  /\ settings.allowCall
  /\ Method[r.op] \in SafeMethods \cup MutatingMethods
  /\ Method[r.op] \in MutatingMethods => settings.allowMutating
  /\ InAllowlist(Url(r))
-----------------------------------------------------------------------------
Init ==
  /\ StoreInit(InitialRows)
  /\ server = "starting"
  /\ settings = [allowCall |-> FALSE, allowMutating |-> FALSE, baseUrl |-> << >>, bases |-> {}]
  /\ answer = [c \in Calls |-> Pending]
  /\ deleted = [c \in Calls |-> {}]

\* Settings(): the environment's value of a list is decoded as JSON before the validator
\* that would split it at commas is called, and what is not JSON ends the process.
Start(e) ==
  /\ server = "starting"
  /\ \/ /\ e.allowlist.format = "csv"
        /\ server' = "failed"
        /\ UNCHANGED settings
     \/ /\ e.allowlist.format # "csv"
        /\ server' = "up"
        /\ settings' =
             [allowCall |-> e.allowCall, allowMutating |-> e.allowMutating,
              baseUrl |-> e.baseUrl,
              bases |-> IF e.allowlist.format = "unset" THEN DefaultBases ELSE e.allowlist.urls]
  /\ UNCHANGED <<storeVars, answer, deleted>>

\* call_endpoint_tool up to its await: the request is on its way, or refused.
Call(c, r) ==
  /\ server = "up"
  /\ request[c] = NoRequest
  /\ request' = [request EXCEPT ![c] = r]
  /\ deleted' = [deleted EXCEPT ![c] =
                   {request[d].id : d \in {d \in Calls : answer[d] = 204}}]
  /\ \/ /\ Allowed(r)
        /\ tx' = [tx EXCEPT ![c].phase = "sent"]
        /\ UNCHANGED answer
     \/ /\ ~Allowed(r)
        /\ answer' = [answer EXCEPT ![c] = Refused]
        /\ UNCHANGED tx
  /\ UNCHANGED <<table, nextId, crashes, server, settings>>

Waiting(c) == tx[c].phase # "unsent" /\ answer[c] = Pending

\* The reply arrives.
Reply(c) ==
  /\ Waiting(c)
  /\ tx[c].phase = "answered"
  /\ answer' = [answer EXCEPT ![c] = tx[c].status]
  /\ UNCHANGED <<storeVars, server, settings, deleted>>

\* A faulty variant: a call that fails is sent once more.
ReplyFailsAndRetry(c) ==
  /\ Waiting(c)
  /\ tx' = [tx EXCEPT ![c] = [Unsent EXCEPT !.phase = "sent"]]
  /\ UNCHANGED <<table, nextId, request, crashes, explorerVars>>

\* No connection, a lost reply, or none within call_timeout_seconds: httpx.HTTPError.  The
\* API may have done the request, may be at it, or may do it later.
ReplyFails(c) ==
  /\ Waiting(c)
  /\ answer' = [answer EXCEPT ![c] = HttpError]
  /\ UNCHANGED <<storeVars, server, settings, deleted>>

\* The explorer has failed to start, or every call has ended and so has the API.
Quiet ==
  /\ \/ server = "failed"
     \/ \A c \in Calls : answer[c] # Pending /\ tx[c].phase \in {"unsent", "answered", "lost"}
  /\ UNCHANGED vars

Next ==
  \/ \E e \in Environments : Start(e)
  \/ \E c \in Calls : \E r \in Requests : Call(c, r)
  \/ \E c \in Calls : Reply(c) \/ ReplyFails(c)
  \/ (\E c \in Calls : StoreStep(c)) /\ UNCHANGED explorerVars
  \/ Crash /\ UNCHANGED explorerVars
  \/ Quiet

Spec == Init /\ [][Next]_vars
-----------------------------------------------------------------------------
(***************************************************************************)
(* Properties.                                                             *)
(***************************************************************************)
\* The variables have the types of the settings, answers and rows they stand for.
TypeOK ==
  /\ StoreTypeOK
  /\ server \in {"starting", "up", "failed"}
  /\ settings.baseUrl \in Seq(Tokens) /\ settings.bases \subseteq Seq(Tokens)
  /\ request \in [Calls -> Requests \cup {NoRequest}]
  /\ answer \in [Calls -> {Pending, Refused, HttpError, 200, 201, 204, 404, 500}]
  /\ deleted \in [Calls -> SUBSET (1..MaxId)]

\* The rows of the API change only while both flags are on, also by a request that is
\* done after its caller was given an error.
ReadOnlyUnlessAllowed ==
  [][table' # table => settings.allowCall /\ settings.allowMutating]_vars

\* The part of a URL before its path.
Host(url) == SelectInSeq(url, LAMBDA t : t = "/")

\* A request goes to the host of a base the operator allowed, whatever the base URL and
\* the path a call gives join to.
SentOnlyToAllowed ==
  \A c \in Calls :
    tx[c].phase # "unsent" =>
      \E b \in settings.bases : LET url == Url(request[c]) \o <<"/">>
                                    base == b \o <<"/">> IN
        SubSeq(url, 1, Host(url)) = SubSeq(base, 1, Host(base))

\* Once a call was told that a row is deleted, no later call finds, changes or deletes a
\* row of that id, whatever racing updates, deletes and creates do.
DeletedForGood ==
  \A c \in Calls :
    request[c] # NoRequest /\ tx[c].status # 0
      => /\ request[c].op \in {"get", "update", "delete"} /\ request[c].id \in deleted[c]
              => tx[c].status = 404
         /\ tx[c].id \notin deleted[c]
=============================================================================

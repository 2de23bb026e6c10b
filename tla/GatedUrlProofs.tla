--------------------------- MODULE GatedUrlProofs ---------------------------
(***************************************************************************)
(* Where the requests of GatedCalls go: proofs about the joined URL and    *)
(* the allowlist, for URLs of any length.                                  *)
(***************************************************************************)
EXTENDS GatedCallsProofs, SequenceTheorems, WellFoundedInduction

-----------------------------------------------------------------------------
(***************************************************************************)
(* The first "/" of a sequence, and what rstrip leaves.                    *)
(***************************************************************************)
\* Every non-empty set of natural numbers has a least element.
LEMMA LeastElement ==
  ASSUME NEW T, T \subseteq Nat, T # {}
  PROVE  \E x \in T : \A y \in T : x <= y
<1>1. PICK x \in T : \A y \in T : <<y, x>> \notin OpToRel(<, Nat)
  BY NatLessThanWellFounded, WFMin
<1>2. \A y \in T : ~(y < x)
  BY <1>1 DEF OpToRel
<1> QED  BY <1>2

\* rstrip("/") drops exactly the slashes at the end.
LEMMA RStripKeeps ==
  ASSUME NEW url \in Seq(Tokens)
  PROVE  \E n \in 0..Len(url) :
           /\ RStrip(url) = SubSeq(url, 1, n)
           /\ \A i \in (n + 1)..Len(url) : url[i] = "/"
<1> DEFINE Ends(n) == /\ n = 0 \/ url[n] # "/"
                      /\ \A i \in (n + 1)..Len(url) : url[i] = "/"
           T == {n \in 0..Len(url) : \A i \in (n + 1)..Len(url) : url[i] = "/"}
<1>1. Len(url) \in Nat
  BY LenProperties
<1>2. T \subseteq Nat /\ T # {}
  <2>1. Len(url) \in T
    BY <1>1
  <2> QED  BY <1>1, <2>1
<1>3. PICK n \in T : \A m \in T : n <= m
  BY <1>2, LeastElement
<1>4. n \in 0..Len(url) /\ Ends(n)
  <2>1. SUFFICES ASSUME n # 0, url[n] = "/"  PROVE FALSE
    BY <1>3
  <2>2. n - 1 \in T
    BY <1>1, <1>3, <2>1
  <2>3. n \in Nat /\ n <= n - 1
    BY <1>2, <1>3, <2>2
  <2> QED  BY <2>3
<1> DEFINE last == CHOOSE m \in 0..Len(url) : Ends(m)
<1>5. last \in 0..Len(url) /\ Ends(last)
  BY <1>4
<1>6. RStrip(url) = SubSeq(url, 1, last)
  BY DEF RStrip
<1> HIDE DEF last
<1> QED  BY <1>5, <1>6

\* The host of a URL ends at its first "/".
LEMMA HostIsFirst ==
  ASSUME NEW url \in Seq(Tokens), NEW k \in 1..Len(url), url[k] = "/"
  PROVE  /\ Host(url) \in 1..k
         /\ url[Host(url)] = "/"
         /\ \A i \in 1..(Host(url) - 1) : url[i] # "/"
<1> DEFINE I == {i \in 1..Len(url) : url[i] = "/"}
<1>1. Len(url) \in Nat /\ k \in I
  BY LenProperties
<1>2. I \subseteq Nat /\ I # {}
  BY <1>1
<1>3. \E h \in I : \A i \in I : h <= i
  BY <1>2, LeastElement
<1>4. Host(url) = Min(I)
  BY <1>2 DEF Host, SelectInSeq
<1>5. Min(I) \in I /\ \A i \in I : Min(I) <= i
  BY <1>3 DEF Min
<1>6. Host(url) \in I /\ \A i \in I : Host(url) <= i
  BY <1>4, <1>5
<1> QED  BY <1>1, <1>6

\* Two URLs that agree up to a "/" have the same host.
LEMMA SameHost ==
  ASSUME NEW u \in Seq(Tokens), NEW v \in Seq(Tokens), NEW k \in 1..Len(u), k <= Len(v),
         u[k] = "/", \A i \in 1..k : u[i] = v[i]
  PROVE  SubSeq(u, 1, Host(u)) = SubSeq(v, 1, Host(v))
<1>0. Len(u) \in Nat /\ Len(v) \in Nat /\ k \in 1..Len(v) /\ v[k] = "/"
  BY LenProperties
<1>1. Host(u) \in 1..k /\ u[Host(u)] = "/" /\ \A i \in 1..(Host(u) - 1) : u[i] # "/"
  BY HostIsFirst
<1>2. Host(v) \in 1..k /\ v[Host(v)] = "/" /\ \A i \in 1..(Host(v) - 1) : v[i] # "/"
  BY <1>0, HostIsFirst
<1> DEFINE h == Host(u)
<1>3. Host(v) = h
  BY <1>1, <1>2
<1> HIDE DEF h
<1>4. h \in 1..k
  BY <1>1 DEF h
<1> DEFINE a == SubSeq(u, 1, h)
           b == SubSeq(v, 1, h)
<1>5. a \in Seq(Tokens) /\ Len(a) = h /\ \A i \in 1..h : a[i] = u[i]
  BY <1>0, <1>4, SubSeqProperties, ElementOfSeq
<1>6. b \in Seq(Tokens) /\ Len(b) = h /\ \A i \in 1..h : b[i] = v[i]
  BY <1>0, <1>4, SubSeqProperties, ElementOfSeq
<1> HIDE DEF a, b
<1>7. \A i \in 1..h : a[i] = b[i]
  BY <1>4, <1>5, <1>6
<1>8. a = b
  BY <1>5, <1>6, <1>7, SeqEqual
<1> QED  BY <1>3, <1>8 DEF a, b, h

\* A URL that passes the allowlist and an allowed base agree up to a "/", once each is given
\* one at its end.
LEMMA AllowedHost ==
  ASSUME NEW url \in Seq(Tokens), NEW b \in Seq(Tokens),
         IsPrefix(Append(RStrip(b), "/"), url) \/ url = RStrip(b)
  PROVE  LET u == url \o <<"/">>
             v == b \o <<"/">> IN SubSeq(u, 1, Host(u)) = SubSeq(v, 1, Host(v))
<1> DEFINE u == url \o <<"/">>
           v == b \o <<"/">>
<1>1. "/" \in Tokens /\ Len(url) \in Nat /\ Len(b) \in Nat
  BY GateAssumption, LenProperties
<1>2. /\ u \in Seq(Tokens) /\ Len(u) = Len(url) + 1 /\ u[Len(url) + 1] = "/"
      /\ \A i \in 1..Len(url) : u[i] = url[i]
  <2>1. u = Append(url, "/")
    BY <1>1, AppendIsConcat
  <2> QED  BY <1>1, <2>1, AppendProperties
<1>3. /\ v \in Seq(Tokens) /\ Len(v) = Len(b) + 1 /\ v[Len(b) + 1] = "/"
      /\ \A i \in 1..Len(b) : v[i] = b[i]
  <2>1. v = Append(b, "/")
    BY <1>1, AppendIsConcat
  <2> QED  BY <1>1, <2>1, AppendProperties
<1>4. PICK n \in 0..Len(b) : /\ RStrip(b) = SubSeq(b, 1, n)
                             /\ \A i \in (n + 1)..Len(b) : b[i] = "/"
  BY RStripKeeps
<1> DEFINE s == SubSeq(b, 1, n)
<1>5. s \in Seq(Tokens) /\ Len(s) = n /\ \A i \in 1..n : s[i] = b[i]
  BY <1>1, SubSeqProperties, ElementOfSeq
<1> HIDE DEF s, u, v
<1>6. v[n + 1] = "/" /\ \A i \in 1..n : v[i] = s[i]
  <2>1. CASE n = Len(b)
    BY <1>1, <1>3, <1>5, <2>1
  <2>2. CASE n < Len(b)
    <3>1. n + 1 \in 1..Len(b) /\ n + 1 \in (n + 1)..Len(b)
      BY <1>1, <2>2
    <3>2. v[n + 1] = "/"
      BY <1>3, <1>4, <3>1
    <3> QED  BY <1>1, <1>3, <1>5, <2>2, <3>2
  <2> QED  BY <1>1, <2>1, <2>2
<1>7. n + 1 <= Len(u) /\ u[n + 1] = "/" /\ \A i \in 1..n : u[i] = s[i]
  <2>1. CASE url = s
    BY <1>1, <1>2, <1>5, <2>1
  <2>2. CASE IsPrefix(Append(s, "/"), url)
    <3> DEFINE p == Append(s, "/")
    <3>1. p \in Seq(Tokens) /\ Len(p) = n + 1 /\ p[n + 1] = "/" /\ \A i \in 1..n : p[i] = s[i]
      BY <1>1, <1>5, AppendProperties
    <3> HIDE DEF p
    <3>2. n + 1 <= Len(url) /\ SubSeq(p, 1, n + 1) = SubSeq(url, 1, n + 1)
      BY <2>2, <3>1 DEF IsPrefix, p
    <3>3. \A i \in 1..(n + 1) : SubSeq(p, 1, n + 1)[i] = p[i]
      BY <1>1, <3>1, SubSeqProperties, ElementOfSeq
    <3>4. \A i \in 1..(n + 1) : SubSeq(url, 1, n + 1)[i] = url[i]
      BY <1>1, <3>2, SubSeqProperties, ElementOfSeq
    <3>5. \A i \in 1..(n + 1) : url[i] = p[i]
      BY <3>2, <3>3, <3>4
    <3>6. n + 1 \in 1..(n + 1) /\ \A i \in 1..(n + 1) : u[i] = url[i]
      BY <1>1, <1>2, <3>2
    <3> QED  BY <1>1, <1>2, <3>1, <3>2, <3>5, <3>6
  <2> QED  BY <1>4, <2>1, <2>2 DEF s
<1>8. n + 1 \in 1..Len(u) /\ n + 1 <= Len(v)
  BY <1>1, <1>3, <1>4, <1>7
<1>9. \A i \in 1..(n + 1) : u[i] = v[i]
  BY <1>6, <1>7
<1>10. SubSeq(u, 1, Host(u)) = SubSeq(v, 1, Host(v))
  BY <1>2, <1>3, <1>7, <1>8, <1>9, SameHost
<1> QED  BY <1>10 DEF u, v

\* The joined URL is a URL.
LEMMA UrlTyped ==
  ASSUME TypeOK, NEW r \in Requests
  PROVE  Url(r) \in Seq(Tokens)
<1>1. r.path \in Seq(Tokens) /\ settings.baseUrl \in Seq(Tokens)
  BY GateAssumption DEF TypeOK
<1>2. PICK n \in 0..Len(settings.baseUrl) :
         RStrip(settings.baseUrl) = SubSeq(settings.baseUrl, 1, n)
  BY <1>1, RStripKeeps
<1>3. RStrip(settings.baseUrl) \in Seq(Tokens)
  BY <1>1, <1>2, LenProperties, SubSeqProperties, ElementOfSeq
<1> QED  BY <1>1, <1>3, ConcatProperties DEF Url
-----------------------------------------------------------------------------
(***************************************************************************)
(* Where requests go.                                                      *)
(***************************************************************************)
\* What is on its way passed the allowlist that is in force.
Listed(c) == tx[c].phase # "unsent" => InAllowlist(Url(request[c]))

SentInv == FlagsInv /\ \A c \in Calls : Listed(c)

LEMMA SentInit == Init => SentInv
BY FlagsInit DEF Init, StoreInit, Unsent, SentInv, Listed

\* A step that changes neither the settings nor a request leaves it as listed as it was.
LEMMA ListedAsBefore ==
  ASSUME NEW d \in Calls, Listed(d), settings' = settings, request'[d] = request[d],
         tx[d].phase = "unsent" => tx'[d].phase = "unsent"
  PROVE  Listed(d)'
BY DEF Listed, InAllowlist, Url

LEMMA SentStep == SentInv /\ [Next]_vars => SentInv'
<1> SUFFICES ASSUME SentInv, [Next]_vars PROVE \A d \in Calls : Listed(d)'
  BY FlagsStep DEF SentInv
<1>t. FlagsInv /\ TypeInv /\ TypeOK
  BY DEF SentInv, FlagsInv, TypeInv
<1> TAKE d \in Calls
<1>d. Listed(d)
  BY DEF SentInv
<1>1. ASSUME NEW e \in Environments, Start(e)  PROVE Listed(d)'
  <2>1. request[d] = NoRequest /\ tx[d].phase = "unsent"
    BY <1>1, <1>t DEF FlagsInv, TypeInv, Holds, Start
  <2> QED  BY <1>1, <2>1 DEF Start, storeVars, Listed
<1>2. ASSUME NEW c \in Calls, NEW r \in Requests, Call(c, r)  PROVE Listed(d)'
  <2>1. settings' = settings /\ request \in [Calls -> Requests \cup {NoRequest}]
    BY <1>2, <1>t DEF Call, TypeOK, StoreTypeOK
  <2>2. CASE d # c
    <3>1. request'[d] = request[d] /\ tx'[d] = tx[d]
      BY <1>2, <1>t, <2>2 DEF Call, TypeOK, StoreTypeOK
    <3> QED  BY <1>d, <2>1, <3>1, ListedAsBefore
  <2>3. CASE d = c
    <3>1. request'[d] = r /\ tx[d].phase = "unsent"
      BY <1>2, <1>t, <2>1, <2>3 DEF Call, TypeInv, Holds
    <3>2. CASE Allowed(r)
      BY <2>1, <3>1, <3>2 DEF Allowed, Listed, InAllowlist, Url
    <3>3. CASE UNCHANGED tx
      BY <3>1, <3>3 DEF Listed
    <3> QED  BY <1>2, <3>2, <3>3 DEF Call
  <2> QED  BY <2>2, <2>3
<1>3. ASSUME NEW c \in Calls, Reply(c) \/ ReplyFails(c)  PROVE Listed(d)'
  <2>1. UNCHANGED <<settings, request, tx>>
    BY <1>3 DEF Reply, ReplyFails, storeVars
  <2> QED  BY <1>d, <2>1, ListedAsBefore
<1>4. ASSUME NEW c \in Calls, StoreStep(c), UNCHANGED explorerVars  PROVE Listed(d)'
  <2>1. settings' = settings /\ request' = request /\ tx[c].phase # "unsent"
        /\ \A x \in Calls \ {c} : tx'[x] = tx[x]
    BY <1>4, <1>t, StatementIsLocal DEF explorerVars
  <2> QED  BY <1>d, <2>1, ListedAsBefore
<1>5. CASE Crash /\ UNCHANGED explorerVars
  <2>1. settings' = settings /\ request' = request
        /\ (tx[d].phase = "unsent" => tx'[d].phase = "unsent")
    BY <1>5, <1>t DEF Crash, explorerVars
  <2> QED  BY <1>d, <2>1, ListedAsBefore
<1>6. CASE UNCHANGED vars
  <2>1. UNCHANGED <<settings, request, tx>>
    BY <1>6 DEF vars, storeVars, explorerVars
  <2> QED  BY <1>d, <2>1, ListedAsBefore
<1> QED  BY <1>1, <1>2, <1>3, <1>4, <1>5, <1>6, StepIsOneOf DEF ExplorerStep

\* A request goes to the host of a base the operator allowed, whatever base URL and path
\* are joined, for URLs of any length and any number of slashes.
THEOREM GoesToAllowed == Spec => []SentOnlyToAllowed
<1>1. SentInv => SentOnlyToAllowed
  <2> SUFFICES ASSUME SentInv, NEW c \in Calls, tx[c].phase # "unsent"
               PROVE  \E b \in settings.bases :
                        LET url == Url(request[c]) \o <<"/">>
                            base == b \o <<"/">> IN
                          SubSeq(url, 1, Host(url)) = SubSeq(base, 1, Host(base))
    BY DEF SentOnlyToAllowed
  <2>1. InAllowlist(Url(request[c])) /\ TypeOK /\ Holds(c)
    BY DEF SentInv, Listed, FlagsInv, TypeInv
  <2>2. request[c] \in Requests
    BY <2>1 DEF TypeOK, StoreTypeOK, Holds
  <2>3. Url(request[c]) \in Seq(Tokens)
    BY <2>1, <2>2, UrlTyped
  <2>4. PICK b \in settings.bases :
           IsPrefix(Append(RStrip(b), "/"), Url(request[c])) \/ Url(request[c]) = RStrip(b)
    BY <2>1 DEF InAllowlist
  <2>5. b \in Seq(Tokens)
    BY <2>1 DEF TypeOK
  <2> WITNESS b \in settings.bases
  <2> QED  BY <2>3, <2>4, <2>5, AllowedHost
<1> QED  BY <1>1, SentInit, SentStep, PTL DEF Spec
=============================================================================

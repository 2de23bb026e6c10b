---------------------------- MODULE ExplorerTools ----------------------------
(***************************************************************************)
(* The tools of mcp-api-explorer that answer from the cached OpenAPI       *)
(* document (server.py, intent.py, examples.py, spec.py): list_endpoints,  *)
(* get_endpoint_details, find_endpoint_by_intent, show_request_example.    *)
(*                                                                         *)
(* How the document is fetched is SpecCache.  After its await on the cache *)
(* a tool runs without another, so each is one action on one document.     *)
(*                                                                         *)
(* A document is the sequence of its path items' entries.  A path is named *)
(* by its place in the lexicographic order of Paths.  Methods are written  *)
(* as the document and the client spell them: the tools list them in upper *)
(* case and look them up in lower case.  What the example of a schema is,  *)
(* is SchemaExample.                                                       *)
(***************************************************************************)
EXTENDS Integers, Sequences, FiniteSets, SequencesExt, SchemaExample

CONSTANTS
  Paths,      \* the paths in lexicographic order, each a sequence of segments
              \* <<"text", word>> and <<"param", name>>
  TagOrder,   \* the tags in lexicographic order
  Documents,  \* sequences of entries [path, key, value]; value is an operation
              \* [tags, words, parameters, body], or NoOperation
  Lower,      \* str.lower() of the keys of path items and the methods clients give
  Upper,      \* str.upper() of them
  NoOperation,\* a value that is not a mapping; also what is not found
  NoSchema,   \* no JSON body
  Queries,    \* queries as the sets of their words
  Limits,     \* limits a client may ask for
  MaxLimit    \* the largest limit granted

Tags == {TagOrder[i] : i \in DOMAIN TagOrder}

Spellings == DOMAIN Lower

MethodNames == [get |-> "GET", post |-> "POST", put |-> "PUT", patch |-> "PATCH",
                delete |-> "DELETE", head |-> "HEAD", options |-> "OPTIONS"]

\* The keys of a JSON object, here paths and the keys of their items, are unique as they are
\* spelled: "get" and "GET" are two keys.  Keys and methods are ASCII.
ASSUME ToolsAssumption ==
  /\ Paths \in Seq(Range(Paths)) /\ TagOrder \in Seq(Tags)
  /\ \A d \in Documents :
       /\ d \in Seq(Range(d))
       /\ \A i, j \in DOMAIN d : d[i].path = d[j].path /\ d[i].key = d[j].key => i = j
       /\ \A i \in DOMAIN d : /\ d[i].path \in DOMAIN Paths
                              /\ d[i].key \in Spellings
                              /\ d[i].value # NoOperation =>
                                   /\ d[i].value.tags \in Seq(Tags)
                                   /\ d[i].value.body \in Schemas \cup {NoSchema}
  /\ Lower \in [Spellings -> Spellings] /\ Upper \in [Spellings -> Spellings]
  /\ \A k \in Spellings : /\ Lower[Lower[k]] = Lower[k] /\ Lower[Upper[k]] = Lower[k]
                          /\ Upper[Upper[k]] = Upper[k] /\ Upper[Lower[k]] = Upper[k]
  /\ \A m \in DOMAIN MethodNames : m \in Spellings /\ Lower[m] = m /\ Upper[m] = MethodNames[m]
  /\ \A words \in Queries : IsFiniteSet(words)
  /\ Limits \subseteq Int
  /\ MaxLimit \in Nat \ {0}

VARIABLES
  doc,    \* the document in the cache
  answer  \* the tool called last, its arguments and its result

vars == <<doc, answer>>
-----------------------------------------------------------------------------
ListedMethods == {"get", "post", "put", "patch", "delete", "head", "options"}

Stopwords ==
  { "a", "an", "the", "of", "for", "to", "in", "on", "with", "and", "or", "by",
    "is", "are", "do", "does", "how", "what", "which", "i", "we", "my", "our",
    "can", "please", "show", "me", "it", "that", "this" }

MethodAliases(method) ==
  CASE method = "GET" -> {"list", "get", "fetch", "read", "show", "retrieve", "find"}
    [] method = "POST" -> {"create", "add", "new", "post", "insert"}
    [] method = "PUT" -> {"update", "put", "replace", "edit", "modify"}
    [] method = "PATCH" -> {"patch", "update", "edit"}
    [] method = "DELETE" -> {"delete", "remove", "destroy"}
    [] OTHER -> {}

\* Places in the lexicographic orders that sorting goes by.
MethodPlace ==
  [DELETE |-> 1, GET |-> 2, HEAD |-> 3, OPTIONS |-> 4, PATCH |-> 5, POST |-> 6, PUT |-> 7]
TagPlace(tag) == IF tag = "" THEN 0 ELSE CHOOSE i \in DOMAIN TagOrder : TagOrder[i] = tag

\* iter_operations: the places of the operations among the entries
Operations(d) ==
  {i \in DOMAIN d : Lower[d[i].key] \in ListedMethods /\ d[i].value # NoOperation}

\* A faulty variant: the method is looked up as the client spells it.
FindAsSpelled(d, path, method) ==
  LET found == {i \in DOMAIN d : d[i].path = path /\ d[i].key = method} IN
    IF found = {} THEN NoOperation ELSE d[CHOOSE i \in found : TRUE].value

\* find_operation
FindOperation(d, path, method) ==
  LET found == {i \in DOMAIN d : d[i].path = path /\ d[i].key = Lower[method]} IN
    IF found = {} THEN NoOperation ELSE d[CHOOSE i \in found : TRUE].value

\* summarize_operation; its operationId and summary stand for the operation they are of.
Summary(e) ==
  [path |-> e.path, method |-> Upper[e.key], op |-> e.value,
   tag |-> IF e.value.tags = << >> THEN "" ELSE Head(e.value.tags)]

\* The keys (path, method) of summaries in order.
Earlier(x, y) ==
  \/ x.path < y.path
  \/ x.path = y.path /\ MethodPlace[x.method] < MethodPlace[y.method]

\* What is made of entry i comes before what is made of entry j, ties as in the document.
Precedes(items, Before(_, _), i, j) ==
  Before(items[i], items[j]) \/ (~Before(items[j], items[i]) /\ i < j)

\* list.sort, which is stable: each item comes at the place that the number of items before
\* it gives.
Sorted(items, Before(_, _)) ==
  [n \in 1..Cardinality(DOMAIN items) |->
     items[CHOOSE i \in DOMAIN items :
             Cardinality({j \in DOMAIN items : Precedes(items, Before, j, i)}) = n - 1]]
-----------------------------------------------------------------------------
\* A faulty variant: only the tag that is shown is looked at.
ShownTagIs(e, tag) == tag # "" => Summary(e).tag = tag

HasTag(e, tag) == tag # "" => \E i \in DOMAIN e.value.tags : e.value.tags[i] = tag

ByTag(x, y) ==
  TagPlace(x.tag) < TagPlace(y.tag) \/ (TagPlace(x.tag) = TagPlace(y.tag) /\ Earlier(x, y))

\* list_endpoints
Listing(d, tag, method) ==
  LET asked == {i \in Operations(d) :
                  (method # "" => Upper[d[i].key] = Upper[method]) /\ HasTag(d[i], tag)}
  IN Sorted([i \in asked |-> Summary(d[i])], ByTag)

\* _tokenize
Tokenize(words) == {w \in words : Len(w) > 1} \ Stopwords

PathWords(path) == {Paths[path][i][2] : i \in DOMAIN Paths[path]}

\* score_operation
Score(query, e) ==
  LET shared == query \cap Tokenize(e.value.words \cup PathWords(e.path)) IN
    IF query = {} THEN 0
    ELSE 10 * Cardinality(shared)
         + IF query \cap MethodAliases(Upper[e.key]) # {} THEN 5 ELSE 0

Clamp(limit) == IF limit < 1 THEN 1 ELSE IF limit > MaxLimit THEN MaxLimit ELSE limit

Better(x, y) == x.score > y.score \/ (x.score = y.score /\ Earlier(x, y))

Matches(d, query) == {i \in Operations(d) : Score(query, d[i]) > 0}

Scored(query, e) ==
  [path |-> e.path, method |-> Upper[e.key], op |-> e.value, score |-> Score(query, e)]

\* The first limit items.
First(s, limit) == [n \in {n \in DOMAIN s : n <= Clamp(limit)} |-> s[n]]

\* A faulty variant: the document's first matches are ranked.
RankingOfFirst(d, words, limit) ==
  LET query == Tokenize(words)
      matches == Matches(d, query)
      cut == {i \in matches : Cardinality({j \in matches : j < i}) < Clamp(limit)}
  IN Sorted([i \in cut |-> Scored(query, d[i])], Better)

\* find_endpoint_by_intent
Ranking(d, words, limit) ==
  LET query == Tokenize(words) IN
    First(Sorted([i \in Matches(d, query) |-> Scored(query, d[i])], Better), limit)
-----------------------------------------------------------------------------
\* str(ex if ex is not None else 1)
PathExample(schema) ==
  LET ex == ExampleForSchema(schema) IN IF ex = Null THEN "1" ELSE ex.value

\* A faulty variant: a parameter is filled in only where the document says "required".
FillRequired(segment, parameters) ==
  LET given == {i \in DOMAIN parameters :
                  /\ parameters[i].in = "path" /\ parameters[i].required
                  /\ segment = <<"param", parameters[i].name>>}
  IN IF given = {} THEN segment
     ELSE <<"text", PathExample(parameters[Min(given)].schema)>>

\* The first parameter of a placeholder's name replaces it.
Fill(segment, parameters) ==
  LET given == {i \in DOMAIN parameters :
                  parameters[i].in = "path" /\ segment = <<"param", parameters[i].name>>}
  IN IF given = {} THEN segment
     ELSE <<"text", PathExample(parameters[Min(given)].schema)>>

\* The query parameters of a URL, by their places in the document.
QueryPart(parameters) ==
  [i \in {i \in DOMAIN parameters : parameters[i].in = "query" /\ parameters[i].required} |->
     <<parameters[i].name, ExampleForSchema(parameters[i].schema)>>]

\* build_example
Example(op, path) ==
  [url |-> [i \in DOMAIN Paths[path] |-> Fill(Paths[path][i], op.parameters)],
   query |-> QueryPart(op.parameters),
   body |-> IF op.body = NoSchema THEN Null ELSE ExampleForSchema(op.body)]
-----------------------------------------------------------------------------
Init ==
  /\ doc \in Documents
  /\ answer = [tool |-> "none"]

ListEndpoints(tag, method) ==
  /\ answer' = [tool |-> "list", tag |-> tag, method |-> method,
                result |-> Listing(doc, tag, method)]
  /\ UNCHANGED doc

FindEndpointByIntent(words, limit) ==
  /\ answer' = [tool |-> "find", words |-> words, limit |-> limit,
                result |-> Ranking(doc, words, limit)]
  /\ UNCHANGED doc

GetEndpointDetails(path, method) ==
  LET op == FindOperation(doc, path, method) IN
    /\ answer' = [tool |-> "details", path |-> path, method |-> method, op |-> op,
                  result |-> IF op = NoOperation THEN NoOperation
                             ELSE [path |-> path, method |-> Upper[method], op |-> op]]
    /\ UNCHANGED doc

\* Nothing found is a ValueError, answered as an error.
ShowRequestExample(path, method) ==
  LET op == FindOperation(doc, path, method) IN
    /\ answer' = [tool |-> "example", path |-> path, method |-> method, op |-> op,
                  result |-> IF op = NoOperation THEN NoOperation ELSE Example(op, path)]
    /\ UNCHANGED doc

\* A client may spell a method in any way.
Keys == UNION {{k, Lower[k], Upper[k]} : k \in {doc[i].key : i \in DOMAIN doc}}

Next ==
  \/ \E tag \in Tags \cup {""} : \E method \in Keys \cup {""} : ListEndpoints(tag, method)
  \/ \E words \in Queries : \E limit \in Limits : FindEndpointByIntent(words, limit)
  \/ \E path \in DOMAIN Paths : \E method \in Keys :
       GetEndpointDetails(path, method) \/ ShowRequestExample(path, method)

Spec == Init /\ [][Next]_vars
-----------------------------------------------------------------------------
(***************************************************************************)
(* Properties.                                                             *)
(***************************************************************************)
\* A result holds the items of some entries, each once, in order, ties as in the document, and
\* no entry that is left out comes before one that is not.
Arranged(result, items, Before(_, _)) ==
  \E entry \in [DOMAIN result -> DOMAIN items] :
    /\ \A n \in DOMAIN result : result[n] = items[entry[n]]
    /\ \A m, n \in DOMAIN result : m < n =>
         /\ ~Before(result[n], result[m])
         /\ Before(result[m], result[n]) \/ entry[m] < entry[n]
    /\ \A n \in DOMAIN result : \A i \in DOMAIN items \ Range(entry) :
         /\ ~Before(items[i], result[n])
         /\ Before(result[n], items[i]) \/ entry[n] < i

\* find_endpoint_by_intent returns the best operations of the document for the query: in the
\* order of score, path and method, none that does not match, none left out for a worse one,
\* as many as were asked for within 1..MaxLimit.  The order of the document decides only
\* between spellings of one method of one path.
RankingExact ==
  answer.tool = "find" =>
    LET query == Tokenize(answer.words)
        matching == {i \in Operations(doc) : Score(query, doc[i]) > 0}
    IN /\ Arranged(answer.result, [i \in matching |-> Scored(query, doc[i])], Better)
       /\ Len(answer.result) =
            Cardinality({n \in 1..Cardinality(matching) :
                           n <= MaxLimit /\ (n = 1 \/ n <= answer.limit)})

\* list_endpoints returns each operation that has the tag, among all its tags, and the
\* method that are asked for, in whatever case, once and in order.
ListingExact ==
  answer.tool = "list" =>
    LET asked == {i \in Operations(doc) :
                    /\ answer.method = "" \/ Lower[answer.method] = Lower[doc[i].key]
                    /\ answer.tag \in {""} \cup Range(doc[i].value.tags)}
    IN /\ Arranged(answer.result, [i \in asked |-> Summary(doc[i])], ByTag)
       /\ Len(answer.result) = Cardinality(asked)

\* The item of a path writes its methods in lower case, as OpenAPI does.
LowerCase(path) ==
  \A i \in DOMAIN doc :
    doc[i].path = path /\ Lower[doc[i].key] \in ListedMethods => doc[i].key = Lower[doc[i].key]

LooksUpShown ==
  /\ answer.tool \in {"list", "find"}
  /\ answer'.tool \in {"details", "example"}
  /\ LowerCase(answer'.path)
  => \A shown \in Range(answer.result) :
       shown.path = answer'.path /\ shown.method = Upper[answer'.method]
         => /\ answer'.op = shown.op /\ answer'.op # NoOperation
            /\ answer'.tool = "details" =>
                 answer'.result = [path |-> shown.path, method |-> shown.method, op |-> shown.op]

\* "Use get_endpoint_details for the full view of a single endpoint" (server.py): a client
\* that has listed or ranked operations and then asks for the details or an example of one
\* of them, with the path and the method that were shown to it, in whatever case, is
\* answered with that operation - where the document's methods are in lower case.
ShownIsFound == [][LooksUpShown]_vars

ExampleShown == answer.tool = "example" /\ answer.result # NoOperation

\* The URL of an example is one of the endpoint's: the placeholders that are declared are
\* filled in, the rest of the path is kept, and every required query parameter is there.
UrlComplete ==
  ExampleShown =>
    LET declared == {p \in Range(answer.op.parameters) : p.in = "path"} IN
      /\ \A i \in DOMAIN Paths[answer.path] :
           LET segment == Paths[answer.path][i] IN
             IF \E p \in declared : segment = <<"param", p.name>>
             THEN answer.result.url[i][1] = "text"
             ELSE answer.result.url[i] = segment
      /\ \A p \in Range(answer.op.parameters) :
           p.in = "query" /\ p.required =>
             \E i \in DOMAIN answer.result.query : answer.result.query[i][1] = p.name

\* The body of an example is valid for its schema ("minimal valid JSON").
ExampleValid ==
  ExampleShown /\ answer.op.body # NoSchema => Valid(answer.op.body, answer.result.body)

\* No field of the body can be left out, where the schema says what is required.
ExampleMinimal ==
  ExampleShown /\ answer.op.body # NoSchema => Minimal(answer.op.body, answer.result.body)
=============================================================================

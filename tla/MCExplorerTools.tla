--------------------------- MODULE MCExplorerTools ---------------------------
(***************************************************************************)
(* Instances of ExplorerTools for TLC.                                     *)
(***************************************************************************)
EXTENDS ExplorerTools

MCPaths ==
  << << <<"text", "employees">> >>,
     << <<"text", "employees">>, <<"param", "id">> >>,
     << <<"text", "orders">>, <<"param", "region">>, <<"param", "id">> >> >>

MCTags == <<"Employees", "Orders">>

String == [type |-> "string"]
Integer == [type |-> "integer"]
Parameter(name, in, required, schema) ==
  [name |-> name, in |-> in, required |-> required, schema |-> schema]
Id == Parameter("id", "path", FALSE, Integer)

Operation(tags, words, parameters, body) ==
  [tags |-> tags, words |-> words, parameters |-> parameters, body |-> body]
Entry(path, key, value) == [path |-> path, key |-> key, value |-> value]

\* The spellings that occur, and those the tools know, in one case and in the other.
MCMethods == DOMAIN MethodNames \cup {"trace", "parameters"}
MCUpperOf == MethodNames @@ [trace |-> "TRACE", parameters |-> "PARAMETERS"]
MCMixed == [Get |-> "get", Put |-> "put"]
MCUpper == [k \in MCMethods \cup Range(MCUpperOf) \cup DOMAIN MCMixed |->
              IF k \in MCMethods THEN MCUpperOf[k]
              ELSE IF k \in DOMAIN MCMixed THEN MCUpperOf[MCMixed[k]] ELSE k]
MCLower == [k \in DOMAIN MCUpper |-> CHOOSE m \in MCMethods : MCUpperOf[m] = MCUpper[k]]

\* The entries of the sample API's document, with two tags on one operation and none on
\* another, entries of a path item that are not operations, a path with one method in two
\* spellings and a path with methods in other than lower case.
Employees ==
  { Entry(1, "get", Operation(<<"Employees">>, {"list", "employees"},
            <<Parameter("since", "query", TRUE, String)>>, NoSchema)),
    Entry(1, "post", Operation(<<"Employees", "Orders">>, {"create", "new", "employee"},
            << >>, NoSchema)) }
OneEmployee ==
  { Entry(2, "parameters", NoOperation),
    Entry(2, "delete", Operation(<< >>, {"delete", "an", "employee"}, <<Id>>, NoSchema)),
    Entry(2, "put", Operation(<<"Employees">>, {"update", "employee"},
            <<Id, Parameter("dry", "query", FALSE, String)>>, NoSchema)) }
TwoSpellings ==
  { Entry(1, "get", Operation(<<"Employees">>, {"list", "employees"}, << >>, NoSchema)),
    Entry(1, "GET", Operation(<<"Employees", "Orders">>, {"list", "employees"}, << >>, NoSchema)),
    Entry(1, "Get", Operation(<<"Orders">>, {"read", "orders"}, << >>, NoSchema)) }
OtherCase ==
  { Entry(2, "GET", Operation(<<"Employees">>, {"employee"}, <<Id>>, NoSchema)),
    Entry(2, "Put", Operation(<<"Employees">>, {"update", "employee"}, <<Id>>, NoSchema)) }
Order ==
  { Entry(3, "get", Operation(<<"Orders">>, {"orders"}, <<Id, Id>>, NoSchema)),
    Entry(3, "trace", Operation(<<"Orders">>, {"orders"}, << >>, NoSchema)) }

\* The documents that hold these path items, each in every order of its entries, and the
\* path items in every order.
DocumentsOf(items) ==
  { FlattenSeq(d) : d \in UNION { {f \in [DOMAIN p -> UNION {SetToAllKPermutations(i) : i \in items}] :
                                     \A n \in DOMAIN p : Range(f[n]) = p[n]} :
                                 p \in SetToAllKPermutations(items) } }

ListingDocuments ==
  DocumentsOf({Employees, OneEmployee \ {Entry(2, "parameters", NoOperation)}})
    \cup DocumentsOf({TwoSpellings, Order}) \cup DocumentsOf({OtherCase}) \cup DocumentsOf({OneEmployee})

\* Schemas that have examples of every kind, and what is made of them.
Word(w) == Json("string", w)
Leaves ==
  { String, Integer,
    [type |-> "number"], [type |-> "boolean"],
    [type |-> "string", format |-> "email"],
    [type |-> "string", format |-> "date-time"],
    [type |-> "string", enum |-> <<Word("PENDING"), Word("SHIPPED")>>],
    [type |-> "string", enum |-> <<Word("PENDING"), Word("SHIPPED")>>, default |-> Word("SHIPPED")],
    [type |-> "integer", default |-> Json("integer", "5"), example |-> Json("integer", "7")],
    [anyOf |-> <<String, Integer>>],
    [oneOf |-> <<Integer, String>>],
    [allOf |-> <<[type |-> "string", format |-> "uuid"]>>] }

Arrays == {[type |-> "array", items |-> s] : s \in Leaves} \cup {[type |-> "array"]}

\* Objects that say what they require, among two properties.
ObjectsOf(schemas) ==
  { [type |-> "object", properties |-> [a |-> s, b |-> t], required |-> r] :
      s \in schemas, t \in {String, Integer}, r \in {{"a"}, {"b"}, {"a", "b"}} }

ArraysOfObjects == {[type |-> "array", items |-> o] : o \in ObjectsOf(Leaves)}

Bodies == Leaves \cup Arrays \cup ObjectsOf(Leaves \cup Arrays)
          \cup ObjectsOf(ArraysOfObjects) \cup ObjectsOf(ObjectsOf(Leaves))

MCSchemas == Bodies \cup ArraysOfObjects \cup UNION {SubSchemas(s) : s \in Leaves}

\* The operators themselves, where SchemaExample has a parameter for a call to itself.  LET keeps
\* TLC's statistics of costs from following the calls without end.
MCExampleOf(schema) == LET given == ExampleForSchema(schema) IN given
MCIsValid(schema, v) == LET valid == Valid(schema, v) IN valid
MCIsMinimal(schema, v) == LET minimal == Minimal(schema, v) IN minimal

MCDepth[s \in MCSchemas] == 1 + Max({0} \cup {MCDepth[t] : t \in SubSchemas(s)})

\* The schemas below are such that their examples have to be valid and minimal.
ASSUME MCSchemasAreRight == SchemasExemplifiable /\ SchemasStated

BodyDocuments ==
  {<<Entry(1, "post", Operation(<<"Orders">>, {"orders"}, << >>, s))>> : s \in Bodies}

MCDocuments == ListingDocuments \cup BodyDocuments

\* No word, stopwords, a verb, a noun, both, a word of the path.
MCQueries ==
  { {}, {"the"}, {"delete"}, {"employee"}, {"create", "employee"}, {"list", "orders"},
    {"how", "do", "i", "update", "an", "employee"}, {"id"} }
=============================================================================

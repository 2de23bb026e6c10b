------------------------ MODULE ExplorerExamplesProofs ------------------------
(***************************************************************************)
(* Theorems about the examples of ExplorerTools: for schemas of any depth, *)
(* what example_for_schema gives is valid and minimal.                     *)
(***************************************************************************)
EXTENDS ExplorerTools, FiniteSetTheorems, SequenceTheorems, WellFoundedInduction, TLAPS
-----------------------------------------------------------------------------
(***************************************************************************)
(* Schemas and the schemas they consist of.                                *)
(***************************************************************************)
LEMMA PartsAreSchemas ==
  ASSUME NEW s \in Schemas
  PROVE  /\ \A n \in PropertiesOf(s) : s.properties[n] \in SubSchemas(s)
         /\ Has(s, "items") => s.items \in SubSchemas(s)
         /\ \A k \in Combinators \cap DOMAIN s :
              s[k] \in Seq(Schemas) /\ \A i \in DOMAIN s[k] : s[k][i] \in SubSchemas(s)
         /\ \A t \in SubSchemas(s) : t \in Schemas /\ Depth[t] \in Nat /\ Depth[t] < Depth[s]
<1>1. /\ Depth \in [Schemas -> Nat]
      /\ \A k \in Combinators \cap DOMAIN s : s[k] \in Seq(Schemas)
      /\ \A t \in SubSchemas(s) : t \in Schemas /\ Depth[t] < Depth[s]
  BY SchemaAssumption
<1>2. /\ \A n \in PropertiesOf(s) : s.properties[n] \in SubSchemas(s)
      /\ Has(s, "items") => s.items \in SubSchemas(s)
      /\ \A k \in Combinators \cap DOMAIN s : \A i \in DOMAIN s[k] : s[k][i] \in SubSchemas(s)
  BY DEF SubSchemas
<1> QED  BY <1>1, <1>2

\* If a schema is wrong, some wrong schema consists of right ones only: the least deep.
LEMMA LeastWrong ==
  ASSUME NEW W, W \subseteq Schemas, W # {}
  PROVE  \E s \in W : SubSchemas(s) \cap W = {}
<1> DEFINE T == {Depth[s] : s \in W}
<1>1. T \subseteq Nat /\ T # {}
  BY SchemaAssumption
<1>2. PICK n \in T : \A m \in T : <<m, n>> \notin OpToRel(<, Nat)
  BY <1>1, NatLessThanWellFounded, WFMin
<1>3. PICK s \in W : n = Depth[s]
  BY <1>2
<1>4. ASSUME NEW t \in SubSchemas(s), t \in W  PROVE FALSE
  <2>1. Depth[t] \in Nat /\ Depth[s] \in Nat /\ Depth[t] < Depth[s]
    BY <1>4, PartsAreSchemas, SchemaAssumption
  <2>2. <<Depth[t], n>> \in OpToRel(<, Nat)
    BY <1>3, <2>1 DEF OpToRel
  <2> QED  BY <1>2, <1>4, <2>2
<1> QED  BY <1>4

\* What the example of a schema is that gives none itself.
LEMMA ExampleIs ==
  ASSUME NEW s \in Schemas, ~Gives(s)
  PROVE  ExampleOf(s) =
           IF IsType(s, "object") \/ Has(s, "properties") THEN
             Json("object", [n \in ShownProperties(s) |-> ExampleOf(s.properties[n])])
           ELSE IF IsType(s, "array") THEN
             Json("array", <<IF Has(s, "items") THEN ExampleOf(s.items) ELSE Null>>)
           ELSE IF Placeholder(s) = Null /\ Alternatives(s) # << >> THEN
             ExampleOf(Head(Alternatives(s)))
           ELSE Placeholder(s)
<1>1. ExampleOf(s) = ExampleForSchema(s)
  BY SchemaAssumption
<1> QED  BY <1>1 DEF ExampleForSchema, Gives
-----------------------------------------------------------------------------
(***************************************************************************)
(* Validity, one kind of schema at a time.                                 *)
(***************************************************************************)
\* The examples of the schemas that a schema consists of are valid.
PartsValid(s) == \A t \in SubSchemas(s) : IsValid(t, ExampleOf(t))

LEMMA ObjectsValid ==
  ASSUME NEW s \in Schemas, Exemplifiable(s), PartsValid(s), ~Gives(s),
         IsType(s, "object") \/ Has(s, "properties")
  PROVE  Valid(s, ExampleOf(s))
<1> DEFINE v == ExampleOf(s)
<1>1. /\ v.type = "object" /\ DOMAIN v.value = ShownProperties(s)
      /\ \A n \in ShownProperties(s) : v.value[n] = ExampleOf(s.properties[n])
  BY ExampleIs DEF Json
<1>2. Has(s, "type") => s.type = "object"
  BY DEF Exemplifiable, IsType
<1>3. \A k \in Combinators : ~Has(s, k)
  BY DEF Exemplifiable, IsType, Has, Combinators
<1>4. ~Has(s, "enum") /\ RequiredOf(s) \subseteq PropertiesOf(s)
  BY DEF Exemplifiable
<1>5. RequiredOf(s) \subseteq ShownProperties(s) /\ ShownProperties(s) \subseteq PropertiesOf(s)
  BY <1>4 DEF ShownProperties
<1>6. \A n \in ShownProperties(s) : IsValid(s.properties[n], v.value[n])
  BY <1>1, <1>5, PartsAreSchemas DEF PartsValid
<1> HIDE DEF v
<1>7. Valid(s, v)
  BY <1>1, <1>2, <1>3, <1>4, <1>5, <1>6 DEF Valid, TypesOf, Combinators
<1> QED  BY <1>7 DEF v

LEMMA ArraysValid ==
  ASSUME NEW s \in Schemas, Exemplifiable(s), PartsValid(s), ~Gives(s),
         IsType(s, "array"), ~Has(s, "properties")
  PROVE  Valid(s, ExampleOf(s))
<1> DEFINE v == ExampleOf(s)
<1>1. ~IsType(s, "object") /\ s.type = "array"
  BY DEF IsType
<1>2. v = Json("array", <<IF Has(s, "items") THEN ExampleOf(s.items) ELSE Null>>)
  BY <1>1, ExampleIs
<1>3. v.type = "array" /\ DOMAIN v.value = {1}
      /\ (Has(s, "items") => v.value[1] = ExampleOf(s.items))
  BY <1>2 DEF Json
<1>4. \A k \in Combinators : ~Has(s, k)
  BY DEF Exemplifiable, IsType, Has, Combinators
<1>5. ~Has(s, "enum")
  BY DEF Exemplifiable
<1>6. Has(s, "items") => IsValid(s.items, v.value[1])
  BY <1>3, PartsAreSchemas DEF PartsValid
<1> HIDE DEF v
<1>7. Valid(s, v)
  BY <1>1, <1>3, <1>4, <1>5, <1>6 DEF Valid, TypesOf, Combinators
<1> QED  BY <1>7 DEF v

\* The example of a combinator is that of its first alternative.
LEMMA AlternativesValid ==
  ASSUME NEW s \in Schemas, Exemplifiable(s), PartsValid(s), ~Gives(s),
         NEW k \in Combinators, Has(s, k)
  PROVE  Valid(s, ExampleOf(s))
<1> DEFINE v == ExampleOf(s)
           choices == s[k]
<1>1. /\ ~Has(s, "type") /\ ~Has(s, "properties")
      /\ \A j \in Combinators : Has(s, j) => j = k
      /\ choices # << >> /\ FirstDecides(s, k)
  <2>1. /\ choices # << >> /\ FirstDecides(s, k)
        /\ DOMAIN s \cap ({"type", "properties"} \cup Combinators) = {k}
    BY DEF Exemplifiable, Has
  <2>2. k # "type" /\ k # "properties"
    BY DEF Combinators
  <2>3. ~Has(s, "type") /\ ~Has(s, "properties")
    BY <2>1, <2>2 DEF Has
  <2>4. \A j \in Combinators : Has(s, j) => j = k
    BY <2>1 DEF Has
  <2> QED  BY <2>1, <2>3, <2>4
<1>2. ~Has(s, "enum") /\ ~Has(s, "format") /\ ~Has(s, "items") /\ RequiredOf(s) = {}
  BY <1>1 DEF Exemplifiable, IsType, PropertiesOf
<1>3. choices \in Seq(Schemas) /\ \A i \in DOMAIN choices : choices[i] \in SubSchemas(s)
  BY PartsAreSchemas DEF Has
<1>4. 1 \in DOMAIN choices /\ Head(choices) = choices[1]
  BY <1>1, <1>3, EmptySeq, LenProperties
<1>5. Alternatives(s) = choices
  BY <1>1 DEF Alternatives, Combinators
<1>6. Placeholder(s) = Null
  BY <1>1 DEF Placeholder, IsType
<1>7. v = ExampleOf(choices[1])
  BY <1>1, <1>4, <1>5, <1>6, ExampleIs DEF IsType
<1>8. IsValid(choices[1], v)
  BY <1>3, <1>4, <1>7 DEF PartsValid
<1>9. \A i \in DOMAIN choices \ {1} :
        (k = "oneOf" => ~IsValid(choices[i], v)) /\ (k = "allOf" => IsValid(choices[i], v))
  BY <1>1, <1>7 DEF FirstDecides
<1> HIDE DEF v
<1>10. k = "oneOf" => Cardinality({i \in DOMAIN choices : IsValid(choices[i], v)}) = 1
  <2> SUFFICES ASSUME k = "oneOf"
               PROVE  Cardinality({i \in DOMAIN choices : IsValid(choices[i], v)}) = 1
    OBVIOUS
  <2>1. {i \in DOMAIN choices : IsValid(choices[i], v)} = {1}
    BY <1>4, <1>8, <1>9
  <2> QED  BY <2>1, FS_Singleton
<1>11. k = "anyOf" => \E i \in DOMAIN choices : IsValid(choices[i], v)
  BY <1>4, <1>8
<1>12. k = "allOf" => \A i \in DOMAIN choices : IsValid(choices[i], v)
  BY <1>8, <1>9
<1>13. /\ Has(s, "oneOf") => k = "oneOf"
       /\ Has(s, "anyOf") => k = "anyOf"
       /\ Has(s, "allOf") => k = "allOf"
  BY <1>1 DEF Combinators
<1>14. PropertiesOf(s) = {}
  BY <1>1 DEF PropertiesOf
<1>15. Valid(s, v)
  BY <1>1, <1>2, <1>10, <1>11, <1>12, <1>13, <1>14 DEF Valid
<1> QED  BY <1>15 DEF v

\* Everything else has a placeholder, or is of no type or the type "null".
LEMMA PlaceholdersValid ==
  ASSUME NEW s \in Schemas, Exemplifiable(s), ~Gives(s),
         ~IsType(s, "object"), ~IsType(s, "array"), ~Has(s, "properties"),
         \A k \in Combinators : ~Has(s, k)
  PROVE  Valid(s, ExampleOf(s))
<1> DEFINE v == ExampleOf(s)
<1>1. Alternatives(s) = << >>
  BY DEF Alternatives, Combinators
<1>2. v = Placeholder(s)
  BY <1>1, ExampleIs
<1>3. /\ ~Has(s, "enum") /\ (Has(s, "type") => s.type \in JsonTypes)
      /\ (Has(s, "format") =>
            IsType(s, "string") /\ s.format \in {"date-time", "uuid", "email"})
  BY DEF Exemplifiable
<1>4. v.type \notin {"object", "array"}
  BY <1>2 DEF Placeholder, Json, Null
<1>5. Has(s, "type") => v.type \in TypesOf(s.type)
  BY <1>2, <1>3 DEF Placeholder, Json, Null, IsType, JsonTypes, TypesOf
<1>6. Has(s, "format") /\ v.type = "string" => v.value \in StringsOf(s.format)
  BY <1>2, <1>3 DEF Placeholder, Json, StringsOf
<1> HIDE DEF v
<1>7. Valid(s, v)
  BY <1>3, <1>4, <1>5, <1>6 DEF Valid, Combinators
<1> QED  BY <1>7 DEF v

\* The example of a schema is valid if those of the schemas it consists of are.
LEMMA OneLevelValid ==
  ASSUME NEW s \in Schemas, Exemplifiable(s), PartsValid(s)
  PROVE  Valid(s, ExampleOf(s))
<1>1. CASE Gives(s)
  BY <1>1 DEF Exemplifiable
<1>2. CASE ~Gives(s) /\ (IsType(s, "object") \/ Has(s, "properties"))
  BY <1>2, ObjectsValid
<1>3. CASE ~Gives(s) /\ IsType(s, "array") /\ ~Has(s, "properties")
  BY <1>3, ArraysValid
<1>4. CASE ~Gives(s) /\ \E k \in Combinators : Has(s, k)
  BY <1>4, AlternativesValid
<1> QED  BY <1>1, <1>2, <1>3, <1>4, PlaceholdersValid

\* So every example is.
LEMMA EveryExampleValid ==
  ASSUME SchemasExemplifiable
  PROVE  \A s \in Schemas : Valid(s, ExampleOf(s))
<1> DEFINE W == {s \in Schemas : ~Valid(s, ExampleOf(s))}
<1> SUFFICES ASSUME W # {} PROVE FALSE
  OBVIOUS
<1>1. PICK s \in W : SubSchemas(s) \cap W = {}
  BY LeastWrong
<1>2. \A t \in SubSchemas(s) : IsValid(t, ExampleOf(t))
  BY <1>1, PartsAreSchemas, SchemaAssumption
<1> QED  BY <1>2, OneLevelValid DEF PartsValid, SchemasExemplifiable
-----------------------------------------------------------------------------
(***************************************************************************)
(* Minimality.                                                             *)
(***************************************************************************)
PartsMinimal(s) == \A t \in SubSchemas(s) : IsMinimal(t, ExampleOf(t))

\* An object that lacks a required field is not valid.
LEMMA RequiredStays ==
  ASSUME NEW s, NEW v, NEW n \in RequiredOf(s)
  PROVE  ~Valid(s, Without(v, n))
<1>1. Without(v, n).type = "object" /\ n \notin DOMAIN Without(v, n).value
  BY DEF Without, Json
<1> QED  BY <1>1 DEF Valid

\* The example of a schema is minimal if those of the schemas it consists of are.
LEMMA OneLevelMinimal ==
  ASSUME NEW s \in Schemas, Exemplifiable(s), RequirementsStated(s), PartsMinimal(s)
  PROVE  Minimal(s, ExampleOf(s))
<1> DEFINE v == ExampleOf(s)
<1>1. CASE Gives(s)
  BY <1>1 DEF RequirementsStated
<1>2. CASE ~Gives(s) /\ Has(s, "properties")
  <2>1. /\ v.type = "object" /\ DOMAIN v.value = ShownProperties(s)
        /\ \A n \in ShownProperties(s) : v.value[n] = ExampleOf(s.properties[n])
    BY <1>2, ExampleIs DEF Json
  <2>2. ASSUME NEW n \in ShownProperties(s)
        PROVE  n \in RequiredOf(s) /\ IsMinimal(s.properties[n], v.value[n])
    <3>1. n \in PropertiesOf(s) /\ n \in RequiredOf(s)
      BY <1>2, <2>2 DEF ShownProperties, RequirementsStated
    <3> QED  BY <2>1, <2>2, <3>1, PartsAreSchemas DEF PartsMinimal
  <2> HIDE DEF v
  <2>3. Minimal(s, v)
    BY <2>1, <2>2, RequiredStays DEF Minimal
  <2> QED  BY <2>3 DEF v
<1>3. CASE ~Gives(s) /\ ~Has(s, "properties") /\ Has(s, "items")
  <2>1. IsType(s, "array") /\ ~IsType(s, "object")
    BY <1>3 DEF Exemplifiable, IsType
  <2>2. v = Json("array", <<ExampleOf(s.items)>>)
    BY <1>3, <2>1, ExampleIs
  <2>3. v.type = "array" /\ DOMAIN v.value = {1} /\ v.value[1] = ExampleOf(s.items)
    BY <2>2 DEF Json
  <2>4. IsMinimal(s.items, v.value[1])
    BY <1>3, <2>3, PartsAreSchemas DEF PartsMinimal
  <2> HIDE DEF v
  <2>5. Minimal(s, v)
    BY <1>3, <2>3, <2>4 DEF Minimal
  <2> QED  BY <2>5 DEF v
<1>4. CASE ~Has(s, "properties") /\ ~Has(s, "items")
  BY <1>4 DEF Minimal
<1> QED  BY <1>1, <1>2, <1>3, <1>4

LEMMA EveryExampleMinimal ==
  ASSUME SchemasExemplifiable, SchemasStated
  PROVE  \A s \in Schemas : Minimal(s, ExampleOf(s))
<1> DEFINE W == {s \in Schemas : ~Minimal(s, ExampleOf(s))}
<1> SUFFICES ASSUME W # {} PROVE FALSE
  OBVIOUS
<1>1. PICK s \in W : SubSchemas(s) \cap W = {}
  BY LeastWrong
<1>2. \A t \in SubSchemas(s) : IsMinimal(t, ExampleOf(t))
  BY <1>1, PartsAreSchemas, SchemaAssumption
<1> QED  BY <1>2, OneLevelMinimal DEF PartsMinimal, SchemasExemplifiable, SchemasStated
-----------------------------------------------------------------------------
(***************************************************************************)
(* The examples that are shown.                                            *)
(***************************************************************************)
\* What show_request_example has given is the example of the schema of the operation's body.
BodyShown ==
  ExampleShown /\ answer.op.body # NoSchema =>
    answer.op.body \in Schemas /\ answer.result.body = ExampleOf(answer.op.body)

ShownInv == doc \in Documents /\ BodyShown

LEMMA BodiesAreSchemas ==
  ASSUME NEW d \in Documents, NEW path, NEW method, FindOperation(d, path, method) # NoOperation
  PROVE  FindOperation(d, path, method).body \in Schemas \cup {NoSchema}
<1> DEFINE found == {i \in DOMAIN d : d[i].path = path /\ d[i].key = Lower[method]}
<1>1. found # {} /\ FindOperation(d, path, method) = d[CHOOSE i \in found : TRUE].value
  BY DEF FindOperation
<1>2. (CHOOSE i \in found : TRUE) \in found
  BY <1>1
<1>3. PICK i \in DOMAIN d : FindOperation(d, path, method) = d[i].value
  BY <1>1, <1>2
<1> QED  BY <1>3, ToolsAssumption

LEMMA BodiesAreShown == Spec => []ShownInv
<1>1. Init => ShownInv
  BY DEF Init, ShownInv, BodyShown, ExampleShown
<1>2. ShownInv /\ [Next]_vars => ShownInv'
  <2> SUFFICES ASSUME ShownInv, [Next]_vars
               PROVE  ShownInv'
    OBVIOUS
  <2>0. doc \in Documents /\ BodyShown
    BY DEF ShownInv
  <2>1. ASSUME NEW tag, NEW method, ListEndpoints(tag, method)
        PROVE  ShownInv'
    BY <2>0, <2>1 DEF ShownInv, ListEndpoints, BodyShown, ExampleShown
  <2>2. ASSUME NEW words, NEW limit, FindEndpointByIntent(words, limit)
        PROVE  ShownInv'
    BY <2>0, <2>2 DEF ShownInv, FindEndpointByIntent, BodyShown, ExampleShown
  <2>3. ASSUME NEW path, NEW method, GetEndpointDetails(path, method)
        PROVE  ShownInv'
    BY <2>0, <2>3 DEF ShownInv, GetEndpointDetails, BodyShown, ExampleShown
  <2>4. ASSUME NEW path, NEW method, ShowRequestExample(path, method)
        PROVE  ShownInv'
    <3> DEFINE op == FindOperation(doc, path, method)
               result == IF op = NoOperation THEN NoOperation ELSE Example(op, path)
    <3>1. doc' = doc /\ answer'.op = op /\ answer'.result = result
      BY <2>4 DEF ShowRequestExample
    <3> SUFFICES ASSUME result # NoOperation, op.body # NoSchema
                 PROVE  op.body \in Schemas /\ result.body = ExampleOf(op.body)
      BY <2>0, <3>1 DEF ShownInv, BodyShown, ExampleShown
    <3>2. op # NoOperation /\ result = Example(op, path)
      OBVIOUS
    <3>3. op.body \in Schemas
      BY <2>0, <3>2, BodiesAreSchemas
    <3>4. result.body = ExampleForSchema(op.body)
      BY <3>2 DEF Example
    <3> QED  BY <3>3, <3>4, SchemaAssumption
  <2>5. CASE UNCHANGED vars
    BY <2>0, <2>5 DEF ShownInv, vars, BodyShown, ExampleShown
  <2> QED  BY <2>1, <2>2, <2>3, <2>4, <2>5 DEF Next
<1> QED  BY <1>1, <1>2, PTL DEF Spec

\* What example_for_schema (examples.py) gives for the body of a request is valid, for schemas
\* of any depth, in any document, if what the document gives itself is valid, its keywords
\* agree and the first alternative of a combinator decides.  Without that it is not.
THEOREM ExamplesAreValid ==
  ASSUME SchemasExemplifiable
  PROVE  Spec => []ExampleValid
<1>1. ShownInv => ExampleValid
  BY EveryExampleValid DEF ShownInv, BodyShown, ExampleValid
<1> QED  BY <1>1, BodiesAreShown, PTL

\* And none of its fields can be left out, at any depth, if objects say what they require.
THEOREM ExamplesAreMinimal ==
  ASSUME SchemasExemplifiable, SchemasStated
  PROVE  Spec => []ExampleMinimal
<1>1. ShownInv => ExampleMinimal
  BY EveryExampleMinimal DEF ShownInv, BodyShown, ExampleMinimal
<1> QED  BY <1>1, BodiesAreShown, PTL
=============================================================================

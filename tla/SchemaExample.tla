---------------------------- MODULE SchemaExample ----------------------------
(***************************************************************************)
(* example_for_schema of mcp-api-explorer (examples.py), and when a value  *)
(* is valid for a schema.                                                  *)
(*                                                                         *)
(* A schema is a record of the keywords it has: type, format, example,     *)
(* default, enum, properties (a function of names), required, items,       *)
(* oneOf, anyOf, allOf.  A JSON value carries its type, so that values of  *)
(* different types can be compared.                                        *)
(*                                                                         *)
(* What recurses over a schema is defined one level at a time: where the   *)
(* code calls itself stands a parameter, and SchemaAssumption says that    *)
(* the parameter is the operator itself.                                   *)
(***************************************************************************)
EXTENDS Integers, Sequences, FiniteSets

CONSTANTS
  Schemas,         \* the schemas of the documents, and those they consist of
  Depth,           \* how deep they are nested, by schema
  ExampleOf(_),    \* ExampleForSchema
  IsValid(_, _),   \* Valid
  IsMinimal(_, _)  \* Minimal

Json(type, value) == [type |-> type, value |-> value]
Null == Json("null", "null")

Has(schema, keyword) == keyword \in DOMAIN schema
IsType(schema, type) == Has(schema, "type") /\ schema.type = type
RequiredOf(schema) == IF Has(schema, "required") THEN schema.required ELSE {}
PropertiesOf(schema) == IF Has(schema, "properties") THEN DOMAIN schema.properties ELSE {}

Combinators == {"oneOf", "anyOf", "allOf"}

\* The schemas that a schema consists of.
SubSchemas(schema) ==
  {schema.properties[n] : n \in PropertiesOf(schema)}
  \cup (IF Has(schema, "items") THEN {schema.items} ELSE {})
  \cup UNION {{schema[k][i] : i \in DOMAIN schema[k]} : k \in Combinators \cap DOMAIN schema}
-----------------------------------------------------------------------------
\* The alternatives that are tried: those of the first combinator that has any.
Alternatives(schema) ==
  LET Lists(k) == Has(schema, k) /\ schema[k] # << >> IN
    CASE Lists("oneOf") -> schema.oneOf
      [] ~Lists("oneOf") /\ Lists("anyOf") -> schema.anyOf
      [] ~Lists("oneOf") /\ ~Lists("anyOf") /\ Lists("allOf") -> schema.allOf
      [] OTHER -> << >>

\* A faulty variant: every property is shown.
EveryProperty(schema) == PropertiesOf(schema)

\* The properties an example shows: the required ones, or all if none is.
ShownProperties(schema) ==
  IF RequiredOf(schema) = {} THEN PropertiesOf(schema)
  ELSE PropertiesOf(schema) \cap RequiredOf(schema)

\* A faulty variant: the format of a string is not looked at.
PlainPlaceholder(schema) ==
  CASE IsType(schema, "string") -> Json("string", "string")
    [] IsType(schema, "integer") \/ IsType(schema, "number") -> Json("integer", "0")
    [] IsType(schema, "boolean") -> Json("boolean", "False")
    [] OTHER -> Null

Placeholder(schema) ==
  CASE IsType(schema, "string") ->
         Json("string",
              CASE Has(schema, "format") /\ schema.format \in {"date-time", "date"} -> "instant"
                [] Has(schema, "format") /\ schema.format \in {"uuid", "email"} -> schema.format
                [] OTHER -> "string")
    [] IsType(schema, "integer") \/ IsType(schema, "number") -> Json("integer", "0")
    [] IsType(schema, "boolean") -> Json("boolean", "False")
    [] OTHER -> Null

ExampleForSchema(schema) ==
  IF Has(schema, "example") THEN schema.example
  ELSE IF Has(schema, "default") THEN schema.default
  ELSE IF Has(schema, "enum") /\ schema.enum # << >> THEN Head(schema.enum)
  ELSE IF IsType(schema, "object") \/ Has(schema, "properties") THEN
    Json("object", [n \in ShownProperties(schema) |-> ExampleOf(schema.properties[n])])
  ELSE IF IsType(schema, "array") THEN
    Json("array", <<IF Has(schema, "items") THEN ExampleOf(schema.items) ELSE Null>>)
  ELSE IF Placeholder(schema) = Null /\ Alternatives(schema) # << >> THEN
    ExampleOf(Head(Alternatives(schema)))
  ELSE Placeholder(schema)
-----------------------------------------------------------------------------
(***************************************************************************)
(* JSON Schema, for the keywords above: what an example has to satisfy.    *)
(***************************************************************************)
TypesOf(type) == IF type = "number" THEN {"number", "integer"} ELSE {type}

StringsOf(format) == IF format = "date-time" THEN {"instant"} ELSE {format}

Valid(schema, v) ==
  /\ Has(schema, "type") => v.type \in TypesOf(schema.type)
  /\ Has(schema, "format") /\ v.type = "string" => v.value \in StringsOf(schema.format)
  /\ Has(schema, "enum") => \E i \in DOMAIN schema.enum : schema.enum[i] = v
  /\ v.type = "object" =>
       /\ RequiredOf(schema) \subseteq DOMAIN v.value
       /\ \A n \in PropertiesOf(schema) \cap DOMAIN v.value :
            IsValid(schema.properties[n], v.value[n])
  /\ v.type = "array" /\ Has(schema, "items") =>
       \A i \in DOMAIN v.value : IsValid(schema.items, v.value[i])
  /\ Has(schema, "oneOf") =>
       Cardinality({i \in DOMAIN schema.oneOf : IsValid(schema.oneOf[i], v)}) = 1
  /\ Has(schema, "anyOf") => \E i \in DOMAIN schema.anyOf : IsValid(schema.anyOf[i], v)
  /\ Has(schema, "allOf") => \A i \in DOMAIN schema.allOf : IsValid(schema.allOf[i], v)

\* An object without one of its fields.
Without(v, n) == Json("object", [m \in DOMAIN v.value \ {n} |-> v.value[m]])

\* No field of an object can be left out, at any depth.
Minimal(schema, v) ==
  /\ v.type = "object" /\ Has(schema, "properties") =>
       \A n \in DOMAIN v.value :
         ~Valid(schema, Without(v, n)) /\ IsMinimal(schema.properties[n], v.value[n])
  /\ v.type = "array" /\ Has(schema, "items") =>
       \A i \in DOMAIN v.value : IsMinimal(schema.items, v.value[i])
-----------------------------------------------------------------------------
\* Schemas are finite trees, and what a definition above says of the schemas within one
\* is what it says of them as schemas of their own.
ASSUME SchemaAssumption ==
  /\ Depth \in [Schemas -> Nat]
  /\ \A s \in Schemas :
       /\ \A k \in Combinators \cap DOMAIN s : s[k] \in Seq(Schemas)
       /\ \A t \in SubSchemas(s) : t \in Schemas /\ Depth[t] < Depth[s]
       /\ ExampleOf(s) = ExampleForSchema(s)
       /\ \A t \in Schemas : IsValid(s, ExampleOf(t)) <=> Valid(s, ExampleOf(t))
       /\ IsMinimal(s, ExampleOf(s)) <=> Minimal(s, ExampleOf(s))
-----------------------------------------------------------------------------
(***************************************************************************)
(* What a document must bring for its examples to be right.                *)
(***************************************************************************)
JsonTypes == {"object", "array", "string", "integer", "number", "boolean", "null"}

\* The schema itself gives the value to show.
Gives(schema) ==
  Has(schema, "example") \/ Has(schema, "default") \/ (Has(schema, "enum") /\ schema.enum # << >>)

\* The alternatives of a combinator: the example of the first is valid for no other one of
\* oneOf, and for every other one of allOf.
FirstDecides(schema, k) ==
  \A i \in DOMAIN schema[k] \ {1} :
    LET fits == IsValid(schema[k][i], ExampleOf(schema[k][1])) IN
      (k = "oneOf" => ~fits) /\ (k = "allOf" => fits)

\* A value that is given is valid.  Otherwise the keywords are those of one kind of schema:
\* a typed one with keywords of its type, or one combinator; what is required is a property,
\* and a format is one for which there is a placeholder ("date" is not).
Exemplifiable(schema) ==
  /\ Gives(schema) => Valid(schema, ExampleOf(schema))
  /\ ~Gives(schema) =>
       /\ ~Has(schema, "enum")
       /\ Has(schema, "type") => schema.type \in JsonTypes
       /\ Has(schema, "format") =>
            IsType(schema, "string") /\ schema.format \in {"date-time", "uuid", "email"}
       /\ Has(schema, "items") => IsType(schema, "array")
       /\ Has(schema, "properties") /\ Has(schema, "type") => IsType(schema, "object")
       /\ RequiredOf(schema) \subseteq PropertiesOf(schema)
       /\ \A k \in Combinators \cap DOMAIN schema :
            /\ schema[k] # << >> /\ FirstDecides(schema, k)
            /\ DOMAIN schema \cap ({"type", "properties"} \cup Combinators) = {k}

\* A value that is given is minimal, and an object says what it requires.
RequirementsStated(schema) ==
  IF Gives(schema) THEN Minimal(schema, ExampleOf(schema))
  ELSE PropertiesOf(schema) # {} => RequiredOf(schema) # {}

SchemasExemplifiable == \A s \in Schemas : Exemplifiable(s)
SchemasStated == \A s \in Schemas : RequirementsStated(s)
=============================================================================

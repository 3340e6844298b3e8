------------------------------- MODULE Operations -------------------------------
(***************************************************************************)
(* From a schema and a document of operations to code for both sides, and  *)
(* to requests: what CodeGenerator generates, and what the server makes of *)
(* the documents that generated and handwritten clients send.              *)
(***************************************************************************)
EXTENDS ClientCode, ServerCode

CONSTANTS
  SchemasInUse,      \* schemas
  DocumentsInUse,    \* documents
  Depths,            \* values of maxDepth
  ScalarTypes        \* the option scalarTypes: type mappings

\* A @ts directive, or an entry of scalarTypes, says at least a type.
IsMapping(m) ==
  /\ m = [type |-> m.type, inputType |-> m.inputType, from |-> m.from]
  /\ m.type # "none"

\* What graphql-js sees to when it builds a schema; and "none" names no type.
IsSchema(s) ==
  /\ IsFiniteSet(Names(s)) /\ "none" \notin Names(s)
  /\ \A t \in WithFields(s) : \A f \in FieldNames(s, t) :
       /\ Field(s, t, f).type.named \in OfKind(s, {"object", "interface", "union", "scalar", "enum"})
       /\ Field(s, t, f).type.wrappers \in Seq({"list", "nonNull"})
  /\ \A fields \in {Field(s, p[1], p[2]).args : p \in FieldsOf(s, WithFields(s))}
                      \cup {s.types[t].fields : t \in OfKind(s, {"input"})}
                      \cup {s.directives[e] : e \in DOMAIN s.directives} :
       \A f \in DOMAIN fields : fields[f].type.named \in OfKind(s, {"scalar", "enum", "input"})
  /\ \A t \in Composite(s) : PossibleTypes(s, t) \subseteq Objects(s)
  /\ \A t \in Objects(s) :
       /\ \A n \in DOMAIN Interfaces(s, t) : Interfaces(s, t)[n] \in OfKind(s, {"interface"})
       /\ \A i \in OfKind(s, {"interface"}) :
            t \in PossibleTypes(s, i) <=> \E n \in DOMAIN Interfaces(s, t) : Interfaces(s, t)[n] = i
  /\ \A t \in Names(s) : HasDirective(s, t) => IsMapping(s.types[t].ts)

ASSUME SchemasAssumption == \A s \in SchemasInUse : IsSchema(s)

\* What the parser makes of text
IsDocument(d) ==
  /\ IsFiniteSet(Nodes(d)) /\ IsFiniteSet(DOMAIN d.fragments)
  /\ \A x \in Nodes(d) :
       /\ d.nodes[x].kind \in {"field", "inline", "spread"}
       /\ d.nodes[x].selections \subseteq Nodes(d)
       /\ d.nodes[x].kind = "spread" => d.nodes[x].selections = {}
  /\ \A o \in DOMAIN d.operations : d.operations[o].selections \subseteq Nodes(d)
  /\ \A f \in DOMAIN d.fragments : d.fragments[f].selections \subseteq Nodes(d)
  /\ \A t \in DOMAIN d.scalars : d.scalars[t] # NoDirective => IsMapping(d.scalars[t])

ASSUME DocumentsAssumption == \A d \in DocumentsInUse : IsDocument(d)

ASSUME OptionsAssumption ==
  Depths \subseteq Nat /\ \A t \in DOMAIN ScalarTypes : IsMapping(ScalarTypes[t])

VARIABLES
  schema, document, maxDepth,
  generated,         \* what has been generated: "server", "client"
  client,            \* the generated client code
  server,            \* the generated server code
  requests           \* the documents that were sent, and whether they passed limitDepth()

vars == <<schema, document, maxDepth, generated, client, server, requests>>

Init ==
  /\ schema \in SchemasInUse
  /\ document \in DocumentsInUse
  /\ maxDepth \in Depths
  /\ generated = {}
  /\ client = <<>>
  /\ server = <<>>
  /\ requests = {}

ClientTypes == ClientTypeMap(schema, document, ScalarTypes)

\* ServerCodeGenerator.generateServer()
GenerateServer ==
  /\ "server" \notin generated
  /\ generated' = generated \cup {"server"}
  /\ server' = [declared |-> ServerDeclared(schema) \cup ServerImported(schema),
                referenced |-> ServerReferenced(schema)]
  /\ UNCHANGED <<schema, document, maxDepth, client, requests>>

\* ClientCodeGenerator.generateClient(), of documents that are valid
GenerateClient ==
  /\ "client" \notin generated
  /\ Valid(schema, document)
  /\ Generatable(schema, document)
  /\ generated' = generated \cup {"client"}
  /\ client' = [declared |-> ClientDeclared(schema, document) \cup ClientImported(ClientTypes),
                referenced |-> ClientReferenced(schema, document, ClientTypes),
                documents |-> [o \in DOMAIN document.operations |-> OperationDocument(document, o)],
                types |-> [p \in Generated(schema, document) |->
                             ForObject(schema, document, p[1], p[2])],
                data |-> [o \in DOMAIN document.operations |-> DataType(schema, document, o)],
                fragments |-> [f \in DOMAIN document.fragments |-> FragmentType(schema, document, f)],
                names |-> OperationNames(document)]
  /\ UNCHANGED <<schema, document, maxDepth, server, requests>>

Request(d) ==
  requests' = requests \cup {[document |-> d, accepted |-> LimitDepthAccepts(d, maxDepth)]}

\* A generated client sends OperationNameToDocument[o].
SendGenerated(o) ==
  /\ "client" \in generated
  /\ Request(client.documents[o])
  /\ UNCHANGED <<schema, document, maxDepth, generated, client, server>>

\* Another client sends all of the document.
SendWhole ==
  /\ Request(document)
  /\ UNCHANGED <<schema, document, maxDepth, generated, client, server>>

Next ==
  \/ GenerateServer
  \/ GenerateClient
  \/ \E o \in DOMAIN document.operations : SendGenerated(o)
  \/ SendWhole

Spec == Init /\ [][Next]_vars

--------------------------------------------------------------------------------
(* No generated file refers to a name that it neither declares nor imports, for  *)
(* types of any kind and any @ts directives on them.                             *)
GeneratedNamesDeclared ==
  /\ "server" \in generated =>
       server.referenced \subseteq server.declared \cup Ambient(ServerTypeMap(schema))
  /\ "client" \in generated =>
       client.referenced \subseteq client.declared \cup Ambient(ClientTypes)

(* What a generated client sends has all fragments that the operation leads to,  *)
(* and no others: either would make the server refuse it.                        *)
SentDocumentsStandAlone ==
  "client" \in generated =>
    \A o \in DOMAIN document.operations :
      DOMAIN client.documents[o].fragments = Reached(document, {}, document.operations[o].selections)

(* limitDepth() accepts exactly the documents none of whose operations has a     *)
(* field deeper than the limit, counted through fragments, or goes in circles.   *)
DepthIsLimited ==
  \A r \in requests :
    r.accepted <=> ~Circular(r.document, Introspection) /\ WithinDepth(r.document, maxDepth)

--------------------------------------------------------------------------------
(* Answers and their types *)

\* The levels of a type that are a list, or what it names, without "nonNull" around
Nullable(type) ==
  {n \in 1..Len(type.wrappers) + 1 :
     /\ n = Len(type.wrappers) + 1 \/ type.wrappers[n] # "nonNull"
     /\ n = 1 \/ type.wrappers[n - 1] # "nonNull"}

\* The alternatives that are intersected for objects of type t: those at the places, and
\* those of the fragments they name.
Intersected(places, t) ==
  Closure([p \in DOMAIN client.types |->
             {q \in UNION {client.fragments[f] : f \in client.types[p].fragments} : q[2] = t}],
          places)

FieldsTyped(places, t) == UNION {client.types[p].fields : p \in Intersected(places, t)}

\* A triple is <<places, selections, type>>: do the alternatives at the places describe
\* the answer to the selections on an object of the type, as far as the object goes?
FitsHere(w) ==
  LET typed == FieldsTyped(w[1], w[3])
      asked == Asked(schema, document, w[2], w[3])
  IN  /\ {client.types[p].typename : p \in Intersected(w[1], w[3])} \ {"none"}
           = IF CollectFields(schema, document, w[2], w[3]) = asked THEN {} ELSE {w[3]}
      /\ {f.key : f \in typed} = {document.nodes[x].key : x \in asked}
      /\ \A f \in typed : \A x \in WithKey(document, asked, f.key) :
           LET type == FieldOf(schema, document, w[3], x)
           IN  /\ f.named = type.named
               /\ f.required <=> IsNonNull(type)
               /\ f.maybes = Nullable(type)

\* The triples of the objects below.
ObjectsBelow(w) ==
  LET asked == Asked(schema, document, w[2], w[3])
      key(x) == document.nodes[x].key
      of(x) == {f.of : f \in {g \in FieldsTyped(w[1], w[3]) : g.key = key(x)}}
  IN  UNION {{<<{p \in DOMAIN client.types : p[1] \in of(x) /\ p[2] = u},
                MergedSelections(document, asked, key(x)), u>> :
                u \in TypesBelow(schema, document, x, w[3])} :
             x \in WithSelections(schema, document, asked, w[3])}

\* All triples, from an operation
Answers(o) ==
  Closure([w \in (SUBSET DOMAIN client.types) \X (SUBSET Nodes(document)) \X Objects(schema) |->
             ObjectsBelow(w)],
          {<<client.data[o], document.operations[o].selections, Root(schema, document, o)>>})

\* What the generator does not support: conditions that name a union or nothing, an
\* alias for __typename, and two fields with one key side by side.  (So are @skip and
\* @include on fields that are not null, and fields that start with "__".)
Supported(d) ==
  /\ \A x \in Nodes(d) :
       /\ d.nodes[x].kind = "inline" => d.nodes[x].on # "none"
       /\ d.nodes[x].kind # "field" => Kind(schema, Condition(d, x)) # "union"
       /\ IsTypeName(d, x) => d.nodes[x].key = "__typename"
  /\ \A selections \in {d.nodes[x].selections : x \in Nodes(d)}
                          \cup {d.operations[o].selections : o \in DOMAIN d.operations}
                          \cup {d.fragments[f].selections : f \in DOMAIN d.fragments} :
       \A x, y \in OfKinds(d, selections, "field") : d.nodes[x].key = d.nodes[y].key => x = y

(* The generated type of an operation has the fields of its answers, as nullable *)
(* as in the schema, for every type of object an answer may consist of, no       *)
(* matter how its fields are spread over inline fragments and fragments.         *)
TypesFitAnswers ==
  "client" \in generated /\ Supported(document) =>
    \A o \in DOMAIN document.operations : \A w \in Answers(o) : FitsHere(w)

==================================================================================

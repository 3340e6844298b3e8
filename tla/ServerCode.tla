------------------------------- MODULE ServerCode -------------------------------
(***************************************************************************)
(* codegen/ServerCodeGenerator.ts: the names that the server code of a     *)
(* schema declares and refers to, and the resolvers that its type          *)
(* Resolvers allows.                                                       *)
(***************************************************************************)
EXTENDS CommonCode

--------------------------------------------------------------------------------
(* Type mappings *)

\* getDirective(node.astNode, 'ts'), with the argument inputType as it is used
Mapped(s, t) ==
  IF HasFields(s, t) THEN [s.types[t].ts EXCEPT !.inputType = "none"] ELSE s.types[t].ts

HasDirective(s, t) == s.types[t].ts # NoDirective

\* Scalars that are not GraphQL's own are strings if they have no directive.
ServerTypeMap(s) ==
  [t \in DOMAIN CommonTypeMap(s)
         \cup {u \in OfKind(s, {"object", "interface", "enum"}) : HasDirective(s, u)} |->
     CASE t \in Names(s) /\ HasDirective(s, t) -> Mapped(s, t)
       [] t \in Names(s) \ Standard /\ ~HasDirective(s, t) -> Builtin("string")
       [] OTHER -> CommonTypeMap(s)[t]]

--------------------------------------------------------------------------------
(* Declarations *)

WithFields(s) == OfKind(s, {"object", "interface"})
Composite(s) == OfKind(s, {"object", "interface", "union"})

HasArgs(s, t, f) == DOMAIN Field(s, t, f).args # {}

ArgsName(t, f) == <<t, f, "Args">>

FieldsOf(s, types) == UNION {{<<t, f>> : f \in FieldNames(s, t)} : t \in types}

\* generateType() and generateUnion()
DeclaredTypes(s) == {<<"T", t>> : t \in Composite(s)}

\* generateResolver() and generateEnumResolver()
DeclaredResolvers(s) ==
  {<<"R", t>> : t \in Composite(s)} \cup {<<"E", t>> : t \in OfKind(s, {"enum"})}

Bug_DeclaredArgs(s) ==
  {ArgsName(p[1], p[2]) :
     p \in {q \in FieldsOf(s, OfKind(s, {"object"})) : HasArgs(s, q[1], q[2])}}

\* generateArgsForTypes(): fields without arguments get no interface.
DeclaredArgs(s) ==
  {ArgsName(p[1], p[2]) : p \in {q \in FieldsOf(s, WithFields(s)) : HasArgs(s, q[1], q[2])}}

ServerDeclared(s) ==
  DeclaredHelpers \cup {<<"AsyncResult">>, <<"Resolvers">>, <<"ResolverMap">>}
    \cup DeclaredTypes(s) \cup DeclaredResolvers(s) \cup DeclaredArgs(s)
    \cup DeclaredInputs(s) \cup DeclaredDirectives(s)

\* generateImports()
ServerImported(s) ==
  {<<"ts", "GraphQLResolveInfo">>, <<"ts", "GraphQLEnumType">>, <<"ts", "GraphQLScalarType">>}
    \cup TypeMapImports(ServerTypeMap(s))

--------------------------------------------------------------------------------
(* References *)

\* generateResolverMapEntryType(): input objects get none.
ResolverMapRefs(s) ==
  {<<"R", t>> : t \in Composite(s)} \cup {<<"E", t>> : t \in OfKind(s, {"enum"})}
    \cup {<<"ts", "GraphQLEnumType">>, <<"ts", "GraphQLScalarType">>}

\* generateField() and generateUnion()
TypeRefs(s) ==
  (UNION {OutputRef(ServerTypeMap(s), Field(s, p[1], p[2]).type, FALSE) : p \in FieldsOf(s, WithFields(s))})
    \cup {NamedOutputRef(ServerTypeMap(s), u) :
            u \in UNION {PossibleTypes(s, t) : t \in OfKind(s, {"union"})}}

\* generateArgsRef()
ArgsRefs(s) ==
  {IF HasArgs(s, p[1], p[2]) THEN ArgsName(p[1], p[2]) ELSE <<"ts", "never">> :
     p \in FieldsOf(s, WithFields(s))}

\* generateFieldResolver() and generateSubscriptionFieldResolver(), with the
\* source of fields, generateIsTypeOf() and generateResolveType()
ResolverRefs(s) ==
  (UNION {OutputRef(ServerTypeMap(s), Field(s, p[1], p[2]).type, TRUE) : p \in FieldsOf(s, WithFields(s))})
    \cup {NamedOutputRef(ServerTypeMap(s), t) : t \in Composite(s)}
    \cup {<<"AsyncResult">>, <<"ts", "GraphQLResolveInfo">>}

\* generateEnumValueResolver()
EnumRefs(s) == {NamedOutputRef(ServerTypeMap(s), t) : t \in OfKind(s, {"enum"})}

\* generateArgs()
ArgsFieldRefs(s) ==
  UNION {InputFields(ServerTypeMap(s), Field(s, p[1], p[2]).args) : p \in FieldsOf(s, WithFields(s))}

ServerReferenced(s) ==
  ResolverMapRefs(s) \cup TypeRefs(s) \cup ArgsRefs(s) \cup ResolverRefs(s) \cup EnumRefs(s)
    \cup ArgsFieldRefs(s) \cup InputRefs(s, ServerTypeMap(s))
    \cup DirectiveRefs(s, ServerTypeMap(s))

--------------------------------------------------------------------------------
(* The type Resolvers *)

\* An entry as the generated interfaces have it: R<type>, E<type> or an instance.
TypedFor(s, t, entry) ==
  CASE Kind(s, t) = "object" ->
         entry.form = "record" /\ DOMAIN entry.of \subseteq FieldNames(s, t) \cup {"__isTypeOf"}
    [] Kind(s, t) = "interface" ->
         entry.form = "record" /\ DOMAIN entry.of \subseteq FieldNames(s, t) \cup {"__resolveType"}
    [] Kind(s, t) = "union" ->
         entry.form = "record" /\ DOMAIN entry.of \subseteq {"__resolveType"}
    [] Kind(s, t) = "enum" ->
         \/ entry.form = "GraphQLEnumType"
         \/ entry.form = "record" /\ DOMAIN entry.of = FieldNames(s, t)
    [] Kind(s, t) = "scalar" -> entry.form = "GraphQLScalarType"
    [] OTHER -> FALSE

\* Every entry is optional, which lets undefined through; input objects have no
\* other type.
TypedEntry(s, t, entry) ==
  TypedFor(s, t, entry) \/ (entry.form = "undefined" /\ DOMAIN entry.of = {})

\* The marker has any value.
Marker == "__isGeneratedResolvers"

TypedResolvers(s, resolvers) ==
  \A t \in DOMAIN resolvers : t = Marker \/ (t \in Names(s) /\ TypedEntry(s, t, resolvers[t]))

==================================================================================

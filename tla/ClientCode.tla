------------------------------- MODULE ClientCode -------------------------------
(***************************************************************************)
(* codegen/ClientCodeGenerator.ts: from the operations that a client uses  *)
(* to the documents it sends, the types of what it gets, and tables from   *)
(* operations to both.                                                     *)
(*                                                                         *)
(* The TypeScript type of a selection set is a union with one alternative  *)
(* for each possible object type, so it is made of alternatives at places  *)
(* <<selections, object type>>.  An alternative is a record of its fields, *)
(* its __typename, if it has one, and the fragments whose types it is      *)
(* intersected with.                                                       *)
(***************************************************************************)
EXTENDS CommonCode, Documents

\* mapScalars(), after those of the schema: the document's, then the option's
ClientTypeMap(s, d, scalarTypes) ==
  [t \in DOMAIN CommonTypeMap(s) \cup DOMAIN d.scalars \cup DOMAIN scalarTypes |->
     CASE t \in DOMAIN scalarTypes -> scalarTypes[t]
       [] t \in DOMAIN d.scalars \ DOMAIN scalarTypes ->
            IF d.scalars[t] = NoDirective THEN Builtin("string") ELSE d.scalars[t]
       [] OTHER -> CommonTypeMap(s)[t]]

--------------------------------------------------------------------------------
(* Documents *)

\* initFragmentMap()
Dependencies(d, f) == Spreads(d, d.fragments[f].selections)

Bug_Collect(d) ==
  LET collect[w \in (SUBSET DOMAIN d.fragments) \X (SUBSET DOMAIN d.fragments)] == w[1] \cup w[2]
  IN  collect

\* The loop of collect(): dependencies that are left, and names so far, to names in the
\* end.  Each call adds its name first.  (A call with a name that is there adds nothing.)
Collect(d) ==
  LET collect[w \in (SUBSET DOMAIN d.fragments) \X (SUBSET DOMAIN d.fragments)] ==
        IF w[1] = {} THEN w[2]
        ELSE LET f == CHOOSE g \in w[1] : TRUE
                 names == IF f \in w[2] THEN w[2]
                          ELSE collect[<<Dependencies(d, f), w[2] \cup {f}>>]
             IN  collect[<<w[1] \ {f}, names>>]
  IN  collect

\* generateOperationFragments(): the fragments printed with an operation
OperationFragments(d, o) == Collect(d)[<<Spreads(d, d.operations[o].selections), {}>>]

\* generateOperationDocument()
OperationDocument(d, o) ==
  [nodes |-> d.nodes,
   operations |-> [p \in {o} |-> d.operations[p]],
   fragments |-> [f \in OperationFragments(d, o) |-> d.fragments[f]],
   scalars |-> d.scalars]

--------------------------------------------------------------------------------
(* Types of selection sets *)

\* checkTypeCondition(): unions are not looked at.
CheckTypeCondition(s, on, t) == t = on \/ \E n \in DOMAIN Interfaces(s, t) : Interfaces(s, t)[n] = on

Bug_HasTypeNameField(s, d, selections, t) == \E x \in selections : IsTypeName(d, x)

HasTypeNameField(s, d, selections, t) ==
  \E x \in Closure([y \in Nodes(d) |->
                      IF d.nodes[y].kind # "field" /\ CheckTypeCondition(s, Condition(d, y), t)
                      THEN Onward(d, y, {}) ELSE {}],
                   selections) : IsTypeName(d, x)

\* generateFieldType(): the levels of a type that are put into Maybe<>.  A list or what
\* a type names is optional except directly inside of a non-null.
MaybeLevels(type) ==
  LET levels[w \in (1..Len(type.wrappers) + 1) \X BOOLEAN] ==
        LET maybe == IF w[2] THEN {w[1]} ELSE {}
        IN  IF w[1] = Len(type.wrappers) + 1 THEN maybe
            ELSE IF type.wrappers[w[1]] = "nonNull" THEN levels[<<w[1] + 1, FALSE>>]
            ELSE maybe \cup levels[<<w[1] + 1, TRUE>>]
  IN  levels[<<1, TRUE>>]

FieldOf(s, d, t, x) == Field(s, t, d.nodes[x].name).type

\* generateField(); "of" are the selections of an object.
Entry(s, d, t, x) ==
  [key |-> d.nodes[x].key,
   required |-> IsNonNull(FieldOf(s, d, t, x)),
   maybes |-> MaybeLevels(FieldOf(s, d, t, x)),
   named |-> FieldOf(s, d, t, x).named,
   of |-> d.nodes[x].selections]

\* Inline fragments are put in place, fragments referred to.
InPlace(s, d, selections, t) ==
  Closure([x \in Nodes(d) |->
             IF d.nodes[x].kind = "inline" /\ CheckTypeCondition(s, d.nodes[x].on, t)
             THEN d.nodes[x].selections ELSE {}],
          selections)

FieldsInPlace(s, d, selections, t) ==
  {x \in OfKinds(d, InPlace(s, d, selections, t), "field") : ~IsTypeName(d, x)}

SpreadsInPlace(s, d, selections, t) ==
  {x \in OfKinds(d, InPlace(s, d, selections, t), "spread") : CheckTypeCondition(s, Condition(d, x), t)}

\* generateSelectionSetForObject()
ForObject(s, d, selections, t) ==
  [fields |-> {Entry(s, d, t, x) : x \in FieldsInPlace(s, d, selections, t)},
   typename |-> IF HasTypeNameField(s, d, selections, t) THEN t ELSE "none",
   fragments |-> {d.nodes[x].name : x \in SpreadsInPlace(s, d, selections, t)}]

\* The places of the alternatives that generateSelectionSet() generates
SelectionSet(s, selections, parent) == {selections} \X PossibleTypes(s, parent)

\* generateOperationDataType() and generateFragmentType()
DataType(s, d, o) == SelectionSet(s, d.operations[o].selections, Root(s, d, o))

FragmentType(s, d, f) == SelectionSet(s, d.fragments[f].selections, d.fragments[f].on)

\* generateFieldCompositeType() of fields
FieldTypes(s, d, fields, t) ==
  UNION {SelectionSet(s, d.nodes[x].selections, FieldOf(s, d, t, x).named) :
           x \in WithSelections(s, d, fields, t)}

\* The places of all alternatives
Generated(s, d) ==
  Closure([p \in (SUBSET Nodes(d)) \X Objects(s) |->
             FieldTypes(s, d, FieldsInPlace(s, d, p[1], p[2]), p[2])],
          UNION ({DataType(s, d, o) : o \in DOMAIN d.operations}
                   \cup {FragmentType(s, d, f) : f \in DOMAIN d.fragments}))

\* Neither requireField() nor checkTypeCondition() throws.
Generatable(s, d) ==
  \A p \in Generated(s, d) :
    /\ \A x \in FieldsInPlace(s, d, p[1], p[2]) : d.nodes[x].name \in FieldNames(s, p[2])
    /\ \A x \in OfKinds(d, InPlace(s, d, p[1], p[2]), "inline") : d.nodes[x].on # "none"

--------------------------------------------------------------------------------
(* Tables and names *)

OfOperation(d, operation) ==
  {o \in DOMAIN d.operations : d.operations[o].operation = operation}

\* generateVariablesRef()
VariablesRef(d, o) ==
  IF DOMAIN d.operations[o].variables = {} THEN <<"ts", "undefined">> ELSE <<"V", o>>

\* generateVariablesType(): operations without variables get none.
DeclaredVariables(d) ==
  {<<"V", o>> : o \in {p \in DOMAIN d.operations : DOMAIN d.operations[p].variables # {}}}

\* generateClient(), and generateOperationTypings() for the tables
ClientDeclared(s, d) ==
  DeclaredHelpers \cup {<<"typeRef">>} \cup DeclaredInputs(s) \cup DeclaredVariables(d)
    \cup {<<part, o>> : part \in {"D", "X", "Document"}, o \in DOMAIN d.operations}
    \cup {<<"F", f>> : f \in DOMAIN d.fragments}
    \cup {<<table>> : table \in {"OperationNameToDocument", "OperationNameToVariables",
                                 "OperationNameToData", "OperationName", "QueryName",
                                 "MutationName", "SubscriptionName", "OperationTypings"}}

ClientImported(map) == {<<"ts", "ExecutionResult">>} \cup TypeMapImports(map)

\* The names of leaves and fragments in an alternative
Leaves(s, map, alternative) ==
  {NamedOutputRef(map, f.named) : f \in {g \in alternative.fields : ~IsComposite(s, g.named)}}
    \cup {<<"Maybe">> : f \in {g \in alternative.fields : g.maybes # {}}}
    \cup {<<"F", f>> : f \in alternative.fragments}

ClientReferenced(s, d, map) ==
  (UNION {Leaves(s, map, ForObject(s, d, p[1], p[2])) : p \in Generated(s, d)})
    \cup (UNION {InputFields(map, [v \in DOMAIN d.operations[o].variables |->
                                     [type |-> d.operations[o].variables[v]]]) : o \in DOMAIN d.operations})
    \cup InputRefs(s, map)
    \cup {VariablesRef(d, o) : o \in DOMAIN d.operations}
    \cup {<<part, o>> : part \in {"D", "Document"}, o \in DOMAIN d.operations}
    \cup {<<"ts", "ExecutionResult">>}

\* generateQueryNames() and its like; generateOperationNames() is their union.
OperationNames(d) ==
  [operation \in {"query", "mutation", "subscription"} |-> OfOperation(d, operation)]

==================================================================================

------------------------------- MODULE CommonCode -------------------------------
(***************************************************************************)
(* codegen/CommonCodeGenerator.ts and codegen/ImportCodeGenerator.ts: what *)
(* the generated code of servers and clients has in common.  Of the text   *)
(* they produce, the model keeps the names that it declares and the names  *)
(* that it refers to.                                                      *)
(*                                                                         *)
(* A name of the generated code is a tuple of the parts that it is put     *)
(* together from: <<"T", "User">> is TUser.  <<"ts", n>> is a name n that  *)
(* comes from outside.                                                     *)
(***************************************************************************)
EXTENDS Naturals, Schemas

Standard == {"Int", "Float", "String", "Boolean", "ID"}

\* A type mapping without import, and without a type of its own for input.
Builtin(ts) == [type |-> ts, inputType |-> "none", from |-> "none"]

StandardType(t) ==
  CASE t \in {"Int", "Float"} -> "number"
    [] t \in {"String", "ID"} -> "string"
    [] t = "Boolean" -> "boolean"

\* mapUnknownScalars(), then mapStandardScalars()
CommonTypeMap(s) ==
  [t \in OfKind(s, {"scalar"}) \cup Standard |->
     Builtin(IF t \in Standard THEN StandardType(t) ELSE "unknown")]

\* addTypeMapImports(): the names that are imported.
TypeMapImports(map) ==
  (UNION {{<<"ts", map[t].type>>, <<"ts", map[t].inputType>>} :
            t \in {u \in DOMAIN map : map[u].from # "none"}})
    \ {<<"ts", "none">>}

\* The names that are expected to be there: TypeScript's, and those of mappings
\* that name no module.
Ambient(map) ==
  (UNION {{<<"ts", map[t].type>>, <<"ts", map[t].inputType>>} :
            t \in {u \in DOMAIN map : map[u].from = "none"}})
    \cup {<<"ts", "never">>, <<"ts", "undefined">>}

NamedOutputRef(map, t) ==
  IF t \in DOMAIN map THEN <<"ts", map[t].type>> ELSE <<"T", t>>

NamedInputRef(map, t) ==
  CASE t \in DOMAIN map /\ map[t].inputType # "none" -> <<"ts", map[t].inputType>>
    [] t \in DOMAIN map /\ map[t].inputType = "none" -> <<"ts", map[t].type>>
    [] OTHER -> <<"T", t>>

\* generateOutputRef() and generateInputRef() put the reference into Array<> at
\* each list, and into Maybe<> where the type is not non-null and nothing else
\* says so: what remains of a type is its reference and its Maybe.
UsesMaybe(type) ==
  \E n \in DOMAIN type.wrappers :
    /\ type.wrappers[n] = "list"
    /\ n = Len(type.wrappers) \/ type.wrappers[n + 1] # "nonNull"

MaybeOf(type, optional) ==
  IF UsesMaybe(type) \/ (optional /\ ~IsNonNull(type)) THEN {<<"Maybe">>} ELSE {}

OutputRef(map, type, optional) == {NamedOutputRef(map, type.named)} \cup MaybeOf(type, optional)

InputRef(map, type, optional) == {NamedInputRef(map, type.named)} \cup MaybeOf(type, optional)

\* generateInputField(), of the fields of an input object and of arguments
InputFields(map, fields) == UNION {InputRef(map, fields[f].type, FALSE) : f \in DOMAIN fields}

DeclaredHelpers == {<<"Maybe">>}

\* generateInputObject() and generateEnum() of all types
DeclaredInputs(s) == {<<"T", t>> : t \in OfKind(s, {"input", "enum"})}

InputRefs(s, map) ==
  UNION {InputFields(map, s.types[t].fields) : t \in OfKind(s, {"input"})}

\* generateDirectives(): only those with arguments get an interface.
DeclaredDirectives(s) ==
  {<<d, "Directive">> : d \in {e \in DOMAIN s.directives : DOMAIN s.directives[e] # {}}}

DirectiveRefs(s, map) ==
  UNION {InputFields(map, s.directives[d]) : d \in DOMAIN s.directives}

==================================================================================

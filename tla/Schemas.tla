--------------------------------- MODULE Schemas ---------------------------------
(***************************************************************************)
(* A GraphQL schema and the types in it, as graphql-js shows them to the   *)
(* code.  A schema is a record of                                          *)
(*   types       a function from type names to types,                      *)
(*   hidden      the names of the introspection types ("__..."),           *)
(*   roots       the names of the root types, by operation,                *)
(*   directives  a function from directive names to their arguments.       *)
(* A type is a record of its kind, its fields (of an enum: its values), a  *)
(* function from names to fields, the sequence of its interfaces, the set  *)
(* of its possible types, and its @ts directive, or NoDirective.  A field  *)
(* has a type and arguments; a reference to a type is its name inside of   *)
(* wrappers, the outermost first.                                          *)
(***************************************************************************)
EXTENDS Sequences

NoDirective == [type |-> "none", inputType |-> "none", from |-> "none"]

Names(s) == DOMAIN s.types

Kind(s, t) == s.types[t].kind

OfKind(s, kinds) == {t \in Names(s) : Kind(s, t) \in kinds}

\* isObjectType(type) || isInterfaceType(type)
HasFields(s, t) == Kind(s, t) \in {"object", "interface"}

IsComposite(s, t) == Kind(s, t) \in {"object", "interface", "union"}

FieldNames(s, t) == DOMAIN s.types[t].fields

Field(s, t, f) == s.types[t].fields[f]

Interfaces(s, t) == s.types[t].interfaces

\* What an object of the type may be an instance of, itself included.
PossibleTypes(s, t) == IF Kind(s, t) = "object" THEN {t} ELSE s.types[t].possible

IsNonNull(type) == type.wrappers # <<>> /\ Head(type.wrappers) = "nonNull"

IsList(type) == type.wrappers # <<>> /\ Head(type.wrappers) = "list"

OfType(type) == [type EXCEPT !.wrappers = Tail(@)]

==================================================================================

------------------------------ MODULE SchemaManager ------------------------------
(***************************************************************************)
(* server/GraphQLSchemaManager.ts as GraphQLServer.bootstrap() drives it:  *)
(* default resolvers, resolvers, error handler, and the resolvers of the   *)
(* SDL, set one after the other on the types of one schema.                *)
(*                                                                         *)
(* Whatever can be set has a place: <<type, key, slot>>, where the key is  *)
(* a field, an enum value, or the name of a type's own function, and a     *)
(* field has the slots "resolve" and "subscribe".  Some operations throw   *)
(* half-way: the schema keeps what was set before.                         *)
(*                                                                         *)
(* A resolver map is a function from type names to entries, an entry a     *)
(* function from keys to functions with the form it has: "record", an      *)
(* instance of "GraphQLEnumType" or "GraphQLScalarType", or "undefined",   *)
(* which has no keys.                                                      *)
(***************************************************************************)
EXTENDS Naturals, Sequences, SequencesExt, TLC, ServerCode

CONSTANTS
  Schema,
  ResolversInputs,       \* [list: is it an array?, maps: a sequence of resolver maps]
  Undefined              \* no function

\* The interfaces of a type are interfaces whose fields it has: a schema without
\* that is refused by GraphQL before any resolver is set.
ASSUME SchemaAssumption ==
  \A t \in OfKind(Schema, {"object", "interface"}) :
    /\ Interfaces(Schema, t) \in Seq(Names(Schema))
    /\ \A n \in DOMAIN Interfaces(Schema, t) :
         LET i == Interfaces(Schema, t)[n]
         IN  Kind(Schema, i) = "interface" /\ FieldNames(Schema, i) \subseteq FieldNames(Schema, t)

ASSUME ResolversAssumption ==
  \A r \in ResolversInputs :
    /\ r.list \in BOOLEAN
    /\ Len(r.maps) \in Nat /\ DOMAIN r.maps = 1..Len(r.maps)
    /\ r.list \/ Len(r.maps) = 1

VARIABLES
  input,                 \* options.resolvers
  defaults,              \* is there a defaultFieldResolver?
  handler,               \* is there a resolverErrorHandler?
  stitching,             \* stitching, with an SDL that was read
  phase,                 \* the operation under way
  todo,                  \* the types it has not begun with
  current,               \* the type whose interfaces it goes through
  rest,                  \* the interfaces that are left
  set,                   \* the function at each place
  wrapped                \* the places where the error handler is around it

options == <<input, defaults, handler, stitching>>
vars == <<options, phase, todo, current, rest, set, wrapped>>

--------------------------------------------------------------------------------
(* Places *)

Private == {"__isTypeOf", "__resolveType"}

\* The function that a type has of its own.
OwnKey(t) ==
  CASE Kind(Schema, t) = "object" -> "__isTypeOf"
    [] Kind(Schema, t) \in {"interface", "union"} -> "__resolveType"
    [] OTHER -> "instance"

\* Subscription fields get their resolver in the slot "subscribe".
Slot(t) == IF t = Schema.roots.subscription THEN "subscribe" ELSE "resolve"

Target(t, key) ==
  IF HasFields(Schema, t) /\ key \in FieldNames(Schema, t)
  THEN <<t, key, Slot(t)>>
  ELSE <<t, key, "own">>

Places ==
  (UNION {{<<t, f, slot>> : f \in FieldNames(Schema, t), slot \in {"resolve", "subscribe"}} :
            t \in OfKind(Schema, {"object", "interface"})})
  \cup (UNION {{<<t, v, "own">> : v \in FieldNames(Schema, t)} : t \in OfKind(Schema, {"enum"})})
  \cup {<<t, OwnKey(t), "own">> : t \in Names(Schema)}

\* The loops over all types leave out "__..." types.
ResolvePlaces ==
  {p \in Places : p[3] = "resolve" /\ p[1] \notin Schema.hidden}

--------------------------------------------------------------------------------
(* util/mergeResolvers.ts *)

\* {...g, ...f}
Spread(g, f) ==
  [k \in DOMAIN g \cup DOMAIN f |-> IF k \in DOMAIN f THEN f[k] ELSE g[k]]

\* An instance of GraphQLScalarType replaces, everything else is spread into a
\* plain object: an instance of GraphQLEnumType, too, and undefined adds nothing.
Merged(map, resolvers) ==
  [t \in DOMAIN map \cup DOMAIN resolvers |->
     CASE t \notin DOMAIN resolvers -> map[t]
       [] t \in DOMAIN resolvers /\ resolvers[t].form = "GraphQLScalarType" -> resolvers[t]
       [] OTHER -> [form |-> "record",
                    of |-> IF t \in DOMAIN map THEN Spread(map[t].of, resolvers[t].of)
                                               ELSE resolvers[t].of]]

NoResolvers == [t \in {} |-> Undefined]

\* The first n maps of a list
mergedResolvers[n \in 0..Len(input.maps)] ==
  IF n = 0 THEN NoResolvers ELSE Merged(mergedResolvers[n - 1], input.maps[n])

mergeResolvers == IF input.list THEN mergedResolvers[Len(input.maps)] ELSE input.maps[1]

\* Does the type have an entry that is not undefined?
HasEntry(t) == t \in DOMAIN mergeResolvers /\ mergeResolvers[t].form # "undefined"

--------------------------------------------------------------------------------
(* Setting the resolvers of one type *)

\* The keys of an entry that set something.
Accepted(t, entry) ==
  CASE Kind(Schema, t) \in {"object", "interface"} ->
         {k \in DOMAIN entry.of : \/ k \in FieldNames(Schema, t)
                                  \/ k = OwnKey(t) /\ entry.of[k] # Undefined}
    [] Kind(Schema, t) = "union" ->
         {k \in DOMAIN entry.of : k = OwnKey(t) /\ entry.of[k] # Undefined}
    [] OTHER -> DOMAIN entry.of

Bug_Throws(t, entry) ==
  \/ entry.form = "undefined"
  \/ CASE Kind(Schema, t) \in {"object", "interface"} ->
            ~(DOMAIN entry.of \subseteq FieldNames(Schema, t))
       [] Kind(Schema, t) = "union" -> FALSE
       [] Kind(Schema, t) = "enum" -> entry.form # "GraphQLEnumType"
       [] Kind(Schema, t) = "scalar" -> entry.form # "GraphQLScalarType"
       [] OTHER -> TRUE

\* The entries setResolversToType() throws at.
Throws(t, entry) ==
  \/ entry.form = "undefined"
  \/ CASE Kind(Schema, t) \in {"object", "interface"} ->
            ~(DOMAIN entry.of \subseteq FieldNames(Schema, t) \cup Private)
       [] Kind(Schema, t) = "union" -> FALSE
       [] Kind(Schema, t) = "enum" ->
            /\ entry.form # "GraphQLEnumType"
            /\ ~(DOMAIN entry.of \subseteq FieldNames(Schema, t))
       [] Kind(Schema, t) = "scalar" -> entry.form # "GraphQLScalarType"
       [] OTHER -> TRUE

Assign(t, entry, keys) ==
  LET targets == {Target(t, k) : k \in keys}
  IN  /\ set' = [p \in Places |-> IF p \in targets THEN entry.of[p[2]] ELSE set[p]]
      /\ wrapped' = wrapped \ targets

\* Object and interface types keep the fields that came before an unknown one, and
\* their own function, which comes first.
SetResolversToType(t, entry) ==
  \/ /\ ~Throws(t, entry)
     /\ Assign(t, entry, Accepted(t, entry))
     /\ UNCHANGED phase
  \/ /\ Throws(t, entry)
     /\ \E keys \in SUBSET Accepted(t, entry) :
          /\ IF HasFields(Schema, t)
             THEN {OwnKey(t)} \cap Accepted(t, entry) \subseteq keys
             ELSE keys = {}
          /\ Assign(t, entry, keys)
     /\ phase' = "failed"

--------------------------------------------------------------------------------
(* GraphQLServer.bootstrap() *)

Init ==
  /\ input \in ResolversInputs
  /\ defaults \in BOOLEAN /\ handler \in BOOLEAN /\ stitching \in BOOLEAN
  /\ phase = "default"
  /\ todo = {}
  /\ current = Undefined
  /\ rest = <<>>
  /\ set = [p \in Places |-> IF p[1] \in Schema.hidden /\ p[3] = "resolve"
                             THEN "graphql" ELSE Undefined]
  /\ wrapped = {}

Enter(next) ==
  /\ phase' = next
  /\ todo' = IF next \in {"inherit", "explicit"} THEN DOMAIN mergeResolvers ELSE {}
  /\ rest' = <<>>

\* setDefaultFieldResolver()
SetDefaults ==
  /\ phase = "default"
  /\ set' = [p \in Places |->
               IF defaults /\ p \in ResolvePlaces /\ set[p] = Undefined THEN "default" ELSE set[p]]
  /\ Enter("inherit")
  /\ UNCHANGED <<options, current, wrapped>>

Bug_BeginType ==
  /\ phase = "inherit" /\ rest = <<>>
  /\ \E t \in todo :
       /\ todo' = todo \ {t}
       /\ current' = t
       /\ rest' = IF t \in Names(Schema) /\ HasFields(Schema, t) THEN Interfaces(Schema, t) ELSE <<>>
  /\ UNCHANGED <<options, phase, set, wrapped>>

\* setInheritedResolvers(): an unknown type throws.
BeginType ==
  /\ phase = "inherit" /\ rest = <<>>
  /\ \E t \in todo :
       \/ /\ t \in Names(Schema)
          /\ todo' = todo \ {t}
          /\ current' = t
          /\ rest' = IF HasFields(Schema, t) THEN Interfaces(Schema, t) ELSE <<>>
          /\ UNCHANGED phase
       \/ /\ t \notin Names(Schema)
          /\ phase' = "failed"
          /\ UNCHANGED <<todo, current, rest>>
  /\ UNCHANGED <<options, set, wrapped>>

Bug_InheritFrom ==
  /\ phase = "inherit" /\ rest # <<>>
  /\ rest' = Front(rest)
  /\ IF HasEntry(Last(rest))
     THEN SetResolversToType(current, mergeResolvers[Last(rest)])
     ELSE UNCHANGED <<set, wrapped, phase>>
  /\ UNCHANGED <<options, todo, current>>

\* Each interface of the type, as declared, if the map has an entry for it.
InheritFrom ==
  /\ phase = "inherit" /\ rest # <<>>
  /\ rest' = Tail(rest)
  /\ IF HasEntry(Head(rest))
     THEN SetResolversToType(current, mergeResolvers[Head(rest)])
     ELSE UNCHANGED <<set, wrapped, phase>>
  /\ UNCHANGED <<options, todo, current>>

EndInheritance ==
  /\ phase = "inherit" /\ todo = {} /\ rest = <<>>
  /\ Enter("explicit")
  /\ UNCHANGED <<options, current, set, wrapped>>

\* setResolversWithoutInheritance()
SetExplicit ==
  /\ phase = "explicit"
  /\ \E t \in todo :
       /\ IF t \in Names(Schema)
          THEN SetResolversToType(t, mergeResolvers[t])
          ELSE phase' = "failed" /\ UNCHANGED <<set, wrapped>>
       /\ todo' = todo \ {t}
  /\ UNCHANGED <<options, current, rest>>

EndExplicit ==
  /\ phase = "explicit" /\ todo = {}
  /\ Enter("handle")
  /\ UNCHANGED <<options, current, set, wrapped>>

Bug_WrapResolvers ==
  /\ phase = "handle"
  /\ wrapped' = IF handler THEN {p \in ResolvePlaces : set[p] # Undefined} ELSE wrapped
  /\ Enter("sdl")
  /\ UNCHANGED <<options, current, set>>

\* setResolverErrorHandler()
WrapResolvers ==
  /\ phase = "handle"
  /\ wrapped' = IF handler THEN ResolvePlaces ELSE wrapped
  /\ Enter("sdl")
  /\ UNCHANGED <<options, current, set>>

SdlResolvers == [form |-> "record", of |-> [f \in {"_sdl", "_sdlVersion"} |-> "sdl"]]

\* setSdlResolvers()
SetSdlResolvers ==
  /\ phase = "sdl"
  /\ \/ /\ stitching
        /\ "Query" \in Names(Schema)
        /\ \/ /\ ~Throws("Query", SdlResolvers)
              /\ Assign("Query", SdlResolvers, {"_sdl", "_sdlVersion"})
              /\ phase' = "done"
           \/ /\ Throws("Query", SdlResolvers)
              /\ \E keys \in SUBSET Accepted("Query", SdlResolvers) :
                   Assign("Query", SdlResolvers, keys)
              /\ phase' = "failed"
     \/ /\ stitching
        /\ "Query" \notin Names(Schema)
        /\ phase' = "failed"
        /\ UNCHANGED <<set, wrapped>>
     \/ /\ ~stitching
        /\ phase' = "done"
        /\ UNCHANGED <<set, wrapped>>
  /\ UNCHANGED <<options, todo, current, rest>>

Next ==
  \/ SetDefaults
  \/ BeginType
  \/ InheritFrom
  \/ EndInheritance
  \/ SetExplicit
  \/ EndExplicit
  \/ WrapResolvers
  \/ SetSdlResolvers

Spec == Init /\ [][Next]_vars

--------------------------------------------------------------------------------
\* Does the function come from the SDL?
OfSdl(t, f) == stitching /\ t = "Query" /\ f \in {"_sdl", "_sdlVersion"}

\* The interfaces, by their place in the declaration, that have a resolver for a field.
Givers(t, f) ==
  LET is == Interfaces(Schema, t)
  IN  {n \in DOMAIN is : HasEntry(is[n]) /\ f \in DOMAIN mergeResolvers[is[n]].of}

Default(t) ==
  IF Slot(t) = "subscribe" THEN Undefined
  ELSE IF t \in Schema.hidden THEN "graphql"
  ELSE IF defaults THEN "default" ELSE Undefined

(* Where the resolver of a field comes from when the server is up: from the      *)
(* type's own entry in the resolvers, else, if the type has an entry at all,     *)
(* from the last of its interfaces that has one for the field, else from the     *)
(* default.  No order of the types in the maps, and no failure on the way,       *)
(* changes that.                                                                 *)
Precedence ==
  phase = "done" =>
    \A t \in OfKind(Schema, {"object", "interface"}) : \A f \in FieldNames(Schema, t) :
      set[<<t, f, Slot(t)>>] =
        CASE OfSdl(t, f) -> "sdl"
          [] ~OfSdl(t, f) /\ t \in DOMAIN mergeResolvers /\ f \in DOMAIN mergeResolvers[t].of ->
               mergeResolvers[t].of[f]
          [] ~OfSdl(t, f) /\ t \in DOMAIN mergeResolvers /\ f \notin DOMAIN mergeResolvers[t].of
             /\ Givers(t, f) # {} ->
               mergeResolvers[Interfaces(Schema, t)[Max(Givers(t, f))]].of[f]
          [] OTHER -> Default(t)

(* With an error handler, no field is resolved without it, the fields included   *)
(* that have no resolver of their own.  (The resolvers of the SDL are set later, *)
(* and the functions that subscribe are not resolvers to the code.)              *)
EveryResolverIsHandled ==
  phase = "done" /\ handler =>
    \A t \in OfKind(Schema, {"object", "interface"}) \ Schema.hidden :
      \A f \in FieldNames(Schema, t) : OfSdl(t, f) \/ <<t, f, "resolve">> \in wrapped

(* A map with a type that the schema does not have is refused before any type    *)
(* gets a resolver of its own entry: all that may have happened is inheritance.  *)
UnknownTypesFailEarly ==
  ~(DOMAIN mergeResolvers \subseteq Names(Schema)) =>
    /\ phase \in {"default", "inherit", "failed"}
    /\ \A p \in Places : set[p] \notin {Undefined, "default", "graphql"} =>
         \E n \in DOMAIN Interfaces(Schema, p[1]) :
           LET i == Interfaces(Schema, p[1])[n]
           IN  i \in DOMAIN mergeResolvers /\ p[2] \in DOMAIN mergeResolvers[i].of
                 /\ set[p] = mergeResolvers[i].of[p[2]]

\* What the type Resolvers lets through although the code may refuse it: the marker,
\* undefined for a type, unless a list turns it into a record that the type can
\* do with, and instances of GraphQLEnumType that a list turns into records.
Refusable(t, entry) ==
  \/ t = Marker
  \/ entry.form = "undefined" /\ ~(input.list /\ Kind(Schema, t) \in {"object", "interface", "union", "enum"})
  \/ entry.form = "GraphQLEnumType" /\ input.list

HasRefusable ==
  \E n \in DOMAIN input.maps : \E t \in DOMAIN input.maps[n] : Refusable(t, input.maps[n][t])

(* Of the resolvers that have the generated type Resolvers, and of the lists of  *)
(* them, the code refuses none but those with a part that Refusable names: the   *)
(* marker __isGeneratedResolvers, an explicit undefined for a type (all that an  *)
(* input object may have), and an instance of GraphQLEnumType in a list.         *)
TypedResolversAccepted ==
  /\ \A n \in DOMAIN input.maps : TypedResolvers(Schema, input.maps[n])
  /\ ~HasRefusable
  /\ stitching => "Query" \in OfKind(Schema, {"object"})
                  /\ {"_sdl", "_sdlVersion"} \subseteq FieldNames(Schema, "Query")
  => phase # "failed"

==================================================================================

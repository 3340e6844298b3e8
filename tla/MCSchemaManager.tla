----------------------------- MODULE MCSchemaManager -----------------------------
(* Plain maps with two entries, or of types that inherit with all there are, and *)
(* lists of two with one entry each.                                             *)
EXTENDS SchemaManager, MCSchemas

Record(keys, fn) == [form |-> "record", of |-> [k \in keys |-> fn]]

UndefinedEntry == [form |-> "undefined", of |-> [k \in {} |-> Undefined]]

\* Entries by type: typed ones, undefined ones, one with an unknown key, one that is
\* no record, and the marker.
Entries ==
  {<<"Node", Record({"id", "__resolveType"}, "node")>>,
   <<"Entity", Record({"id", "name"}, "entity")>>,
   <<"User", Record({"name", "__isTypeOf"}, "user")>>,
   <<"User", Record({"id"}, Undefined)>>,
   <<"User", Record({"role", "age"}, "user2")>>,
   <<"Query", Record({"user", "_sdl"}, "query")>>,
   <<"Subscription", Record({"joined"}, "joined")>>,
   <<"Any", Record({"__resolveType"}, "any")>>,
   <<"Role", Record({"ADMIN", "GUEST"}, "roles")>>,
   <<"Role", [form |-> "GraphQLEnumType", of |-> ("instance" :> "role")]>>,
   <<"Date", [form |-> "GraphQLScalarType", of |-> ("instance" :> "date")]>>,
   <<"Date", Record({}, "date")>>,
   <<"Filter", Record({}, "filter")>>,
   <<"User", UndefinedEntry>>,
   <<"Node", UndefinedEntry>>,
   <<"Date", UndefinedEntry>>,
   <<"Filter", UndefinedEntry>>,
   <<Marker, UndefinedEntry>>,
   <<"Ghost", Record({"id"}, "ghost")>>}

\* The maps with at most n of some entries.
Maps(entries, n) ==
  {[t \in {e[1] : e \in es} |-> (CHOOSE e \in es : e[1] = t)[2]] :
     es \in {fs \in UNION {kSubset(k, entries) : k \in 0..n} :
               \A e, f \in fs : e[1] = f[1] => e = f}}

Related == {e \in Entries : e[1] \in {"Node", "Entity", "User", "Ghost"}}

MCResolversInputs ==
  {[list |-> FALSE, maps |-> <<m>>] : m \in Maps(Entries, 2) \cup Maps(Related, 4)}
    \cup {[list |-> TRUE, maps |-> <<m, n>>] : m, n \in Maps(Entries, 1)}

==================================================================================

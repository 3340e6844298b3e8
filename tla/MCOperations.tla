------------------------------ MODULE MCOperations ------------------------------
(* A query with all kinds of selections below one field, a subscription that    *)
(* uses the same fragments, and fragments which may lead to each other.         *)
EXTENDS Operations, MCSchemas

Select(kind, key, name, on, selections) ==
  [kind |-> kind, key |-> key, name |-> name, on |-> on, selections |-> selections]
Leaf(name) == Select("field", name, name, "none", {})
Object(name, selections) == Select("field", name, name, "none", selections)
On(on, selections) == Select("inline", "none", "none", on, selections)
Of(name) == Select("spread", "none", name, "none", {})

\* All selections, by their positions: below the field user of Find (u), next to it (a), in
\* Joined (j), and in the fragments F, G and H (f, g, h).
Selections ==
     "user" :> Object("user", {})
  @@ "u id" :> Leaf("id")
  @@ "u typename" :> Leaf("__typename")
  @@ "u label" :> Select("field", "label", "name", "none", {})
  @@ "u User" :> On("User", {"u role", "u friends"})
  @@ "u role" :> Leaf("role")
  @@ "u friends" :> Object("friends", {"u friend id", "u friend G"})
  @@ "u friend id" :> Leaf("id")
  @@ "u friend G" :> Of("G")
  @@ "u Node" :> On("Node", {"u Node id", "u Node User"})
  @@ "u Node id" :> Leaf("id")
  @@ "u Node User" :> On("User", {"u Node typename"})
  @@ "u Node typename" :> Leaf("__typename")
  @@ "u F" :> Of("F")
  @@ "a Bot" :> Object("anything", {"a on Bot", "a typename"})
  @@ "a on Bot" :> On("Bot", {"a id"})
  @@ "a id" :> Leaf("id")
  @@ "a typename" :> Leaf("__typename")
  @@ "a Any" :> Object("anything", {"a on Any"})
  @@ "a on Any" :> On("Any", {"a Any typename"})
  @@ "a Any typename" :> Leaf("__typename")
  @@ "joined" :> Object("joined", {"j id", "j G"})
  @@ "j id" :> Leaf("id")
  @@ "j G" :> Of("G")
  @@ "f name" :> Leaf("name")
  @@ "f typename" :> Leaf("__typename")
  @@ "f G" :> Of("G")
  @@ "f User" :> On("User", {"f friends"})
  @@ "f friends" :> Object("friends", {"f friend typename", "f friend G"})
  @@ "f friend typename" :> Leaf("__typename")
  @@ "f friend G" :> Of("G")
  @@ "g role" :> Leaf("role")
  @@ "g H" :> Of("H")
  @@ "g F" :> Of("F")
  @@ "g friends" :> Object("friends", {"g Bot", "g friend typename"})
  @@ "g Bot" :> On("Bot", {"g Bot id"})
  @@ "g Bot id" :> Leaf("id")
  @@ "g friend typename" :> Leaf("__typename")
  @@ "h born" :> Leaf("born")

\* What may be selected of an Entity.
Pool == {"u id", "u typename", "u label", "u User", "u Node", "u F"}

Anything == {{"a Bot"}, {"a Any"}}

\* F is on the interface, G on the object, and so is H, at the end.
FragmentsF == {{"f name"}, {"f typename", "f G"}, {"f User"}}

FragmentsG == {{"g role", "g H"}, {"g friends"}, {"g role", "g F"}}

NoVariables == [v \in {} |-> Ref(<<>>, "String")]

Document(selections, anything, f, g) ==
  LET all == [nodes |-> [Selections EXCEPT !["user"].selections = selections]]
      text == {"user", "joined", "h born"} \cup anything \cup f \cup g
  IN  [nodes |-> [x \in Inside(all, text) |-> all.nodes[x]],
       operations |->
            "Find" :> [operation |-> "query", variables |-> "filter" :> Ref(<<"nonNull">>, "Filter"),
                       selections |-> {"user"} \cup anything]
         @@ "Joined" :> [operation |-> "subscription", variables |-> NoVariables,
                         selections |-> {"joined"}],
       fragments |-> "F" :> [on |-> "Entity", selections |-> f]
                  @@ "G" :> [on |-> "User", selections |-> g]
                  @@ "H" :> [on |-> "User", selections |-> {"h born"}],
       scalars |-> "Date" :> [type |-> "Day", inputType |-> "none", from |-> "days"]]

\* Up to three of them, or all
Selected == {s \in SUBSET Pool : s # {} /\ (Cardinality(s) <= 3 \/ s = Pool)}

MCDocuments ==
  {Document(selections, anything, f, g) :
     selections \in Selected, anything \in Anything, f \in FragmentsF, g \in FragmentsG}

Ts(type, input, from) == [type |-> type, inputType |-> input, from |-> from]

\* @ts directives, or none, on types of four kinds
MCSchemaWith(user, role, date) ==
  [MCSchema EXCEPT !.types["User"].ts = user, !.types["Role"].ts = role, !.types["Date"].ts = date]

MCSchemasInUse ==
  {MCSchemaWith(NoDirective, Ts("number", "none", "none"), NoDirective),
   MCSchemaWith(Ts("Person", "none", "people"), Ts("Rank", "RankInput", "people"),
                Ts("Date", "string", "none"))}

MCScalarTypes == "ID" :> Ts("Id", "none", "ids")

==================================================================================

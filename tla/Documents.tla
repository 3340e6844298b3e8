-------------------------------- MODULE Documents --------------------------------
(***************************************************************************)
(* GraphQL documents and what executing them answers, as the GraphQL       *)
(* specification has it; and util/limitDepth.ts, which refuses documents   *)
(* before they are validated.                                              *)
(*                                                                         *)
(* A document is a record of                                               *)
(*   nodes       its selections: a function from their positions,          *)
(*   operations  a function from names to [operation, variables,           *)
(*               selections],                                              *)
(*   fragments   a function from names to [on, selections],                *)
(*   scalars     a function from the scalars it defines to @ts directives. *)
(* A selection has a kind, "field", "inline" or "spread"; the others of    *)
(* its components are "none" or {} where the kind has no use for them.     *)
(* Selections within selections, operations and fragments are positions.   *)
(***************************************************************************)
EXTENDS Integers, FiniteSets, Schemas

\* Where start leads to, when step says where each place leads to directly.
Closure(step, start) ==
  LET grow[S \in SUBSET DOMAIN step] ==
        LET more == S \cup UNION {step[c] : c \in S}
        IN  IF more = S THEN S ELSE grow[more]
  IN  grow[start]

Nodes(d) == DOMAIN d.nodes

OfKinds(d, selections, kind) == {x \in selections : d.nodes[x].kind = kind}

\* visit(): selections, and those below them in their own text
Inside(d, selections) == Closure([x \in Nodes(d) |-> d.nodes[x].selections], selections)

Spreads(d, selections) == {d.nodes[x].name : x \in OfKinds(d, Inside(d, selections), "spread")}

Introspection == {"__typename", "__schema", "__type"}

RootSelections(d) == UNION {d.operations[o].selections : o \in DOMAIN d.operations}

\* What a fragment spread stands for; unknown fragments are none.
Spread(d, x) ==
  IF d.nodes[x].name \in DOMAIN d.fragments THEN d.fragments[d.nodes[x].name].selections ELSE {}

--------------------------------------------------------------------------------
(* limitDepth().  A visit is <<selection, currentDepth before it,              *)
(* fragmentSpreads>>.                                                           *)

Visits(d, maxDepth) ==
  Nodes(d) \X (-1..maxDepth) \X SUBSET {d.nodes[x].name : x \in Nodes(d)}

IsCounted(d, x) == d.nodes[x].kind = "field" /\ d.nodes[x].name \notin Introspection

\* Too deep, or a fragment within itself
Throws(d, maxDepth, v) ==
  \/ IsCounted(d, v[1]) /\ v[2] + 1 > maxDepth
  \/ d.nodes[v[1]].kind = "spread" /\ d.nodes[v[1]].name \in v[3]

Bug_Below(d, maxDepth, v) ==
  LET x == v[1]
  IN  CASE d.nodes[x].kind = "spread" -> Spread(d, x) \X {-1} \X {v[3] \cup {d.nodes[x].name}}
        [] d.nodes[x].kind = "inline" -> d.nodes[x].selections \X {v[2]} \X {v[3]}
        [] IsCounted(d, x) -> d.nodes[x].selections \X {v[2] + 1} \X {v[3]}
        [] OTHER -> {}

\* The visits that one leads to if it does not throw.  Fields below an introspection
\* field are not looked at.
Below(d, maxDepth, v) ==
  LET x == v[1]
  IN  CASE d.nodes[x].kind = "spread" -> Spread(d, x) \X {v[2]} \X {v[3] \cup {d.nodes[x].name}}
        [] d.nodes[x].kind = "inline" -> d.nodes[x].selections \X {v[2]} \X {v[3]}
        [] IsCounted(d, x) -> d.nodes[x].selections \X {v[2] + 1} \X {v[3]}
        [] OTHER -> {}

\* traverse(), up to what throws
Traverse(d, maxDepth) ==
  Closure([v \in Visits(d, maxDepth) |-> IF Throws(d, maxDepth, v) THEN {} ELSE Below(d, maxDepth, v)],
          RootSelections(d) \X {-1} \X {{}})

LimitDepthAccepts(d, maxDepth) == \A v \in Traverse(d, maxDepth) : ~Throws(d, maxDepth, v)

--------------------------------------------------------------------------------
(* The same, by definition: a field is at the depth of the number of fields    *)
(* around it when every spread is replaced by its fragment.                     *)

\* What a selection leads to, the selections of some fields aside
Onward(d, x, skipped) ==
  IF d.nodes[x].kind = "spread" THEN Spread(d, x)
  ELSE IF d.nodes[x].kind = "field" /\ d.nodes[x].name \in skipped THEN {}
  ELSE d.nodes[x].selections

\* The fragments that selections lead to
Reached(d, skipped, selections) ==
  {d.nodes[x].name :
     x \in OfKinds(d, Closure([x \in Nodes(d) |-> Onward(d, x, skipped)], selections), "spread")}

Circular(d, skipped) ==
  \E f \in Reached(d, skipped, RootSelections(d)) \cap DOMAIN d.fragments :
    f \in Reached(d, skipped, d.fragments[f].selections)

\* Selections with their depth; below depth m they are not told apart.
Expanded(d, m) ==
  Closure([p \in Nodes(d) \X (0..m) |->
             {<<y, IF IsCounted(d, p[1]) /\ p[2] < m THEN p[2] + 1 ELSE p[2]>> :
                y \in Onward(d, p[1], Introspection)}],
          RootSelections(d) \X {0})

WithinDepth(d, maxDepth) ==
  \A p \in Expanded(d, maxDepth + 1) : IsCounted(d, p[1]) => p[2] <= maxDepth

--------------------------------------------------------------------------------
(* Answers: the fields that an object of type t has in the answer, collected   *)
(* through all fragments that apply to the type.                                *)

Applies(s, on, t) == on = "none" \/ t \in PossibleTypes(s, on)

\* The condition of a fragment
Condition(d, x) ==
  IF d.nodes[x].kind = "spread" THEN d.fragments[d.nodes[x].name].on ELSE d.nodes[x].on

CollectFields(s, d, selections, t) ==
  OfKinds(d, Closure([x \in Nodes(d) |->
                        IF d.nodes[x].kind # "field" /\ Applies(s, Condition(d, x), t)
                        THEN Onward(d, x, {}) ELSE {}],
                     selections),
          "field")

\* The answer to __typename is known.
IsTypeName(d, x) == d.nodes[x].kind = "field" /\ d.nodes[x].name = "__typename"

Asked(s, d, selections, t) ==
  {x \in CollectFields(s, d, selections, t) : ~IsTypeName(d, x)}

WithKey(d, fields, key) == {x \in fields : d.nodes[x].key = key}

\* Fields with one key are one field of the answer, with the selections of all.
MergedSelections(d, fields, key) == UNION {d.nodes[x].selections : x \in WithKey(d, fields, key)}

\* The fields that have selections, and the types of the objects there
WithSelections(s, d, fields, t) ==
  {x \in fields : /\ d.nodes[x].name \in FieldNames(s, t)
                  /\ IsComposite(s, Field(s, t, d.nodes[x].name).type.named)}

TypesBelow(s, d, x, t) == PossibleTypes(s, Field(s, t, d.nodes[x].name).type.named)

Root(s, d, o) == s.roots[d.operations[o].operation]

Objects(s) == OfKind(s, {"object"})

\* <<selections, type>> for all objects there may be in answers
AnswerPlaces(s, d) ==
  Closure([p \in (SUBSET Nodes(d)) \X Objects(s) |->
             LET asked == Asked(s, d, p[1], p[2])
             IN  UNION {{MergedSelections(d, asked, d.nodes[x].key)} \X TypesBelow(s, d, x, p[2]) :
                          x \in WithSelections(s, d, asked, p[2])}],
          {<<d.operations[o].selections, Root(s, d, o)>> : o \in DOMAIN d.operations})

\* What validate() demands, as far as it matters here: no circles, known fragments and
\* types of the kinds that are allowed, and one name to each key of an object.
Valid(s, d) ==
  /\ ~Circular(d, {})
  /\ \A x \in Nodes(d) :
       /\ d.nodes[x].kind = "spread" => d.nodes[x].name \in DOMAIN d.fragments
       /\ d.nodes[x].kind = "inline" =>
            d.nodes[x].on \in OfKind(s, {"object", "interface", "union"}) \cup {"none"}
  /\ \A f \in DOMAIN d.fragments : d.fragments[f].on \in OfKind(s, {"object", "interface", "union"})
  /\ \A o \in DOMAIN d.operations :
       /\ Root(s, d, o) \in Objects(s)
       /\ \A v \in DOMAIN d.operations[o].variables :
            d.operations[o].variables[v].named \in OfKind(s, {"scalar", "enum", "input"})
  /\ \A p \in AnswerPlaces(s, d) : \A x, y \in Asked(s, d, p[1], p[2]) :
       d.nodes[x].key = d.nodes[y].key => d.nodes[x].name = d.nodes[y].name

==================================================================================

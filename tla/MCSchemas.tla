-------------------------------- MODULE MCSchemas --------------------------------
(* A schema with two interfaces, one of which implements the other, and a type  *)
(* of every kind.                                                               *)
EXTENDS Naturals, FiniteSets, TLC, Schemas

Ref(wrappers, t) == [wrappers |-> wrappers, named |-> t]
NoArgs == [a \in {} |-> Ref(<<>>, "String")]
Plain(wrappers, t) == [type |-> Ref(wrappers, t), args |-> NoArgs]

Type(kind, fields) ==
  [kind |-> kind, fields |-> fields, interfaces |-> <<>>, possible |-> {}, ts |-> NoDirective]

Values(vs) == [v \in vs |-> Plain(<<>>, "String")]

MCSchema ==
  [types |->
     "Query" :> Type("object",
         "user" :> [type |-> Ref(<<>>, "Entity"),
                    args |-> "filter" :> [type |-> Ref(<<"nonNull">>, "Filter")]]
      @@ "anything" :> Plain(<<"list", "nonNull">>, "Any")
      @@ "_sdl" :> Plain(<<"nonNull">>, "String")
      @@ "_sdlVersion" :> Plain(<<"nonNull">>, "String"))
  @@ "Subscription" :> Type("object",
         "joined" :> [type |-> Ref(<<"nonNull">>, "User"), args |-> NoArgs])
  @@ "Node" :> [Type("interface", "id" :> Plain(<<"nonNull">>, "ID"))
                  EXCEPT !.possible = {"User", "Bot"}]
  @@ "Entity" :> [Type("interface",
                         "id" :> Plain(<<"nonNull">>, "ID")
                      @@ "name" :> [type |-> Ref(<<>>, "String"),
                                    args |-> "upper" :> [type |-> Ref(<<>>, "Boolean")]])
                    EXCEPT !.interfaces = <<"Node">>, !.possible = {"User"}]
  @@ "User" :> [Type("object",
                       "id" :> Plain(<<"nonNull">>, "ID")
                    @@ "name" :> [type |-> Ref(<<>>, "String"),
                                  args |-> "upper" :> [type |-> Ref(<<>>, "Boolean")]]
                    @@ "role" :> Plain(<<"nonNull", "list", "nonNull">>, "Role")
                    @@ "born" :> Plain(<<"list">>, "Date")
                    @@ "friends" :> Plain(<<"nonNull", "list">>, "Node"))
                  EXCEPT !.interfaces = <<"Node", "Entity">>]
  @@ "Bot" :> [Type("object", "id" :> Plain(<<"nonNull">>, "ID"))
                 EXCEPT !.interfaces = <<"Node">>]
  @@ "Any" :> [Type("union", Values({})) EXCEPT !.possible = {"User", "Bot"}]
  @@ "Role" :> Type("enum", Values({"ADMIN", "GUEST"}))
  @@ "Date" :> Type("scalar", Values({}))
  @@ "Filter" :> Type("input", "role" :> [type |-> Ref(<<>>, "Role")])
  @@ "__Type" :> Type("object", "kind" :> Plain(<<"nonNull">>, "String"))
  @@ "String" :> Type("scalar", Values({}))
  @@ "Boolean" :> Type("scalar", Values({}))
  @@ "ID" :> Type("scalar", Values({})),
   hidden |-> {"__Type"},
   roots |-> [query |-> "Query", mutation |-> "none", subscription |-> "Subscription"],
   directives |-> "limit" :> ("by" :> [type |-> Ref(<<"nonNull">>, "Filter")])
                  @@ "hidden" :> NoArgs]

==================================================================================

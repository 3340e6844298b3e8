------------------------------ MODULE MCGraphQLServing ---------------------------
(* A small instance of GraphQLServing: five texts, of which two are good, one  *)
(* of them with a query and a mutation, one is invalid for the schema, one too *)
(* deep and one does not parse.                                                *)
EXTENDS GraphQLServing

CONSTANTS c1, c2, hello, both, invalid, deep, garbage, A, B

MCClients == {c1, c2}
MCQueries == {hello, both, invalid, deep, garbage}

Op(name, kind) == [name |-> name, kind |-> kind]
Doc(depth, valid, operations) == [depth |-> depth, valid |-> valid, operations |-> operations]

MCDocument ==
  [q \in MCQueries |->
    CASE q = hello -> Doc(1, TRUE, {Op(A, "query")})
      [] q = both -> Doc(1, TRUE, {Op(A, "query"), Op(B, "mutation")})
      [] q = invalid -> Doc(1, FALSE, {Op(A, "query")})
      [] q = deep -> Doc(3, TRUE, {Op(A, "query")})
      [] q = garbage -> SyntaxError]

Req(method, query, name) ==
  [method |-> method, hasBody |-> TRUE, query |-> query, operationName |-> name,
   hasVariables |-> TRUE]

\* Every text over GET and as a subscription, the mutation over GET and POST, and
\* what can be wrong with the rest of a request.
MCRequests ==
  {Req("GET", q, NoName) : q \in MCQueries}
    \cup {Req("GET", both, B), Req("POST", both, B), Req("PUT", hello, NoName),
          Req("SUBSCRIBE", hello, A), Req("SUBSCRIBE", invalid, A), Req("GET", NotAString, NoName),
          Req("POST", hello, NotAString),
          [Req("POST", hello, A) EXCEPT !.hasBody = FALSE],
          [Req("GET", both, A) EXCEPT !.hasVariables = FALSE]}

================================================================================

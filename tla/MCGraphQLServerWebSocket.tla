------------------------- MODULE MCGraphQLServerWebSocket ------------------------
(* A small instance of GraphQLServerWebSocket: two ids, used over and over.    *)
EXTENDS GraphQLServerWebSocket

CONSTANTS a, b

MCIds == {a, b}

================================================================================

------------------------- MODULE MCGraphQLWebSocketClient ------------------------
(* Small instances of GraphQLWebSocketClient: two subscriptions that share     *)
(* one socket at a time.                                                       *)
EXTENDS GraphQLWebSocketClient, TLC

CONSTANTS s1, s2

MCSubs == {s1, s2}

\* For runs that check safety only.
Symmetry == Permutations(MCSubs)

================================================================================

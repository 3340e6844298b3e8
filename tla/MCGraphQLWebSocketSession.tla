------------------------ MODULE MCGraphQLWebSocketSession ------------------------
EXTENDS GraphQLWebSocketSession

Everybody == {"network", "application", "consumer"}

\* Iterators may take their time to obey return().
SlowApplication == {"network", "consumer"}
==================================================================================

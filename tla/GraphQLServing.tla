------------------------------- MODULE GraphQLServing ----------------------------
(***************************************************************************)
(* The serving of requests: GraphQLHttpServer.execute() and                *)
(* GraphQLWebSocketServer.subscribe() with the parser they share           *)
(* (server/GraphQLExecutionArgsParser.ts) and its two LRU caches.          *)
(*                                                                         *)
(* A request is parsed and validated without an await, in one step; then   *)
(* its context is awaited and its execution.                               *)
(***************************************************************************)
EXTENDS GraphQLRequests, LRUCache

CONSTANTS
  Clients,
  MaxUses           \* bound: how often the parse cache is hit or written

ASSUME MaxUsesAssumption == MaxUses \in Nat

VARIABLES
  parseQueryCache,
  validateCache,
  stage,            \* what each client waits for: "idle", "context", "execution"
  request,          \* its last accepted request
  document,         \* args.document of that request
  response          \* its last response

caches == <<parseQueryCache, validateCache>>
vars == <<caches, stage, request, document, response>>

Init ==
  /\ parseQueryCache = EmptyCache
  /\ validateCache = EmptyCache
  /\ stage = [c \in Clients |-> "idle"]
  /\ request = [c \in Clients |-> NoRequest]
  /\ document = [c \in Clients |-> SyntaxError]
  /\ response = [c \in Clients |-> "none"]

--------------------------------------------------------------------------------
(* server/GraphQLExecutionArgsParser.ts *)

\* parseQuery() returns a document, of the cache or a new one, or it throws.
QueryParses(q) == IsCached(parseQueryCache, q) \/ Parsable(q)

ParsedQuery(q) ==
  IF IsCached(parseQueryCache, q) THEN Lookup(parseQueryCache, q) ELSE Document[q]

\* MUTANT: cached before the depth is checked.
Bug_QueryRemembered(q) ==
  IF IsCached(parseQueryCache, q) THEN Touch(parseQueryCache, q)
  ELSE IF Document[q] # SyntaxError THEN Put(parseQueryCache, q, Document[q])
  ELSE parseQueryCache

\* The parse cache afterwards: what fails, for its depth too, is not cached.
QueryRemembered(q) ==
  IF IsCached(parseQueryCache, q) THEN Touch(parseQueryCache, q)
  ELSE IF Parsable(q) THEN Put(parseQueryCache, q, Document[q])
  ELSE parseQueryCache

\* validate() finds no errors.
Validates(q) ==
  IF IsCached(validateCache, q) THEN Lookup(validateCache, q) ELSE ParsedQuery(q).valid

ValidationRemembered(q) ==
  IF IsCached(validateCache, q) THEN Touch(validateCache, q)
  ELSE Put(validateCache, q, ParsedQuery(q).valid)

--------------------------------------------------------------------------------
(* execute() and subscribe() up to the first await. *)

Respond(c, resp) ==
  /\ stage' = [stage EXCEPT ![c] = "idle"]
  /\ response' = [response EXCEPT ![c] = resp]
  /\ UNCHANGED <<request, document>>

Receives(c) == stage[c] = "idle" /\ parseQueryCache.index < MaxUses

\* An unsupported method, or a POST without an object for a body, or a query that
\* is not a string: the parser's caches are not asked.
RefuseMethod(c, r) ==
  /\ Receives(c)
  /\ r.method = "PUT"
  /\ Respond(c, "405")
  /\ UNCHANGED caches

HasQuery(r) ==
  /\ r.method # "PUT"
  /\ r.method = "POST" => r.hasBody
  /\ r.query # NotAString

RefuseBody(c, r) ==
  /\ Receives(c)
  /\ r.method # "PUT" /\ ~HasQuery(r)
  /\ Respond(c, Failed(r, "400"))
  /\ UNCHANGED caches

\* parse() throws: the query does not parse, or it does but the rest does not.
RefuseArgs(c, r) ==
  /\ Receives(c)
  /\ HasQuery(r)
  /\ ~QueryParses(r.query) \/ ~ArgsParse(r)
  /\ parseQueryCache' = QueryRemembered(r.query)
  /\ Respond(c, Failed(r, "400"))
  /\ UNCHANGED validateCache

Parses(r) == HasQuery(r) /\ QueryParses(r.query) /\ ArgsParse(r)

\* The mutation check comes before the validation.
RefuseMutation(c, r) ==
  /\ Receives(c)
  /\ Parses(r)
  /\ ~Allowed(r, ParsedQuery(r.query))
  /\ parseQueryCache' = QueryRemembered(r.query)
  /\ Respond(c, Failed(r, "400"))
  /\ UNCHANGED validateCache

RefuseInvalid(c, r) ==
  /\ Receives(c)
  /\ Parses(r)
  /\ Allowed(r, ParsedQuery(r.query))
  /\ ~Validates(r.query)
  /\ parseQueryCache' = QueryRemembered(r.query)
  /\ validateCache' = ValidationRemembered(r.query)
  /\ Respond(c, Failed(r, "400"))

\* Everything is fine: createContext() is called.
Accept(c, r) ==
  /\ Receives(c)
  /\ Parses(r)
  /\ Allowed(r, ParsedQuery(r.query))
  /\ Validates(r.query)
  /\ parseQueryCache' = QueryRemembered(r.query)
  /\ validateCache' = ValidationRemembered(r.query)
  /\ stage' = [stage EXCEPT ![c] = "context"]
  /\ request' = [request EXCEPT ![c] = r]
  /\ document' = [document EXCEPT ![c] = ParsedQuery(r.query)]
  /\ UNCHANGED response

--------------------------------------------------------------------------------
(* The rest of execute() and subscribe(). *)

ContextCreated(c) ==
  /\ stage[c] = "context"
  /\ stage' = [stage EXCEPT ![c] = "execution"]
  /\ UNCHANGED <<caches, request, document, response>>

Executed(c) ==
  /\ stage[c] = "execution"
  /\ Respond(c, Done(request[c]))
  /\ UNCHANGED caches

\* createContext() rejects, or graphql-js throws instead of reporting errors.
ContextFails(c) ==
  /\ stage[c] = "context"
  /\ Respond(c, Failed(request[c], "500"))
  /\ UNCHANGED caches

ExecutionFails(c) ==
  /\ stage[c] = "execution"
  /\ Respond(c, Failed(request[c], "500"))
  /\ UNCHANGED caches

--------------------------------------------------------------------------------
Receive(c, r) ==
  \/ RefuseMethod(c, r)
  \/ RefuseBody(c, r)
  \/ RefuseArgs(c, r)
  \/ RefuseMutation(c, r)
  \/ RefuseInvalid(c, r)
  \/ Accept(c, r)

Next ==
  \E c \in Clients :
    \/ \E r \in Requests : Receive(c, r)
    \/ ContextCreated(c)
    \/ Executed(c)
    \/ ContextFails(c)
    \/ ExecutionFails(c)

Spec == Init /\ [][Next]_vars

--------------------------------------------------------------------------------
(* Types of the parser's fields and of the requests in progress.                *)
TypeOK ==
  /\ IsCache(parseQueryCache, Queries, {Document[q] : q \in Queries})
  /\ IsCache(validateCache, Queries, BOOLEAN)
  /\ stage \in [Clients -> {"idle", "context", "execution"}]
  /\ request \in [Clients -> Requests \cup {NoRequest}]
  /\ document \in [Clients -> {Document[q] : q \in Queries} \cup {SyntaxError}]
  /\ response \in [Clients -> Responses]

(* What the caches say of a query is what parsing and validating it anew would  *)
(* say: nothing that fails, as a query that is too deep does, is ever cached as *)
(* parsed, and no verdict of one query stands for another.                      *)
CachesHonest ==
  /\ \A q \in Cached(parseQueryCache) :
       Parsable(q) /\ Lookup(parseQueryCache, q) = Document[q]
  /\ \A q \in Cached(validateCache) :
       Parsable(q) /\ Lookup(validateCache, q) = Document[q].valid

(* No mutation is executed for a GET request, although its text may be cached,  *)
(* and validated, from a POST, or from a GET of another of its operations.      *)
NoMutationByGet ==
  \A c \in Clients :
    stage[c] # "idle" /\ request[c].method = "GET" =>
      Selected(document[c], request[c].operationName) # "mutation"

(* Caching is invisible: every response is the one a server without caches, or  *)
(* one that has just been started, would give.                                  *)
Uncached == INSTANCE UncachedServing

ImplementsUncached == Uncached!Spec

================================================================================

------------------------------ MODULE GraphQLRequests ----------------------------
(***************************************************************************)
(* What clients ask of http/GraphQLHttpServer.ts and                       *)
(* ws/GraphQLWebSocketServer.ts, and what graphql-js makes of it.  Parsing *)
(* and validating are functions of the query text: the constant Document.  *)
(***************************************************************************)
EXTENDS Naturals

CONSTANTS
  Queries,          \* query texts
  Document,         \* parse(query): a document or SyntaxError
  SyntaxError,
  MaxDepth,         \* this.maxDepth, 0 when there is no limit
  Requests,         \* the requests clients may send
  NoRequest,
  NotAString,       \* a query, or an operation name, that is not a string
  NoName            \* no operationName, null or ''

\* A document: its depth, whether it validates against the schema, its operations.
IsDocument(d) ==
  /\ d = [depth |-> d.depth, valid |-> d.valid, operations |-> d.operations]
  /\ d.depth \in Nat /\ d.valid \in BOOLEAN

\* "SUBSCRIBE" is a subscribe message of a web socket.  Whether an HTTP body is an
\* object, and whether the variables are usable, is all that matters of them.
IsRequest(r) ==
  /\ r = [method |-> r.method, hasBody |-> r.hasBody, query |-> r.query,
          operationName |-> r.operationName, hasVariables |-> r.hasVariables]
  /\ r.method \in {"GET", "POST", "PUT", "SUBSCRIBE"}
  /\ r.hasBody \in BOOLEAN /\ r.hasVariables \in BOOLEAN
  /\ r.query \in Queries \cup {NotAString}

ASSUME RequestsAssumption ==
  /\ NotAString \notin Queries
  /\ MaxDepth \in Nat
  /\ \A q \in Queries : Document[q] = SyntaxError \/ IsDocument(Document[q])
  /\ \A r \in Requests : IsRequest(r)

\* parse() and limitDepth() succeed.
Parsable(q) ==
  /\ Document[q] # SyntaxError
  /\ MaxDepth # 0 => Document[q].depth <= MaxDepth

\* getOperationAST(): the kind of the named, or of the only, operation.
Selected(doc, name) ==
  LET matching == {o \in doc.operations : name \in {NoName, o.name}}
  IN  IF \E o \in matching : matching = {o} THEN (CHOOSE o \in matching : TRUE).kind
      ELSE "none"

\* parseOperationName() and parseVariables() succeed.
ArgsParse(r) == r.operationName # NotAString /\ r.hasVariables

\* MUTANT: operationName is not consulted.
Bug_Allowed(r, doc) ==
  ~(r.method = "GET" /\ Selected(doc, NoName) = "mutation")

\* Mutations are not allowed via GET.
Allowed(r, doc) ==
  ~(r.method = "GET" /\ Selected(doc, r.operationName) = "mutation")

\* How a request fails: with a status, or over a web socket with errors.
Failed(r, status) == IF r.method = "SUBSCRIBE" THEN "errors" ELSE status

Done(r) == IF r.method = "SUBSCRIBE" THEN "stream" ELSE "200"

Responses == {"none", "200", "400", "405", "500", "errors", "stream"}

================================================================================

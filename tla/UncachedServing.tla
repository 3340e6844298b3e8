------------------------------ MODULE UncachedServing ----------------------------
(***************************************************************************)
(* Abstract specification of the serving of requests: each is judged by    *)
(* itself, from its text, whatever was asked before.                       *)
(***************************************************************************)
EXTENDS GraphQLRequests

CONSTANT Clients

VARIABLES
  stage,            \* what each client waits for: "idle", "context", "execution"
  request,          \* its last accepted request
  document,         \* the document that is executed for it
  response          \* its last response

vars == <<stage, request, document, response>>

Init ==
  /\ stage = [c \in Clients |-> "idle"]
  /\ request = [c \in Clients |-> NoRequest]
  /\ document = [c \in Clients |-> SyntaxError]
  /\ response = [c \in Clients |-> "none"]

Acceptable(r) ==
  /\ r.method # "PUT"
  /\ r.method = "POST" => r.hasBody
  /\ r.query # NotAString
  /\ Parsable(r.query)
  /\ ArgsParse(r)
  /\ Allowed(r, Document[r.query])
  /\ Document[r.query].valid

Respond(c, resp) ==
  /\ stage' = [stage EXCEPT ![c] = "idle"]
  /\ response' = [response EXCEPT ![c] = resp]
  /\ UNCHANGED <<request, document>>

Refuse(c, r) ==
  /\ stage[c] = "idle"
  /\ ~Acceptable(r)
  /\ Respond(c, IF r.method = "PUT" THEN "405" ELSE Failed(r, "400"))

Accept(c, r) ==
  /\ stage[c] = "idle"
  /\ Acceptable(r)
  /\ stage' = [stage EXCEPT ![c] = "context"]
  /\ request' = [request EXCEPT ![c] = r]
  /\ document' = [document EXCEPT ![c] = Document[r.query]]
  /\ UNCHANGED response

ContextCreated(c) ==
  /\ stage[c] = "context"
  /\ stage' = [stage EXCEPT ![c] = "execution"]
  /\ UNCHANGED <<request, document, response>>

Executed(c) ==
  /\ stage[c] = "execution"
  /\ Respond(c, Done(request[c]))

Fail(c) ==
  /\ stage[c] # "idle"
  /\ Respond(c, Failed(request[c], "500"))

Next ==
  \E c \in Clients :
    \/ \E r \in Requests : Refuse(c, r) \/ Accept(c, r)
    \/ ContextCreated(c)
    \/ Executed(c)
    \/ Fail(c)

Spec == Init /\ [][Next]_vars

================================================================================

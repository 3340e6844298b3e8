-------------------------- MODULE GraphQLServerWebSocket -------------------------
(***************************************************************************)
(* ws/GraphQLServerWebSocket.ts: the server's end of one web socket, for   *)
(* the protocols graphql-transport-ws and graphql-ws (legacy).             *)
(*                                                                         *)
(* A message handler runs to its first await at once.  From there on       *)
(*   - handlers that passed requireAck() await connectionInitPayloadPromise*)
(*     in "parked", and resume in order when it has settled;               *)
(*   - acknowledge() and subscribe() take their time;                      *)
(*   - one pump per subscription copies its iterator into the socket;      *)
(*   - the loops of handleCloseEvent and handleErrorEvent await the        *)
(*     subscriptions one by one.                                           *)
(* Continuations of settled promises run before the next event of the      *)
(* event loop (a timer, a close event, an answer of the application): that *)
(* is what Quiet guards.  Only messages and errors that arrived in the     *)
(* same chunk of data may come in between.                                 *)
(***************************************************************************)
EXTENDS Naturals, Sequences, FiniteSets, SequencesExt

CONSTANTS
  Ids,              \* subscription ids a client may use
  MaxStarts,        \* bound: how often one id is subscribed
  MaxMessages       \* bound: how many messages the client sends

ASSUME BoundsAssumption == MaxStarts \in Nat /\ MaxMessages \in Nat

Supported == {"graphql-transport-ws", "graphql-ws"}

\* The n-th subscription that was started with an id.
Subs == Ids \X (1..MaxStarts)

Id(s) == s[1]
Gen(s) == s[2]

VARIABLES
  protocol,         \* this.socket.protocol
  readyState,       \* this.socket.readyState
  closeCode,        \* the code this side closed the socket with, 0 when it did not
  initialized,      \* this.initialized
  acknowledged,     \* this.acknowledged
  acking,           \* is acknowledge() running?
  initPromise,      \* this.connectionInitPayloadPromise
  initTimeout,      \* is the connection init timeout armed?
  subscriptions,    \* this.subscriptions: the subscriptions in insertion order
  stage,            \* where each subscription is
  expiry,           \* subscriptions whose delayed delete is scheduled
  parked,           \* handlers that await the init promise
  completing,       \* subscriptions a complete handler awaits
  sweep,            \* the loops of the close and of the error event handler
  received,         \* how many messages have arrived
  lastSent          \* history: the last message sent for an id, and its subscription

socketVars == <<readyState, closeCode>>
ackVars == <<initialized, acknowledged, acking, initPromise, initTimeout>>
subVars == <<subscriptions, stage, expiry, completing>>
vars == <<protocol, socketVars, ackVars, subVars, parked, sweep, received, lastSent>>

Init ==
  /\ \/ /\ protocol \in Supported
        /\ readyState = "open" /\ closeCode = 0 /\ initTimeout = TRUE
     \/ /\ protocol = "other"
        /\ readyState = "closing" /\ closeCode = 1002 /\ initTimeout = FALSE
  /\ initialized = FALSE
  /\ acknowledged = FALSE
  /\ acking = FALSE
  /\ initPromise = "pending"
  /\ subscriptions = <<>>
  /\ stage = [s \in Subs |-> "none"]
  /\ expiry = {}
  /\ parked = <<>>
  /\ completing = {}
  /\ sweep = [k \in {"close", "error"} |-> [phase |-> "idle", visited |-> {}]]
  /\ received = 0
  /\ lastSent = [id \in Ids |-> [gen |-> 0, type |-> "none"]]

--------------------------------------------------------------------------------
(* Helpers *)

\* close(code): only an open socket is closed.
Close(code) ==
  IF readyState = "open"
  THEN readyState' = "closing" /\ closeCode' = code
  ELSE UNCHANGED socketVars

\* send({type, id}): dropped unless the socket is open.
Send(s, type) ==
  lastSent' = IF readyState = "open"
              THEN [lastSent EXCEPT ![Id(s)] = [gen |-> Gen(s), type |-> type]]
              ELSE lastSent

\* Only the first settlement of a promise counts.
Settle(outcome) ==
  initPromise' = IF initPromise = "pending" THEN outcome ELSE initPromise

\* requireAck() throws at once.
RequireAckFails == protocol = "graphql-transport-ws" /\ ~acknowledged

Subscribed(id) == \E n \in DOMAIN subscriptions : Id(subscriptions[n]) = id

\* Where the map has the id
Position(id) == CHOOSE n \in DOMAIN subscriptions : Id(subscriptions[n]) = id

\* this.subscriptions.get(id)
Current(id) == subscriptions[Position(id)]

\* this.subscriptions.delete(id)
Deleted(id) ==
  IF Subscribed(id)
  THEN [n \in 1..(Len(subscriptions) - 1) |->
          subscriptions[IF n < Position(id) THEN n ELSE n + 1]]
  ELSE subscriptions

\* How often the id was subscribed so far.
Starts(id) == Cardinality({n \in 1..MaxStarts : stage[<<id, n>>] # "none"})

\* s is the first one of its id that was not started.
IsNext(s) ==
  stage[s] = "none" /\ \A n \in 1..(Gen(s) - 1) : stage[<<Id(s), n>>] # "none"

Bug_Returned(s) == stage

\* (await subscription).return?.(): ends a stream; the {} of a failed one has none.
Returned(s) ==
  [stage EXCEPT ![s] = IF @ = "streaming" THEN "returning" ELSE @]

Quiet == parked = <<>> \/ initPromise = "pending"

--------------------------------------------------------------------------------
(* Messages.  They still arrive while the socket is closing, until the peer     *)
(* has answered the closing handshake, but not after an error.                  *)

Receive ==
  /\ protocol \in Supported
  /\ readyState # "closed"
  /\ sweep["error"].phase = "idle"
  /\ received < MaxMessages
  /\ received' = received + 1

\* Not JSON, an unknown type, or a payload the parsers refuse.
ReceiveInvalid ==
  /\ Receive
  /\ Close(4400)
  /\ UNCHANGED <<protocol, ackVars, subVars, parked, sweep, lastSent>>

Bug_ReceiveInit ==
  /\ Receive
  /\ \/ /\ initialized
        /\ Close(4429)
        /\ UNCHANGED ackVars
     \/ /\ ~initialized
        /\ initialized' = TRUE
        /\ initTimeout' = FALSE
        /\ acking' = TRUE
        /\ Settle("resolved")
        /\ UNCHANGED <<socketVars, acknowledged>>
  /\ UNCHANGED <<protocol, subVars, parked, sweep, lastSent>>

\* connection_init
ReceiveInit ==
  /\ Receive
  /\ \/ /\ initialized
        /\ Close(4429)
        /\ UNCHANGED ackVars
     \/ /\ ~initialized
        /\ initialized' = TRUE
        /\ initTimeout' = FALSE
        /\ acking' = TRUE
        /\ UNCHANGED <<socketVars, acknowledged, initPromise>>
  /\ UNCHANGED <<protocol, subVars, parked, sweep, lastSent>>

\* What the parsers let through of those: a type and an id, whatever the payload.
Operations == [type : {"subscribe", "complete"}, id : Ids]

\* subscribe or start, complete or stop, up to requireAck().
ReceiveOperation(type, id) ==
  /\ Receive
  /\ type = "subscribe" => Starts(id) + Len(parked) < MaxStarts
  /\ \/ /\ RequireAckFails
        /\ Close(4401)
        /\ UNCHANGED parked
     \/ /\ ~RequireAckFails
        /\ parked' = Append(parked, [type |-> type, id |-> id])
        /\ UNCHANGED socketVars
  /\ UNCHANGED <<protocol, ackVars, subVars, sweep, lastSent>>

--------------------------------------------------------------------------------
(* acknowledge() *)

AckResolves ==
  /\ acking /\ Quiet
  /\ acking' = FALSE
  /\ acknowledged' = TRUE
  /\ Settle("resolved")
  /\ UNCHANGED <<protocol, socketVars, initialized, initTimeout, subVars, parked,
                 sweep, received, lastSent>>

AckRejects ==
  /\ acking /\ Quiet
  /\ acking' = FALSE
  /\ Settle("unauthorized")
  /\ Close(4401)
  /\ UNCHANGED <<protocol, initialized, acknowledged, initTimeout, subVars, parked,
                 sweep, received, lastSent>>

\* The connection init timeout fires.
InitTimeout ==
  /\ initTimeout /\ Quiet
  /\ initTimeout' = FALSE
  /\ Close(4408)
  /\ UNCHANGED <<protocol, initialized, acknowledged, acking, initPromise, subVars,
                 parked, sweep, received, lastSent>>

--------------------------------------------------------------------------------
(* A parked handler resumes: the first one in line. *)

Unpark ==
  /\ parked # <<>> /\ initPromise # "pending"
  /\ parked' = Tail(parked)
  /\ UNCHANGED <<protocol, ackVars, sweep, received, lastSent>>

\* The promise was rejected: closeByError().  Whatever rejects it has closed the
\* socket before, so this never gets to choose the code.
ResumeRejected ==
  /\ Unpark
  /\ initPromise # "resolved"
  /\ Close(IF initPromise = "unauthorized" THEN 4401 ELSE 1011)
  /\ UNCHANGED subVars

\* The rest of handleSubscribeMessage(): one subscription per id.
ResumeSubscribe ==
  /\ Unpark
  /\ initPromise = "resolved"
  /\ Head(parked).type = "subscribe"
  /\ \E s \in Subs :
       /\ Id(s) = Head(parked).id
       /\ IsNext(s)
       /\ \/ /\ Subscribed(Id(s))
             /\ Close(4409)
             /\ UNCHANGED subVars
          \/ /\ ~Subscribed(Id(s))
             /\ stage' = [stage EXCEPT ![s] = "starting"]
             /\ subscriptions' = Append(subscriptions, s)
             /\ UNCHANGED <<socketVars, expiry, completing>>

Bug_ResumeComplete ==
  /\ Unpark
  /\ initPromise = "resolved"
  /\ Head(parked).type = "complete"
  /\ LET id == Head(parked).id
     IN  \/ /\ ~Subscribed(id)
            /\ Close(4409)
            /\ UNCHANGED subVars
         \/ /\ Subscribed(id)
            /\ completing' = completing \cup {Current(id)}
            /\ subscriptions' = Deleted(id)
            /\ UNCHANGED <<socketVars, stage, expiry>>

\* The rest of handleCompleteMessage(), up to the await of the subscription.
ResumeComplete ==
  /\ Unpark
  /\ initPromise = "resolved"
  /\ Head(parked).type = "complete"
  /\ LET id == Head(parked).id
     IN  \/ /\ ~Subscribed(id)
            /\ Close(4409)
            /\ UNCHANGED subVars
         \/ /\ Subscribed(id)
            /\ completing' = completing \cup {Current(id)}
            /\ UNCHANGED <<socketVars, subscriptions, stage, expiry>>

\* A complete handler goes on once its subscription has started.
CompleteReturns(s) ==
  /\ s \in completing
  /\ stage[s] # "starting"
  /\ completing' = completing \ {s}
  /\ stage' = Returned(s)
  /\ UNCHANGED <<protocol, socketVars, ackVars, subscriptions, expiry, parked, sweep,
                 received, lastSent>>

--------------------------------------------------------------------------------
(* subscribe() of the application and the pump of its result. *)

\* subscribe() answers with an iterator, which the pump starts to copy, or with
\* errors, which leave {} in the map for good.
StartSettles(s) ==
  /\ Quiet
  /\ stage[s] = "starting"
  /\ \/ /\ stage' = [stage EXCEPT ![s] = "streaming"]
        /\ UNCHANGED lastSent
     \/ /\ stage' = [stage EXCEPT ![s] = "failed"]
        /\ Send(s, "error")
  /\ UNCHANGED <<protocol, socketVars, ackVars, subscriptions, expiry, completing,
                 parked, sweep, received>>

\* The iterator yields a value; one that was returned may still have one under way.
PumpNext(s) ==
  /\ stage[s] \in {"streaming", "returning"}
  /\ Send(s, "next")
  /\ UNCHANGED <<protocol, socketVars, ackVars, subVars, parked, sweep, received>>

Bug_PumpEnds(s) ==
  /\ stage' = [stage EXCEPT ![s] = "ended"]
  /\ \E type \in {"complete", "error"} : Send(s, type)
  /\ subscriptions' = Deleted(Id(s))
  /\ expiry' = expiry \cup {s}
  /\ UNCHANGED <<protocol, socketVars, ackVars, completing, parked, sweep, received>>

\* The iterator ends or throws: the pump says so and schedules the delete.
PumpEnds(s) ==
  /\ stage' = [stage EXCEPT ![s] = "ended"]
  /\ \E type \in {"complete", "error"} : Send(s, type)
  /\ expiry' = expiry \cup {s}
  /\ UNCHANGED <<protocol, socketVars, ackVars, subscriptions, completing, parked,
                 sweep, received>>

\* The source has come to its end.
SourceEnds(s) == stage[s] = "streaming" /\ PumpEnds(s)

\* The iterator obeys return().
IteratorReturns(s) == stage[s] = "returning" /\ PumpEnds(s)

\* Three seconds after the end of the pump: delete by id.
Expire(s) ==
  /\ s \in expiry /\ Quiet
  /\ expiry' = expiry \ {s}
  /\ subscriptions' = Deleted(Id(s))
  /\ UNCHANGED <<protocol, socketVars, ackVars, stage, completing, parked, sweep,
                 received, lastSent>>

--------------------------------------------------------------------------------
(* The end of the socket. *)

Bug_ServerClose ==
  /\ readyState = "open" /\ Quiet
  /\ Close(1005)
  /\ UNCHANGED <<protocol, ackVars, subVars, parked, sweep, received, lastSent>>

\* GraphQLWebSocketServer.close(): the application closes its sockets.
ServerClose ==
  /\ readyState = "open" /\ Quiet
  /\ Close(1000)
  /\ UNCHANGED <<protocol, ackVars, subVars, parked, sweep, received, lastSent>>

\* What handleCloseEvent() and handleErrorEvent() do up to their loop.
Shut(k, outcome) ==
  /\ initTimeout' = FALSE
  /\ Settle(outcome)
  /\ sweep' = [sweep EXCEPT ![k].phase = IF subscriptions = <<>> THEN "off" ELSE "on"]
  /\ UNCHANGED <<initialized, acknowledged, acking>>

Bug_CloseEvent ==
  /\ readyState # "closed" /\ Quiet
  /\ readyState' = "closed"
  /\ IF protocol \in Supported
     THEN /\ initTimeout' = FALSE
          /\ sweep' = [sweep EXCEPT !["close"].phase =
                         IF subscriptions = <<>> THEN "off" ELSE "on"]
          /\ UNCHANGED <<initialized, acknowledged, acking, initPromise>>
     ELSE UNCHANGED <<ackVars, sweep>>
  /\ UNCHANGED <<protocol, closeCode, subVars, parked, received, lastSent>>

\* The socket has closed, after a handshake or because the peer is gone.  A
\* socket of an unsupported protocol has no listeners.
CloseEvent ==
  /\ readyState # "closed" /\ Quiet
  /\ readyState' = "closed"
  /\ IF protocol \in Supported THEN Shut("close", "closed") ELSE UNCHANGED <<ackVars, sweep>>
  /\ UNCHANGED <<protocol, closeCode, subVars, parked, received, lastSent>>

\* The socket fails: ws reports it once, stops reading, and closes.
ErrorEvent ==
  /\ protocol \in Supported
  /\ readyState # "closed"
  /\ sweep["error"].phase = "idle"
  /\ readyState' = "closing"
  /\ Shut("error", "failed")
  /\ UNCHANGED <<protocol, closeCode, subVars, parked, received, lastSent>>

\* The loop of a handler goes from one subscription to the next in the order of
\* the map, awaiting each.
Unvisited(k) == {n \in DOMAIN subscriptions : subscriptions[n] \notin sweep[k].visited}

SweepStep(k) ==
  /\ sweep[k].phase = "on"
  /\ \/ /\ Unvisited(k) = {}
        /\ sweep' = [sweep EXCEPT ![k].phase = "off"]
        /\ UNCHANGED stage
     \/ \E n \in Unvisited(k) :
          LET s == subscriptions[n]
          IN  /\ \A m \in Unvisited(k) : n <= m
              /\ stage[s] # "starting"
              /\ stage' = Returned(s)
              /\ sweep' = [sweep EXCEPT
                   ![k] = [phase |-> IF Unvisited(k) = {n} THEN "off" ELSE "on",
                           visited |-> @.visited \cup {s}]]
  /\ UNCHANGED <<protocol, socketVars, ackVars, subscriptions, expiry, completing,
                 parked, received, lastSent>>

--------------------------------------------------------------------------------
Next ==
  \/ ReceiveInvalid
  \/ ReceiveInit
  \/ \E m \in Operations : ReceiveOperation(m.type, m.id)
  \/ AckResolves
  \/ AckRejects
  \/ InitTimeout
  \/ ResumeRejected
  \/ ResumeSubscribe
  \/ ResumeComplete
  \/ \E s \in Subs :
       \/ CompleteReturns(s)
       \/ StartSettles(s)
       \/ PumpNext(s)
       \/ SourceEnds(s)
       \/ IteratorReturns(s)
       \/ Expire(s)
  \/ ServerClose
  \/ CloseEvent
  \/ ErrorEvent
  \/ \E k \in {"close", "error"} : SweepStep(k)

Spec == Init /\ [][Next]_vars

(* The event loop runs every continuation and every timer.  Of the application *)
(* it is assumed that acknowledge() and subscribe() settle and that iterators  *)
(* obey return(); of ws, that a closing socket gets closed (it has a timeout). *)
Fairness ==
  /\ WF_vars(ResumeRejected \/ ResumeSubscribe \/ ResumeComplete)
  /\ WF_vars(AckResolves \/ AckRejects)
  /\ WF_vars(InitTimeout)
  /\ WF_vars(readyState = "closing" /\ CloseEvent)
  /\ \A s \in Subs :
       /\ WF_vars(StartSettles(s))
       /\ WF_vars(CompleteReturns(s))
       /\ WF_vars(IteratorReturns(s))
       /\ WF_vars(Expire(s))
  /\ \A k \in {"close", "error"} : WF_vars(SweepStep(k))

FairSpec == Spec /\ Fairness

--------------------------------------------------------------------------------
(* Types of the fields and handlers of ws/GraphQLServerWebSocket.ts.            *)
TypeOK ==
  /\ protocol \in Supported \cup {"other"}
  /\ readyState \in {"open", "closing", "closed"}
  /\ closeCode \in {0, 1000, 1002, 4400, 4401, 4408, 4409, 4429}
  /\ initialized \in BOOLEAN /\ acknowledged \in BOOLEAN /\ acking \in BOOLEAN
  /\ initPromise \in {"pending", "resolved", "unauthorized", "closed", "failed"}
  /\ initTimeout \in BOOLEAN
  /\ subscriptions \in Seq(Subs)
  /\ stage \in [Subs -> {"none", "starting", "streaming", "returning", "failed", "ended"}]
  /\ expiry \subseteq Subs
  /\ completing \subseteq Subs
  /\ parked \in Seq([type : {"subscribe", "complete"}, id : Ids])
  /\ sweep \in [{"close", "error"} ->
                  [phase : {"idle", "on", "off"}, visited : SUBSET Subs]]
  /\ received \in Nat
  /\ lastSent \in [Ids -> [gen : Nat, type : {"none", "next", "complete", "error"}]]

Live(s) == stage[s] \in {"starting", "streaming", "returning"}

(* At most one subscription of an id is alive at any time, however subscribe    *)
(* and complete messages, ends of iterators and delayed deletes interleave;     *)
(* otherwise two pumps would write to one id.                                   *)
OnePumpPerId ==
  \A s, t \in Subs : Live(s) /\ Live(t) /\ Id(s) = Id(t) => s = t

(* Whatever is alive is in the map, where the close handlers and complete       *)
(* messages find it.                                                            *)
LiveIsRegistered == \A s \in Subs : Live(s) => s \in ToSet(subscriptions)

(* A delayed delete is by id; it still only ever hits the subscription that     *)
(* scheduled it, never a newer one of the same id.                              *)
DeleteHitsItsOwn ==
  \A s \in expiry : Subscribed(Id(s)) /\ Current(Id(s)) = s

(* No subscription starts before acknowledge() has succeeded: not while it is   *)
(* pending (legacy clients do not wait for the ack), and not after it failed.   *)
SubscribedOnlyAcknowledged ==
  (\E s \in Subs : stage[s] # "none") => acknowledged /\ initPromise = "resolved"

(* A socket that has closed starts nothing: it would never be returned.         *)
NoStartAfterClose ==
  [][readyState = "closed" => \A s \in Subs : stage[s] = "none" => stage'[s] = "none"]_vars

(* On the wire, the messages of an id are those of one subscription after the   *)
(* other, and nothing follows the complete or the error of a subscription.      *)
WireOrder ==
  [][\A id \in Ids : lastSent'[id] # lastSent[id] =>
       \/ lastSent'[id].gen > lastSent[id].gen
       \/ lastSent'[id].gen = lastSent[id].gen /\ lastSent[id].type = "next"]_vars

(* Once the socket has closed, every subscription ends: no iterator of the      *)
(* application is left running for a client that is gone.                       *)
CloseEndsAll ==
  (readyState = "closed") ~> (\A s \in Subs : ~Live(s))

(* Every operation message is handled in the end: it starts something, returns  *)
(* something, or closes the socket; a legacy client that never sends            *)
(* connection_init is cut off by the timeout.                                   *)
HandlersSettle == (parked # <<>>) ~> (parked = <<>>)

================================================================================

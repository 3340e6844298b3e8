------------------------- MODULE GraphQLWebSocketSession -------------------------
(***************************************************************************)
(* One acknowledged connection: ws/GraphQLClientWebSocket.ts at one end,   *)
(* ws/GraphQLServerWebSocket.ts with its GraphQLWebSocketServer at the     *)
(* other, and a channel in each direction between them.                    *)
(*                                                                         *)
(* Both ends keep a map of their subscriptions by id, and both delete an   *)
(* entry three seconds after they are done with it: the other end may not  *)
(* be.  A message that finds no entry closes the connection with 4409 and  *)
(* takes all other subscriptions with it.                                  *)
(*                                                                         *)
(* Time is not counted.  Prompt says whose answers take less than those    *)
(* three seconds: the timers leave room for them.  What happens before the *)
(* acknowledgement is in GraphQLServerWebSocket (server) and in            *)
(* GraphQLWebSocketClient (client).                                        *)
(***************************************************************************)
EXTENDS Naturals, Sequences, SequencesExt, FiniteSetsExt

CONSTANTS
  MaxSubs,          \* bound: how many subscriptions the client makes
  MaxValues,        \* bound: how many results the subscriptions send in all
  Prompt            \* who answers within three seconds

ASSUME SessionAssumption ==
  /\ MaxSubs \in Nat /\ MaxValues \in Nat
  /\ Prompt \subseteq {"network", "application", "consumer"}

\* The client numbers its subscriptions.
Ids == 1..MaxSubs

VARIABLES
  clientSocket,     \* readyState of the client's socket; closing, it delivers
                    \* messages (ws) or is "muted" (browsers)
  nextSubscriptionId,
  client,           \* the iterator of each subscription
  queue,            \* and its queue
  clientMap,        \* ids in the client's this.subscriptions
  clientTimers,     \* ids whose delete is scheduled on the client
  serverSocket,     \* readyState of the server's socket
  listed,           \* is the socket in the server's set of sockets?
  stage,            \* where each subscription is on the server
  serverMap,        \* ids in the server's this.subscriptions
  serverTimers,     \* ids whose delete is scheduled on the server
  completing,       \* ids a complete handler awaits
  toServer,         \* messages under way to the server
  toClient,         \* and to the client
  closedBy,         \* history: which end closed the connection first on the other, or
                    \* whether it was "outside", an application or the network
  emitted,          \* history: how many results were sent
  delivered         \* history: what the consumer has got

clientVars == <<clientSocket, client, queue, clientMap, clientTimers>>
serverVars == <<serverSocket, listed, stage, serverMap, serverTimers, completing>>
vars == <<clientVars, nextSubscriptionId, serverVars, toServer, toClient,
          closedBy, emitted, delivered>>

Init ==
  /\ clientSocket = "open"
  /\ nextSubscriptionId = 1
  /\ client = [id \in Ids |-> "none"]
  /\ queue = [id \in Ids |-> <<>>]
  /\ clientMap = {}
  /\ clientTimers = {}
  /\ serverSocket = "open"
  /\ listed = TRUE
  /\ stage = [id \in Ids |-> "none"]
  /\ serverMap = {}
  /\ serverTimers = {}
  /\ completing = {}
  /\ toServer = <<>>
  /\ toClient = <<>>
  /\ closedBy = "nobody"
  /\ emitted = [id \in Ids |-> 0]
  /\ delivered = [id \in Ids |-> <<>>]

--------------------------------------------------------------------------------
(* Channels *)

Message(type, id) == [type |-> type, id |-> id, value |-> 0]

\* The frame that starts or answers a closing handshake.
CloseFrame == Message("close", 0)

\* What is sent to a socket that has closed is lost.
OntoServer(m) == IF serverSocket = "closed" THEN toServer ELSE Append(toServer, m)
OntoClient(m) == IF clientSocket = "closed" THEN toClient ELSE Append(toClient, m)

\* send() of either end: only an open socket sends.
ClientSend(m) == toServer' = IF clientSocket = "open" THEN OntoServer(m) ELSE toServer
ServerSend(m) == toClient' = IF serverSocket = "open" THEN OntoClient(m) ELSE toClient

Blame(cause) == closedBy' = IF closedBy = "nobody" THEN cause ELSE closedBy

\* close() of either end.
ClientCloses(cause) ==
  IF clientSocket = "open"
  THEN /\ clientSocket' \in {"closing", "muted"}
       /\ toServer' = OntoServer(CloseFrame)
       /\ Blame(cause)
  ELSE UNCHANGED <<clientSocket, toServer, closedBy>>

ServerCloses(cause) ==
  IF serverSocket = "open"
  THEN /\ serverSocket' = "closing"
       /\ toClient' = OntoClient(CloseFrame)
       /\ Blame(cause)
  ELSE UNCHANGED <<serverSocket, toClient, closedBy>>

InFlight(id) == \E m \in ToSet(toServer) \cup ToSet(toClient) : m.id = id

--------------------------------------------------------------------------------
(* The client *)

\* An "abandoned" iterator was ended during its setup, without a teardown function.
Ended(state) == state \in {"drained", "returned", "thrown", "abandoned"}

\* An iterator's setup function is awaited until it has subscribed and has
\* returned the teardown function.
InSetup(id) ==
  \/ client[id] \in {"setup", "subscribed"}
  \/ client[id] = "abandoned" /\ id >= nextSubscriptionId

\* Continuations run before the next event or timer of the client.
Quiet == \A id \in Ids : ~InSetup(id)

\* The first next() of an iterator that subscribe() has made calls the setup
\* function, which awaits the acknowledgement, although it is there.  Setup
\* functions go on in the order in which they began.
FirstNext(id) ==
  /\ clientSocket # "closed"
  /\ client[id] = "none"
  /\ \A earlier \in Ids : earlier < id => client[earlier] # "none"
  /\ client' = [client EXCEPT ![id] = "setup"]
  /\ UNCHANGED <<clientSocket, queue, clientMap, clientTimers, nextSubscriptionId,
                 serverVars, toServer, toClient, closedBy, emitted, delivered>>

\* The setup function goes on, whether its iterator has ended or not.  On a
\* closing socket nothing is sent.
Subscribe ==
  /\ nextSubscriptionId \in Ids
  /\ InSetup(nextSubscriptionId)
  /\ client' = [client EXCEPT ![nextSubscriptionId] = IF @ = "setup" THEN "subscribed" ELSE @]
  /\ clientMap' = clientMap \cup {nextSubscriptionId}
  /\ ClientSend(Message("subscribe", nextSubscriptionId))
  /\ nextSubscriptionId' = nextSubscriptionId + 1
  /\ UNCHANGED <<clientSocket, queue, clientTimers, serverVars, toClient, closedBy,
                 emitted, delivered>>

\* The iterator has its teardown function, and next() waits for results.
SetupResolves(id) ==
  /\ client[id] = "subscribed"
  /\ client' = [client EXCEPT ![id] = "open"]
  /\ UNCHANGED <<clientSocket, queue, clientMap, clientTimers, nextSubscriptionId,
                 serverVars, toServer, toClient, closedBy, emitted, delivered>>

\* The consumer cancels while the setup function is awaited: there is no teardown
\* function yet, and the one that comes is not run.
ReturnInSetup(id) ==
  /\ client[id] \in {"setup", "subscribed"}
  /\ client' = [client EXCEPT ![id] = "abandoned"]
  /\ UNCHANGED <<clientSocket, queue, clientMap, clientTimers, nextSubscriptionId,
                 serverVars, toServer, toClient, closedBy, emitted, delivered>>

Bug_IteratorEnds(id, state) ==
  /\ client' = [client EXCEPT ![id] = state]
  /\ queue' = [queue EXCEPT ![id] = <<>>]
  /\ ClientSend(Message("complete", id))
  /\ clientMap' = clientMap \ {id}
  /\ UNCHANGED <<clientSocket, clientTimers, closedBy>>

\* An iterator ends and runs its teardown function: what is queued is dropped,
\* the server is told, and the delete is scheduled.
IteratorEnds(id, state) ==
  /\ client' = [client EXCEPT ![id] = state]
  /\ queue' = [queue EXCEPT ![id] = <<>>]
  /\ ClientSend(Message("complete", id))
  /\ clientTimers' = clientTimers \cup {id}
  /\ UNCHANGED <<clientSocket, clientMap, closedBy>>

\* The consumer reads the next queued result.
Consume(id) ==
  /\ client[id] \in {"open", "finished"}
  /\ queue[id] # <<>>
  /\ delivered' = [delivered EXCEPT ![id] = Append(@, Head(queue[id]))]
  /\ queue' = [queue EXCEPT ![id] = Tail(@)]
  /\ UNCHANGED <<clientSocket, client, clientMap, clientTimers, nextSubscriptionId,
                 serverVars, toServer, toClient, closedBy, emitted>>

\* It finds a finished iterator drained, which ends it.
Drain(id) ==
  /\ client[id] = "finished"
  /\ queue[id] = <<>>
  /\ IteratorEnds(id, "drained")
  /\ UNCHANGED <<nextSubscriptionId, serverVars, toClient, emitted, delivered>>

\* The consumer cancels.
Return(id) ==
  /\ client[id] \in {"open", "finished"}
  /\ IteratorEnds(id, "returned")
  /\ UNCHANGED <<nextSubscriptionId, serverVars, toClient, emitted, delivered>>

\* Three seconds after the teardown.
ClientDelete(id) ==
  /\ Quiet
  /\ id \in clientTimers
  /\ "network" \in Prompt => ~InFlight(id)
  /\ "application" \in Prompt => stage[id] \notin {"starting", "returning"} /\ id \notin completing
  /\ clientTimers' = clientTimers \ {id}
  /\ clientMap' = clientMap \ {id}
  /\ UNCHANGED <<clientSocket, client, queue, nextSubscriptionId, serverVars, toServer,
                 toClient, closedBy, emitted, delivered>>

Bug_ReceiveComplete(m) ==
  /\ m.type = "complete" /\ m.id \in clientMap
  /\ IF Ended(client[m.id])
     THEN UNCHANGED <<clientVars, toServer, closedBy>>
     ELSE IteratorEnds(m.id, "drained")

\* handleNextMessage(): a finished iterator accepts nothing, an ended one keeps
\* what nobody reads.
ReceiveNext(m) ==
  /\ m.type = "next" /\ m.id \in clientMap
  /\ queue' = IF client[m.id] = "open"
              THEN [queue EXCEPT ![m.id] = Append(@, m.value)]
              ELSE queue
  /\ UNCHANGED <<clientSocket, client, clientMap, clientTimers, toServer, closedBy>>

\* handleCompleteMessage()
ReceiveComplete(m) ==
  /\ m.type = "complete" /\ m.id \in clientMap
  /\ client' = [client EXCEPT ![m.id] = IF @ = "open" THEN "finished" ELSE @]
  /\ UNCHANGED <<clientSocket, queue, clientMap, clientTimers, toServer, closedBy>>

\* handleErrorMessage()
ReceiveError(m) ==
  /\ m.type = "error" /\ m.id \in clientMap
  /\ IF Ended(client[m.id])
     THEN UNCHANGED <<clientVars, toServer, closedBy>>
     ELSE IteratorEnds(m.id, "thrown")

\* requireSubscription() throws 4409.
ReceiveStray(m) ==
  /\ m.type # "close" /\ m.id \notin clientMap
  /\ ClientCloses("client")
  /\ UNCHANGED <<client, queue, clientMap, clientTimers>>

\* The close event: every iterator in the map is thrown, which runs the teardown
\* of those that had not ended.
ClientClosed ==
  LET alive == {id \in clientMap : ~Ended(client[id])}
  IN  /\ clientSocket' = "closed"
      /\ client' = [id \in Ids |-> IF id \in alive THEN "thrown" ELSE client[id]]
      /\ queue' = [id \in Ids |-> IF id \in alive THEN <<>> ELSE queue[id]]
      /\ clientTimers' = clientTimers \cup alive
      /\ UNCHANGED clientMap

\* A message or a close frame arrives.
ClientReceives ==
  /\ Quiet
  /\ toClient # <<>>
  /\ clientSocket # "closed"
  /\ LET m == Head(toClient)
     IN  \/ /\ m.type # "close"
            /\ clientSocket # "muted"
            /\ ReceiveNext(m) \/ ReceiveComplete(m) \/ ReceiveError(m) \/ ReceiveStray(m)
            /\ toClient' = Tail(toClient)
         \/ /\ m.type # "close"
            /\ clientSocket = "muted"
            /\ toClient' = Tail(toClient)
            /\ UNCHANGED <<clientVars, toServer, closedBy>>
         \/ /\ m.type = "close"
            /\ ClientClosed
            /\ ClientSend(CloseFrame)
            /\ toClient' = <<>>
            /\ UNCHANGED closedBy
  /\ UNCHANGED <<nextSubscriptionId, serverVars, emitted, delivered>>

\* The connection breaks: the client gets a close event, maybe an error event first.
ClientLoses ==
  /\ Quiet
  /\ clientSocket # "closed"
  /\ ClientClosed
  /\ toClient' = <<>>
  /\ Blame("outside")
  /\ UNCHANGED <<nextSubscriptionId, serverVars, toServer, emitted, delivered>>

\* The application closes the client.
ClientShutsDown ==
  /\ clientSocket = "open"
  /\ ClientCloses("outside")
  /\ UNCHANGED <<client, queue, clientMap, clientTimers, nextSubscriptionId, serverVars,
                 toClient, emitted, delivered>>

--------------------------------------------------------------------------------
(* The server *)

\* (await subscription).return?.()
Returned(id) == [stage EXCEPT ![id] = IF @ = "streaming" THEN "returning" ELSE @]

\* handleSubscribeMessage(): a message that finds its id taken closes the socket.
ReceiveSubscribe(m) ==
  /\ m.type = "subscribe"
  /\ \/ /\ m.id \in serverMap
        /\ ServerCloses("server")
        /\ UNCHANGED <<stage, serverMap>>
     \/ /\ m.id \notin serverMap
        /\ stage' = [stage EXCEPT ![m.id] = "starting"]
        /\ serverMap' = serverMap \cup {m.id}
        /\ UNCHANGED <<serverSocket, toClient, closedBy>>
  /\ UNCHANGED <<listed, serverTimers, completing>>

Bug_ReceiveUnsubscribe(m) ==
  /\ m.type = "complete"
  /\ \/ /\ m.id \notin serverMap
        /\ ServerCloses("server")
        /\ UNCHANGED <<stage, completing>>
     \/ /\ m.id \in serverMap
        /\ stage' = Returned(m.id)
        /\ UNCHANGED <<serverSocket, toClient, closedBy, completing>>
  /\ UNCHANGED <<listed, serverMap, serverTimers>>

\* handleCompleteMessage(): awaits the subscription, or throws 4409.
ReceiveUnsubscribe(m) ==
  /\ m.type = "complete"
  /\ \/ /\ m.id \notin serverMap
        /\ ServerCloses("server")
        /\ UNCHANGED <<stage, completing>>
     \/ /\ m.id \in serverMap
        /\ IF stage[m.id] = "starting"
           THEN completing' = completing \cup {m.id} /\ UNCHANGED stage
           ELSE stage' = Returned(m.id) /\ UNCHANGED completing
        /\ UNCHANGED <<serverSocket, toClient, closedBy>>
  /\ UNCHANGED <<listed, serverMap, serverTimers>>

CompleteReturns(id) ==
  /\ id \in completing
  /\ stage[id] # "starting"
  /\ completing' = completing \ {id}
  /\ stage' = Returned(id)
  /\ UNCHANGED <<serverSocket, listed, serverMap, serverTimers, clientVars,
                 nextSubscriptionId, toServer, toClient, closedBy, emitted, delivered>>

\* The close event: the socket leaves the server's set; the subscriptions are
\* returned one by one (SweepReturns).
ServerClosed == serverSocket' = "closed" /\ listed' = FALSE

ServerReceives ==
  /\ toServer # <<>>
  /\ serverSocket # "closed"
  /\ LET m == Head(toServer)
     IN  \/ /\ ReceiveSubscribe(m) \/ ReceiveUnsubscribe(m)
            /\ toServer' = Tail(toServer)
         \/ /\ m.type = "close"
            /\ ServerClosed
            /\ ServerSend(CloseFrame)
            /\ toServer' = <<>>
            /\ UNCHANGED <<stage, serverMap, serverTimers, completing, closedBy>>
  /\ UNCHANGED <<clientVars, nextSubscriptionId, emitted, delivered>>

ServerLoses ==
  /\ serverSocket # "closed"
  /\ ServerClosed
  /\ toServer' = <<>>
  /\ Blame("outside")
  /\ UNCHANGED <<stage, serverMap, serverTimers, completing, clientVars,
                 nextSubscriptionId, toClient, emitted, delivered>>

\* GraphQLWebSocketServer.close() closes the sockets in its set and empties it.
ServerShutsDown ==
  /\ listed
  /\ listed' = FALSE
  /\ ServerCloses("outside")
  /\ UNCHANGED <<stage, serverMap, serverTimers, completing, clientVars,
                 nextSubscriptionId, toServer, emitted, delivered>>

\* subscribe() settles: an iterator, or an error that is sent instead.
StartSettles(id) ==
  /\ stage[id] = "starting"
  /\ \/ /\ stage' = [stage EXCEPT ![id] = "streaming"]
        /\ UNCHANGED toClient
     \/ /\ stage' = [stage EXCEPT ![id] = "failed"]
        /\ ServerSend(Message("error", id))
  /\ UNCHANGED <<serverSocket, listed, serverMap, serverTimers, completing, clientVars,
                 nextSubscriptionId, toServer, closedBy, emitted, delivered>>

\* The sources may send more.
MoreValues == MapThenSumSet(LAMBDA i : emitted[i], Ids) < MaxValues

\* The pump sends a result; a returned iterator may still have some under way.
\* One that is yielded to a socket that is not open is gone.
PumpNext(id) ==
  /\ stage[id] \in {"streaming", "returning"}
  /\ serverSocket = "open"
  /\ MoreValues
  /\ emitted' = [emitted EXCEPT ![id] = @ + 1]
  /\ ServerSend([type |-> "next", id |-> id, value |-> emitted[id] + 1])
  /\ UNCHANGED <<clientVars, nextSubscriptionId, serverVars, toServer, closedBy,
                 delivered>>

\* The iterator has ended or thrown.
PumpEnds(id) ==
  /\ \/ /\ stage' = [stage EXCEPT ![id] = "ended"]
        /\ ServerSend(Message("complete", id))
     \/ /\ stage' = [stage EXCEPT ![id] = "errored"]
        /\ ServerSend(Message("error", id))
  /\ serverTimers' = serverTimers \cup {id}
  /\ UNCHANGED <<serverSocket, listed, serverMap, completing, clientVars,
                 nextSubscriptionId, toServer, closedBy, emitted, delivered>>

SourceEnds(id) == stage[id] = "streaming" /\ PumpEnds(id)

IteratorReturns(id) == stage[id] = "returning" /\ PumpEnds(id)

\* Three seconds after the end of the pump.
ServerDelete(id) ==
  /\ id \in serverTimers
  /\ "network" \in Prompt => ~InFlight(id)
  /\ "consumer" \in Prompt => client[id] # "finished"
  /\ serverTimers' = serverTimers \ {id}
  /\ serverMap' = serverMap \ {id}
  /\ UNCHANGED <<serverSocket, listed, stage, completing, clientVars,
                 nextSubscriptionId, toServer, toClient, closedBy, emitted, delivered>>

\* The loop of the close handler awaits the subscriptions in the order of the map.
SweepReturns(id) ==
  /\ serverSocket = "closed"
  /\ id \in serverMap /\ stage[id] = "streaming"
  /\ \A other \in serverMap : other < id => stage[other] # "starting"
  /\ stage' = Returned(id)
  /\ UNCHANGED <<serverSocket, listed, serverMap, serverTimers, completing, clientVars,
                 nextSubscriptionId, toServer, toClient, closedBy, emitted, delivered>>

--------------------------------------------------------------------------------
Next ==
  \/ Subscribe
  \/ ClientReceives
  \/ ClientLoses
  \/ ClientShutsDown
  \/ ServerReceives
  \/ ServerLoses
  \/ ServerShutsDown
  \/ \E id \in Ids :
       \/ FirstNext(id)
       \/ SetupResolves(id)
       \/ ReturnInSetup(id)
       \/ Consume(id)
       \/ Drain(id)
       \/ Return(id)
       \/ ClientDelete(id)
       \/ CompleteReturns(id)
       \/ StartSettles(id)
       \/ PumpNext(id)
       \/ SourceEnds(id)
       \/ IteratorReturns(id)
       \/ ServerDelete(id)
       \/ SweepReturns(id)

Spec == Init /\ [][Next]_vars

(* Sockets deliver what was sent and notice when the other end is gone,        *)
(* subscribe() settles, iterators obey return(), consumers read, and event     *)
(* loops run continuations.  Nobody has to send a result, to end a source, to  *)
(* subscribe or to cancel.  It is enough that some of this happens while there *)
(* is something of it to do.                                                   *)
SystemStep ==
  \/ Subscribe
  \/ ClientReceives
  \/ ServerReceives
  \/ serverSocket = "closed" /\ ClientLoses
  \/ clientSocket = "closed" /\ ServerLoses
  \/ \E id \in Ids :
       \/ SetupResolves(id)
       \/ Consume(id)
       \/ Drain(id)
       \/ CompleteReturns(id)
       \/ StartSettles(id)
       \/ IteratorReturns(id)
       \/ SweepReturns(id)

FairSpec == Spec /\ WF_vars(SystemStep)

--------------------------------------------------------------------------------
\* The messages to the server and to the client
ServerBound == {CloseFrame} \cup [type : {"subscribe", "complete"}, id : Ids, value : {0}]
ClientBound == {CloseFrame} \cup [type : {"next", "complete", "error"}, id : Ids, value : Nat]

IteratorStates == {"none", "setup", "subscribed", "open", "finished", "drained", "returned",
                   "thrown", "abandoned"}

ClientTypes ==
  /\ clientSocket \in {"open", "closing", "muted", "closed"}
  /\ nextSubscriptionId \in 1..(MaxSubs + 1)
  /\ client \in [Ids -> IteratorStates]
  /\ queue \in [Ids -> Seq(Nat)]
  /\ clientMap \subseteq Ids /\ clientTimers \subseteq Ids
  /\ delivered \in [Ids -> Seq(Nat)]

ServerTypes ==
  /\ serverSocket \in {"open", "closing", "closed"}
  /\ listed \in BOOLEAN
  /\ stage \in [Ids -> {"none", "starting", "streaming", "returning", "failed", "ended",
                        "errored"}]
  /\ serverMap \subseteq Ids /\ serverTimers \subseteq Ids /\ completing \subseteq Ids
  /\ emitted \in [Ids -> Nat]

(* Types of the state of both ends and of the channels.                         *)
TypeOK ==
  /\ ClientTypes
  /\ ServerTypes
  /\ toServer \in Seq(ServerBound) /\ toClient \in Seq(ClientBound)
  /\ closedBy \in {"nobody", "client", "server", "outside"}

(* Two ends that both follow the code never close the connection on each other  *)
(* with 4409: as long as everybody named in Prompt answers within the three     *)
(* seconds of the delayed deletes, no message finds its subscription gone,      *)
(* whatever is cancelled, completed, refused or thrown meanwhile.               *)
NobodyIsStray == closedBy \notin {"client", "server"}

Sub(id) == INSTANCE Subscription WITH
  source <- CASE stage[id] = "ended" -> "done"
              [] stage[id] \in {"errored", "failed"} -> "failed"
              [] OTHER -> "open",
  sent <- emitted[id],
  received <- delivered[id],
  consumer <- CASE client[id] = "drained" -> "complete"
                [] client[id] \in {"returned", "thrown", "abandoned"} -> "broken"
                [] OTHER -> "reading"

(* From the resolver's iterator to the consumer's, every subscription keeps its *)
(* promise: results arrive in order and without gaps, and the client's iterator *)
(* ends normally only when the source has, with every result delivered; losing  *)
(* the connection, closing and cancelling break it off instead.                 *)
ImplementsSubscription ==
  /\ \A id \in Ids : Sub(id)!Init
  /\ [][\A id \in Ids : [Sub(id)!Next]_(Sub(id)!vars)]_vars

(* The two ends of a subscription end together: when its iterator has ended on  *)
(* the client, its source does not run on on the server; when the source has    *)
(* ended, or could not be started, the client's consumer is not left waiting.   *)
(* Neither lasts.  The exception is an iterator that was ended before the       *)
(* await of its setup function was over: nobody tells the server, and the       *)
(* source runs on, but not longer than the connection.                          *)
EndsMeet ==
  []<>(\A id \in Ids :
         /\ Ended(client[id]) /\ (client[id] = "abandoned" => serverSocket = "closed") =>
              stage[id] \notin {"starting", "streaming", "returning"}
         /\ stage[id] \in {"ended", "errored", "failed"} => Ended(client[id]))

==================================================================================

-------------------------- MODULE GraphQLWebSocketClient -------------------------
(***************************************************************************)
(* ws/GraphQLWebSocketClient.ts: subscriptions that survive their sockets. *)
(*                                                                         *)
(* Each subscription is an outer iterator for the consumer and a run loop  *)
(* that gets a connection, subscribes to it through an inner iterator      *)
(* (ws/GraphQLClientWebSocket.ts) and copies the inner into the outer one, *)
(* over and over while the connection fails in a way worth a retry.  The   *)
(* loops share one current socket and one reconnect delay.                 *)
(*                                                                         *)
(* A loop is between two awaits:                                           *)
(*   "delay"     it awaits the reconnect delay                             *)
(*   "connect"   it is about to use or create the current socket           *)
(*   "ack"       it awaits the acknowledgement of socket at[s]             *)
(*   "inner"     it iterates over its inner iterator                       *)
(*   "retry"     it has scheduled its next run                             *)
(*   "idle", "over"   it has not begun, it has ended                       *)
(* Continuations run before the next event of the event loop (Quiet); the  *)
(* consumer and the application may act in between.                        *)
(***************************************************************************)
EXTENDS Naturals, FiniteSets

CONSTANTS
  Subs,             \* the subscriptions
  MaxSockets,       \* bound: how many sockets are created
  MinDelay,         \* this.minReconnectDelay
  MaxDelay,         \* this.maxReconnectDelay
  Multiplier,       \* this.reconnectDelayMultiplier
  AutoReconnect     \* this.autoReconnect

ASSUME ClientAssumption ==
  /\ MaxSockets \in Nat
  /\ MinDelay \in Nat \ {0} /\ MaxDelay \in Nat /\ Multiplier \in Nat
  /\ AutoReconnect \in BOOLEAN

Sockets == 1..MaxSockets

\* How a socket or a subscription may fail: a normal closure (1000, 1005), a
\* failure that may pass (1006, 1012-1014, -1), or one that will not.
Failures == {"normal", "passing", "fatal"}

VARIABLES
  lateMessages,     \* does a closing socket deliver messages?  ws does, browsers do not
  readyState,       \* the state of each socket
  ack,              \* connectionAckPayloadPromise of each socket
  current,          \* this.graphqlSocket, 0 when undefined
  delay,            \* this.reconnectDelay
  delayArmed,       \* is this.reconnectDelayPromise pending?
  outer,            \* the outer iterator of each subscription
  pc,               \* the run loop of each subscription
  at,               \* the socket a run loop uses
  inner,            \* the inner iterator of each subscription
  remote            \* the socket on which the server has the subscription, or 0

socketVars == <<lateMessages, readyState, ack>>
delayVars == <<delay, delayArmed>>
subVars == <<outer, pc, at, inner, remote>>
vars == <<socketVars, current, delayVars, subVars>>

Init ==
  /\ lateMessages \in BOOLEAN
  /\ readyState = [n \in Sockets |-> "none"]
  /\ ack = [n \in Sockets |-> "pending"]
  /\ current = 0
  /\ delay = 0
  /\ delayArmed = FALSE
  /\ outer = [s \in Subs |-> "new"]
  /\ pc = [s \in Subs |-> "idle"]
  /\ at = [s \in Subs |-> 0]
  /\ inner = [s \in Subs |-> "none"]
  /\ remote = [s \in Subs |-> 0]

--------------------------------------------------------------------------------
(* Helpers *)

\* graphqlSocket?.isOpenOrConnecting()
Live(n) == n # 0 /\ readyState[n] \in {"connecting", "open"}

Created == {n \in Sockets : readyState[n] # "none"}

\* Is a continuation of the loop of s due?
Due(s) ==
  \/ pc[s] = "connect"
  \/ pc[s] = "ack" /\ ack[at[s]] # "pending"
  \/ pc[s] = "inner" /\ inner[s] \in {"setup", "aborted"} /\ ack[at[s]] # "pending"
  \/ pc[s] = "inner" /\ inner[s] \in {"ended"} \cup Failures

Quiet == \A s \in Subs : ~Due(s)

\* run() up to its first await: awaitReconnectDelay() waits only when there is no
\* socket to share and the client has connected or failed before.
Begin(s) ==
  IF Live(current) \/ delay = 0
  THEN pc' = [pc EXCEPT ![s] = "connect"] /\ UNCHANGED delayArmed
  ELSE pc' = [pc EXCEPT ![s] = "delay"] /\ delayArmed' = TRUE

\* MUTANT: no maximum.
Bug_Increased(d) ==
  {Multiplier * (IF d > MinDelay THEN d ELSE MinDelay) + r : r \in 0..(MinDelay - 1)}

\* increaseReconnectDelay(); the random part is below MinDelay.
Increased(d) ==
  LET base == Multiplier * (IF d > MinDelay THEN d ELSE MinDelay)
  IN  {(IF base < MaxDelay THEN base ELSE MaxDelay) + r : r \in 0..(MinDelay - 1)}

\* The outer iterator ends: its teardown returns the inner iterator, if there is
\* one, which tells the server when the socket is open.
Unsubscribed(s) ==
  IF inner[s] = "live" /\ readyState[at[s]] = "open" THEN [remote EXCEPT ![s] = 0] ELSE remote

InnerReturned(s) ==
  [inner EXCEPT ![s] = CASE @ = "live" -> "ended"
                         [] @ = "setup" -> "aborted"
                         [] OTHER -> @]

\* MUTANT: a failure that is not retried is not thrown either.
Bug_Caught(s, failure) ==
  /\ pc' = [pc EXCEPT ![s] = IF failure = "fatal" THEN "over" ELSE "retry"]
  /\ UNCHANGED outer

\* catch (err) of run(): schedule another run, or throw and be over.
Caught(s, failure) ==
  IF failure = "fatal"
  THEN /\ pc' = [pc EXCEPT ![s] = "over"]
       /\ outer' = [outer EXCEPT ![s] = "over"]
  ELSE /\ pc' = [pc EXCEPT ![s] = "retry"]
       /\ UNCHANGED outer

--------------------------------------------------------------------------------
(* The consumer and the application. *)

\* The first next() of the outer iterator runs its setup: the loop begins.
Iterate(s) ==
  /\ outer[s] = "new"
  /\ outer' = [outer EXCEPT ![s] = "open"]
  /\ Begin(s)
  /\ UNCHANGED <<socketVars, current, delay, at, inner, remote>>

\* The outer iterator ends: the consumer returns it, or drains a finished one.
End(s) ==
  /\ outer[s] \in {"open", "finished"}
  /\ outer' = [outer EXCEPT ![s] = "over"]
  /\ inner' = InnerReturned(s)
  /\ remote' = Unsubscribed(s)
  /\ UNCHANGED <<socketVars, current, delayVars, pc, at>>

\* close(): finish every subscription and close the current socket, if it is live.
ClientClose ==
  /\ readyState' = IF Live(current) THEN [readyState EXCEPT ![current] = "closing"]
                   ELSE readyState
  /\ outer' = [s \in Subs |-> IF outer[s] = "open" THEN "finished" ELSE outer[s]]
  /\ UNCHANGED <<lateMessages, ack, current, delayVars, pc, at, inner, remote>>

--------------------------------------------------------------------------------
(* The run loop. *)

\* setTimeout(run, 1)
Retry(s) ==
  /\ pc[s] = "retry" /\ Quiet
  /\ Begin(s)
  /\ UNCHANGED <<socketVars, current, delay, outer, at, inner, remote>>

\* MUTANT: a promise of its own for each waiting loop, and one timer.
Bug_DelayElapses ==
  /\ delayArmed /\ Quiet
  /\ delayArmed' = FALSE
  /\ \E s \in Subs : pc[s] = "delay" /\ pc' = [pc EXCEPT ![s] = "connect"]
  /\ UNCHANGED <<socketVars, current, delay, outer, at, inner, remote>>

\* The reconnect delay is over for every loop that awaits it.
DelayElapses ==
  /\ delayArmed /\ Quiet
  /\ delayArmed' = FALSE
  /\ pc' = [s \in Subs |-> IF pc[s] = "delay" THEN "connect" ELSE pc[s]]
  /\ UNCHANGED <<socketVars, current, delay, outer, at, inner, remote>>

\* requireConnection(): share the live socket ...
ConnectShared(s) ==
  /\ pc[s] = "connect"
  /\ Live(current)
  /\ pc' = [pc EXCEPT ![s] = "ack"]
  /\ at' = [at EXCEPT ![s] = current]
  /\ UNCHANGED <<socketVars, current, delayVars, outer, inner, remote>>

\* MUTANT: create a socket whether or not there is a live one.
Bug_ConnectNew(s) ==
  /\ pc[s] = "connect"
  /\ LET n == Cardinality(Created) + 1
     IN  /\ n \in Sockets
         /\ readyState' = [readyState EXCEPT ![n] = "connecting"]
         /\ current' = n
         /\ at' = [at EXCEPT ![s] = n]
  /\ pc' = [pc EXCEPT ![s] = "ack"]
  /\ UNCHANGED <<lateMessages, ack, delayVars, outer, inner, remote>>

\* ... or create a new one.
ConnectNew(s) ==
  /\ pc[s] = "connect"
  /\ ~Live(current)
  /\ LET n == Cardinality(Created) + 1
     IN  /\ n \in Sockets
         /\ readyState' = [readyState EXCEPT ![n] = "connecting"]
         /\ current' = n
         /\ at' = [at EXCEPT ![s] = n]
  /\ pc' = [pc EXCEPT ![s] = "ack"]
  /\ UNCHANGED <<lateMessages, ack, delayVars, outer, inner, remote>>

\* createWebSocket() is the application's and may throw.
ConnectThrows(s) ==
  /\ pc[s] = "connect"
  /\ ~Live(current)
  /\ Caught(s, "fatal")
  /\ UNCHANGED <<socketVars, current, delayVars, at, inner, remote>>

\* The acknowledgement is there: reset the delay and iterate over a new inner
\* iterator of the current socket, whose setup awaits the acknowledgement again.
\* The current socket may be a newer one than the one acknowledged, when that was
\* closing already.
Acked(s) ==
  /\ pc[s] = "ack"
  /\ ack[at[s]] = "resolved"
  /\ delay' = MinDelay
  /\ pc' = [pc EXCEPT ![s] = "inner"]
  /\ at' = [at EXCEPT ![s] = current]
  /\ inner' = [inner EXCEPT ![s] = "setup"]
  /\ UNCHANGED <<socketVars, current, delayArmed, outer, remote>>

\* The socket failed before: each waiting loop increases the delay.
AckFailed(s) ==
  /\ pc[s] = "ack"
  /\ ack[at[s]] \in Failures
  /\ delay' \in Increased(delay)
  /\ Caught(s, ack[at[s]])
  /\ UNCHANGED <<socketVars, current, delayArmed, at, inner, remote>>

\* The setup of the inner iterator: register and send subscribe.  One that was
\* returned meanwhile registers all the same and is never torn down.
InnerSetup(s) ==
  /\ pc[s] = "inner"
  /\ inner[s] \in {"setup", "aborted"}
  /\ ack[at[s]] = "resolved"
  /\ inner' = [inner EXCEPT ![s] = IF @ = "setup" THEN "live" ELSE "ended"]
  /\ remote' = IF readyState[at[s]] = "open" THEN [remote EXCEPT ![s] = at[s]] ELSE remote
  /\ UNCHANGED <<socketVars, current, delayVars, outer, pc, at>>

\* The newer socket has failed meanwhile: the setup rejects and so does next().
InnerSetupFails(s) ==
  /\ pc[s] = "inner"
  /\ inner[s] \in {"setup", "aborted"}
  /\ ack[at[s]] \in Failures
  /\ inner' = [inner EXCEPT ![s] = ack[at[s]]]
  /\ UNCHANGED <<socketVars, current, delayVars, outer, pc, at, remote>>

\* The inner iterator has ended: so does the loop, and the outer one finishes.
LoopEnds(s) ==
  /\ pc[s] = "inner"
  /\ inner[s] = "ended"
  /\ pc' = [pc EXCEPT ![s] = "over"]
  /\ outer' = [outer EXCEPT ![s] = IF @ = "open" THEN "finished" ELSE @]
  /\ UNCHANGED <<socketVars, current, delayVars, at, inner, remote>>

\* The inner iterator has thrown.
LoopFails(s) ==
  /\ pc[s] = "inner"
  /\ inner[s] \in Failures
  /\ Caught(s, inner[s])
  /\ UNCHANGED <<socketVars, current, delayVars, at, inner, remote>>

--------------------------------------------------------------------------------
(* The sockets: ws/GraphQLClientWebSocket.ts and the network. *)

\* connection_init is sent.
SocketOpens(n) ==
  /\ readyState[n] = "connecting" /\ Quiet
  /\ readyState' = [readyState EXCEPT ![n] = "open"]
  /\ UNCHANGED <<lateMessages, ack, current, delayVars, subVars>>

\* Can socket n deliver a message?
Delivers(n) ==
  \/ readyState[n] = "open"
  \/ readyState[n] = "closing" /\ lateMessages

\* connection_ack
AckArrives(n) ==
  /\ Delivers(n) /\ ack[n] = "pending" /\ Quiet
  /\ ack' = [ack EXCEPT ![n] = "resolved"]
  /\ UNCHANGED <<lateMessages, readyState, current, delayVars, subVars>>

\* MUTANT: only an open socket is closed.
Bug_AckTimeout(n) ==
  /\ readyState[n] = "open" /\ ack[n] = "pending" /\ Quiet
  /\ readyState' = [readyState EXCEPT ![n] = "closing"]
  /\ UNCHANGED <<lateMessages, ack, current, delayVars, subVars>>

\* No connection_ack in time: close the socket.
AckTimeout(n) ==
  /\ Live(n) /\ ack[n] = "pending" /\ Quiet
  /\ readyState' = [readyState EXCEPT ![n] = "closing"]
  /\ UNCHANGED <<lateMessages, ack, current, delayVars, subVars>>

\* A message this side cannot handle closes the socket as well.
BadMessage(n) ==
  /\ readyState[n] = "open" /\ Quiet
  /\ readyState' = [readyState EXCEPT ![n] = "closing"]
  /\ UNCHANGED <<lateMessages, ack, current, delayVars, subVars>>

\* handleNextMessage() does not show; handleCompleteMessage() finishes the inner
\* iterator.
ServerCompletes(s) ==
  /\ inner[s] = "live" /\ Quiet
  /\ Delivers(at[s])
  /\ inner' = [inner EXCEPT ![s] = "ended"]
  /\ remote' = [remote EXCEPT ![s] = 0]
  /\ UNCHANGED <<socketVars, current, delayVars, outer, pc, at>>

\* handleErrorMessage() throws an error without a code.
ServerErrors(s) ==
  /\ inner[s] = "live" /\ Quiet
  /\ Delivers(at[s])
  /\ inner' = [inner EXCEPT ![s] = "fatal"]
  /\ remote' = [remote EXCEPT ![s] = 0]
  /\ UNCHANGED <<socketVars, current, delayVars, outer, pc, at>>

\* MUTANT: the registered iterators are forgotten.
Bug_Fail(n, failure) ==
  /\ ack' = [ack EXCEPT ![n] = IF @ = "pending" THEN failure ELSE @]
  /\ UNCHANGED inner

\* Reject the acknowledgement and throw every registered iterator of the socket.
Fail(n, failure) ==
  /\ ack' = [ack EXCEPT ![n] = IF @ = "pending" THEN failure ELSE @]
  /\ inner' = [s \in Subs |-> IF inner[s] = "live" /\ at[s] = n THEN failure ELSE inner[s]]

\* handleCloseEvent(): for the server, too, its subscriptions are gone.
SocketCloses(n) ==
  /\ readyState[n] \in {"connecting", "open", "closing"} /\ Quiet
  /\ readyState' = [readyState EXCEPT ![n] = "closed"]
  /\ \E failure \in Failures : Fail(n, failure)
  /\ remote' = [s \in Subs |-> IF remote[s] = n THEN 0 ELSE remote[s]]
  /\ UNCHANGED <<lateMessages, current, delayVars, outer, pc, at>>

\* handleErrorEvent(), with code -1; a close event follows.
SocketErrors(n) ==
  /\ Live(n) /\ Quiet
  /\ readyState' = [readyState EXCEPT ![n] = "closing"]
  /\ Fail(n, "passing")
  /\ UNCHANGED <<lateMessages, current, delayVars, outer, pc, at, remote>>

--------------------------------------------------------------------------------
Connect(s) == ConnectShared(s) \/ ConnectNew(s) \/ ConnectThrows(s)

Continue(s) ==
  \/ Acked(s)
  \/ AckFailed(s)
  \/ InnerSetup(s)
  \/ InnerSetupFails(s)
  \/ LoopEnds(s)
  \/ LoopFails(s)

Next ==
  \/ ClientClose
  \/ DelayElapses
  \/ \E s \in Subs :
       \/ Iterate(s)
       \/ End(s)
       \/ Retry(s)
       \/ Connect(s)
       \/ Continue(s)
       \/ ServerCompletes(s)
       \/ ServerErrors(s)
  \/ \E n \in Sockets :
       \/ SocketOpens(n)
       \/ AckArrives(n)
       \/ AckTimeout(n)
       \/ BadMessage(n)
       \/ SocketCloses(n)
       \/ SocketErrors(n)

Spec == Init /\ [][Next]_vars

(* The event loop runs continuations and timers, and a closing socket gets      *)
(* closed.  Nothing is asked of the server or of the consumer.                  *)
Fairness ==
  /\ WF_vars(DelayElapses)
  /\ \A s \in Subs :
       /\ WF_vars(Connect(s))
       /\ WF_vars(Continue(s))
       /\ WF_vars(Retry(s))
  /\ \A n \in Sockets :
       /\ WF_vars(AckTimeout(n))
       /\ WF_vars(readyState[n] = "closing" /\ SocketCloses(n))

FairSpec == Spec /\ Fairness

--------------------------------------------------------------------------------
(* Types of the fields and loops of ws/GraphQLWebSocketClient.ts.               *)
TypeOK ==
  /\ lateMessages \in BOOLEAN
  /\ readyState \in [Sockets -> {"none", "connecting", "open", "closing", "closed"}]
  /\ ack \in [Sockets -> {"pending", "resolved"} \cup Failures]
  /\ current \in {0} \cup Sockets
  /\ delay \in Nat
  /\ delayArmed \in BOOLEAN
  /\ outer \in [Subs -> {"new", "open", "finished", "over"}]
  /\ pc \in [Subs -> {"idle", "delay", "connect", "ack", "inner", "retry", "over"}]
  /\ at \in [Subs -> {0} \cup Sockets]
  /\ inner \in [Subs -> {"none", "setup", "aborted", "live", "ended"} \cup Failures]
  /\ remote \in [Subs -> {0} \cup Sockets]

(* The subscriptions share one connection: however many loops wake at the same  *)
(* time, no two sockets are ever open or connecting, and it is the current one. *)
OneLiveSocket == \A n \in Sockets : Live(n) => n = current

(* No subscription hangs on a socket that has closed: whatever is registered is *)
(* thrown by the close event, also what registered while the socket was closing.*)
(* A subscription that is not would never reconnect, as the test "should        *)
(* reconnect on non-error closures" (test/ws/example.ws.test.ts:391) wants.     *)
NoneOnClosedSocket ==
  \A s \in Subs :
    pc[s] = "inner" /\ inner[s] = "live" => readyState[at[s]] # "closed"

(* The same for sockets that obey the WebSocket standard: once closing, they    *)
(* deliver no message, and so no late acknowledgement.                          *)
NoneOnClosedStandardSocket == ~lateMessages => NoneOnClosedSocket

(* A consumer that iterates is never abandoned: as long as its outer iterator is*)
(* open there is a loop that will push to it, finish it or throw it.            *)
OpenHasLoop == \A s \in Subs : outer[s] = "open" => pc[s] \notin {"idle", "over"}

(* A loop that waits for the reconnect delay waits for a timer that is running. *)
WaitersHaveTimer == \A s \in Subs : pc[s] = "delay" => delayArmed

(* However many loops multiply the delay of one failure, and although nothing    *)
(* resets it before an acknowledgement, the delay stays below the sum of both   *)
(* bounds, and never falls below the smaller one.  It may pass                  *)
(* maxReconnectDelay, by up to minReconnectDelay: see DelayWithinMaximum.       *)
DelayBounded ==
  delay = 0 \/ delay \in (IF MinDelay < MaxDelay THEN MinDelay ELSE MaxDelay)
                           .. (IF MinDelay < MaxDelay THEN MaxDelay + MinDelay ELSE 2 * MinDelay)

(* Every attempt to connect comes to an end: streaming, another run, or over.   *)
AttemptsSettle ==
  \A s \in Subs : (pc[s] \in {"delay", "connect", "ack"})
                    ~> (pc[s] \in {"inner", "retry", "over"})

(* Whoever ends a subscription ends it on the server too, as CHANGELOG.md:160   *)
(* says ("Fix bug where subscriptions where not closed when returned            *)
(* client-side"): no open socket carries a subscription whose consumer is gone. *)
ClosedWhenReturned ==
  \A s \in Subs : outer[s] = "over" /\ remote[s] # 0 => readyState[remote[s]] # "open"

(* The comment on maxReconnectDelay (GraphQLWebSocketClient.ts:62-63) calls it  *)
(* the "Maximum delay to wait before reconnection".  The code does not keep to  *)
(* it: increaseReconnectDelay() (:301-308) adds the random part after min().    *)
DelayWithinMaximum == MinDelay <= MaxDelay => delay <= MaxDelay

(* The comment on minReconnectDelay (GraphQLWebSocketClient.ts:55) says that    *)
(* reconnections only happen with open subscriptions.                           *)
ReconnectsForOpen ==
  [][current # 0 /\ current' # current => \E s \in Subs : outer[s] = "open"]_vars

(* The comment on autoReconnect (GraphQLWebSocketClient.ts:47-50) makes it the  *)
(* choice whether to reconnect on a normal closure.                             *)
ReconnectsIfAsked ==
  ~AutoReconnect =>
    \A s \in Subs : ~(outer[s] = "open" /\ pc[s] = "retry" /\ inner[s] = "normal")

================================================================================

---------------------- MODULE GraphQLWebSocketSessionProofs ----------------------
(***************************************************************************)
(* Proofs about GraphQLWebSocketSession, for any number of subscriptions   *)
(* and results: every subscription implements Subscription, whoever is     *)
(* prompt, and if everybody is, neither end closes the connection on the   *)
(* other.                                                                  *)
(***************************************************************************)
EXTENDS GraphQLWebSocketSession, TLAPS

\* Is there such a message in a channel?
Has(q, type, id) == \E i \in DOMAIN q : q[i].type = type /\ q[i].id = id

\* In a channel, none of the first type is followed by one of the second.
NoneAfter(q, first, second, id) ==
  \A i, j \in DOMAIN q :
    i < j => ~(/\ q[i].type = first /\ q[i].id = id
               /\ q[j].type = second /\ q[j].id = id)

\* Is there this result in a channel?
HasValue(q, id, v) ==
  \E i \in DOMAIN q : q[i].type = "next" /\ q[i].id = id /\ q[i].value = v

\* The results in a channel are in order.
Ordered(q, id) ==
  \A i, j \in DOMAIN q :
    i < j /\ q[i].type = "next" /\ q[i].id = id /\ q[j].type = "next" /\ q[j].id = id =>
      q[i].value < q[j].value

--------------------------------------------------------------------------------
(* What a message at the end of a channel changes.                              *)
LEMMA Appended ==
  ASSUME NEW S, NEW q \in Seq(S), NEW m \in S
  PROVE  /\ Append(q, m) \in Seq(S)
         /\ \A t, i : Has(Append(q, m), t, i) <=> Has(q, t, i) \/ (m.type = t /\ m.id = i)
         /\ \A s, t, i : NoneAfter(Append(q, m), s, t, i) <=>
              NoneAfter(q, s, t, i) /\ ~(m.type = t /\ m.id = i /\ Has(q, s, i))
         /\ \A i, v : HasValue(Append(q, m), i, v) <=>
              HasValue(q, i, v) \/ (m.type = "next" /\ m.id = i /\ m.value = v)
         /\ \A i : Ordered(Append(q, m), i) <=>
              /\ Ordered(q, i)
              /\ m.type = "next" /\ m.id = i => \A v : HasValue(q, i, v) => v < m.value
<1> DEFINE r == Append(q, m)
           n == Len(q)
<1>1. /\ n \in Nat /\ r \in Seq(S) /\ Len(r) = n + 1
      /\ \A k \in 1..n : r[k] = q[k]
      /\ r[n + 1] = m
  OBVIOUS
<1>2. DOMAIN q = 1..n /\ DOMAIN r = 1..(n + 1)
  BY <1>1
<1> HIDE DEF r, n
<1>3. ASSUME NEW t, NEW i
      PROVE  Has(r, t, i) <=> Has(q, t, i) \/ (m.type = t /\ m.id = i)
  BY <1>1, <1>2 DEF Has
<1>4. ASSUME NEW s, NEW t, NEW i
      PROVE  NoneAfter(r, s, t, i) <=>
               NoneAfter(q, s, t, i) /\ ~(m.type = t /\ m.id = i /\ Has(q, s, i))
  BY <1>1, <1>2 DEF Has, NoneAfter
<1>5. ASSUME NEW i, NEW v
      PROVE  HasValue(r, i, v) <=>
               HasValue(q, i, v) \/ (m.type = "next" /\ m.id = i /\ m.value = v)
  BY <1>1, <1>2 DEF HasValue
<1>6. ASSUME NEW i
      PROVE  Ordered(r, i) <=>
               /\ Ordered(q, i)
               /\ m.type = "next" /\ m.id = i => \A v : HasValue(q, i, v) => v < m.value
  BY <1>1, <1>2 DEF HasValue, Ordered
<1> QED BY <1>1, <1>3, <1>4, <1>5, <1>6 DEF r

(* What taking the first message of a channel changes.                          *)
LEMMA Taken ==
  ASSUME NEW S, NEW q \in Seq(S), q # <<>>, NEW m, m = Head(q)
  PROVE  /\ Tail(q) \in Seq(S) /\ m \in S
         /\ \A t, i : Has(q, t, i) <=> Has(Tail(q), t, i) \/ (m.type = t /\ m.id = i)
         /\ \A s, t, i : NoneAfter(q, s, t, i) <=>
              NoneAfter(Tail(q), s, t, i) /\ ~(m.type = s /\ m.id = i /\ Has(Tail(q), t, i))
         /\ \A i, v : HasValue(q, i, v) <=>
              HasValue(Tail(q), i, v) \/ (m.type = "next" /\ m.id = i /\ m.value = v)
         /\ \A i : Ordered(q, i) <=>
              /\ Ordered(Tail(q), i)
              /\ m.type = "next" /\ m.id = i => \A v : HasValue(Tail(q), i, v) => m.value < v
<1> DEFINE r == Tail(q)
           n == Len(r)
<1>1. /\ n \in Nat /\ r \in Seq(S) /\ Len(q) = n + 1 /\ m \in S
      /\ \A k \in 1..n : r[k] = q[k + 1]
      /\ q[1] = m
  OBVIOUS
<1>2. DOMAIN r = 1..n /\ DOMAIN q = 1..(n + 1)
  BY <1>1
<1> HIDE DEF r, n
<1>3. \A k \in DOMAIN q : k = 1 \/ (k - 1 \in DOMAIN r /\ q[k] = r[k - 1])
  BY <1>1, <1>2
<1>4. \A k \in DOMAIN r : k + 1 \in DOMAIN q /\ q[k + 1] = r[k] /\ k \in Nat /\ k > 0
  BY <1>1, <1>2
<1>5. 1 \in DOMAIN q /\ DOMAIN q \subseteq Nat
  BY <1>1, <1>2
<1>6. ASSUME NEW t, NEW i
      PROVE  Has(q, t, i) <=> Has(r, t, i) \/ (m.type = t /\ m.id = i)
  <2>1. Has(q, t, i) => Has(r, t, i) \/ (m.type = t /\ m.id = i)
    BY <1>1, <1>3 DEF Has
  <2>2. Has(r, t, i) => Has(q, t, i)
    BY <1>4 DEF Has
  <2>3. m.type = t /\ m.id = i => Has(q, t, i)
    BY <1>1, <1>5 DEF Has
  <2> QED BY <2>1, <2>2, <2>3
<1>7. ASSUME NEW s, NEW t, NEW i
      PROVE  NoneAfter(q, s, t, i) <=>
               NoneAfter(r, s, t, i) /\ ~(m.type = s /\ m.id = i /\ Has(r, t, i))
  <2>1. ASSUME NoneAfter(q, s, t, i)
        PROVE  NoneAfter(r, s, t, i) /\ ~(m.type = s /\ m.id = i /\ Has(r, t, i))
    <3>1. NoneAfter(r, s, t, i)
      BY <1>4, <2>1 DEF NoneAfter
    <3>2. ~(m.type = s /\ m.id = i /\ Has(r, t, i))
      <4> SUFFICES ASSUME NEW k \in DOMAIN r, r[k].type = t, r[k].id = i, m.type = s, m.id = i
                   PROVE  FALSE
        BY DEF Has
      <4>1. k + 1 \in DOMAIN q /\ q[k + 1] = r[k] /\ 1 < k + 1
        BY <1>4
      <4> QED BY <1>1, <1>5, <2>1, <4>1 DEF NoneAfter
    <3> QED BY <3>1, <3>2
  <2>2. ASSUME NoneAfter(r, s, t, i), ~(m.type = s /\ m.id = i /\ Has(r, t, i))
        PROVE  NoneAfter(q, s, t, i)
    <3> SUFFICES ASSUME NEW j \in DOMAIN q, NEW k \in DOMAIN q, j < k,
                        q[j].type = s, q[j].id = i, q[k].type = t, q[k].id = i
                 PROVE  FALSE
      BY DEF NoneAfter
    <3>1. k - 1 \in DOMAIN r /\ q[k] = r[k - 1]
      BY <1>3, <1>5
    <3>2. CASE j = 1
      BY <1>1, <2>2, <3>1, <3>2 DEF Has
    <3>3. CASE j # 1
      <4>1. j - 1 \in DOMAIN r /\ q[j] = r[j - 1] /\ j - 1 < k - 1
        BY <1>3, <1>5, <3>3
      <4> QED BY <2>2, <3>1, <4>1 DEF NoneAfter
    <3> QED BY <3>2, <3>3
  <2> QED BY <2>1, <2>2
<1>8. ASSUME NEW i, NEW v
      PROVE  HasValue(q, i, v) <=>
               HasValue(r, i, v) \/ (m.type = "next" /\ m.id = i /\ m.value = v)
  BY <1>1, <1>3, <1>4, <1>5 DEF HasValue
<1>9. ASSUME NEW i
      PROVE  Ordered(q, i) <=>
               /\ Ordered(r, i)
               /\ m.type = "next" /\ m.id = i => \A v : HasValue(r, i, v) => m.value < v
  <2> DEFINE First == m.type = "next" /\ m.id = i => \A v : HasValue(r, i, v) => m.value < v
  <2>1. ASSUME Ordered(q, i)
        PROVE  Ordered(r, i) /\ First
    <3>1. Ordered(r, i)
      <4> SUFFICES ASSUME NEW j \in DOMAIN r, NEW k \in DOMAIN r, j < k,
                          r[j].type = "next", r[j].id = i, r[k].type = "next", r[k].id = i
                   PROVE  r[j].value < r[k].value
        BY DEF Ordered
      <4>1. /\ j + 1 \in DOMAIN q /\ q[j + 1] = r[j]
            /\ k + 1 \in DOMAIN q /\ q[k + 1] = r[k]
            /\ j + 1 < k + 1
        BY <1>4
      <4> QED BY <2>1, <4>1 DEF Ordered
    <3>2. First
      <4> SUFFICES ASSUME NEW k \in DOMAIN r, r[k].type = "next", r[k].id = i,
                          m.type = "next", m.id = i
                   PROVE  m.value < r[k].value
        BY DEF HasValue
      <4>1. k + 1 \in DOMAIN q /\ q[k + 1] = r[k] /\ 1 < k + 1
        BY <1>4
      <4> QED BY <1>1, <1>5, <2>1, <4>1 DEF Ordered
    <3> QED BY <3>1, <3>2
  <2>2. ASSUME Ordered(r, i), First
        PROVE  Ordered(q, i)
    <3> SUFFICES ASSUME NEW j \in DOMAIN q, NEW k \in DOMAIN q, j < k,
                        q[j].type = "next", q[j].id = i, q[k].type = "next", q[k].id = i
                 PROVE  q[j].value < q[k].value
      BY DEF Ordered
    <3>1. k - 1 \in DOMAIN r /\ q[k] = r[k - 1]
      BY <1>3, <1>5
    <3>2. CASE j = 1
      BY <1>1, <2>2, <3>1, <3>2 DEF HasValue
    <3>3. CASE j # 1
      <4>1. j - 1 \in DOMAIN r /\ q[j] = r[j - 1] /\ j - 1 < k - 1
        BY <1>3, <1>5, <3>3
      <4> QED BY <2>2, <3>1, <4>1 DEF Ordered
    <3> QED BY <3>2, <3>3
  <2> QED BY <2>1, <2>2
<1> QED BY <1>1, <1>6, <1>7, <1>8, <1>9 DEF r

(* An empty channel holds nothing.                                              *)
LEMMA NothingUnderWay ==
  /\ \A t, i : ~Has(<<>>, t, i)
  /\ \A s, t, i : NoneAfter(<<>>, s, t, i)
  /\ \A i, v : ~HasValue(<<>>, i, v)
  /\ \A i : Ordered(<<>>, i)
BY DEF Has, NoneAfter, HasValue, Ordered

--------------------------------------------------------------------------------
(* The invariant of a subscription, whoever is prompt.                          *)

\* The iterator is registered and has not ended; it has ended and told the server.
Reading(id) == client[id] \in {"subscribed", "open", "finished"}
TornDown(id) == client[id] \in {"drained", "returned", "thrown"}

\* An id is used once.
Fresh(id) ==
  /\ client[id] \in {"none", "setup"} => id >= nextSubscriptionId
  /\ id >= nextSubscriptionId =>
       /\ client[id] \in {"none", "setup", "abandoned"}
       /\ stage[id] = "none" /\ queue[id] = <<>> /\ delivered[id] = <<>>
       /\ id \notin clientMap \cup clientTimers
  /\ stage[id] = "none" => emitted[id] = 0
  /\ Has(toServer, "subscribe", id) => stage[id] = "none" /\ id < nextSubscriptionId
  /\ NoneAfter(toServer, "subscribe", "subscribe", id)

\* The close event of the client's socket finds every iterator that is read.
Registered(id) ==
  /\ Reading(id) => id \in clientMap /\ id \notin clientTimers /\ clientSocket # "closed"
  /\ client[id] = "setup" => clientSocket # "closed"

\* The server completes a subscription once, after its last result.
Completed(id) ==
  /\ Has(toClient, "complete", id) => stage[id] = "ended"
  /\ NoneAfter(toClient, "complete", "next", id)
  /\ client[id] = "finished" => stage[id] = "ended"

\* How many results were consumed, wait in the queue, and have come in all
Consumed(id) == Len(delivered[id])
Waiting(id) == Len(queue[id])
Got(id) == Consumed(id) + Waiting(id)

\* What is queued continues what was consumed.
Queued(id) ==
  ~Ended(client[id]) =>
    /\ \A n \in 1..Waiting(id) : queue[id][n] = Consumed(id) + n
    /\ Got(id) <= emitted[id]
    /\ client[id] = "finished" => Got(id) = emitted[id]

\* As long as the client listens, what is under way continues what is queued.
UnderWay(id) ==
  ~Ended(client[id]) /\ clientSocket \in {"open", "closing"} =>
    /\ Ordered(toClient, id)
    /\ \A v \in Nat : HasValue(toClient, id, v) <=> Got(id) < v /\ v <= emitted[id]

Promised(id) == Fresh(id) /\ Registered(id) /\ Completed(id) /\ Queued(id) /\ UnderWay(id)

IInv == TypeOK /\ \A id \in Ids : Promised(id)

--------------------------------------------------------------------------------
(* The invariant of a subscription if everybody is prompt.                      *)

\* Does the connection still work in both directions?
Connected == clientSocket = "open" /\ serverSocket = "open"

\* Whatever comes to the client finds its subscription.
ClientExpects(id) ==
  /\ clientSocket = "open" =>
       \A type \in {"next", "complete", "error"} : Has(toClient, type, id) => id \in clientMap
  /\ Connected /\ id \notin clientMap =>
       stage[id] \notin {"starting", "streaming", "returning"} /\ ~Has(toServer, "subscribe", id)

\* Whatever comes to the server finds its subscription, or that its id is free.
ServerExpects(id) ==
  /\ Has(toServer, "subscribe", id) => id \notin serverMap
  /\ Has(toServer, "complete", id) => TornDown(id)
  /\ NoneAfter(toServer, "complete", "subscribe", id)
  /\ serverSocket = "open" /\ Has(toServer, "complete", id) =>
       id \in serverMap \/ Has(toServer, "subscribe", id)
  /\ Connected /\ Reading(id) => id \in serverMap \/ Has(toServer, "subscribe", id)

\* Each end learns of the other's end.
EndsAreTold(id) ==
  /\ Connected /\ TornDown(id) /\ stage[id] \in {"none", "starting", "streaming"} =>
       Has(toServer, "complete", id) \/ id \in completing
  /\ Connected /\ stage[id] \in {"ended", "errored", "failed"} /\ client[id] \in {"subscribed", "open"} =>
       Has(toClient, "complete", id) \/ Has(toClient, "error", id)

\* Deletes are scheduled for what is over.
Scheduled(id) ==
  /\ id \in clientTimers => TornDown(id)
  /\ id \in serverTimers => stage[id] \in {"ended", "errored"}
  /\ id \in serverMap \cup completing => stage[id] # "none"

Expected(id) == ClientExpects(id) /\ ServerExpects(id) /\ EndsAreTold(id) /\ Scheduled(id)

PInv == NobodyIsStray /\ \A id \in Ids : Expected(id)

--------------------------------------------------------------------------------
(* Types                                                                        *)

(* What is sent is a message of the channel's type.                             *)
LEMMA Messages ==
  /\ CloseFrame \in ServerBound /\ CloseFrame \in ClientBound
  /\ \A id \in Ids : /\ Message("subscribe", id) \in ServerBound
                     /\ Message("complete", id) \in ServerBound
                     /\ Message("complete", id) \in ClientBound
                     /\ Message("error", id) \in ClientBound
                     /\ \A v \in Nat : [type |-> "next", id |-> id, value |-> v] \in ClientBound
  /\ \A m \in ServerBound : m.type # "close" => m.type \in {"subscribe", "complete"} /\ m.id \in Ids
  /\ \A m \in ClientBound : m.type # "close" =>
       m.type \in {"next", "complete", "error"} /\ m.id \in Ids /\ m.value \in Nat
  /\ \A type, id : /\ Message(type, id).type = type /\ Message(type, id).id = id
                  /\ Message(type, id).value = 0
  /\ CloseFrame.type = "close" /\ CloseFrame.id = 0
  /\ 0 \notin Ids
BY DEF CloseFrame, Message, ServerBound, ClientBound, Ids

(* Both ends send at the end of their channel, or not at all.                   *)
LEMMA Sending ==
  ASSUME NEW m
  PROVE  /\ ClientSend(m) => toServer' = toServer \/ toServer' = Append(toServer, m)
         /\ ClientSend(m) /\ Connected => toServer' = Append(toServer, m)
         /\ ServerSend(m) => toClient' = toClient \/ toClient' = Append(toClient, m)
         /\ ServerSend(m) /\ serverSocket = "open" /\ clientSocket # "closed" =>
              toClient' = Append(toClient, m)
BY DEF ClientSend, OntoServer, ServerSend, OntoClient, Connected

(* close() of the client's socket                                               *)
LEMMA ClientClosing ==
  ASSUME NEW cause, ClientCloses(cause)
  PROVE  /\ toServer' = toServer \/ toServer' = Append(toServer, CloseFrame)
         /\ clientSocket' = clientSocket \/ clientSocket' \in {"closing", "muted"}
         /\ clientSocket # "open" => clientSocket' = clientSocket /\ closedBy' = closedBy
         /\ clientSocket' # "open"
         /\ closedBy' = closedBy \/ closedBy' = cause
BY DEF ClientCloses, OntoServer, Blame

(* close() of the server's socket                                               *)
LEMMA ServerClosing ==
  ASSUME NEW cause, ServerCloses(cause)
  PROVE  /\ toClient' = toClient \/ toClient' = Append(toClient, CloseFrame)
         /\ serverSocket' = serverSocket \/ serverSocket' = "closing"
         /\ serverSocket # "open" => serverSocket' = serverSocket /\ closedBy' = closedBy
         /\ serverSocket' # "open"
         /\ closedBy' = closedBy \/ closedBy' = cause
BY DEF ServerCloses, OntoClient, Blame

\* The types of the channels, and of who closed the connection.
ChannelTypes ==
  /\ toServer \in Seq(ServerBound) /\ toClient \in Seq(ClientBound)
  /\ closedBy \in {"nobody", "client", "server", "outside"}

(* Sending and closing keep the channels' types.                                *)
LEMMA SendingTypes ==
  ASSUME ChannelTypes
  PROVE  /\ \A m \in ServerBound : ClientSend(m) => toServer' \in Seq(ServerBound)
         /\ \A m \in ClientBound : ServerSend(m) => toClient' \in Seq(ClientBound)
         /\ \A cause \in {"client", "outside"} : ClientCloses(cause) =>
              /\ toServer' \in Seq(ServerBound)
              /\ clientSocket' \in {clientSocket, "closing", "muted"}
              /\ closedBy' \in {closedBy, cause}
         /\ \A cause \in {"server", "outside"} : ServerCloses(cause) =>
              /\ toClient' \in Seq(ClientBound)
              /\ serverSocket' \in {serverSocket, "closing"}
              /\ closedBy' \in {closedBy, cause}
<1>1. /\ \A m \in ServerBound : Append(toServer, m) \in Seq(ServerBound)
      /\ \A m \in ClientBound : Append(toClient, m) \in Seq(ClientBound)
  BY Appended DEF ChannelTypes
<1>2. toServer \in Seq(ServerBound) /\ toClient \in Seq(ClientBound)
  BY DEF ChannelTypes
<1>3. CloseFrame \in ServerBound /\ CloseFrame \in ClientBound
  BY Messages
<1>4. ASSUME NEW m \in ServerBound, ClientSend(m) PROVE toServer' \in Seq(ServerBound)
  BY <1>1, <1>2, <1>4, Sending
<1>5. ASSUME NEW m \in ClientBound, ServerSend(m) PROVE toClient' \in Seq(ClientBound)
  BY <1>1, <1>2, <1>5, Sending
<1>6. ASSUME NEW cause, ClientCloses(cause)
      PROVE  /\ toServer' \in Seq(ServerBound)
             /\ clientSocket' \in {clientSocket, "closing", "muted"}
             /\ closedBy' \in {closedBy, cause}
  BY <1>1, <1>2, <1>3, <1>6, ClientClosing
<1>7. ASSUME NEW cause, ServerCloses(cause)
      PROVE  /\ toClient' \in Seq(ClientBound)
             /\ serverSocket' \in {serverSocket, "closing"}
             /\ closedBy' \in {closedBy, cause}
  BY <1>1, <1>2, <1>3, <1>7, ServerClosing
<1> QED BY <1>4, <1>5, <1>6, <1>7

(* An iterator's end on the client                                              *)
LEMMA IteratorEndsTypes ==
  ASSUME TypeOK, NEW id \in Ids, NEW state \in {"drained", "returned", "thrown"},
         IteratorEnds(id, state)
  PROVE  /\ client' \in [Ids -> IteratorStates]
         /\ queue' \in [Ids -> Seq(Nat)]
         /\ clientTimers' \subseteq Ids
         /\ toServer' \in Seq(ServerBound)
<1>1. toServer' \in Seq(ServerBound)
  <2>1. ChannelTypes /\ Message("complete", id) \in ServerBound
    BY Messages DEF TypeOK, ChannelTypes
  <2> QED BY <2>1, SendingTypes DEF IteratorEnds
<1> QED BY <1>1 DEF IteratorEnds, TypeOK, ClientTypes, IteratorStates

LEMMA InitTypes == Init => TypeOK
<1> SUFFICES ASSUME Init PROVE TypeOK
  OBVIOUS
<1>1. nextSubscriptionId \in 1..(MaxSubs + 1)
  BY SessionAssumption DEF Init
<1> QED BY <1>1 DEF Init, TypeOK, ClientTypes, ServerTypes, IteratorStates

\* A step of an iterator's setup, apart from the one that subscribes
SetsUp(id) == FirstNext(id) \/ SetupResolves(id) \/ ReturnInSetup(id)

(* Such a step changes the state of its iterator and nothing else.              *)
LEMMA SettingUp ==
  ASSUME TypeOK, NEW k \in Ids, SetsUp(k)
  PROVE  /\ UNCHANGED <<clientSocket, queue, clientMap, clientTimers, nextSubscriptionId>>
         /\ UNCHANGED <<serverVars, toServer, toClient, closedBy, emitted, delivered>>
         /\ \/ client[k] = "none" /\ client'[k] = "setup" /\ clientSocket # "closed"
            \/ client[k] = "subscribed" /\ client'[k] = "open"
            \/ client[k] \in {"setup", "subscribed"} /\ client'[k] = "abandoned"
         /\ \A id \in Ids : id # k => client'[id] = client[id]
         /\ client' \in [Ids -> IteratorStates]
BY DEF SetsUp, FirstNext, SetupResolves, ReturnInSetup, TypeOK, ClientTypes, IteratorStates

(* Every step keeps the client's types.                                         *)
LEMMA ClientTypesStep == TypeOK /\ [Next]_vars => ClientTypes'
<1> SUFFICES ASSUME TypeOK, [Next]_vars PROVE ClientTypes'
  OBVIOUS
<1>0. ClientTypes /\ ChannelTypes
  BY DEF TypeOK, ChannelTypes
<1> USE <1>0 DEF ClientTypes, clientVars, IteratorStates
<1>1. CASE Subscribe
  BY <1>1, SessionAssumption DEF Subscribe, Ids
<1>2. CASE ClientReceives
  <2> DEFINE m == Head(toClient)
  <2>1. m \in ClientBound
    BY <1>2 DEF ClientReceives, ChannelTypes
  <2>2. /\ m.type # "close" => m.id \in Ids /\ m.value \in Nat
        /\ UNCHANGED <<nextSubscriptionId, delivered>>
    BY <1>2, <2>1, Messages DEF ClientReceives
  <2> HIDE DEF m
  <2>3. CASE m.type # "close" /\ ReceiveNext(m)
    BY <2>2, <2>3 DEF ReceiveNext
  <2>4. CASE m.type # "close" /\ ReceiveComplete(m)
    BY <2>2, <2>4 DEF ReceiveComplete
  <2>5. CASE m.type # "close" /\ ReceiveError(m)
    <3>1. CASE IteratorEnds(m.id, "thrown")
      BY <2>2, <2>5, <3>1, IteratorEndsTypes DEF IteratorEnds
    <3> QED BY <2>2, <2>5, <3>1 DEF ReceiveError
  <2>6. CASE m.type # "close" /\ ReceiveStray(m)
    BY <2>2, <2>6, SendingTypes DEF ReceiveStray
  <2>7. CASE UNCHANGED clientVars
    BY <2>2, <2>7
  <2>8. CASE ClientClosed
    BY <2>2, <2>8 DEF ClientClosed
  <2> QED BY <1>2, <2>3, <2>4, <2>5, <2>6, <2>7, <2>8 DEF ClientReceives, m
<1>3. CASE ClientLoses
  BY <1>3 DEF ClientLoses, ClientClosed
<1>4. CASE ClientShutsDown
  BY <1>4, SendingTypes DEF ClientShutsDown
<1>5. CASE ServerReceives \/ ServerLoses \/ ServerShutsDown \/ UNCHANGED vars
  BY <1>5 DEF ServerReceives, ServerLoses, ServerShutsDown, vars
<1>6. ASSUME NEW id \in Ids, Consume(id) PROVE ClientTypes'
  BY <1>6 DEF Consume
<1>7. ASSUME NEW id \in Ids, Drain(id) \/ Return(id) PROVE ClientTypes'
  <2>1. \E state \in {"drained", "returned", "thrown"} : IteratorEnds(id, state)
    BY <1>7 DEF Drain, Return
  <2>2. UNCHANGED <<nextSubscriptionId, delivered, clientSocket, clientMap>>
    BY <1>7 DEF Drain, Return, IteratorEnds
  <2> QED BY <2>1, <2>2, IteratorEndsTypes
<1>8. ASSUME NEW id \in Ids, ClientDelete(id) PROVE ClientTypes'
  BY <1>8 DEF ClientDelete
<1>9. ASSUME NEW id \in Ids,
             \/ CompleteReturns(id) \/ StartSettles(id) \/ PumpNext(id) \/ SourceEnds(id)
             \/ IteratorReturns(id) \/ ServerDelete(id) \/ SweepReturns(id)
      PROVE  ClientTypes'
  BY <1>9 DEF CompleteReturns, StartSettles, PumpNext, SourceEnds, IteratorReturns, PumpEnds,
              ServerDelete, SweepReturns
<1>10. ASSUME NEW id \in Ids, SetsUp(id) PROVE ClientTypes'
  BY <1>10, SettingUp
<1> QED BY <1>1, <1>2, <1>3, <1>4, <1>5, <1>6, <1>7, <1>8, <1>9, <1>10 DEF Next, SetsUp

(* Every step keeps the server's types.                                         *)
LEMMA ServerTypesStep == TypeOK /\ [Next]_vars => ServerTypes'
<1> SUFFICES ASSUME TypeOK, [Next]_vars PROVE ServerTypes'
  OBVIOUS
<1>0. ServerTypes /\ ChannelTypes
  BY DEF TypeOK, ChannelTypes
<1> USE <1>0 DEF ServerTypes, serverVars
<1>1. CASE ServerReceives
  <2> DEFINE m == Head(toServer)
  <2>1. m \in ServerBound
    BY <1>1 DEF ServerReceives, ChannelTypes
  <2>2. (m.type # "close" => m.id \in Ids) /\ UNCHANGED emitted
    BY <1>1, <2>1, Messages DEF ServerReceives
  <2> HIDE DEF m
  <2>3. CASE ReceiveSubscribe(m)
    BY <2>2, <2>3, SendingTypes DEF ReceiveSubscribe
  <2>4. CASE ReceiveUnsubscribe(m)
    BY <2>2, <2>4, SendingTypes DEF ReceiveUnsubscribe, Returned
  <2>5. CASE ServerClosed /\ UNCHANGED <<stage, serverMap, serverTimers, completing>>
    BY <2>2, <2>5 DEF ServerClosed
  <2> QED BY <1>1, <2>3, <2>4, <2>5 DEF ServerReceives, m
<1>2. CASE ServerLoses
  BY <1>2 DEF ServerLoses, ServerClosed
<1>3. CASE ServerShutsDown
  BY <1>3, SendingTypes DEF ServerShutsDown
<1>4. CASE Subscribe \/ ClientReceives \/ ClientLoses \/ ClientShutsDown \/ UNCHANGED vars
  BY <1>4 DEF Subscribe, ClientReceives, ClientLoses, ClientShutsDown, vars
<1>5. ASSUME NEW id \in Ids, Consume(id) \/ Drain(id) \/ Return(id) \/ ClientDelete(id)
      PROVE  ServerTypes'
  BY <1>5 DEF Consume, Drain, Return, ClientDelete
<1>6. ASSUME NEW id \in Ids, CompleteReturns(id) \/ SweepReturns(id) PROVE ServerTypes'
  BY <1>6 DEF CompleteReturns, SweepReturns, Returned
<1>7. ASSUME NEW id \in Ids, StartSettles(id) PROVE ServerTypes'
  BY <1>7 DEF StartSettles
<1>8. ASSUME NEW id \in Ids, PumpNext(id) PROVE ServerTypes'
  BY <1>8 DEF PumpNext
<1>9. ASSUME NEW id \in Ids, SourceEnds(id) \/ IteratorReturns(id) PROVE ServerTypes'
  BY <1>9 DEF SourceEnds, IteratorReturns, PumpEnds
<1>10. ASSUME NEW id \in Ids, ServerDelete(id) PROVE ServerTypes'
  BY <1>10 DEF ServerDelete
<1>11. ASSUME NEW id \in Ids, SetsUp(id) PROVE ServerTypes'
  BY <1>11, SettingUp
<1> QED BY <1>1, <1>2, <1>3, <1>4, <1>5, <1>6, <1>7, <1>8, <1>9, <1>10, <1>11 DEF Next, SetsUp

(* Every step keeps the channels' types.                                        *)
LEMMA ChannelTypesStep == TypeOK /\ [Next]_vars => ChannelTypes'
<1> SUFFICES ASSUME TypeOK, [Next]_vars PROVE ChannelTypes'
  OBVIOUS
<1>0. ChannelTypes /\ emitted \in [Ids -> Nat]
  BY DEF TypeOK, ChannelTypes, ServerTypes
<1> USE <1>0 DEF ChannelTypes
<1>1. CASE Subscribe
  BY <1>1, SendingTypes, Messages DEF Subscribe
<1>2. CASE ClientReceives
  <2> DEFINE m == Head(toClient)
  <2>1. m \in ClientBound /\ Tail(toClient) \in Seq(ClientBound)
    BY <1>2, Taken DEF ClientReceives
  <2>2. m.type # "close" => m.id \in Ids
    BY <2>1, Messages
  <2> HIDE DEF m
  <2>3. CASE UNCHANGED <<toServer, closedBy>> /\ toClient' = Tail(toClient)
    BY <2>1, <2>3
  <2>4. CASE m.type # "close" /\ IteratorEnds(m.id, "thrown") /\ toClient' = Tail(toClient)
    BY <2>1, <2>2, <2>4, IteratorEndsTypes DEF IteratorEnds
  <2>5. CASE ReceiveStray(m) /\ toClient' = Tail(toClient)
    BY <2>1, <2>5, SendingTypes DEF ReceiveStray
  <2>6. CASE ClientSend(CloseFrame) /\ toClient' = <<>> /\ UNCHANGED closedBy
    BY <2>6, SendingTypes, Messages
  <2> QED BY <1>2, <2>3, <2>4, <2>5, <2>6
          DEF ClientReceives, ReceiveNext, ReceiveComplete, ReceiveError, m
<1>3. CASE ClientLoses
  BY <1>3 DEF ClientLoses, Blame
<1>4. CASE ClientShutsDown
  BY <1>4, SendingTypes DEF ClientShutsDown
<1>5. CASE ServerReceives
  <2> DEFINE m == Head(toServer)
  <2>1. Tail(toServer) \in Seq(ServerBound)
    BY <1>5, Taken DEF ServerReceives
  <2> HIDE DEF m
  <2>2. CASE ReceiveSubscribe(m) /\ toServer' = Tail(toServer)
    BY <2>1, <2>2, SendingTypes DEF ReceiveSubscribe
  <2>3. CASE ReceiveUnsubscribe(m) /\ toServer' = Tail(toServer)
    BY <2>1, <2>3, SendingTypes DEF ReceiveUnsubscribe
  <2>4. CASE ServerSend(CloseFrame) /\ toServer' = <<>> /\ UNCHANGED closedBy
    BY <2>4, SendingTypes, Messages
  <2> QED BY <1>5, <2>2, <2>3, <2>4 DEF ServerReceives, m
<1>6. CASE ServerLoses
  BY <1>6 DEF ServerLoses, Blame
<1>7. CASE ServerShutsDown
  BY <1>7, SendingTypes DEF ServerShutsDown
<1>8. ASSUME NEW id \in Ids, Consume(id) \/ ClientDelete(id) \/ CompleteReturns(id)
                             \/ ServerDelete(id) \/ SweepReturns(id)
      PROVE  ChannelTypes'
  BY <1>8 DEF Consume, ClientDelete, CompleteReturns, ServerDelete, SweepReturns
<1>9. ASSUME NEW id \in Ids, Drain(id) \/ Return(id) PROVE ChannelTypes'
  BY <1>9, IteratorEndsTypes DEF Drain, Return, IteratorEnds
<1>10. ASSUME NEW id \in Ids, StartSettles(id) PROVE ChannelTypes'
  BY <1>10, SendingTypes, Messages DEF StartSettles
<1>11. ASSUME NEW id \in Ids, PumpNext(id) PROVE ChannelTypes'
  <2>1. emitted[id] + 1 \in Nat
    OBVIOUS
  <2> QED BY <1>11, <2>1, SendingTypes, Messages DEF PumpNext
<1>12. ASSUME NEW id \in Ids, SourceEnds(id) \/ IteratorReturns(id) PROVE ChannelTypes'
  BY <1>12, SendingTypes, Messages DEF SourceEnds, IteratorReturns, PumpEnds
<1>13. CASE UNCHANGED vars
  BY <1>13 DEF vars
<1>14. ASSUME NEW id \in Ids, SetsUp(id) PROVE ChannelTypes'
  BY <1>14, SettingUp
<1> QED
  BY <1>1, <1>2, <1>3, <1>4, <1>5, <1>6, <1>7, <1>8, <1>9, <1>10, <1>11, <1>12, <1>13, <1>14
  DEF Next, SetsUp

LEMMA TypeStep == TypeOK /\ [Next]_vars => TypeOK'
BY ClientTypesStep, ServerTypesStep, ChannelTypesStep DEF TypeOK, ChannelTypes

--------------------------------------------------------------------------------
(* What may happen to the channels.                                             *)

(* A message that is sent, or lost on a closed socket                           *)
LEMMA Sent ==
  ASSUME NEW S, NEW q \in Seq(S), NEW m \in S, NEW r, r = q \/ r = Append(q, m)
  PROVE  /\ \A t, i : Has(q, t, i) => Has(r, t, i)
         /\ \A t, i : Has(r, t, i) => Has(q, t, i) \/ (m.type = t /\ m.id = i)
         /\ \A s, t, i : NoneAfter(q, s, t, i) /\ ~(m.type = t /\ m.id = i /\ Has(q, s, i)) =>
              NoneAfter(r, s, t, i)
         /\ \A i, v : m.type # "next" \/ m.id # i => (HasValue(r, i, v) <=> HasValue(q, i, v))
         /\ \A i : m.type # "next" \/ m.id # i => (Ordered(r, i) <=> Ordered(q, i))
<1>1. CASE r = q
  BY <1>1
<1>2. CASE r = Append(q, m)
  <2>1. /\ \A t, i : Has(r, t, i) <=> Has(q, t, i) \/ (m.type = t /\ m.id = i)
        /\ \A s, t, i : NoneAfter(r, s, t, i) <=>
             NoneAfter(q, s, t, i) /\ ~(m.type = t /\ m.id = i /\ Has(q, s, i))
        /\ \A i, v : HasValue(r, i, v) <=>
             HasValue(q, i, v) \/ (m.type = "next" /\ m.id = i /\ m.value = v)
        /\ \A i : Ordered(r, i) <=>
             /\ Ordered(q, i)
             /\ m.type = "next" /\ m.id = i => \A v : HasValue(q, i, v) => v < m.value
    BY <1>2, Appended
  <2> QED BY <2>1
<1> QED BY <1>1, <1>2

(* Only Subscribe adds a subscribe message, and none is added after a complete  *)
(* message but by the end of its iterator: what a step does to toServer.        *)
LEMMA ToServerStep ==
  ASSUME TypeOK, [Next]_vars
  PROVE  \/ Subscribe
         \/ \E id \in Ids, state \in {"drained", "returned", "thrown"} :
              ~Ended(client[id]) /\ IteratorEnds(id, state)
         \/ toServer' = toServer
         \/ toServer' = Append(toServer, CloseFrame)
         \/ toServer # <<>> /\ toServer' = Tail(toServer) /\ ServerReceives
         \/ toServer' = <<>>
<1>1. CASE ClientReceives
  <2> DEFINE m == Head(toClient)
  <2>1. m.type # "close" => m.id \in Ids
    BY <1>1, Messages DEF ClientReceives, TypeOK
  <2> HIDE DEF m
  <2>2. CASE ReceiveNext(m) \/ ReceiveComplete(m) \/ UNCHANGED <<clientVars, toServer, closedBy>>
    BY <2>2 DEF ReceiveNext, ReceiveComplete
  <2>3. CASE m.type # "close" /\ ReceiveError(m)
    BY <2>1, <2>3 DEF ReceiveError
  <2>4. CASE ReceiveStray(m)
    BY <2>4, ClientClosing DEF ReceiveStray
  <2>5. CASE ClientSend(CloseFrame)
    BY <2>5, Sending
  <2> QED BY <1>1, <2>2, <2>3, <2>4, <2>5 DEF ClientReceives, m
<1>2. CASE ClientShutsDown
  BY <1>2, ClientClosing DEF ClientShutsDown
<1>3. CASE ServerReceives
  BY <1>3 DEF ServerReceives
<1>4. ASSUME NEW id \in Ids, Drain(id) \/ Return(id)
      PROVE  \E state \in {"drained", "returned", "thrown"} :
               ~Ended(client[id]) /\ IteratorEnds(id, state)
  BY <1>4 DEF Drain, Return, Ended
<1>5. CASE ServerLoses \/ ServerShutsDown \/ ClientLoses \/ UNCHANGED vars
  BY <1>5 DEF ServerLoses, ServerShutsDown, ClientLoses, vars
<1>6. ASSUME NEW id \in Ids,
             \/ Consume(id) \/ ClientDelete(id)
             \/ CompleteReturns(id) \/ StartSettles(id) \/ PumpNext(id) \/ SourceEnds(id)
             \/ IteratorReturns(id) \/ ServerDelete(id) \/ SweepReturns(id)
      PROVE  toServer' = toServer
  BY <1>6 DEF Consume, ClientDelete, CompleteReturns, StartSettles, PumpNext, SourceEnds,
              IteratorReturns, PumpEnds, ServerDelete, SweepReturns
<1>7. ASSUME NEW id \in Ids, SetsUp(id) PROVE toServer' = toServer
  BY <1>7, SettingUp
<1> QED BY <1>1, <1>2, <1>3, <1>4, <1>5, <1>6, <1>7 DEF Next, SetsUp

(* Only Subscribe adds a subscribe message.                                     *)
LEMMA SubscribesShrink ==
  ASSUME TypeOK, [Next]_vars, ~Subscribe, NEW id \in Ids
  PROVE  /\ Has(toServer, "subscribe", id)' => Has(toServer, "subscribe", id)
         /\ NoneAfter(toServer, "subscribe", "subscribe", id) =>
              NoneAfter(toServer, "subscribe", "subscribe", id)'
<1>0. toServer \in Seq(ServerBound)
  BY DEF TypeOK
<1>1. ASSUME NEW m \in ServerBound, m.type # "subscribe",
             toServer' = toServer \/ toServer' = Append(toServer, m)
      PROVE  /\ Has(toServer', "subscribe", id) => Has(toServer, "subscribe", id)
             /\ NoneAfter(toServer, "subscribe", "subscribe", id) =>
                  NoneAfter(toServer', "subscribe", "subscribe", id)
  BY <1>0, <1>1, Sent
<1>2. CASE \E k \in Ids, state \in {"drained", "returned", "thrown"} :
             ~Ended(client[k]) /\ IteratorEnds(k, state)
  BY <1>1, <1>2, Messages, Sending DEF IteratorEnds
<1>3. CASE toServer' = toServer \/ toServer' = Append(toServer, CloseFrame)
  BY <1>1, <1>3, Messages
<1>4. CASE toServer # <<>> /\ toServer' = Tail(toServer)
  BY <1>0, <1>4, Taken
<1>5. CASE toServer' = <<>>
  BY <1>5, NothingUnderWay
<1> QED BY <1>2, <1>3, <1>4, <1>5, ToServerStep

(* Subscribe adds a message for the next id.                                    *)
LEMMA SubscribeAdds ==
  ASSUME TypeOK, Subscribe, NEW id \in Ids
  PROVE  /\ Has(toServer, "subscribe", id)' =>
              Has(toServer, "subscribe", id) \/ nextSubscriptionId = id
         /\ NoneAfter(toServer, "subscribe", "subscribe", id) =>
            (~Has(toServer, "subscribe", id) \/ nextSubscriptionId # id =>
              NoneAfter(toServer, "subscribe", "subscribe", id)')
<1> DEFINE m == Message("subscribe", nextSubscriptionId)
<1>1. /\ m \in ServerBound /\ m.type = "subscribe" /\ m.id = nextSubscriptionId
      /\ toServer' = toServer \/ toServer' = Append(toServer, m)
  BY Messages, Sending DEF Subscribe
<1>2. toServer \in Seq(ServerBound)
  BY DEF TypeOK
<1> HIDE DEF m
<1> QED BY <1>1, <1>2, Sent

--------------------------------------------------------------------------------
(* Every step keeps ids fresh.                                                  *)
LEMMA FreshStep ==
  ASSUME IInv, [Next]_vars, NEW id \in Ids
  PROVE  Fresh(id)'
<1>1. Fresh(id) /\ ClientTypes /\ ServerTypes /\ TypeOK
  BY DEF IInv, Promised, TypeOK
<1>2. /\ ~Subscribe /\ Has(toServer, "subscribe", id)' => Has(toServer, "subscribe", id)
      /\ ~Subscribe => NoneAfter(toServer, "subscribe", "subscribe", id)'
  BY <1>1, SubscribesShrink DEF Fresh
<1> USE <1>1 DEF Fresh, ClientTypes, ServerTypes, clientVars, serverVars
<1>3. CASE Subscribe
  <2> DEFINE n == nextSubscriptionId
  <2>1. n \in Ids
    BY <1>3 DEF Subscribe
  <2>2. /\ Has(toServer, "subscribe", id)' => Has(toServer, "subscribe", id) \/ n = id
        /\ ~Has(toServer, "subscribe", id) \/ n # id =>
             NoneAfter(toServer, "subscribe", "subscribe", id)'
    BY <1>3, SubscribeAdds
  <2>3. Fresh(n)
    BY <2>1 DEF IInv, Promised
  <2>4. /\ nextSubscriptionId' = n + 1 /\ n \in Nat /\ id \in Nat
        /\ clientMap' = clientMap \cup {n}
        /\ client' = [client EXCEPT ![n] = IF @ = "setup" THEN "subscribed" ELSE @]
        /\ UNCHANGED <<queue, clientTimers, stage, emitted, delivered>>
    BY <1>3, <2>1 DEF Subscribe, Ids
  <2>5. client[n] # "none"
    BY <1>3 DEF Subscribe, InSetup
  <2>6. n = nextSubscriptionId
    BY DEF n
  <2> HIDE DEF n
  <2>7. id >= n + 1 => id >= n /\ id # n
    BY <2>4
  <2>8. id # n => client'[id] = client[id]
    BY <2>4
  <2>9. id < n => id < n + 1
    BY <2>4
  <2>10. n < n + 1 /\ (id >= n /\ id # n => id >= n + 1)
    BY <2>4
  <2>11. client'[id] \in {"none", "setup"} => id >= n /\ id # n
    <3>1. CASE id = n
      BY <2>1, <2>4, <2>5, <3>1
    <3>2. CASE id # n
      BY <2>6, <2>8, <3>2
    <3> QED BY <3>1, <3>2
  <2>12. Has(toServer, "subscribe", id)' => stage[id] = "none" /\ id < n + 1
    BY <2>2, <2>3, <2>4, <2>6, <2>9, <2>10
  <2>13. NoneAfter(toServer, "subscribe", "subscribe", id)'
    BY <2>2, <2>3, <2>6, <2>10
  <2> QED BY <2>4, <2>6, <2>7, <2>8, <2>10, <2>11, <2>12, <2>13
<1>4. CASE ClientReceives
  <2> DEFINE m == Head(toClient)
  <2>1. m.type # "close" => m.id \in Ids
    BY <1>4, Messages DEF ClientReceives, TypeOK
  <2>2. UNCHANGED <<nextSubscriptionId, stage, emitted, delivered>> /\ ~Subscribe
    BY <1>4 DEF ClientReceives, Subscribe, Ids
  <2> HIDE DEF m
  <2>3. CASE m.type # "close" /\ ReceiveNext(m)
    BY <1>2, <2>1, <2>2, <2>3 DEF ReceiveNext
  <2>4. CASE m.type # "close" /\ ReceiveComplete(m)
    BY <1>2, <2>1, <2>2, <2>4 DEF ReceiveComplete
  <2>5. CASE m.type # "close" /\ ReceiveError(m)
    BY <1>2, <2>1, <2>2, <2>5 DEF ReceiveError, IteratorEnds
  <2>6. CASE ReceiveStray(m) \/ UNCHANGED clientVars
    BY <1>2, <2>2, <2>6 DEF ReceiveStray
  <2>7. CASE ClientClosed
    BY <1>2, <2>2, <2>7 DEF ClientClosed
  <2> QED BY <1>4, <2>3, <2>4, <2>5, <2>6, <2>7 DEF ClientReceives, m
<1>5. CASE ClientLoses
  BY <1>2, <1>5 DEF ClientLoses, ClientClosed, Subscribe
<1>6. CASE ClientShutsDown \/ ServerLoses \/ ServerShutsDown \/ UNCHANGED vars
  <2>1. UNCHANGED <<nextSubscriptionId, client, queue, clientMap, clientTimers, stage, emitted,
                    delivered>>
    BY <1>6 DEF ClientShutsDown, ServerLoses, ServerShutsDown, vars
  <2>2. ~Subscribe
    BY <2>1 DEF Subscribe, Ids
  <2> QED BY <1>2, <2>1, <2>2
<1>7. CASE ServerReceives
  <2> DEFINE m == Head(toServer)
  <2>1. /\ Has(toServer, m.type, m.id) /\ (m.type # "close" => m.id \in Ids)
        /\ m.type = "subscribe" /\ m.id = id => ~Has(toServer', "subscribe", id)
    <3>1. toServer \in Seq(ServerBound) /\ toServer # <<>>
      BY <1>7 DEF ServerReceives, TypeOK
    <3>2. m \in ServerBound /\ Has(toServer, m.type, m.id)
      BY <3>1, Taken
    <3>3. m.type = "subscribe" /\ m.id = id => ~Has(Tail(toServer), "subscribe", id)
      BY <3>1, Taken
    <3>4. toServer' = Tail(toServer) \/ toServer' = <<>>
      BY <1>7 DEF ServerReceives
    <3>5. m.type = "subscribe" /\ m.id = id => ~Has(toServer', "subscribe", id)
      <4>1. CASE toServer' = Tail(toServer)
        BY <3>3, <4>1
      <4>2. CASE toServer' = <<>>
        <5>1. ~Has(<<>>, "subscribe", id)
          BY NothingUnderWay
        <5> QED BY <4>2, <5>1
      <4> QED BY <3>4, <4>1, <4>2
    <3>6. m.type # "close" => m.id \in Ids
      BY <3>2, Messages
    <3> QED BY <3>2, <3>5, <3>6
  <2>2. /\ UNCHANGED <<nextSubscriptionId, client, queue, clientMap, clientTimers, emitted, delivered>>
        /\ ~Subscribe
    BY <1>7 DEF ServerReceives, Subscribe, Ids
  <2> HIDE DEF m
  <2>3. CASE ReceiveSubscribe(m)
    <3>1. id < nextSubscriptionId => ~(id >= nextSubscriptionId)
      BY SessionAssumption DEF Ids
    <3> QED BY <1>2, <2>1, <2>2, <2>3, <3>1 DEF ReceiveSubscribe
  <2>4. CASE ReceiveUnsubscribe(m)
    BY <1>2, <2>1, <2>2, <2>4 DEF ReceiveUnsubscribe, Returned
  <2>5. CASE UNCHANGED stage
    BY <1>2, <2>2, <2>5
  <2> QED BY <1>7, <2>3, <2>4, <2>5 DEF ServerReceives, m
<1>8. ASSUME NEW k \in Ids, Consume(k) \/ ClientDelete(k) \/ ServerDelete(k)
      PROVE  Fresh(id)'
  BY <1>2, <1>8 DEF Consume, ClientDelete, ServerDelete, Subscribe, Ids
<1>9. ASSUME NEW k \in Ids, Drain(k) \/ Return(k)
      PROVE  Fresh(id)'
  <2>1. ~Subscribe
    BY <1>9 DEF Drain, Return, Subscribe, Ids
  <2> QED BY <1>2, <1>9, <2>1 DEF Drain, Return, IteratorEnds
<1>10. ASSUME NEW k \in Ids, CompleteReturns(k) \/ SweepReturns(k)
      PROVE  Fresh(id)'
  BY <1>2, <1>10 DEF CompleteReturns, SweepReturns, Returned, Subscribe, Ids
<1>11. ASSUME NEW k \in Ids, StartSettles(k)
      PROVE  Fresh(id)'
  BY <1>2, <1>11 DEF StartSettles, Subscribe, Ids
<1>12. ASSUME NEW k \in Ids, PumpNext(k)
      PROVE  Fresh(id)'
  BY <1>2, <1>12 DEF PumpNext, Subscribe, Ids
<1>13. ASSUME NEW k \in Ids, SourceEnds(k) \/ IteratorReturns(k)
      PROVE  Fresh(id)'
  BY <1>2, <1>13 DEF SourceEnds, IteratorReturns, PumpEnds, Subscribe, Ids
<1>14. ASSUME NEW k \in Ids, SetsUp(k)
       PROVE  Fresh(id)'
  <2>1. ~Subscribe
    BY <1>14, SettingUp DEF Subscribe, Ids
  <2>2. Fresh(k)
    BY DEF IInv, Promised
  <2> QED BY <1>2, <1>14, <2>1, <2>2, SettingUp
<1> QED
  BY <1>3, <1>4, <1>5, <1>6, <1>7, <1>8, <1>9, <1>10, <1>11, <1>12, <1>13, <1>14
  DEF Next, SetsUp

--------------------------------------------------------------------------------
(* What a step does to one subscription.                                        *)

Listening == clientSocket \in {"open", "closing"}

\* The first message for the client is for this subscription, and is taken.
Takes(id, type) ==
  /\ Listening /\ toClient # <<>> /\ toClient' = Tail(toClient)
  /\ Head(toClient).id = id /\ Head(toClient).type = type

\* Its iterator accepts a result,
Accepts(id) ==
  /\ Takes(id, "next")
  /\ client[id] = "open"
  /\ queue'[id] = Append(queue[id], Head(toClient).value)
  /\ UNCHANGED <<client[id], delivered[id]>>

\* is finished,
Finishes(id) ==
  /\ Takes(id, "complete")
  /\ client[id] = "open" /\ client'[id] = "finished"
  /\ UNCHANGED <<queue[id], delivered[id]>>

\* hands out a result,
HandsOut(id) ==
  /\ Reading(id) /\ queue[id] # <<>>
  /\ delivered'[id] = Append(delivered[id], Head(queue[id]))
  /\ queue'[id] = Tail(queue[id])
  /\ UNCHANGED <<client[id], toClient>>

\* or ends.
Ends(id) ==
  /\ Reading(id) \/ client[id] = "setup"
  /\ Ended(client'[id])
  /\ client'[id] = "drained" => client[id] = "finished" /\ queue[id] = <<>>
  /\ UNCHANGED delivered[id]

\* It is set up by the client,
Begins(id) ==
  /\ <<client[id], client'[id]>> \in
       {<<"none", "setup">>, <<"setup", "subscribed">>, <<"subscribed", "open">>}
  /\ UNCHANGED <<queue[id], delivered[id], toClient>>

ClientQuiet(id) == UNCHANGED <<client[id], queue[id], delivered[id]>>

ClientSteps(id) ==
  ClientQuiet(id) \/ Begins(id) \/ Accepts(id) \/ Finishes(id) \/ HandsOut(id) \/ Ends(id)

\* and it is started, sends, and stops on the server.
ServerQuiet(id) == UNCHANGED <<stage[id], emitted[id]>>

ServerSteps(id) ==
  \/ ServerQuiet(id)
  \/ /\ <<stage[id], stage'[id]>> \in
          {<<"none", "starting">>, <<"starting", "streaming">>, <<"starting", "failed">>,
           <<"streaming", "returning">>}
             \cup {"streaming", "returning"} \X {"ended", "errored"}
     /\ UNCHANGED emitted[id]
  \/ PumpNext(id)

(* What a message does to the client's subscriptions.                           *)
LEMMA ReceiveSteps ==
  ASSUME IInv, ClientReceives, NEW id \in Ids
  PROVE  ClientSteps(id)
<1> DEFINE m == Head(toClient)
<1>1. /\ m.type # "close" => m.id \in Ids
      /\ toClient # <<>> /\ clientSocket # "closed"
      /\ UNCHANGED delivered
  BY Messages DEF ClientReceives, IInv, TypeOK
<1>2. /\ client \in [Ids -> IteratorStates]
      /\ queue \in [Ids -> Seq(Nat)] /\ Fresh(id)
  BY DEF IInv, TypeOK, ClientTypes, Promised
<1>3. clientSocket # "muted" => Listening
  BY <1>1 DEF Listening, IInv, TypeOK, ClientTypes
<1> HIDE DEF m
<1> USE DEF ClientSteps, ClientQuiet, clientVars
<1>4. CASE /\ m.type # "close" /\ ReceiveNext(m)
           /\ clientSocket # "muted" /\ toClient' = Tail(toClient)
  <2>1. CASE m.id = id /\ client[id] = "open"
    BY <1>1, <1>2, <1>3, <1>4, <2>1 DEF ReceiveNext, Accepts, Takes, m
  <2>2. CASE ~(m.id = id /\ client[id] = "open")
    BY <1>1, <1>2, <1>4, <2>2 DEF ReceiveNext
  <2> QED BY <2>1, <2>2
<1>5. CASE /\ m.type # "close" /\ ReceiveComplete(m)
           /\ clientSocket # "muted" /\ toClient' = Tail(toClient)
  <2>1. CASE m.id = id /\ client[id] = "open"
    BY <1>1, <1>2, <1>3, <1>5, <2>1 DEF ReceiveComplete, Finishes, Takes, m
  <2>2. CASE ~(m.id = id /\ client[id] = "open")
    BY <1>1, <1>2, <1>5, <2>2 DEF ReceiveComplete
  <2> QED BY <2>1, <2>2
<1>6. CASE m.type # "close" /\ ReceiveError(m)
  <2>1. CASE m.id = id /\ ~Ended(client[id])
    BY <1>1, <1>2, <1>6, <2>1
       DEF ReceiveError, IteratorEnds, Ends, Reading, Ended, Fresh, IteratorStates
  <2>2. CASE ~(m.id = id /\ ~Ended(client[id]))
    BY <1>1, <1>2, <1>6, <2>2 DEF ReceiveError, IteratorEnds
  <2> QED BY <2>1, <2>2
<1>7. CASE ReceiveStray(m) \/ UNCHANGED clientVars
  BY <1>1, <1>7 DEF ReceiveStray
<1>8. CASE ClientClosed
  BY <1>1, <1>2, <1>8 DEF ClientClosed, Ends, Reading, Ended, Fresh, IteratorStates
<1> QED BY <1>4, <1>5, <1>6, <1>7, <1>8 DEF ClientReceives, m

(* Only one end of a connection acts at a time, and its acts are of these kinds. *)
LEMMA LocalSteps ==
  ASSUME IInv, [Next]_vars, NEW id \in Ids
  PROVE  \/ ClientSteps(id) /\ ServerQuiet(id)
         \/ ServerSteps(id) /\ ClientQuiet(id)
<1>1. /\ client \in [Ids -> IteratorStates]
      /\ queue \in [Ids -> Seq(Nat)] /\ delivered \in [Ids -> Seq(Nat)] /\ Fresh(id)
  BY DEF IInv, TypeOK, ClientTypes, Promised
<1>2. /\ stage \in [Ids -> {"none", "starting", "streaming", "returning", "failed", "ended",
                            "errored"}]
      /\ emitted \in [Ids -> Nat]
  BY DEF IInv, TypeOK, ServerTypes
<1> USE DEF clientVars, serverVars
<1>3. CASE Subscribe
  <2>1. nextSubscriptionId \in Ids
    BY <1>3 DEF Subscribe
  <2> QED BY <1>1, <1>3, <2>1 DEF Subscribe, ClientSteps, ClientQuiet, Begins, ServerQuiet
<1>4. CASE ClientReceives
  BY <1>4, ReceiveSteps DEF ClientReceives, ServerQuiet
<1>5. CASE ClientLoses
  BY <1>1, <1>5 DEF ClientLoses, ClientClosed, ClientSteps, ClientQuiet, Ends, Reading, Ended,
                    Fresh, ServerQuiet, IteratorStates
<1>6. ASSUME NEW k \in Ids, Consume(k)
      PROVE  ClientSteps(id) /\ ServerQuiet(id)
  BY <1>1, <1>6 DEF Consume, ClientSteps, ClientQuiet, HandsOut, Reading, ServerQuiet
<1>7. ASSUME NEW k \in Ids, Drain(k) \/ Return(k)
      PROVE  ClientSteps(id) /\ ServerQuiet(id)
  BY <1>1, <1>7 DEF Drain, Return, IteratorEnds, ClientSteps, ClientQuiet, Ends, Reading,
                    Ended, ServerQuiet
<1>8. CASE ServerReceives
  <2> DEFINE m == Head(toServer)
  <2>1. UNCHANGED <<client, queue, delivered, emitted>>
    BY <1>8 DEF ServerReceives
  <2>2. m \in ServerBound /\ Has(toServer, m.type, m.id)
    BY <1>8, Taken DEF ServerReceives, IInv, TypeOK
  <2>3. m.type # "close" => m.id \in Ids
    BY <2>2, Messages
  <2> HIDE DEF m
  <2>4. CASE ReceiveSubscribe(m)
    <3>1. stage[m.id] = "none"
      BY <2>2, <2>3, <2>4 DEF ReceiveSubscribe, IInv, Promised, Fresh
    <3> QED BY <1>2, <2>1, <2>4, <3>1 DEF ReceiveSubscribe, ServerSteps, ServerQuiet, ClientQuiet
  <2>5. CASE ReceiveUnsubscribe(m)
    BY <1>2, <2>1, <2>5 DEF ReceiveUnsubscribe, Returned, ServerSteps, ServerQuiet, ClientQuiet
  <2>6. CASE UNCHANGED stage
    BY <2>1, <2>6 DEF ServerSteps, ServerQuiet, ClientQuiet
  <2> QED BY <1>8, <2>4, <2>5, <2>6 DEF ServerReceives, m
<1>9. CASE ClientShutsDown \/ ServerLoses \/ ServerShutsDown \/ UNCHANGED vars
  BY <1>9 DEF ClientShutsDown, ServerLoses, ServerShutsDown, vars, ServerSteps, ServerQuiet,
              ClientQuiet
<1>10. ASSUME NEW k \in Ids, ClientDelete(k) \/ ServerDelete(k)
       PROVE  ServerSteps(id) /\ ClientQuiet(id)
  BY <1>10 DEF ClientDelete, ServerDelete, ServerSteps, ServerQuiet, ClientQuiet
<1>11. ASSUME NEW k \in Ids, CompleteReturns(k) \/ SweepReturns(k)
       PROVE  ServerSteps(id) /\ ClientQuiet(id)
  BY <1>2, <1>11 DEF CompleteReturns, SweepReturns, Returned, ServerSteps, ServerQuiet, ClientQuiet
<1>12. ASSUME NEW k \in Ids, StartSettles(k)
       PROVE  ServerSteps(id) /\ ClientQuiet(id)
  BY <1>2, <1>12 DEF StartSettles, ServerSteps, ServerQuiet, ClientQuiet
<1>13. ASSUME NEW k \in Ids, PumpNext(k)
       PROVE  ServerSteps(id) /\ ClientQuiet(id)
  BY <1>2, <1>13 DEF PumpNext, ServerSteps, ServerQuiet, ClientQuiet
<1>14. ASSUME NEW k \in Ids, SourceEnds(k) \/ IteratorReturns(k)
       PROVE  ServerSteps(id) /\ ClientQuiet(id)
  BY <1>2, <1>14 DEF SourceEnds, IteratorReturns, PumpEnds, ServerSteps, ServerQuiet, ClientQuiet
<1>15. ASSUME NEW k \in Ids, SetsUp(k)
       PROVE  ClientSteps(id) /\ ServerQuiet(id)
  <2>1. TypeOK
    BY DEF IInv
  <2> QED BY <1>15, <2>1, SettingUp
          DEF ClientSteps, ClientQuiet, Begins, Ends, Reading, Ended, ServerQuiet
<1> QED
  BY <1>3, <1>4, <1>5, <1>6, <1>7, <1>8, <1>9, <1>10, <1>11, <1>12, <1>13, <1>14, <1>15
  DEF Next, SetsUp

(* A subscription that has ended on the server stays as it is.                  *)
LEMMA EndedStays ==
  ASSUME IInv, [Next]_vars, NEW id \in Ids, stage[id] = "ended"
  PROVE  stage'[id] = "ended" /\ emitted'[id] = emitted[id]
<1>1. ServerSteps(id) \/ ServerQuiet(id)
  BY LocalSteps
<1> QED BY <1>1 DEF ServerSteps, ServerQuiet, PumpNext

(* What a step does to toClient.                                                *)
LEMMA ToClientStep ==
  ASSUME TypeOK, [Next]_vars
  PROVE  \/ toClient' = toClient
         \/ toClient' = Append(toClient, CloseFrame)
         \/ toClient # <<>> /\ toClient' = Tail(toClient) /\ ClientReceives
         \/ toClient' = <<>> /\ clientSocket' = "closed"
         \/ \E id \in Ids : StartSettles(id) /\ ServerSend(Message("error", id))
         \/ \E id \in Ids : PumpNext(id)
         \/ \E id \in Ids : SourceEnds(id) \/ IteratorReturns(id)
<1>1. CASE ClientReceives
  BY <1>1 DEF ClientReceives, ClientClosed
<1>2. CASE ClientLoses
  BY <1>2 DEF ClientLoses, ClientClosed
<1>3. CASE ServerReceives
  <2> DEFINE m == Head(toServer)
  <2>1. CASE ReceiveSubscribe(m)
    BY <2>1, ServerClosing DEF ReceiveSubscribe
  <2>2. CASE ReceiveUnsubscribe(m)
    BY <2>2, ServerClosing DEF ReceiveUnsubscribe
  <2>3. CASE ServerSend(CloseFrame)
    BY <2>3, Sending
  <2> QED BY <1>3, <2>1, <2>2, <2>3 DEF ServerReceives
<1>4. CASE ServerShutsDown
  BY <1>4, ServerClosing DEF ServerShutsDown
<1>5. CASE ServerLoses \/ ClientShutsDown \/ Subscribe \/ UNCHANGED vars
  BY <1>5 DEF ServerLoses, ClientShutsDown, Subscribe, vars
<1>6. ASSUME NEW id \in Ids, StartSettles(id)
      PROVE  toClient' = toClient \/ ServerSend(Message("error", id))
  BY <1>6 DEF StartSettles
<1>7. ASSUME NEW id \in Ids,
             \/ Consume(id) \/ Drain(id) \/ Return(id) \/ ClientDelete(id)
             \/ CompleteReturns(id) \/ ServerDelete(id) \/ SweepReturns(id)
      PROVE  toClient' = toClient
  BY <1>7 DEF Consume, Drain, Return, ClientDelete, CompleteReturns, ServerDelete, SweepReturns
<1>8. ASSUME NEW id \in Ids, SetsUp(id) PROVE toClient' = toClient
  BY <1>8, SettingUp
<1> QED BY <1>1, <1>2, <1>3, <1>4, <1>5, <1>6, <1>7, <1>8 DEF Next, SetsUp

--------------------------------------------------------------------------------
(* Every step keeps iterators that are read registered.                         *)
LEMMA RegisteredStep ==
  ASSUME IInv, [Next]_vars, NEW id \in Ids
  PROVE  Registered(id)'
<1>1. Fresh(id) /\ Registered(id) /\ ClientTypes
  BY DEF IInv, Promised, TypeOK
<1> USE <1>1 DEF Registered, Reading, ClientTypes, clientVars
<1>2. CASE Subscribe
  BY <1>2 DEF Subscribe, Fresh
<1>3. CASE ClientReceives
  <2> DEFINE m == Head(toClient)
  <2>1. m.type # "close" => m.id \in Ids
    BY <1>3, Messages DEF ClientReceives, IInv, TypeOK
  <2> HIDE DEF m
  <2>2. CASE m.type # "close" /\ ReceiveNext(m)
    BY <2>2 DEF ReceiveNext
  <2>3. CASE m.type # "close" /\ ReceiveComplete(m)
    BY <2>1, <2>3 DEF ReceiveComplete
  <2>4. CASE m.type # "close" /\ ReceiveError(m)
    BY <2>1, <2>4 DEF ReceiveError, IteratorEnds
  <2>5. CASE ReceiveStray(m)
    BY <2>5, ClientClosing DEF ReceiveStray
  <2>6. CASE ClientClosed /\ Quiet
    BY <2>6 DEF ClientClosed, Ended, Quiet, InSetup
  <2> QED BY <1>3, <2>2, <2>3, <2>4, <2>5, <2>6 DEF ClientReceives, m
<1>4. CASE ClientLoses
  BY <1>4 DEF ClientLoses, ClientClosed, Ended, Quiet, InSetup
<1>5. CASE ClientShutsDown
  BY <1>5, ClientClosing DEF ClientShutsDown
<1>6. CASE ServerReceives \/ ServerLoses \/ ServerShutsDown \/ UNCHANGED vars
  BY <1>6 DEF ServerReceives, ServerLoses, ServerShutsDown, vars
<1>7. ASSUME NEW k \in Ids, Consume(k) \/ ClientDelete(k)
      PROVE  Registered(id)'
  BY <1>7 DEF Consume, ClientDelete
<1>8. ASSUME NEW k \in Ids, Drain(k) \/ Return(k)
      PROVE  Registered(id)'
  BY <1>8 DEF Drain, Return, IteratorEnds
<1>9. ASSUME NEW k \in Ids,
             \/ CompleteReturns(k) \/ StartSettles(k) \/ PumpNext(k) \/ SourceEnds(k)
             \/ IteratorReturns(k) \/ ServerDelete(k) \/ SweepReturns(k)
      PROVE  Registered(id)'
  BY <1>9 DEF CompleteReturns, StartSettles, PumpNext, SourceEnds, IteratorReturns, PumpEnds,
              ServerDelete, SweepReturns
<1>10. ASSUME NEW k \in Ids, SetsUp(k)
       PROVE  Registered(id)'
  <2>1. TypeOK
    BY DEF IInv
  <2> QED BY <1>10, <2>1, SettingUp
<1> QED BY <1>2, <1>3, <1>4, <1>5, <1>6, <1>7, <1>8, <1>9, <1>10 DEF Next, SetsUp

(* The server never completes a subscription before its last result.            *)
LEMMA CompletedStep ==
  ASSUME IInv, [Next]_vars, NEW id \in Ids
  PROVE  Completed(id)'
<1>1. Completed(id)
  BY DEF IInv, Promised
<1>2. /\ toClient \in Seq(ClientBound)
      /\ stage \in [Ids -> {"none", "starting", "streaming", "returning", "failed", "ended",
                            "errored"}]
  BY DEF IInv, TypeOK, ServerTypes
<1>3. stage[id] = "ended" => stage'[id] = "ended"
  BY EndedStays
<1>4. ASSUME NEW m \in ClientBound, toClient' = toClient \/ toClient' = Append(toClient, m),
             m.type = "complete" /\ m.id = id => stage'[id] = "ended",
             m.type = "next" /\ m.id = id => stage[id] # "ended"
      PROVE  /\ Has(toClient', "complete", id) => stage'[id] = "ended"
             /\ NoneAfter(toClient', "complete", "next", id)
  BY <1>1, <1>2, <1>3, <1>4, Sent DEF Completed
<1>5. /\ Has(toClient', "complete", id) => stage'[id] = "ended"
      /\ NoneAfter(toClient', "complete", "next", id)
  <2>1. CASE toClient' = toClient
    BY <1>1, <1>3, <2>1 DEF Completed
  <2>2. CASE toClient' = Append(toClient, CloseFrame)
    BY <1>4, <2>2, Messages
  <2>3. CASE toClient # <<>> /\ toClient' = Tail(toClient)
    BY <1>1, <1>2, <1>3, <2>3, Taken DEF Completed
  <2>4. CASE toClient' = <<>>
    BY <2>4, NothingUnderWay
  <2>5. ASSUME NEW k \in Ids, ServerSend(Message("error", k))
        PROVE  /\ Has(toClient', "complete", id) => stage'[id] = "ended"
               /\ NoneAfter(toClient', "complete", "next", id)
    BY <1>4, <2>5, Messages, Sending
  <2>6. ASSUME NEW k \in Ids, PumpNext(k)
        PROVE  /\ Has(toClient', "complete", id) => stage'[id] = "ended"
               /\ NoneAfter(toClient', "complete", "next", id)
    <3> DEFINE m == [type |-> "next", id |-> k, value |-> emitted[k] + 1]
    <3>1. m \in ClientBound
      BY Messages DEF IInv, TypeOK, ServerTypes
    <3>2. m.type = "next" /\ m.id = k /\ stage[k] # "ended"
      BY <2>6 DEF PumpNext
    <3>3. toClient' = toClient \/ toClient' = Append(toClient, m)
      BY <2>6, Sending DEF PumpNext
    <3> HIDE DEF m
    <3> QED BY <1>4, <3>1, <3>2, <3>3
  <2>7. ASSUME NEW k \in Ids, SourceEnds(k) \/ IteratorReturns(k)
        PROVE  /\ Has(toClient', "complete", id) => stage'[id] = "ended"
               /\ NoneAfter(toClient', "complete", "next", id)
    <3>1. CASE ServerSend(Message("error", k))
      BY <2>5, <3>1
    <3>2. CASE ServerSend(Message("complete", k)) /\ stage' = [stage EXCEPT ![k] = "ended"]
      BY <1>2, <1>4, <3>2, Messages, Sending
    <3> QED BY <2>7, <3>1, <3>2 DEF SourceEnds, IteratorReturns, PumpEnds
  <2>8. TypeOK
    BY DEF IInv
  <2> QED BY <2>1, <2>2, <2>3, <2>4, <2>5, <2>6, <2>7, <2>8, ToClientStep
<1>6. client'[id] = "finished" => stage'[id] = "ended"
  <2>1. CASE Finishes(id)
    <3>1. Has(toClient, "complete", id)
      BY <1>2, <2>1, Taken DEF Finishes, Takes
    <3> QED BY <1>1, <1>3, <3>1 DEF Completed
  <2>2. CASE client[id] = "finished"
    BY <1>1, <1>3, <2>2 DEF Completed
  <2>3. CASE client'[id] # "finished" \/ client'[id] = client[id]
    BY <2>2, <2>3
  <2> QED BY <2>1, <2>3, LocalSteps
          DEF ClientSteps, ClientQuiet, Begins, Accepts, HandsOut, Ends, Ended
<1> QED BY <1>5, <1>6 DEF Completed

(* A result is one of the messages of its subscription, and it is a number.     *)
LEMMA ValuesAreMessages ==
  /\ \A q, id, v : HasValue(q, id, v) => Has(q, "next", id)
  /\ \A q \in Seq(ClientBound), id \in Ids : \A v : HasValue(q, id, v) => v \in Nat
<1>1. \A q, id, v : HasValue(q, id, v) => Has(q, "next", id)
  BY DEF HasValue, Has
<1>2. ASSUME NEW q \in Seq(ClientBound), NEW id \in Ids, NEW v, HasValue(q, id, v)
      PROVE  v \in Nat
  <2>1. PICK i \in DOMAIN q : q[i].type = "next" /\ q[i].id = id /\ q[i].value = v
    BY <1>2 DEF HasValue
  <2>2. q[i] \in ClientBound
    BY <2>1
  <2> QED BY <2>1, <2>2, Messages
<1> QED BY <1>1, <1>2

(* Lengths of the sequences that a step makes                                   *)
LEMMA Lengths ==
  ASSUME NEW s \in Seq(Nat)
  PROVE  /\ Len(s) \in Nat
         /\ Len(<<>>) = 0
         /\ \A v \in Nat : /\ Append(s, v) \in Seq(Nat)
                          /\ Len(Append(s, v)) = Len(s) + 1
                          /\ \A n \in 1..Len(s) : Append(s, v)[n] = s[n]
                          /\ Append(s, v)[Len(s) + 1] = v
         /\ s # <<>> => /\ Len(s) > 0 /\ Len(Tail(s)) = Len(s) - 1
                        /\ Head(s) = s[1] /\ Head(s) \in Nat
                        /\ \A n \in 1..Len(s) - 1 : Tail(s)[n] = s[n + 1]
OBVIOUS

LEMMA Numbers ==
  ASSUME TypeOK, NEW id \in Ids
  PROVE  /\ Consumed(id) \in Nat /\ Waiting(id) \in Nat
         /\ Got(id) \in Nat /\ emitted[id] \in Nat
         /\ queue[id] \in Seq(Nat) /\ delivered[id] \in Seq(Nat)
         /\ toClient \in Seq(ClientBound)
<1>1. queue[id] \in Seq(Nat) /\ delivered[id] \in Seq(Nat)
  BY DEF TypeOK, ClientTypes
<1>2. Consumed(id) \in Nat /\ Waiting(id) \in Nat
  BY <1>1, Lengths DEF Consumed, Waiting
<1>3. emitted[id] \in Nat /\ toClient \in Seq(ClientBound)
  BY DEF TypeOK, ServerTypes
<1>4. Got(id) \in Nat
  BY <1>2 DEF Got
<1> QED BY <1>1, <1>2, <1>3, <1>4

(* The first result that comes to a client that listens is the one it awaits.   *)
LEMMA AwaitedComes ==
  ASSUME IInv, NEW id \in Ids, Takes(id, "next"), ~Ended(client[id])
  PROVE  Head(toClient).value = Got(id) + 1 /\ Got(id) + 1 <= emitted[id]
<1> DEFINE v == Head(toClient).value
<1>1. /\ Ordered(toClient, id)
      /\ \A w \in Nat : HasValue(toClient, id, w) <=> Got(id) < w /\ w <= emitted[id]
  BY DEF IInv, Promised, UnderWay, Takes, Listening
<1>2. Got(id) \in Nat /\ emitted[id] \in Nat /\ toClient \in Seq(ClientBound) /\ toClient # <<>>
  BY Numbers DEF IInv, Takes
<1>3. /\ \A w : HasValue(toClient, id, w) <=> HasValue(Tail(toClient), id, w) \/ v = w
      /\ \A w : HasValue(Tail(toClient), id, w) => v < w
  BY <1>1, <1>2, Taken DEF Takes
<1>4. v \in Nat
  BY <1>2, <1>3, ValuesAreMessages
<1> HIDE DEF v
<1>5. Got(id) < v /\ v <= emitted[id]
  BY <1>1, <1>3, <1>4
<1>6. HasValue(Tail(toClient), id, Got(id) + 1) \/ v = Got(id) + 1
  BY <1>1, <1>2, <1>3, <1>4, <1>5
<1>7. v = Got(id) + 1
  BY <1>2, <1>3, <1>4, <1>5, <1>6
<1> QED BY <1>5, <1>7 DEF v

(* When the complete message comes, every result has come.                      *)
LEMMA AllHaveCome ==
  ASSUME IInv, NEW id \in Ids, Takes(id, "complete"), ~Ended(client[id])
  PROVE  Got(id) = emitted[id]
<1>1. /\ \A w \in Nat : HasValue(toClient, id, w) <=> Got(id) < w /\ w <= emitted[id]
      /\ NoneAfter(toClient, "complete", "next", id)
      /\ Got(id) <= emitted[id]
  BY DEF IInv, Promised, UnderWay, Completed, Queued, Takes, Listening
<1>2. Got(id) \in Nat /\ emitted[id] \in Nat /\ toClient \in Seq(ClientBound) /\ toClient # <<>>
  BY Numbers DEF IInv, Takes
<1>3. /\ \A w : HasValue(toClient, id, w) => HasValue(Tail(toClient), id, w)
      /\ ~Has(Tail(toClient), "next", id)
  BY <1>1, <1>2, Taken DEF Takes
<1>4. ~HasValue(toClient, id, emitted[id])
  BY <1>3, ValuesAreMessages
<1> QED BY <1>1, <1>2, <1>4

(* Every step keeps what is queued complete and in order.                       *)
LEMMA QueuedStep ==
  ASSUME IInv, [Next]_vars, NEW id \in Ids
  PROVE  Queued(id)'
<1> DEFINE c == Consumed(id)
           w == Waiting(id)
           e == emitted[id]
<1>1. /\ c \in Nat /\ w \in Nat /\ e \in Nat
      /\ queue[id] \in Seq(Nat) /\ delivered[id] \in Seq(Nat)
  BY Numbers DEF IInv
<1>2. /\ Completed(id) /\ Fresh(id)
      /\ ~Ended(client[id]) =>
           /\ \A n \in 1..w : queue[id][n] = c + n
           /\ c + w <= e
           /\ client[id] = "finished" => c + w = e
  BY DEF IInv, Promised, Queued, Got
<1> SUFFICES ASSUME ~Ended(client'[id])
             PROVE  /\ \A n \in 1..Waiting(id)' : queue'[id][n] = Consumed(id)' + n
                    /\ Consumed(id)' + Waiting(id)' <= emitted'[id]
                    /\ client'[id] = "finished" => Consumed(id)' + Waiting(id)' = emitted'[id]
  BY DEF Queued, Got
<1> HIDE DEF c, w, e
<1>3. CASE ClientQuiet(id) /\ ServerSteps(id)
  <2>1. /\ client'[id] = client[id] /\ queue'[id] = queue[id]
        /\ Consumed(id)' = c /\ Waiting(id)' = w
    BY <1>3 DEF ClientQuiet, Consumed, Waiting, c, w
  <2>2. CASE PumpNext(id)
    <3>1. stage[id] # "ended" /\ emitted'[id] = e + 1
      BY <2>2 DEF PumpNext, IInv, TypeOK, ServerTypes, e
    <3>2. client[id] # "finished"
      BY <1>2, <3>1 DEF Completed
    <3> QED BY <1>1, <1>2, <2>1, <3>1, <3>2
  <2>3. CASE emitted'[id] = e
    BY <1>1, <1>2, <2>1, <2>3
  <2> QED BY <1>3, <2>2, <2>3 DEF ServerSteps, ServerQuiet, e
<1>4. CASE Begins(id) /\ ServerQuiet(id)
  <2>1. /\ client'[id] # "finished" /\ emitted'[id] = e /\ ~Ended(client[id])
        /\ queue'[id] = queue[id] /\ Consumed(id)' = c /\ Waiting(id)' = w
    BY <1>4 DEF Begins, ServerQuiet, Ended, Consumed, Waiting, c, w, e
  <2> QED BY <1>2, <2>1
<1>5. CASE Accepts(id) /\ ServerQuiet(id)
  <2> DEFINE v == Head(toClient).value
  <2>1. /\ queue'[id] = Append(queue[id], v) /\ delivered'[id] = delivered[id]
        /\ client'[id] = "open" /\ ~Ended(client[id]) /\ emitted'[id] = e
    BY <1>5 DEF Accepts, ServerQuiet, Ended, e
  <2>2. v = Got(id) + 1 /\ Got(id) + 1 <= e
    BY <1>5, <2>1, AwaitedComes DEF Accepts, e
  <2> HIDE DEF v
  <2>3. v = c + w + 1 /\ c + w + 1 <= e /\ v \in Nat
    BY <1>1, <2>2 DEF Got, c, w
  <2>4. Consumed(id)' = c
    BY <2>1 DEF Consumed, c
  <2>5. /\ Waiting(id)' = w + 1
        /\ \A n \in 1..w : queue'[id][n] = queue[id][n]
        /\ queue'[id][w + 1] = v
    BY <1>1, <2>1, <2>3, Lengths DEF Waiting, w
  <2>6. ASSUME NEW n \in 1..(w + 1) PROVE queue'[id][n] = c + n
    <3>1. n \in Nat /\ (n \in 1..w \/ n = w + 1)
      BY <1>1
    <3>2. CASE n \in 1..w
      BY <1>2, <2>1, <2>5, <3>2
    <3>3. CASE n = w + 1
      BY <1>1, <2>3, <2>5, <3>3
    <3> QED BY <3>1, <3>2, <3>3
  <2>7. c + (w + 1) <= e
    BY <1>1, <2>3
  <2> QED BY <2>1, <2>4, <2>5, <2>6, <2>7
<1>6. CASE Finishes(id) /\ ServerQuiet(id)
  <2>1. /\ client[id] = "open" /\ ~Ended(client[id]) /\ emitted'[id] = e
        /\ queue'[id] = queue[id] /\ Consumed(id)' = c /\ Waiting(id)' = w
    BY <1>6 DEF Finishes, ServerQuiet, Ended, Consumed, Waiting, c, w, e
  <2>2. c + w = e
    BY <1>6, <2>1, AllHaveCome DEF Finishes, Got, c, w, e
  <2> QED BY <1>1, <1>2, <2>1, <2>2
<1>7. CASE HandsOut(id) /\ ServerQuiet(id)
  <2>1. /\ queue[id] # <<>> /\ queue'[id] = Tail(queue[id])
        /\ delivered'[id] = Append(delivered[id], Head(queue[id]))
        /\ client'[id] = client[id] /\ emitted'[id] = e /\ ~Ended(client[id])
    BY <1>7 DEF HandsOut, ServerQuiet, Reading, Ended, e
  <2>2. /\ w > 0 /\ Waiting(id)' = w - 1 /\ Head(queue[id]) \in Nat
        /\ \A n \in 1..(w - 1) : queue'[id][n] = queue[id][n + 1]
    BY <1>1, <2>1, Lengths DEF Waiting, w
  <2>3. Consumed(id)' = c + 1
    BY <1>1, <2>1, <2>2, Lengths DEF Consumed, c
  <2>4. ASSUME NEW n \in 1..(w - 1) PROVE queue'[id][n] = (c + 1) + n
    <3>1. n + 1 \in 1..w /\ n \in Nat
      BY <1>1
    <3>2. queue[id][n + 1] = c + (n + 1)
      BY <1>2, <2>1, <3>1
    <3> QED BY <1>1, <2>2, <3>1, <3>2
  <2>5. (c + 1) + (w - 1) = c + w
    BY <1>1
  <2> QED BY <1>2, <2>1, <2>2, <2>3, <2>4, <2>5
<1>8. CASE Ends(id)
  BY <1>8 DEF Ends
<1>9. CASE ClientQuiet(id) /\ ServerQuiet(id)
  BY <1>3, <1>9 DEF ServerSteps
<1> QED BY <1>3, <1>4, <1>5, <1>6, <1>7, <1>8, <1>9, LocalSteps DEF ClientSteps

(* Sockets do not open again, and what has ended on the client stays so.        *)
LEMMA NoWayBack ==
  ASSUME IInv, [Next]_vars
  PROVE  /\ clientSocket' = "open" => clientSocket = "open"
         /\ clientSocket' \in {"open", "closing"} => Listening
         /\ serverSocket' = "open" => serverSocket = "open"
         /\ \A id \in Ids : Ended(client[id]) => client'[id] = client[id]
<1>0. TypeOK
  BY DEF IInv
<1>1. /\ clientSocket' = "open" => clientSocket = "open"
      /\ clientSocket' \in {"open", "closing"} => Listening
  <2>1. CASE ClientReceives
    BY <2>1, ClientClosing DEF ClientReceives, ReceiveNext, ReceiveComplete, ReceiveError,
         IteratorEnds, ReceiveStray, ClientClosed, Listening, clientVars
  <2>2. CASE ClientShutsDown \/ ClientLoses
    BY <2>2, ClientClosing DEF ClientShutsDown, ClientLoses, ClientClosed, Listening
  <2>3. CASE Subscribe \/ ServerReceives \/ ServerLoses \/ ServerShutsDown \/ UNCHANGED vars
    BY <2>3 DEF Subscribe, ServerReceives, ServerLoses, ServerShutsDown, vars, clientVars,
                Listening
  <2>4. ASSUME NEW id \in Ids,
               \/ Consume(id) \/ Drain(id) \/ Return(id) \/ ClientDelete(id)
               \/ CompleteReturns(id) \/ StartSettles(id) \/ PumpNext(id) \/ SourceEnds(id)
               \/ IteratorReturns(id) \/ ServerDelete(id) \/ SweepReturns(id)
        PROVE  clientSocket' = clientSocket
    BY <2>4 DEF Consume, Drain, Return, IteratorEnds, ClientDelete, CompleteReturns, StartSettles,
                PumpNext, SourceEnds, IteratorReturns, PumpEnds, ServerDelete, SweepReturns, clientVars
  <2>5. ASSUME NEW id \in Ids, SetsUp(id) PROVE clientSocket' = clientSocket
    BY <1>0, <2>5, SettingUp
  <2> QED BY <2>1, <2>2, <2>3, <2>4, <2>5 DEF Next, SetsUp, Listening
<1>2. serverSocket' = "open" => serverSocket = "open"
  <2>1. CASE ServerReceives
    BY <2>1, ServerClosing DEF ServerReceives, ReceiveSubscribe, ReceiveUnsubscribe, ServerClosed
  <2>2. CASE ServerShutsDown \/ ServerLoses
    BY <2>2, ServerClosing DEF ServerShutsDown, ServerLoses, ServerClosed
  <2>3. CASE Subscribe \/ ClientReceives \/ ClientLoses \/ ClientShutsDown \/ UNCHANGED vars
    BY <2>3 DEF Subscribe, ClientReceives, ClientLoses, ClientShutsDown, vars, serverVars
  <2>4. ASSUME NEW id \in Ids,
               \/ Consume(id) \/ Drain(id) \/ Return(id) \/ ClientDelete(id)
               \/ CompleteReturns(id) \/ StartSettles(id) \/ PumpNext(id) \/ SourceEnds(id)
               \/ IteratorReturns(id) \/ ServerDelete(id) \/ SweepReturns(id)
        PROVE  serverSocket' = serverSocket
    BY <2>4 DEF Consume, Drain, Return, ClientDelete, CompleteReturns, StartSettles,
                PumpNext, SourceEnds, IteratorReturns, PumpEnds, ServerDelete, SweepReturns, serverVars
  <2>5. ASSUME NEW id \in Ids, SetsUp(id) PROVE serverSocket' = serverSocket
    BY <1>0, <2>5, SettingUp DEF serverVars
  <2> QED BY <2>1, <2>2, <2>3, <2>4, <2>5 DEF Next, SetsUp
<1>3. ASSUME NEW id \in Ids, Ended(client[id]) PROVE client'[id] = client[id]
  BY <1>3, LocalSteps DEF ClientSteps, ClientQuiet, Begins, Accepts, Finishes, HandsOut, Ends,
                          Reading, Ended
<1> QED BY <1>1, <1>2, <1>3

(* The awaited result is accepted.                                              *)
LEMMA AwaitedIsAccepted ==
  ASSUME IInv, ClientReceives, NEW id \in Ids, Takes(id, "next"), ~Ended(client[id])
  PROVE  Accepts(id)
<1> DEFINE m == Head(toClient)
<1>1. Got(id) + 1 <= emitted[id] /\ Got(id) \in Nat /\ emitted[id] \in Nat
  BY AwaitedComes, Numbers DEF IInv
<1>2. /\ Fresh(id) /\ Registered(id) /\ Queued(id)
      /\ client[id] \in IteratorStates
      /\ queue \in [Ids -> Seq(Nat)]
  BY DEF IInv, Promised, TypeOK, ClientTypes
<1>3. emitted[id] # 0 /\ client[id] # "finished"
  BY <1>1, <1>2 DEF Queued
<1>4. client[id] = "open" /\ id \in clientMap
  <2>1. Has(toClient, "next", id)
    BY Taken DEF Takes, IInv, TypeOK
  <2>2. client[id] \notin {"setup", "subscribed"}
    BY DEF ClientReceives, Quiet, InSetup
  <2>3. client[id] # "none"
    BY <1>2, <1>3 DEF Fresh
  <2> QED BY <1>2, <1>3, <2>2, <2>3 DEF Registered, Reading, Ended, IteratorStates
<1>5. m.type = "next" /\ m.id = id /\ clientSocket # "muted" /\ UNCHANGED delivered
  BY DEF Takes, Listening, ClientReceives
<1>6. ReceiveNext(m)
  BY <1>4, <1>5 DEF ClientReceives, ReceiveComplete, ReceiveError, ReceiveStray
<1> QED BY <1>2, <1>4, <1>5, <1>6 DEF ReceiveNext, Accepts

(* Every step keeps what is under way complete and in order.                    *)
LEMMA UnderWayStep ==
  ASSUME IInv, [Next]_vars, NEW id \in Ids
  PROVE  UnderWay(id)'
<1> SUFFICES ASSUME ~Ended(client'[id]), clientSocket' \in {"open", "closing"}
             PROVE  /\ Ordered(toClient', id)
                    /\ \A v \in Nat : HasValue(toClient', id, v) <=>
                                        Got(id)' < v /\ v <= emitted'[id]
  BY DEF UnderWay
<1> DEFINE g == Got(id)
           e == emitted[id]
<1>1. ~Ended(client[id]) /\ Listening
  BY NoWayBack DEF Ended
<1>2. /\ Ordered(toClient, id)
      /\ \A v \in Nat : HasValue(toClient, id, v) <=> g < v /\ v <= e
  BY <1>1 DEF IInv, Promised, UnderWay, Listening
<1>3. g \in Nat /\ e \in Nat /\ toClient \in Seq(ClientBound) /\ g <= e /\ TypeOK
  BY <1>1, Numbers DEF IInv, Promised, Queued
<1> HIDE DEF g, e
<1>4. CASE PumpNext(id)
  <2> DEFINE m == [type |-> "next", id |-> id, value |-> e + 1]
  <2>1. m \in ClientBound /\ m.type = "next" /\ m.id = id /\ m.value = e + 1
    BY <1>3, Messages
  <2>2. toClient' = Append(toClient, m)
    BY <1>1, <1>4, Sending DEF PumpNext, Listening, e
  <2>3. emitted'[id] = e + 1 /\ Got(id)' = g
    BY <1>3, <1>4 DEF PumpNext, TypeOK, ServerTypes, clientVars, Got, Consumed, Waiting, g, e
  <2> HIDE DEF m
  <2>4. \A v : HasValue(toClient', id, v) <=> HasValue(toClient, id, v) \/ v = e + 1
    BY <1>3, <2>1, <2>2, Appended
  <2>5. Ordered(toClient', id)
    <3>1. \A v : HasValue(toClient, id, v) => v < e + 1
      BY <1>2, <1>3, ValuesAreMessages
    <3> QED BY <1>2, <1>3, <2>1, <2>2, <3>1, Appended
  <2> QED BY <1>2, <1>3, <2>3, <2>4, <2>5
<1>5. CASE Accepts(id) /\ ServerQuiet(id)
  <2> DEFINE m == Head(toClient)
  <2>1. /\ toClient' = Tail(toClient) /\ toClient # <<>>
        /\ m.type = "next" /\ m.id = id /\ m.value = g + 1
        /\ emitted'[id] = e
    BY <1>1, <1>5, AwaitedComes DEF Accepts, Takes, ServerQuiet, g, e
  <2>2. Got(id)' = g + 1
    <3>1. queue'[id] = Append(queue[id], g + 1) /\ delivered'[id] = delivered[id]
      BY <1>5, <2>1 DEF Accepts
    <3>2. Waiting(id)' = Waiting(id) + 1 /\ Consumed(id)' = Consumed(id)
      BY <1>3, <3>1, Numbers, Lengths DEF Waiting, Consumed
    <3> QED BY <1>3, <3>2, Numbers DEF Got, g
  <2> HIDE DEF m
  <2>3. /\ \A v : HasValue(toClient, id, v) <=> HasValue(toClient', id, v) \/ v = g + 1
        /\ \A v : HasValue(toClient', id, v) => g + 1 < v
        /\ Ordered(toClient', id)
    BY <1>2, <1>3, <2>1, Taken DEF m
  <2> QED BY <1>2, <1>3, <2>1, <2>2, <2>3
<1>6. CASE ~PumpNext(id) /\ ~Accepts(id)
  <2>1. emitted'[id] = e
    BY <1>6, LocalSteps DEF ServerSteps, ServerQuiet, e
  <2>2. Got(id)' = g
    <3>1. CASE HandsOut(id)
      <4>1. /\ queue[id] # <<>> /\ queue'[id] = Tail(queue[id])
            /\ delivered'[id] = Append(delivered[id], Head(queue[id]))
        BY <3>1 DEF HandsOut
      <4>2. Waiting(id)' = Waiting(id) - 1 /\ Head(queue[id]) \in Nat
        BY <1>3, <4>1, Numbers, Lengths DEF Waiting
      <4>3. Consumed(id)' = Consumed(id) + 1
        BY <1>3, <4>1, <4>2, Numbers, Lengths DEF Consumed
      <4> QED BY <1>3, <4>2, <4>3, Numbers DEF Got, g
    <3>2. CASE UNCHANGED <<queue[id], delivered[id]>>
      BY <3>2 DEF Got, Consumed, Waiting, g
    <3> QED BY <1>6, <3>1, <3>2, LocalSteps
            DEF ClientSteps, ClientQuiet, Begins, Finishes, Ends
  <2>3. /\ Ordered(toClient', id)
        /\ \A v : HasValue(toClient', id, v) <=> HasValue(toClient, id, v)
    <3>1. ASSUME NEW m \in ClientBound, m.type # "next" \/ m.id # id,
                 toClient' = toClient \/ toClient' = Append(toClient, m)
          PROVE  <2>3!1 /\ <2>3!2
      BY <1>2, <1>3, <3>1, Sent
    <3>2. CASE toClient' = toClient \/ toClient' = Append(toClient, CloseFrame)
      BY <3>1, <3>2, Messages
    <3>3. CASE toClient # <<>> /\ toClient' = Tail(toClient) /\ ClientReceives
      <4>1. Head(toClient).type # "next" \/ Head(toClient).id # id
        BY <1>1, <1>6, <3>3, AwaitedIsAccepted DEF Takes
      <4> QED BY <1>2, <1>3, <3>3, <4>1, Taken
    <3>4. ASSUME NEW k \in Ids, ServerSend(Message("error", k)) \/ ServerSend(Message("complete", k))
          PROVE  <2>3!1 /\ <2>3!2
      BY <3>1, <3>4, Messages, Sending
    <3>5. ASSUME NEW k \in Ids, PumpNext(k)
          PROVE  <2>3!1 /\ <2>3!2
      <4> DEFINE m == [type |-> "next", id |-> k, value |-> emitted[k] + 1]
      <4>1. m \in ClientBound /\ m.id = k /\ k # id
        BY <1>3, <1>6, <3>5, Messages DEF TypeOK, ServerTypes
      <4>2. toClient' = toClient \/ toClient' = Append(toClient, m)
        BY <3>5, Sending DEF PumpNext
      <4> HIDE DEF m
      <4> QED BY <3>1, <4>1, <4>2
    <3> QED BY <1>3, <3>2, <3>3, <3>4, <3>5, ToClientStep DEF SourceEnds, IteratorReturns, PumpEnds
  <2> QED BY <1>2, <2>1, <2>2, <2>3
<1>7. ASSUME Accepts(id) PROVE ServerQuiet(id)
  <2>1. queue'[id] = Append(queue[id], g + 1)
    BY <1>1, <1>7, AwaitedComes DEF Accepts, g
  <2>2. queue'[id] # queue[id]
    BY <1>3, <2>1, Numbers, Lengths
  <2> QED BY <2>2, LocalSteps DEF ClientQuiet
<1> QED BY <1>4, <1>5, <1>6, <1>7

--------------------------------------------------------------------------------
LEMMA InitInv == Init => IInv
<1> SUFFICES ASSUME Init, NEW id \in Ids PROVE Promised(id)
  BY InitTypes DEF IInv
<1>1. /\ client[id] = "none" /\ stage[id] = "none" /\ queue[id] = <<>> /\ delivered[id] = <<>>
      /\ emitted[id] = 0 /\ clientMap = {} /\ clientTimers = {} /\ nextSubscriptionId = 1
      /\ toServer = <<>> /\ toClient = <<>>
  BY DEF Init
<1>2. Fresh(id)
  BY <1>1, NothingUnderWay DEF Fresh, Ids
<1>3. Registered(id)
  BY <1>1 DEF Registered, Reading
<1>4. Completed(id)
  BY <1>1, NothingUnderWay DEF Completed
<1>5. Consumed(id) = 0 /\ Waiting(id) = 0 /\ Got(id) = 0
  BY <1>1, Lengths DEF Consumed, Waiting, Got
<1>6. Queued(id)
  BY <1>1, <1>5 DEF Queued
<1>7. UnderWay(id)
  BY <1>1, <1>5, NothingUnderWay DEF UnderWay
<1> QED BY <1>2, <1>3, <1>4, <1>6, <1>7 DEF Promised

LEMMA NextInv == IInv /\ [Next]_vars => IInv'
<1> SUFFICES ASSUME IInv, [Next]_vars PROVE IInv'
  OBVIOUS
<1>1. TypeOK'
  BY TypeStep DEF IInv
<1>2. ASSUME NEW id \in Ids PROVE Promised(id)'
  BY FreshStep, RegisteredStep, CompletedStep, QueuedStep, UnderWayStep DEF Promised
<1> QED BY <1>1, <1>2 DEF IInv

(* For any number of subscriptions and results, and whoever is prompt: the      *)
(* state has its types, and what is consumed, queued and under way of a         *)
(* subscription are the results that were sent, each in one place and in order. *)
THEOREM Invariance == Spec => []IInv
<1>1. Init => IInv
  BY InitInv
<1>2. IInv /\ [Next]_vars => IInv'
  BY NextInv
<1> QED BY <1>1, <1>2, PTL DEF Spec

--------------------------------------------------------------------------------
(* Every subscription implements Subscription.                                  *)

LEMMA SubscriptionBegins ==
  ASSUME Init, NEW id \in Ids
  PROVE  Sub(id)!Init
BY DEF Init, Sub!Init

(* What the server does to a subscription is to send, to end or nothing.        *)
LEMMA SourceImplements ==
  ASSUME IInv, NEW id \in Ids, ServerSteps(id), ClientQuiet(id)
  PROVE  [Sub(id)!Next]_(Sub(id)!vars)
<1>1. CASE ServerQuiet(id)
  BY <1>1 DEF ServerQuiet, ClientQuiet, Sub!vars
<1>2. CASE PumpNext(id)
  BY <1>2 DEF PumpNext, serverVars, clientVars, ClientQuiet, IInv, TypeOK, ServerTypes,
              Sub!Next, Sub!Send
<1>3. CASE /\ <<stage[id], stage'[id]>> \in
                {"streaming", "returning"} \X {"ended", "errored"}
           /\ UNCHANGED emitted[id]
  BY <1>3 DEF ClientQuiet, Sub!Next, Sub!SourceEnds
<1>4. CASE stage[id] = "starting" /\ stage'[id] = "failed" /\ UNCHANGED emitted[id]
  BY <1>4 DEF ClientQuiet, Sub!Next, Sub!SourceEnds
<1>5. CASE /\ <<stage[id], stage'[id]>> \in
                {<<"none", "starting">>, <<"starting", "streaming">>,
                 <<"streaming", "returning">>}
           /\ UNCHANGED emitted[id]
  BY <1>5 DEF ClientQuiet, Sub!vars
<1> QED BY <1>1, <1>2, <1>3, <1>4, <1>5 DEF ServerSteps

(* What the client does is to receive, to complete, to break off or nothing.    *)
LEMMA ConsumerImplements ==
  ASSUME IInv, NEW id \in Ids, ClientSteps(id), ServerQuiet(id)
  PROVE  [Sub(id)!Next]_(Sub(id)!vars)
<1>1. Queued(id) /\ Completed(id)
  BY DEF IInv, Promised
<1>2. CASE ClientQuiet(id) \/ Begins(id) \/ Accepts(id) \/ Finishes(id)
  BY <1>2 DEF ClientQuiet, Begins, Accepts, Finishes, ServerQuiet, Sub!vars
<1>3. CASE HandsOut(id)
  <2>1. /\ Reading(id) /\ UNCHANGED client[id]
        /\ queue[id] # <<>> /\ delivered'[id] = Append(delivered[id], Head(queue[id]))
    BY <1>3 DEF HandsOut
  <2>2. Head(queue[id]) = queue[id][1] /\ Waiting(id) > 0
    BY <2>1, Numbers, Lengths DEF IInv, Waiting
  <2>3. Head(queue[id]) = Consumed(id) + 1 /\ Got(id) <= emitted[id]
    BY <1>1, <2>1, <2>2, Numbers DEF IInv, Queued, Reading, Ended
  <2>4. Consumed(id) < emitted[id]
    BY <2>2, <2>3, Numbers DEF IInv, Got
  <2>5. /\ Len(delivered[id]) < emitted[id]
        /\ delivered'[id] = Append(delivered[id], Len(delivered[id]) + 1)
    BY <2>1, <2>3, <2>4 DEF Consumed
  <2> QED BY <2>1, <2>5 DEF Reading, ServerQuiet, Sub!Next, Sub!Receive
<1>4. CASE Ends(id) /\ client'[id] = "drained"
  <2>1. client[id] = "finished" /\ queue[id] = <<>> /\ UNCHANGED delivered[id]
    BY <1>4 DEF Ends
  <2>2. stage[id] = "ended" /\ Got(id) = emitted[id]
    BY <1>1, <2>1 DEF Completed, Queued, Ended
  <2>3. Waiting(id) = 0
    BY <2>1, Lengths DEF Waiting
  <2>4. Len(delivered[id]) = emitted[id]
    BY <2>2, <2>3, Numbers DEF IInv, Got, Consumed
  <2> QED BY <1>4, <2>1, <2>2, <2>4 DEF ServerQuiet, Sub!Next, Sub!Complete
<1>5. CASE Ends(id) /\ client'[id] # "drained"
  BY <1>5 DEF Ends, Reading, Ended, ServerQuiet, Sub!Next, Sub!Break
<1> QED BY <1>2, <1>3, <1>4, <1>5 DEF ClientSteps

(* For any number of subscriptions and results, and whoever is prompt: results  *)
(* arrive in order and without gaps, and a client's iterator ends normally only *)
(* after the source has, with every result delivered, whatever the sockets, the *)
(* delayed deletes and the other subscriptions do.                              *)
THEOREM Refinement == Spec => ImplementsSubscription
<1>1. Init => \A id \in Ids : Sub(id)!Init
  BY SubscriptionBegins
<1>2. IInv /\ [Next]_vars => [\A id \in Ids : [Sub(id)!Next]_(Sub(id)!vars)]_vars
  BY LocalSteps, SourceImplements, ConsumerImplements
<1> QED BY <1>1, <1>2, Invariance, PTL DEF Spec, ImplementsSubscription

--------------------------------------------------------------------------------
(* If everybody is prompt, nobody is stray.                                     *)

EverybodyIsPrompt == Prompt = {"network", "application", "consumer"}

\* What a step may leave alone: the messages about a subscription,
ToServerKept(id) ==
  /\ Has(toServer, "subscribe", id)' <=> Has(toServer, "subscribe", id)
  /\ Has(toServer, "complete", id)' <=> Has(toServer, "complete", id)
  /\ NoneAfter(toServer, "complete", "subscribe", id) =>
       NoneAfter(toServer, "complete", "subscribe", id)'

ToClientKept(id) ==
  \A type \in {"next", "complete", "error"} :
    Has(toClient, type, id)' <=> Has(toClient, type, id)

\* and what the ends know of it.
Untouched(id) ==
  /\ UNCHANGED <<client[id], stage[id]>>
  /\ id \in clientMap' <=> id \in clientMap
  /\ id \in clientTimers' <=> id \in clientTimers
  /\ id \in serverMap' <=> id \in serverMap
  /\ id \in serverTimers' <=> id \in serverTimers
  /\ id \in completing' <=> id \in completing

(* A subscription that a step leaves alone is as expected as before.            *)
LEMMA UntouchedStaysExpected ==
  ASSUME IInv, [Next]_vars, NEW id \in Ids, Expected(id),
         ToServerKept(id), ToClientKept(id), Untouched(id)
  PROVE  Expected(id)'
<1>1. Connected' => Connected
  BY NoWayBack DEF Connected
<1>2. clientSocket' = "open" => clientSocket = "open"
  BY NoWayBack
<1>3. serverSocket' = "open" => serverSocket = "open"
  BY NoWayBack
<1> USE DEF Expected, ToServerKept, ToClientKept, Untouched
<1>4. ClientExpects(id)'
  BY <1>1, <1>2 DEF ClientExpects
<1>5. ServerExpects(id)'
  BY <1>1, <1>3 DEF ServerExpects, Reading, TornDown
<1>6. EndsAreTold(id)'
  BY <1>1 DEF EndsAreTold, TornDown
<1>7. Scheduled(id)'
  BY DEF Scheduled, TornDown
<1> QED BY <1>4, <1>5, <1>6, <1>7

(* Channels in which nothing happens, or nothing that is about the subscription *)
LEMMA ToServerKeeps ==
  ASSUME TypeOK, NEW id \in Ids
  PROVE  /\ UNCHANGED toServer => ToServerKept(id)
         /\ \A m \in ServerBound :
              /\ toServer' = toServer \/ toServer' = Append(toServer, m)
              /\ m.type = "close" \/ m.id # id
              => ToServerKept(id)
         /\ toServer # <<>> /\ toServer' = Tail(toServer) /\ Head(toServer).id # id =>
              ToServerKept(id)
<1>0. toServer \in Seq(ServerBound)
  BY DEF TypeOK
<1>1. UNCHANGED toServer => ToServerKept(id)
  BY DEF ToServerKept
<1>2. ASSUME NEW m \in ServerBound, m.type = "close" \/ m.id # id,
             toServer' = toServer \/ toServer' = Append(toServer, m)
      PROVE  ToServerKept(id)
  <2>1. /\ \A t : Has(toServer, t, id) => Has(toServer', t, id)
        /\ \A t : Has(toServer', t, id) => Has(toServer, t, id) \/ (m.type = t /\ m.id = id)
        /\ NoneAfter(toServer, "complete", "subscribe", id) /\ ~(m.type = "subscribe" /\ m.id = id) =>
             NoneAfter(toServer', "complete", "subscribe", id)
    BY <1>0, <1>2, Sent
  <2> QED BY <1>2, <2>1 DEF ToServerKept
<1>3. ASSUME toServer # <<>>, toServer' = Tail(toServer), Head(toServer).id # id
      PROVE  ToServerKept(id)
  <2> DEFINE m == Head(toServer)
  <2>1. /\ \A t : Has(toServer, t, id) <=> Has(Tail(toServer), t, id) \/ (m.type = t /\ m.id = id)
        /\ NoneAfter(toServer, "complete", "subscribe", id) =>
             NoneAfter(Tail(toServer), "complete", "subscribe", id)
    BY <1>0, <1>3, Taken
  <2> QED BY <1>3, <2>1 DEF ToServerKept
<1> QED BY <1>1, <1>2, <1>3

LEMMA ToClientKeeps ==
  ASSUME TypeOK, NEW id \in Ids
  PROVE  /\ UNCHANGED toClient => ToClientKept(id)
         /\ \A m \in ClientBound :
              /\ toClient' = toClient \/ toClient' = Append(toClient, m)
              /\ m.type = "close" \/ m.id # id
              => ToClientKept(id)
         /\ toClient # <<>> /\ toClient' = Tail(toClient) /\ Head(toClient).id # id =>
              ToClientKept(id)
<1>0. toClient \in Seq(ClientBound)
  BY DEF TypeOK
<1>1. UNCHANGED toClient => ToClientKept(id)
  BY DEF ToClientKept
<1>2. ASSUME NEW m \in ClientBound, m.type = "close" \/ m.id # id,
             toClient' = toClient \/ toClient' = Append(toClient, m)
      PROVE  ToClientKept(id)
  <2>1. /\ \A t : Has(toClient, t, id) => Has(toClient', t, id)
        /\ \A t : Has(toClient', t, id) => Has(toClient, t, id) \/ (m.type = t /\ m.id = id)
    BY <1>0, <1>2, Sent
  <2> QED BY <1>2, <2>1 DEF ToClientKept
<1>3. ASSUME toClient # <<>>, toClient' = Tail(toClient), Head(toClient).id # id
      PROVE  ToClientKept(id)
  <2> DEFINE m == Head(toClient)
  <2>1. \A t : Has(toClient, t, id) <=> Has(Tail(toClient), t, id) \/ (m.type = t /\ m.id = id)
    BY <1>0, <1>3, Taken
  <2> QED BY <1>3, <2>1 DEF ToClientKept
<1> QED BY <1>1, <1>2, <1>3

(* A subscription of which nothing is under way                                 *)
LEMMA NotInFlight ==
  ASSUME NEW id, ~InFlight(id)
  PROVE  \A type : ~Has(toServer, type, id) /\ ~Has(toClient, type, id)
BY DEF InFlight, ToSet, Has

(* A message that comes to an open client finds its subscription.               *)
LEMMA ClientFinds ==
  ASSUME IInv, PInv, ClientReceives, clientSocket = "open"
  PROVE  ~ReceiveStray(Head(toClient))
<1> DEFINE m == Head(toClient)
<1>1. toClient \in Seq(ClientBound) /\ toClient # <<>>
  BY DEF ClientReceives, IInv, TypeOK
<1>2. m \in ClientBound /\ Has(toClient, m.type, m.id)
  BY <1>1, Taken
<1>3. m.type # "close" => m.type \in {"next", "complete", "error"} /\ m.id \in Ids
  BY <1>2, Messages
<1> HIDE DEF m
<1>4. m.type # "close" => m.id \in clientMap
  BY <1>2, <1>3 DEF PInv, Expected, ClientExpects
<1> QED BY <1>4 DEF ReceiveStray, m

(* A message that comes to an open server finds its subscription, or its id     *)
(* free: the server does not close the socket.                                  *)
LEMMA ServerFinds ==
  ASSUME IInv, PInv, ServerReceives, NEW m, m = Head(toServer)
  PROVE  /\ ReceiveSubscribe(m) => m.id \notin serverMap
         /\ ReceiveUnsubscribe(m) /\ serverSocket = "open" => m.id \in serverMap
<1>1. toServer \in Seq(ServerBound) /\ toServer # <<>>
  BY DEF ServerReceives, IInv, TypeOK
<1>2. m \in ServerBound /\ Has(toServer, m.type, m.id)
  BY <1>1, Taken
<1>3. m.type # "close" => m.id \in Ids
  BY <1>2, Messages
<1>4. ASSUME m.type = "subscribe" PROVE m.id \notin serverMap
  BY <1>2, <1>3, <1>4 DEF PInv, Expected, ServerExpects
<1>5. ASSUME m.type = "complete", serverSocket = "open", m.id \notin serverMap PROVE FALSE
  <2>1. ServerExpects(m.id)
    BY <1>3, <1>5 DEF PInv, Expected
  <2>2. Has(toServer, "subscribe", m.id) /\ NoneAfter(toServer, "complete", "subscribe", m.id)
    BY <1>2, <1>5, <2>1 DEF ServerExpects
  <2>3. Has(Tail(toServer), "subscribe", m.id)
    BY <1>1, <1>5, <2>2, Taken
  <2>4. ~Has(Tail(toServer), "subscribe", m.id)
    BY <1>1, <1>5, <2>2, Taken
  <2> QED BY <2>3, <2>4
<1> QED BY <1>4, <1>5 DEF ReceiveSubscribe, ReceiveUnsubscribe

(* So neither end closes the connection on the other.                           *)
LEMMA StrayStep ==
  ASSUME IInv, PInv, [Next]_vars
  PROVE  NobodyIsStray'
<1>0. closedBy \notin {"client", "server"}
  BY DEF PInv, NobodyIsStray
<1> SUFFICES closedBy' = closedBy \/ closedBy' = "outside"
  BY <1>0 DEF NobodyIsStray
<1>1. CASE ClientReceives
  <2> DEFINE m == Head(toClient)
  <2>1. CASE ReceiveStray(m)
    <3>1. clientSocket # "open"
      BY <1>1, <2>1, ClientFinds
    <3> QED BY <2>1, <3>1, ClientClosing DEF ReceiveStray
  <2>2. CASE ReceiveError(m)
    BY <2>2 DEF ReceiveError, IteratorEnds
  <2> HIDE DEF m
  <2> QED BY <1>1, <2>1, <2>2 DEF ClientReceives, ReceiveNext, ReceiveComplete, m
<1>2. CASE ServerReceives
  <2> DEFINE m == Head(toServer)
  <2>1. CASE ReceiveSubscribe(m)
    BY <1>2, <2>1, ServerFinds DEF ReceiveSubscribe
  <2>2. CASE ReceiveUnsubscribe(m)
    <3>1. CASE serverSocket = "open"
      BY <1>2, <2>2, <3>1, ServerFinds DEF ReceiveUnsubscribe
    <3>2. CASE serverSocket # "open"
      BY <2>2, <3>2, ServerClosing DEF ReceiveUnsubscribe
    <3> QED BY <3>1, <3>2
  <2> HIDE DEF m
  <2> QED BY <1>2, <2>1, <2>2 DEF ServerReceives, m
<1>3. CASE ClientLoses \/ ServerLoses
  BY <1>3 DEF ClientLoses, ServerLoses, Blame
<1>4. CASE ClientShutsDown
  BY <1>4, ClientClosing DEF ClientShutsDown
<1>5. CASE ServerShutsDown
  BY <1>5, ServerClosing DEF ServerShutsDown
<1>6. CASE Subscribe \/ UNCHANGED vars
  BY <1>6 DEF Subscribe, vars
<1>7. ASSUME NEW id \in Ids,
             \/ Consume(id) \/ Drain(id) \/ Return(id) \/ ClientDelete(id)
             \/ CompleteReturns(id) \/ StartSettles(id) \/ PumpNext(id) \/ SourceEnds(id)
             \/ IteratorReturns(id) \/ ServerDelete(id) \/ SweepReturns(id)
      PROVE  closedBy' = closedBy
  BY <1>7 DEF Consume, Drain, Return, IteratorEnds, ClientDelete, CompleteReturns, StartSettles,
              PumpNext, SourceEnds, IteratorReturns, PumpEnds, ServerDelete, SweepReturns
<1>8. ASSUME NEW id \in Ids, SetsUp(id) PROVE closedBy' = closedBy
  BY <1>8, SettingUp DEF IInv
<1> QED BY <1>1, <1>2, <1>3, <1>4, <1>5, <1>6, <1>7, <1>8 DEF Next, SetsUp

(* Steps of the sockets leave every subscription alone, or disconnect it.       *)
LEMMA SocketsExpected ==
  ASSUME IInv, PInv, [Next]_vars, NEW id \in Ids,
         ClientShutsDown \/ ServerLoses \/ ServerShutsDown \/ UNCHANGED vars
  PROVE  Expected(id)'
<1>1. Expected(id) /\ TypeOK
  BY DEF PInv, IInv
<1> USE DEF clientVars, serverVars
<1>2. Untouched(id)
  BY DEF ClientShutsDown, ServerLoses, ServerShutsDown, vars, Untouched
<1>3. ToClientKept(id)
  <2>1. CASE ServerShutsDown
    <3>1. toClient' = toClient \/ toClient' = Append(toClient, CloseFrame)
      BY <2>1, ServerClosing DEF ServerShutsDown
    <3> QED BY <1>1, <3>1, ToClientKeeps, Messages
  <2>2. CASE UNCHANGED toClient
    BY <1>1, <2>2, ToClientKeeps
  <2> QED BY <2>1, <2>2 DEF ClientShutsDown, ServerLoses, vars
<1>4. CASE ServerLoses
  <2>1. /\ ~Has(toServer', "subscribe", id) /\ ~Has(toServer', "complete", id)
        /\ NoneAfter(toServer', "complete", "subscribe", id)
    BY <1>4, NothingUnderWay DEF ServerLoses
  <2>2. ~Connected' /\ serverSocket' # "open"
    BY <1>4 DEF ServerLoses, ServerClosed, Connected
  <2>3. clientSocket' = "open" => clientSocket = "open"
    BY NoWayBack
  <2> QED BY <1>1, <1>2, <1>3, <2>1, <2>2, <2>3
          DEF Expected, ClientExpects, ServerExpects, EndsAreTold, Scheduled, Untouched,
              ToClientKept, TornDown
<1>5. CASE ~ServerLoses
  <2>1. ToServerKept(id)
    <3>1. CASE ClientShutsDown
      <4>1. toServer' = toServer \/ toServer' = Append(toServer, CloseFrame)
        BY <3>1, ClientClosing DEF ClientShutsDown
      <4> QED BY <1>1, <4>1, ToServerKeeps, Messages
    <3>2. CASE UNCHANGED toServer
      BY <1>1, <3>2, ToServerKeeps
    <3> QED BY <1>5, <3>1, <3>2 DEF ServerShutsDown, vars
  <2> QED BY <1>1, <1>2, <1>3, <2>1, UntouchedStaysExpected
<1> QED BY <1>4, <1>5

(* The client's socket has closed.                                              *)
LEMMA ClientClosedExpected ==
  ASSUME IInv, PInv, [Next]_vars, NEW id \in Ids, ClientClosed,
         UNCHANGED serverVars, toServer' = toServer \/ toServer' = Append(toServer, CloseFrame)
  PROVE  Expected(id)'
<1>1. Expected(id) /\ TypeOK
  BY DEF PInv, IInv
<1>2. ToServerKept(id)
  BY <1>1, ToServerKeeps, Messages
<1>3. ~Connected' /\ clientSocket' # "open"
  BY DEF ClientClosed, Connected
<1>4. /\ TornDown(id) => client'[id] = client[id]
      /\ id \in clientTimers' => id \in clientTimers \/ TornDown(id)'
  BY DEF ClientClosed, TornDown, Ended
<1>5. serverSocket' = "open" => serverSocket = "open"
  BY NoWayBack
<1>6. ClientExpects(id)'
  BY <1>3 DEF ClientExpects
<1>7. ServerExpects(id)'
  <2>1. Has(toServer, "complete", id)' => TornDown(id)'
    BY <1>1, <1>2, <1>4 DEF Expected, ServerExpects, ToServerKept, TornDown
  <2> QED BY <1>1, <1>2, <1>3, <1>5, <2>1 DEF Expected, ServerExpects, ToServerKept, serverVars
<1>8. EndsAreTold(id)'
  BY <1>3 DEF EndsAreTold
<1>9. Scheduled(id)'
  <2>1. id \in clientTimers' => TornDown(id)'
    BY <1>1, <1>4 DEF Expected, Scheduled, TornDown
  <2> QED BY <1>1, <2>1 DEF Expected, Scheduled, serverVars
<1> QED BY <1>6, <1>7, <1>8, <1>9 DEF Expected

(* A new subscription is under way to the server.                               *)
LEMMA SubscribeExpected ==
  ASSUME IInv, PInv, [Next]_vars, NEW id \in Ids, Subscribe
  PROVE  Expected(id)'
<1> DEFINE k == nextSubscriptionId
           m == Message("subscribe", k)
<1>1. /\ Expected(id) /\ Fresh(id) /\ TypeOK
      /\ toServer \in Seq(ServerBound) /\ ClientTypes
  BY DEF PInv, IInv, Promised, TypeOK
<1>2. /\ k \in Ids /\ m \in ServerBound /\ m.type = "subscribe" /\ m.id = k
      /\ toServer' = toServer \/ toServer' = Append(toServer, m)
      /\ Connected => toServer' = Append(toServer, m)
  BY Messages, Sending DEF Subscribe
<1>3. ToClientKept(id)
  BY <1>1, ToClientKeeps DEF Subscribe
<1> HIDE DEF m
<1>4. CASE id # k
  <2>1. ToServerKept(id)
    BY <1>1, <1>2, <1>4, ToServerKeeps
  <2>2. Untouched(id)
    BY <1>1, <1>4 DEF Subscribe, Untouched, ClientTypes, serverVars
  <2> QED BY <1>1, <1>3, <2>1, <2>2, UntouchedStaysExpected
<1>5. CASE id = k
  <2>1. /\ client[id] \in {"setup", "abandoned"} /\ stage[id] = "none"
        /\ client'[id] \in {"subscribed", "abandoned"} /\ id \in clientMap'
        /\ UNCHANGED <<serverVars, clientTimers, clientSocket>>
    <3>1. /\ InSetup(k) /\ UNCHANGED <<serverVars, clientTimers, clientSocket>>
          /\ client' = [client EXCEPT ![k] = IF @ = "setup" THEN "subscribed" ELSE @]
          /\ clientMap' = clientMap \cup {k}
      BY DEF Subscribe
    <3>2. k >= k
      BY <1>2 DEF Ids
    <3>3. client[id] \in {"setup", "abandoned"} /\ stage[id] = "none"
      BY <1>1, <1>5, <3>1, <3>2 DEF Fresh, InSetup
    <3> QED BY <1>1, <1>2, <1>5, <3>1, <3>3 DEF ClientTypes
  <2>2. Connected => Has(toServer', "subscribe", id)
    <3>1. Has(Append(toServer, m), m.type, m.id)
      BY <1>1, <1>2, Appended
    <3> QED BY <1>2, <1>5, <3>1
  <2>3. ~Has(toServer, "complete", id)
    BY <1>1, <2>1 DEF Expected, ServerExpects, TornDown
  <2>4. ~Has(toServer', "complete", id) /\ NoneAfter(toServer', "complete", "subscribe", id)
    <3>1. NoneAfter(toServer, "complete", "subscribe", id)
      BY <1>1 DEF Expected, ServerExpects
    <3> QED BY <1>1, <1>2, <2>3, <3>1, Sent
  <2> QED BY <1>1, <1>3, <2>1, <2>2, <2>3, <2>4
          DEF Expected, ClientExpects, ServerExpects, EndsAreTold, Scheduled, TornDown, Connected,
              serverVars, ToClientKept
<1> QED BY <1>4, <1>5

(* An iterator that ends tells the server.                                      *)
LEMMA IteratorEndsExpected ==
  ASSUME IInv, PInv, [Next]_vars, NEW id \in Ids, NEW k \in Ids,
         NEW state \in {"drained", "returned", "thrown"},
         Reading(k), IteratorEnds(k, state), UNCHANGED serverVars,
         id # k => ToClientKept(id),
         \A type \in {"next", "complete", "error"} :
           Has(toClient, type, id)' => Has(toClient, type, id)
  PROVE  Expected(id)'
<1> DEFINE m == Message("complete", k)
<1>1. /\ Expected(id) /\ Fresh(id) /\ TypeOK
      /\ toServer \in Seq(ServerBound) /\ ClientTypes
  BY DEF PInv, IInv, Promised, TypeOK
<1>2. /\ m \in ServerBound /\ m.type = "complete" /\ m.id = k
      /\ toServer' = toServer \/ toServer' = Append(toServer, m)
      /\ Connected => toServer' = Append(toServer, m)
      /\ clientSocket # "open" => toServer' = toServer
  BY Messages, Sending DEF IteratorEnds, ClientSend
<1> HIDE DEF m
<1>3. CASE id # k
  <2>1. ToServerKept(id)
    BY <1>1, <1>2, <1>3, ToServerKeeps
  <2>2. Untouched(id)
    BY <1>1, <1>3 DEF IteratorEnds, Untouched, ClientTypes, serverVars
  <2> QED BY <1>1, <1>3, <2>1, <2>2, UntouchedStaysExpected
<1>4. CASE id = k
  <2>1. /\ TornDown(id)' /\ ~Reading(id)'
        /\ UNCHANGED <<serverVars, clientSocket, clientMap>>
    BY <1>1, <1>4 DEF IteratorEnds, ClientTypes, TornDown, Reading
  <2>2. /\ Has(toServer', "subscribe", id) => Has(toServer, "subscribe", id)
        /\ Has(toServer, "subscribe", id) => Has(toServer', "subscribe", id)
        /\ NoneAfter(toServer, "complete", "subscribe", id) =>
             NoneAfter(toServer', "complete", "subscribe", id)
    BY <1>1, <1>2, Sent
  <2>3. Connected => Has(toServer', "complete", id)
    <3>1. Has(Append(toServer, m), m.type, m.id)
      BY <1>1, <1>2, Appended
    <3> QED BY <1>2, <1>4, <3>1
  <2>4. Has(toServer', "complete", id) => Has(toServer, "complete", id) \/ clientSocket = "open"
    BY <1>2
  <2> QED BY <1>1, <1>4, <2>1, <2>2, <2>3, <2>4
          DEF Expected, ClientExpects, ServerExpects, EndsAreTold, Scheduled, Connected,
              TornDown, Reading, serverVars
<1> QED BY <1>3, <1>4

(* What comes to the client finds its subscription and changes no other.        *)
LEMMA ClientReceivesExpected ==
  ASSUME IInv, PInv, [Next]_vars, NEW id \in Ids, ClientReceives
  PROVE  Expected(id)'
<1> DEFINE m == Head(toClient)
<1>1. /\ Expected(id) /\ TypeOK /\ ClientTypes
      /\ toClient \in Seq(ClientBound) /\ toClient # <<>>
      /\ UNCHANGED serverVars
  BY DEF PInv, IInv, TypeOK, ClientReceives
<1>2. /\ m.type # "close" => m.id \in Ids
      /\ \A t : Has(toClient, t, id) <=> Has(Tail(toClient), t, id) \/ (m.type = t /\ m.id = id)
  <2>1. m \in ClientBound
    BY <1>1, Taken
  <2>2. m.type # "close" => m.id \in Ids
    BY <2>1, Messages
  <2>3. \A t, i : Has(toClient, t, i) <=> Has(Tail(toClient), t, i) \/ (m.type = t /\ m.id = i)
    BY <1>1, Taken
  <2> QED BY <2>2, <2>3
<1>3. m.type # "close" /\ toClient' = Tail(toClient) /\ id # m.id => ToClientKept(id)
  BY <1>1, ToClientKeeps
<1> HIDE DEF m
\* A message that ends nothing on the client
<1>4. ASSUME m.type # "close", toClient' = Tail(toClient),
             UNCHANGED <<clientMap, clientTimers, toServer>>,
             \/ client' = client
             \/ m.type = "complete" /\ client' = [client EXCEPT ![m.id] = IF @ = "open" THEN "finished" ELSE @],
             m.id = id /\ m.type \in {"complete", "error"} =>
               ~Connected \/ client'[id] \notin {"subscribed", "open"}
      PROVE  Expected(id)'
  <2>1. ToServerKept(id)
    BY <1>1, <1>4, ToServerKeeps
  <2>2. /\ client'[id] = client[id] \/ (client[id] = "open" /\ client'[id] = "finished" /\ m.id = id)
        /\ TornDown(id)' <=> TornDown(id)
        /\ Reading(id)' => Reading(id)
    BY <1>1, <1>2, <1>4 DEF ClientTypes, TornDown, Reading
  <2>3. CASE m.id # id
    <3>1. Untouched(id)
      BY <1>1, <1>4, <2>2, <2>3 DEF Untouched, serverVars
    <3> QED BY <1>1, <1>3, <1>4, <2>1, <2>3, <3>1, UntouchedStaysExpected
  <2>4. CASE m.id = id
    <3>1. \A t : Has(toClient', t, id) => Has(toClient, t, id)
      BY <1>2, <1>4
    <3>2. m.type \notin {"complete", "error"} =>
            /\ Has(toClient, "complete", id) => Has(toClient', "complete", id)
            /\ Has(toClient, "error", id) => Has(toClient', "error", id)
      BY <1>2, <1>4
    <3>3. (Connected' => Connected) /\ (clientSocket' = "open" => clientSocket = "open")
      BY NoWayBack DEF Connected
    <3>4. client'[id] \in {"subscribed", "open"} => client[id] \in {"subscribed", "open"}
      BY <2>2
    <3>5. ClientExpects(id)'
      BY <1>1, <1>4, <2>1, <3>1, <3>3 DEF Expected, ClientExpects, ToServerKept, serverVars
    <3>6. ServerExpects(id)'
      BY <1>1, <2>1, <2>2, <3>3 DEF Expected, ServerExpects, ToServerKept, serverVars
    <3>7. EndsAreTold(id)'
      BY <1>1, <1>4, <2>1, <2>2, <2>4, <3>2, <3>3, <3>4
      DEF Expected, EndsAreTold, ToServerKept, serverVars
    <3>8. Scheduled(id)'
      BY <1>1, <1>4, <2>2 DEF Expected, Scheduled, serverVars
    <3> QED BY <3>5, <3>6, <3>7, <3>8 DEF Expected
  <2> QED BY <2>3, <2>4
<1>5. CASE m.type # "close" /\ toClient' = Tail(toClient) /\ ReceiveNext(m)
  BY <1>4, <1>5 DEF ReceiveNext
<1>6. CASE m.type # "close" /\ toClient' = Tail(toClient) /\ ReceiveComplete(m)
  <2>1. m.id = id => client'[id] \notin {"subscribed", "open"}
    BY <1>1, <1>6 DEF ReceiveComplete, ClientTypes, ClientReceives, Quiet, InSetup
  <2> QED BY <1>4, <1>6, <2>1 DEF ReceiveComplete
<1>7. CASE m.type # "close" /\ toClient' = Tail(toClient) /\ ReceiveError(m)
  <2>1. CASE Ended(client[m.id])
    BY <1>4, <1>7, <2>1 DEF ReceiveError, clientVars, Ended
  <2>2. CASE ~Ended(client[m.id])
    <3>1. /\ m.id \in clientMap /\ client[m.id] \notin {"none", "setup"}
          /\ IteratorEnds(m.id, "thrown")
      <4>1. Fresh(m.id)
        BY <1>2, <1>7 DEF IInv, Promised
      <4> QED BY <1>7, <2>2, <4>1 DEF ReceiveError, Fresh
    <3>2. Reading(m.id)
      BY <1>1, <1>2, <1>7, <2>2, <3>1 DEF ClientTypes, IteratorStates, Ended, Reading
    <3>3. \A t : Has(toClient', t, id) => Has(toClient, t, id)
      BY <1>2, <1>7
    <3> QED BY <1>1, <1>2, <1>3, <1>7, <3>1, <3>2, <3>3, IteratorEndsExpected
  <2> QED BY <2>1, <2>2
<1>8. CASE m.type # "close" /\ toClient' = Tail(toClient) /\ ReceiveStray(m)
  <2>1. clientSocket # "open"
    BY <1>8, ClientFinds DEF m
  <2>2. UNCHANGED toServer /\ ~Connected
    BY <1>8, <2>1 DEF ReceiveStray, ClientCloses, Connected
  <2> QED BY <1>4, <1>8, <2>2 DEF ReceiveStray
<1>9. CASE /\ m.type # "close" /\ toClient' = Tail(toClient) /\ clientSocket = "muted"
           /\ UNCHANGED <<clientVars, toServer>>
  BY <1>4, <1>9 DEF Connected, clientVars
<1>10. CASE ClientClosed /\ ClientSend(CloseFrame)
  BY <1>1, <1>10, Sending, ClientClosedExpected
<1> QED BY <1>5, <1>6, <1>7, <1>8, <1>9, <1>10 DEF ClientReceives, m

(* What comes to the server starts its subscription or returns it.              *)
LEMMA ServerReceivesExpected ==
  ASSUME IInv, PInv, [Next]_vars, NEW id \in Ids, ServerReceives
  PROVE  Expected(id)'
<1> DEFINE m == Head(toServer)
<1>1. /\ Expected(id) /\ Fresh(id) /\ TypeOK /\ ServerTypes
      /\ toServer \in Seq(ServerBound) /\ toServer # <<>>
      /\ UNCHANGED clientVars
  BY DEF PInv, IInv, Promised, TypeOK, ServerReceives
<1>2. /\ m.type # "close" => m.id \in Ids
      /\ \A t : Has(toServer, t, id) <=> Has(Tail(toServer), t, id) \/ (m.type = t /\ m.id = id)
      /\ \A s, t : NoneAfter(toServer, s, t, id) =>
           NoneAfter(Tail(toServer), s, t, id) /\ ~(m.type = s /\ m.id = id /\ Has(Tail(toServer), t, id))
  <2>1. m \in ServerBound
    BY <1>1, Taken
  <2>2. m.type # "close" => m.id \in Ids
    BY <2>1, Messages
  <2>3. /\ \A t, i : Has(toServer, t, i) <=> Has(Tail(toServer), t, i) \/ (m.type = t /\ m.id = i)
        /\ \A s, t, i : NoneAfter(toServer, s, t, i) <=>
             NoneAfter(Tail(toServer), s, t, i) /\ ~(m.type = s /\ m.id = i /\ Has(Tail(toServer), t, i))
    BY <1>1, Taken
  <2> QED BY <2>2, <2>3
<1>3. toServer' = Tail(toServer) /\ id # m.id => ToServerKept(id)
  BY <1>1, ToServerKeeps
<1>4. /\ ReceiveSubscribe(m) => m.id \notin serverMap
      /\ ReceiveUnsubscribe(m) /\ serverSocket = "open" => m.id \in serverMap
  BY ServerFinds
<1> HIDE DEF m
<1>5. (Connected' => Connected) /\ (serverSocket' = "open" => serverSocket = "open")
  BY NoWayBack DEF Connected
<1>6. CASE ReceiveSubscribe(m) /\ toServer' = Tail(toServer)
  <2>1. /\ m.type = "subscribe" /\ m.id \in Ids
        /\ stage' = [stage EXCEPT ![m.id] = "starting"] /\ serverMap' = serverMap \cup {m.id}
        /\ UNCHANGED <<toClient, serverTimers, completing>>
    BY <1>2, <1>4, <1>6 DEF ReceiveSubscribe
  <2>2. ToClientKept(id)
    BY <1>1, <2>1, ToClientKeeps
  <2>3. CASE id # m.id
    <3>1. Untouched(id)
      BY <1>1, <2>1, <2>3 DEF Untouched, ServerTypes, clientVars
    <3> QED BY <1>1, <1>3, <1>6, <2>2, <2>3, <3>1, UntouchedStaysExpected
  <2>4. CASE id = m.id
    <3>1. /\ Has(toServer, "subscribe", id) /\ ~Has(toServer', "subscribe", id)
          /\ Has(toServer', "complete", id) <=> Has(toServer, "complete", id)
          /\ NoneAfter(toServer', "complete", "subscribe", id)
      BY <1>1, <1>2, <1>6, <2>1, <2>4 DEF Expected, ServerExpects, Fresh
    <3>2. stage[id] = "none" /\ stage'[id] = "starting" /\ id \in serverMap'
      BY <1>1, <2>1, <2>4, <3>1 DEF Fresh, ServerTypes
    <3>3. ClientExpects(id)'
      BY <1>1, <1>5, <2>2, <3>1, <3>2 DEF Expected, ClientExpects, ToClientKept, clientVars, Connected
    <3>4. ServerExpects(id)'
      BY <1>1, <1>5, <3>1, <3>2 DEF Expected, ServerExpects, TornDown, clientVars
    <3>5. EndsAreTold(id)'
      BY <1>1, <1>5, <2>1, <3>1, <3>2 DEF Expected, EndsAreTold, TornDown, clientVars
    <3>6. Scheduled(id)'
      BY <1>1, <2>1, <3>2 DEF Expected, Scheduled, TornDown, clientVars
    <3> QED BY <3>3, <3>4, <3>5, <3>6 DEF Expected
  <2> QED BY <2>3, <2>4
<1>7. CASE ReceiveUnsubscribe(m) /\ toServer' = Tail(toServer)
  <2>1. /\ m.type = "complete" /\ m.id \in Ids
        /\ UNCHANGED <<serverMap, serverTimers>>
        /\ \/ /\ UNCHANGED <<stage, completing, toClient>>
              /\ serverSocket # "open"
           \/ /\ m.id \in serverMap /\ UNCHANGED toClient
              /\ IF stage[m.id] = "starting"
                 THEN completing' = completing \cup {m.id} /\ UNCHANGED stage
                 ELSE stage' = Returned(m.id) /\ UNCHANGED completing
    BY <1>2, <1>4, <1>7 DEF ReceiveUnsubscribe, ServerCloses
  <2>2. ToClientKept(id)
    BY <1>1, <2>1, ToClientKeeps
  <2>3. CASE id # m.id
    <3>1. Untouched(id)
      BY <1>1, <2>1, <2>3 DEF Untouched, Returned, ServerTypes, clientVars
    <3> QED BY <1>1, <1>3, <1>7, <2>2, <2>3, <3>1, UntouchedStaysExpected
  <2>4. CASE id = m.id
    <3>1. /\ Has(toServer, "complete", id)
          /\ Has(toServer', "subscribe", id) <=> Has(toServer, "subscribe", id)
          /\ Has(toServer', "complete", id) => Has(toServer, "complete", id)
          /\ NoneAfter(toServer', "complete", "subscribe", id)
      BY <1>1, <1>2, <1>7, <2>1, <2>4 DEF Expected, ServerExpects
    <3>2. /\ stage'[id] = stage[id] \/ (stage[id] = "streaming" /\ stage'[id] = "returning")
          /\ id \in completing' => id \in completing \/ id \in serverMap
          /\ Connected => /\ stage[id] # "none" /\ stage'[id] # "streaming"
                          /\ stage'[id] = "starting" => id \in completing'
      BY <1>1, <2>1, <2>4 DEF Expected, Scheduled, Returned, ServerTypes, Connected
    <3>3. ClientExpects(id)'
      BY <1>1, <1>5, <2>2, <3>1, <3>2 DEF Expected, ClientExpects, ToClientKept, clientVars, Connected
    <3>4. ServerExpects(id)'
      BY <1>1, <1>5, <2>1, <3>1 DEF Expected, ServerExpects, TornDown, Reading, clientVars
    <3>5. EndsAreTold(id)'
      BY <1>1, <1>5, <2>2, <3>2 DEF Expected, EndsAreTold, TornDown, clientVars, ToClientKept
    <3>6. Scheduled(id)'
      BY <1>1, <2>1, <3>2 DEF Expected, Scheduled, TornDown, clientVars
    <3> QED BY <3>3, <3>4, <3>5, <3>6 DEF Expected
  <2> QED BY <2>3, <2>4
<1>8. CASE /\ ServerClosed /\ ServerSend(CloseFrame) /\ toServer' = <<>>
           /\ UNCHANGED <<stage, serverMap, serverTimers, completing>>
  <2>1. ToClientKept(id)
    <3>1. toClient' = toClient \/ toClient' = Append(toClient, CloseFrame)
      BY <1>8, Sending
    <3> QED BY <1>1, <3>1, ToClientKeeps, Messages
  <2>2. /\ ~Has(toServer', "subscribe", id) /\ ~Has(toServer', "complete", id)
        /\ NoneAfter(toServer', "complete", "subscribe", id)
    BY <1>8, NothingUnderWay
  <2>3. ~Connected' /\ serverSocket' # "open"
    BY <1>8 DEF ServerClosed, Connected
  <2> QED BY <1>1, <1>8, <2>1, <2>2, <2>3
          DEF Expected, ClientExpects, ServerExpects, EndsAreTold, Scheduled, ToClientKept,
              TornDown, clientVars
<1> QED BY <1>6, <1>7, <1>8 DEF ServerReceives, m

(* The delayed deletes come when nothing is under way any more.                 *)
LEMMA DeletesExpected ==
  ASSUME IInv, PInv, [Next]_vars, EverybodyIsPrompt, NEW id \in Ids, NEW k \in Ids,
         ClientDelete(k) \/ ServerDelete(k)
  PROVE  Expected(id)'
<1>1. Expected(id) /\ TypeOK /\ ClientTypes /\ ServerTypes
  BY DEF PInv, IInv, TypeOK
<1>2. ToServerKept(id) /\ ToClientKept(id)
  BY <1>1, ToServerKeeps, ToClientKeeps DEF ClientDelete, ServerDelete
<1>3. CASE id # k
  <2>1. Untouched(id)
    BY <1>3 DEF ClientDelete, ServerDelete, Untouched, clientVars, serverVars
  <2> QED BY <1>1, <1>2, <2>1, UntouchedStaysExpected
<1>4. CASE id = k
  <2>1. ~InFlight(id)
    BY <1>4 DEF ClientDelete, ServerDelete, EverybodyIsPrompt
  <2>2. \A type : ~Has(toServer, type, id) /\ ~Has(toClient, type, id)
    BY <2>1, NotInFlight
  <2>3. CASE ClientDelete(id)
    <3>1. /\ TornDown(id) /\ stage[id] \notin {"starting", "returning"} /\ id \notin completing
          /\ UNCHANGED <<clientSocket, client, serverVars, toServer, toClient>>
          /\ id \in clientTimers' => id \in clientTimers
      BY <1>1, <2>3 DEF ClientDelete, EverybodyIsPrompt, Expected, Scheduled
    <3>2. Connected => stage[id] # "streaming"
      BY <1>1, <2>2, <3>1 DEF Expected, EndsAreTold
    <3> QED BY <1>1, <2>2, <3>1, <3>2
            DEF Expected, ClientExpects, ServerExpects, EndsAreTold, Scheduled, Connected,
                Reading, TornDown, serverVars
  <2>4. CASE ServerDelete(id)
    <3>1. /\ client[id] # "finished" /\ stage[id] \in {"ended", "errored"}
          /\ UNCHANGED <<serverSocket, stage, completing, clientVars, toServer, toClient>>
          /\ serverTimers' \subseteq serverTimers /\ serverMap' \subseteq serverMap
      BY <1>1, <2>4 DEF ServerDelete, EverybodyIsPrompt, Expected, Scheduled
    <3>2. Connected => ~Reading(id)
      BY <1>1, <2>2, <3>1 DEF Expected, EndsAreTold, Reading
    <3> QED BY <1>1, <2>2, <3>1, <3>2
            DEF Expected, ClientExpects, ServerExpects, EndsAreTold, Scheduled, Connected,
                Reading, TornDown, clientVars
  <2> QED BY <1>4, <2>3, <2>4
<1> QED BY <1>3, <1>4

(* The server's own steps tell the client what becomes of a subscription.       *)
LEMMA PumpExpected ==
  ASSUME IInv, PInv, [Next]_vars, NEW id \in Ids, NEW k \in Ids,
         StartSettles(k) \/ PumpNext(k) \/ SourceEnds(k) \/ IteratorReturns(k)
  PROVE  Expected(id)'
<1>1. /\ Expected(id) /\ Expected(k) /\ TypeOK /\ ServerTypes
      /\ UNCHANGED <<clientVars, serverSocket, serverMap, completing, toServer>>
  BY DEF PInv, IInv, TypeOK, StartSettles, PumpNext, SourceEnds, IteratorReturns, PumpEnds,
         serverVars
<1>2. ToServerKept(id)
  BY <1>1, ToServerKeeps
<1>3. PICK m \in ClientBound :
        /\ m.id = k /\ m.type \in {"next", "complete", "error"}
        /\ UNCHANGED toClient \/ ServerSend(m)
        /\ stage'[k] \in {"ended", "errored", "failed"} =>
             ServerSend(m) /\ m.type \in {"complete", "error"}
  <2>1. CASE UNCHANGED toClient /\ stage'[k] = "streaming"
    BY <2>1, Messages
  <2>2. CASE ServerSend(Message("error", k)) \/ ServerSend(Message("complete", k))
    BY <2>2, Messages
  <2>3. CASE PumpNext(k)
    <3> DEFINE n == [type |-> "next", id |-> k, value |-> emitted[k] + 1]
    <3>1. n \in ClientBound /\ n.id = k /\ n.type = "next" /\ ServerSend(n)
      BY <1>1, <2>3, Messages DEF PumpNext, ServerTypes
    <3>2. stage'[k] \notin {"ended", "errored", "failed"}
      BY <2>3 DEF PumpNext, serverVars
    <3> HIDE DEF n
    <3> QED BY <3>1, <3>2
  <2> QED BY <1>1, <2>1, <2>2, <2>3
          DEF StartSettles, SourceEnds, IteratorReturns, PumpEnds, ServerTypes
<1>4. /\ toClient' = toClient \/ toClient' = Append(toClient, m)
      /\ Connected /\ stage'[k] \in {"ended", "errored", "failed"} => toClient' = Append(toClient, m)
      /\ serverSocket # "open" => toClient' = toClient
  BY <1>3, Sending DEF ServerSend, Connected
<1>5. CASE id # k
  <2>1. ToClientKept(id)
    BY <1>1, <1>3, <1>4, <1>5, ToClientKeeps
  <2>2. Untouched(id)
    BY <1>1, <1>5 DEF StartSettles, PumpNext, SourceEnds, IteratorReturns, PumpEnds, Untouched,
         ServerTypes, clientVars, serverVars
  <2> QED BY <1>1, <1>2, <2>1, <2>2, UntouchedStaysExpected
<1>6. CASE id = k
  <2>1. toClient \in Seq(ClientBound)
    BY <1>1 DEF TypeOK
  <2>2. /\ \A t : Has(toClient, t, id) => Has(toClient', t, id)
        /\ \A t : Has(toClient', t, id) => Has(toClient, t, id) \/ serverSocket = "open"
    BY <1>4, <2>1, Sent
  <2>3. Connected /\ stage'[id] \in {"ended", "errored", "failed"} =>
          Has(toClient', "complete", id) \/ Has(toClient', "error", id)
    <3>1. Has(Append(toClient, m), m.type, m.id)
      BY <2>1, Appended
    <3> QED BY <1>3, <1>4, <1>6, <3>1
  <2>4. /\ stage[id] \in {"starting", "streaming", "returning"}
        /\ stage'[id] \in {"streaming", "returning", "ended", "errored", "failed"}
        /\ stage[id] = "returning" => stage'[id] # "streaming"
        /\ id \in serverTimers' => id \in serverTimers \/ stage'[id] \in {"ended", "errored"}
    BY <1>1, <1>6 DEF StartSettles, PumpNext, SourceEnds, IteratorReturns, PumpEnds, ServerTypes,
                      serverVars
  <2>5. ClientExpects(id)'
    BY <1>1, <1>2, <2>2, <2>4 DEF Expected, ClientExpects, Connected, ToServerKept, clientVars
  <2>6. ServerExpects(id)'
    BY <1>1, <1>2 DEF Expected, ServerExpects, Connected, ToServerKept, Reading, TornDown, clientVars
  <2>7. EndsAreTold(id)'
    BY <1>1, <1>2, <2>2, <2>3, <2>4
    DEF Expected, EndsAreTold, Connected, ToServerKept, TornDown, clientVars
  <2>8. Scheduled(id)'
    BY <1>1, <2>4 DEF Expected, Scheduled, TornDown, clientVars
  <2> QED BY <2>5, <2>6, <2>7, <2>8 DEF Expected
<1> QED BY <1>5, <1>6

(* An iterator that is returned has been cancelled, or its socket is closed.    *)
LEMMA ReturnsExpected ==
  ASSUME IInv, PInv, [Next]_vars, NEW id \in Ids, NEW k \in Ids,
         CompleteReturns(k) \/ SweepReturns(k)
  PROVE  Expected(id)'
<1>1. /\ Expected(id) /\ TypeOK /\ ServerTypes
      /\ UNCHANGED <<clientVars, serverSocket, serverMap, serverTimers, toServer, toClient>>
  BY DEF PInv, IInv, TypeOK, CompleteReturns, SweepReturns
<1>2. ToServerKept(id) /\ ToClientKept(id)
  BY <1>1, ToServerKeeps, ToClientKeeps
<1>3. CASE id # k
  <2>1. Untouched(id)
    BY <1>1, <1>3 DEF CompleteReturns, SweepReturns, Returned, Untouched, ServerTypes, clientVars
  <2> QED BY <1>1, <1>2, <2>1, UntouchedStaysExpected
<1>4. CASE id = k
  <2>1. /\ stage'[id] = stage[id] \/ (stage[id] = "streaming" /\ stage'[id] = "returning")
        /\ id \in completing' => id \in completing
        /\ ~Connected \/ (stage'[id] \notin {"starting", "streaming"} /\ id \in completing)
    BY <1>1, <1>4 DEF CompleteReturns, SweepReturns, Returned, ServerTypes, Connected
  <2>2. Connected' => Connected
    BY NoWayBack DEF Connected
  <2>3. ClientExpects(id)'
    BY <1>1, <1>2, <2>1, <2>2
    DEF Expected, ClientExpects, ToServerKept, ToClientKept, clientVars
  <2>4. ServerExpects(id)'
    BY <1>1, <1>2, <2>2 DEF Expected, ServerExpects, ToServerKept, Reading, TornDown, clientVars
  <2>5. EndsAreTold(id)'
    BY <1>1, <1>2, <2>1, <2>2
    DEF Expected, EndsAreTold, Scheduled, ToServerKept, ToClientKept, TornDown, clientVars
  <2>6. Scheduled(id)'
    BY <1>1, <2>1 DEF Expected, Scheduled, TornDown, clientVars
  <2> QED BY <2>3, <2>4, <2>5, <2>6 DEF Expected
<1> QED BY <1>3, <1>4

(* Every step of prompt actors keeps every subscription as expected.            *)
LEMMA ExpectedStep ==
  ASSUME IInv, PInv, [Next]_vars, EverybodyIsPrompt, NEW id \in Ids
  PROVE  Expected(id)'
<1>1. CASE ClientLoses
  BY <1>1, ClientClosedExpected DEF ClientLoses
<1>2. ASSUME NEW k \in Ids, Consume(k) PROVE Expected(id)'
  <2>1. Expected(id) /\ TypeOK
    BY DEF PInv, IInv
  <2>2. ToServerKept(id) /\ ToClientKept(id) /\ Untouched(id)
    BY <1>2, <2>1, ToServerKeeps, ToClientKeeps DEF Consume, Untouched, serverVars
  <2> QED BY <2>1, <2>2, UntouchedStaysExpected
<1>3. ASSUME NEW k \in Ids, Drain(k) \/ Return(k) PROVE Expected(id)'
  <2>1. /\ Reading(k) /\ UNCHANGED <<serverVars, toClient>>
        /\ \E state \in {"drained", "returned", "thrown"} : IteratorEnds(k, state)
    BY <1>3 DEF Drain, Return, Reading
  <2>2. TypeOK
    BY DEF IInv
  <2>3. ToClientKept(id) /\ \A type : Has(toClient, type, id)' <=> Has(toClient, type, id)
    BY <2>1, <2>2, ToClientKeeps
  <2> QED BY <2>1, <2>3, IteratorEndsExpected
<1>4. ASSUME NEW k \in Ids, SetsUp(k) PROVE Expected(id)'
  <2>1. Expected(id) /\ TypeOK
    BY DEF PInv, IInv
  <2>2. ToServerKept(id) /\ ToClientKept(id)
    BY <1>4, <2>1, SettingUp, ToServerKeeps, ToClientKeeps
  <2>3. CASE id # k
    <3>1. Untouched(id)
      BY <1>4, <2>1, <2>3, SettingUp DEF Untouched, serverVars
    <3> QED BY <2>1, <2>2, <3>1, UntouchedStaysExpected
  <2>4. CASE id = k
    <3>1. /\ UNCHANGED <<clientSocket, clientMap, clientTimers, serverVars>>
          /\ ~TornDown(id) /\ ~TornDown(id)'
          /\ Reading(id)' => Reading(id)
          /\ client'[id] \in {"subscribed", "open"} => client[id] \in {"subscribed", "open"}
      BY <1>4, <2>1, <2>4, SettingUp DEF TornDown, Reading
    <3> QED BY <2>1, <2>2, <3>1
            DEF Expected, ClientExpects, ServerExpects, EndsAreTold, Scheduled, Connected,
                ToServerKept, ToClientKept, serverVars
  <2> QED BY <2>3, <2>4
<1> QED
  BY <1>1, <1>2, <1>3, <1>4, SocketsExpected, SubscribeExpected, ClientReceivesExpected,
     ServerReceivesExpected, DeletesExpected, PumpExpected, ReturnsExpected
  DEF Next, SetsUp

LEMMA InitExpected == Init => PInv
<1> SUFFICES ASSUME Init, NEW id \in Ids PROVE NobodyIsStray /\ Expected(id)
  BY DEF PInv, Init, NobodyIsStray
<1>1. /\ client[id] = "none" /\ stage[id] = "none" /\ clientMap = {} /\ clientTimers = {}
      /\ serverMap = {} /\ serverTimers = {} /\ completing = {}
      /\ toServer = <<>> /\ toClient = <<>> /\ closedBy = "nobody"
  BY DEF Init
<1> QED BY <1>1, NothingUnderWay
        DEF NobodyIsStray, Expected, ClientExpects, ServerExpects, EndsAreTold, Scheduled,
            Reading, TornDown

(* For any number of subscriptions and results: if the network, the application *)
(* and the consumers all take less than the three seconds of the delayed        *)
(* deletes, neither end closes the connection with 4409 on the other, whatever  *)
(* is cancelled, completed, refused or thrown meanwhile.                        *)
THEOREM PromptIsEnough ==
  ASSUME EverybodyIsPrompt
  PROVE  Spec => []NobodyIsStray
<1>1. Init => PInv
  BY InitExpected
<1>2. IInv /\ PInv /\ [Next]_vars => PInv'
  BY StrayStep, ExpectedStep DEF PInv
<1>3. PInv => NobodyIsStray
  BY DEF PInv
<1> QED BY <1>1, <1>2, <1>3, Invariance, PTL DEF Spec

==================================================================================

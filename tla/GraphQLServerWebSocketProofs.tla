----------------------- MODULE GraphQLServerWebSocketProofs ----------------------
(***************************************************************************)
(* What holds of one server web socket for every set of ids, however often *)
(* they are subscribed, and for any number of messages: its map and its    *)
(* pumps agree, nothing starts unacknowledged or after the close, and the  *)
(* messages of an id are in order.                                         *)
(***************************************************************************)
EXTENDS GraphQLServerWebSocket, TLAPS

(* The keys of a map are distinct.                                               *)
Distinct(map) ==
  \A m, n \in DOMAIN map : Id(map[m]) = Id(map[n]) => m = n

(* What is in the map: what is alive, what has failed, and what has ended less   *)
(* than three seconds ago.  LiveIsRegistered is half of it; the other half is    *)
(* that a delayed delete finds its own subscription, so that nothing else of the *)
(* id was subscribed in the meantime.                                            *)
InMap(s) == Live(s) \/ stage[s] = "failed" \/ s \in expiry

MapAgrees ==
  /\ Distinct(subscriptions)
  /\ \A s \in Subs : s \in ToSet(subscriptions) <=> InMap(s)
  /\ \A s \in expiry : stage[s] = "ended"

(* Only a success of acknowledge() resolves the promise.                         *)
AckAgrees ==
  /\ initPromise = "resolved" => acknowledged
  /\ SubscribedOnlyAcknowledged

(* Handlers that are still parked at the close are about to be rejected; whatever *)
(* rejects them has closed the socket before.                                    *)
NothingToResume ==
  /\ protocol \notin Supported => parked = <<>>
  /\ readyState = "closed" => parked = <<>> \/ initPromise \notin {"pending", "resolved"}
  /\ initPromise \notin {"pending", "resolved"} => readyState # "open"

IInv == TypeOK /\ MapAgrees /\ AckAgrees /\ NothingToResume

--------------------------------------------------------------------------------
(* The map *)

(* subscriptions.delete(id) takes away the subscription of the id and no other.  *)
LEMMA DeletedFacts ==
  ASSUME subscriptions \in Seq(Subs), Distinct(subscriptions), NEW id
  PROVE  /\ Deleted(id) \in Seq(Subs)
         /\ Distinct(Deleted(id))
         /\ \A s \in Subs : s \in ToSet(Deleted(id)) <=> s \in ToSet(subscriptions) /\ Id(s) # id
<1>1. CASE ~Subscribed(id)
  BY <1>1 DEF Deleted, Subscribed, ToSet
<1>2. CASE Subscribed(id)
  <2> DEFINE p == Position(id)
             len == Len(subscriptions)
             map == [n \in 1..(len - 1) |-> subscriptions[IF n < p THEN n ELSE n + 1]]
  <2>1. p \in DOMAIN subscriptions /\ Id(subscriptions[p]) = id
    BY <1>2 DEF Subscribed, Position
  <2>2. len \in Nat /\ DOMAIN subscriptions = 1..len /\ \A n \in 1..len : subscriptions[n] \in Subs
    OBVIOUS
  <2> HIDE DEF p, len
  <2>3. Deleted(id) = map
    BY <1>2 DEF Deleted, p, len
  <2>4. p \in 1..len
    BY <2>1, <2>2
  <2>5. \A n \in 1..(len - 1) :
          LET k == IF n < p THEN n ELSE n + 1 IN k \in 1..len /\ k # p
    BY <2>2, <2>4
  <2>6. map \in Seq(Subs) /\ DOMAIN map = 1..(len - 1)
    <3>1. len - 1 \in Nat
      BY <2>2, <2>4
    <3>2. map \in [1..(len - 1) -> Subs]
      BY <2>2, <2>5
    <3> QED BY <3>1, <3>2
  <2>7. Distinct(map)
    <3> SUFFICES ASSUME NEW m \in 1..(len - 1), NEW n \in 1..(len - 1), Id(map[m]) = Id(map[n])
                 PROVE  m = n
      BY <2>6 DEF Distinct
    <3>1. (IF m < p THEN m ELSE m + 1) = (IF n < p THEN n ELSE n + 1)
      BY <2>2, <2>5 DEF Distinct
    <3> QED BY <3>1, <2>4
  <2>8. ASSUME NEW s \in Subs
        PROVE  s \in ToSet(map) <=> s \in ToSet(subscriptions) /\ Id(s) # id
    <3>1. ASSUME s \in ToSet(map)
          PROVE  s \in ToSet(subscriptions) /\ Id(s) # id
      <4>1. PICK n \in 1..(len - 1) : s = map[n]
        BY <3>1, <2>6 DEF ToSet
      <4> DEFINE k == IF n < p THEN n ELSE n + 1
      <4>2. k \in 1..len /\ k # p /\ s = subscriptions[k]
        BY <4>1, <2>5
      <4> HIDE DEF k
      <4>3. Id(subscriptions[k]) # Id(subscriptions[p])
        BY <4>2, <2>2, <2>4 DEF Distinct
      <4> QED BY <4>2, <4>3, <2>1, <2>2 DEF ToSet
    <3>2. ASSUME s \in ToSet(subscriptions), Id(s) # id
          PROVE  s \in ToSet(map)
      <4>1. PICK k \in 1..len : s = subscriptions[k]
        BY <3>2, <2>2 DEF ToSet
      <4>2. k # p
        BY <4>1, <3>2, <2>1
      <4>3. CASE k < p
        <5>1. k \in 1..(len - 1) /\ map[k] = subscriptions[k]
          BY <4>3, <2>2, <2>4
        <5> QED BY <5>1, <4>1, <2>6 DEF ToSet
      <4>4. CASE k > p
        <5>1. k - 1 \in 1..(len - 1) /\ map[k - 1] = subscriptions[k]
          BY <4>4, <2>2, <2>4
        <5> QED BY <5>1, <4>1, <2>6 DEF ToSet
      <4> QED BY <4>2, <4>3, <4>4, <2>2, <2>4
    <3> QED BY <3>1, <3>2
  <2> QED BY <2>3, <2>6, <2>7, <2>8
<1> QED BY <1>1, <1>2

(* subscriptions.set(id, ...) of an id that is not in the map adds it.           *)
LEMMA AppendFacts ==
  ASSUME subscriptions \in Seq(Subs), Distinct(subscriptions),
         NEW s \in Subs, ~Subscribed(Id(s))
  PROVE  /\ Append(subscriptions, s) \in Seq(Subs)
         /\ Distinct(Append(subscriptions, s))
         /\ ToSet(Append(subscriptions, s)) = ToSet(subscriptions) \cup {s}
<1> DEFINE map == Append(subscriptions, s)
           len == Len(subscriptions)
<1>1. /\ map \in Seq(Subs)
      /\ len \in Nat /\ DOMAIN subscriptions = 1..len /\ DOMAIN map = 1..(len + 1)
      /\ map[len + 1] = s /\ \A n \in 1..len : map[n] = subscriptions[n]
  OBVIOUS
<1>2. \A n \in 1..len : Id(subscriptions[n]) # Id(s)
  BY <1>1 DEF Subscribed
<1> HIDE DEF map, len
<1>3. Distinct(map)
  BY <1>1, <1>2 DEF Distinct
<1>4. ToSet(map) = ToSet(subscriptions) \cup {s}
  <2>1. 1..(len + 1) = (1..len) \cup {len + 1}
    BY <1>1
  <2> QED BY <1>1, <2>1 DEF ToSet
<1> QED BY <1>1, <1>3, <1>4 DEF map

(* A subscription in the map is the one the map has for its id.                  *)
LEMMA CurrentFacts ==
  ASSUME Distinct(subscriptions), NEW s \in ToSet(subscriptions)
  PROVE  Subscribed(Id(s)) /\ Current(Id(s)) = s
<1>1. PICK n \in DOMAIN subscriptions : s = subscriptions[n]
  BY DEF ToSet
<1>2. Position(Id(s)) = n
  BY <1>1 DEF Position, Distinct
<1> QED BY <1>1, <1>2 DEF Subscribed, Current

--------------------------------------------------------------------------------
(* Steps *)

(* TypeOK in four parts, for the provers.                                        *)
FlagsTyped ==
  initialized \in BOOLEAN /\ acknowledged \in BOOLEAN /\ acking \in BOOLEAN /\ initTimeout \in BOOLEAN

SocketTyped ==
  /\ protocol \in Supported \cup {"other"}
  /\ readyState \in {"open", "closing", "closed"}
  /\ closeCode \in {0, 1000, 1002, 4400, 4401, 4408, 4409, 4429}
  /\ initPromise \in {"pending", "resolved", "unauthorized", "closed", "failed"}

MapTyped ==
  /\ subscriptions \in Seq(Subs)
  /\ stage \in [Subs -> {"none", "starting", "streaming", "returning", "failed", "ended"}]
  /\ expiry \subseteq Subs
  /\ completing \subseteq Subs

LinesTyped ==
  /\ parked \in Seq([type : {"subscribe", "complete"}, id : Ids])
  /\ sweep \in [{"close", "error"} -> [phase : {"idle", "on", "off"}, visited : SUBSET Subs]]
  /\ received \in Nat
  /\ lastSent \in [Ids -> [gen : Nat, type : {"none", "next", "complete", "error"}]]

LEMMA TypeParts == TypeOK <=> FlagsTyped /\ SocketTyped /\ MapTyped /\ LinesTyped
BY DEF TypeOK, FlagsTyped, SocketTyped, MapTyped, LinesTyped

(* The map, the stages and the deletes have not changed.                         *)
LEMMA SameMap ==
  ASSUME MapAgrees, UNCHANGED <<subscriptions, stage, expiry>>
  PROVE  MapAgrees'
BY DEF MapAgrees, InMap, Live, Distinct, ToSet

(* return() of a stream leaves it alive, so the map stays as it is.              *)
LEMMA ReturnedFacts ==
  ASSUME TypeOK, MapAgrees, NEW s \in Subs, stage' = Returned(s), UNCHANGED <<subscriptions, expiry>>
  PROVE  /\ stage' \in [Subs -> {"none", "starting", "streaming", "returning", "failed", "ended"}]
         /\ \A t \in Subs : stage'[t] = "none" <=> stage[t] = "none"
         /\ MapAgrees'
<1>1. stage' \in [Subs -> {"none", "starting", "streaming", "returning", "failed", "ended"}]
  <2>1. stage \in [Subs -> {"none", "starting", "streaming", "returning", "failed", "ended"}]
    BY DEF TypeOK
  <2> QED BY <2>1 DEF Returned
<1>2. \A t \in Subs : /\ stage'[t] = "none" <=> stage[t] = "none"
                      /\ stage'[t] = "failed" <=> stage[t] = "failed"
                      /\ stage'[t] = "ended" <=> stage[t] = "ended"
                      /\ Live(t)' <=> Live(t)
  BY DEF TypeOK, Returned, Live
<1>3. expiry \subseteq Subs
  BY DEF TypeOK
<1> QED BY <1>1, <1>2, <1>3 DEF MapAgrees, InMap, Distinct, ToSet

(* An invalid message closes the socket.                                        *)
LEMMA ReceiveInvalidInv == ASSUME IInv, ReceiveInvalid PROVE IInv'
<1> USE DEF IInv
<1>1. TypeOK'
  <2>1. FlagsTyped /\ SocketTyped /\ MapTyped /\ LinesTyped
    BY TypeParts
  <2>2. FlagsTyped'
    BY <2>1 DEF FlagsTyped, ReceiveInvalid, Receive, Close, ackVars
  <2>3. SocketTyped'
    BY <2>1 DEF SocketTyped, NothingToResume, ReceiveInvalid, Receive, Close, socketVars, ackVars
  <2>4. MapTyped'
    BY <2>1 DEF MapTyped, ReceiveInvalid, Receive, Close, subVars
  <2>5. LinesTyped'
    BY <2>1 DEF LinesTyped, ReceiveInvalid, Receive, Close
  <2> QED BY <2>2, <2>3, <2>4, <2>5 DEF TypeOK, FlagsTyped, SocketTyped, MapTyped, LinesTyped
<1>2. MapAgrees'
  BY SameMap DEF ReceiveInvalid, subVars
<1>3. AckAgrees'
  BY DEF TypeOK, AckAgrees, SubscribedOnlyAcknowledged, ReceiveInvalid, Receive, Close, socketVars, ackVars, subVars
<1>4. NothingToResume'
  BY DEF TypeOK, NothingToResume, ReceiveInvalid, Receive, Close, socketVars, ackVars, subVars
<1> QED BY <1>1, <1>2, <1>3, <1>4

(* connection_init starts acknowledge(), once.                                  *)
LEMMA ReceiveInitInv == ASSUME IInv, ReceiveInit PROVE IInv'
<1> USE DEF IInv
<1>1. TypeOK'
  <2>1. FlagsTyped /\ SocketTyped /\ MapTyped /\ LinesTyped
    BY TypeParts
  <2>2. FlagsTyped'
    BY <2>1 DEF FlagsTyped, ReceiveInit, Receive, Close, ackVars
  <2>3. SocketTyped'
    BY <2>1 DEF SocketTyped, NothingToResume, ReceiveInit, Receive, Close, socketVars, ackVars
  <2>4. MapTyped'
    BY <2>1 DEF MapTyped, ReceiveInit, Receive, Close, subVars
  <2>5. LinesTyped'
    BY <2>1 DEF LinesTyped, ReceiveInit, Receive, Close
  <2> QED BY <2>2, <2>3, <2>4, <2>5 DEF TypeOK, FlagsTyped, SocketTyped, MapTyped, LinesTyped
<1>2. MapAgrees'
  BY SameMap DEF ReceiveInit, subVars
<1>3. AckAgrees'
  BY DEF TypeOK, AckAgrees, SubscribedOnlyAcknowledged, ReceiveInit, Receive, Close, socketVars, ackVars, subVars
<1>4. NothingToResume'
  BY DEF TypeOK, NothingToResume, ReceiveInit, Receive, Close, socketVars, ackVars, subVars
<1> QED BY <1>1, <1>2, <1>3, <1>4

(* A success acknowledges and resolves the promise together.                    *)
LEMMA AckResolvesInv == ASSUME IInv, AckResolves PROVE IInv'
<1> USE DEF IInv
<1>1. TypeOK'
  <2>1. FlagsTyped /\ SocketTyped /\ MapTyped /\ LinesTyped
    BY TypeParts
  <2>2. FlagsTyped'
    BY <2>1 DEF FlagsTyped, AckResolves, Settle, ackVars
  <2>3. SocketTyped'
    BY <2>1 DEF SocketTyped, NothingToResume, AckResolves, Settle, socketVars, ackVars
  <2>4. MapTyped'
    BY <2>1 DEF MapTyped, AckResolves, Settle, subVars
  <2>5. LinesTyped'
    BY <2>1 DEF LinesTyped, AckResolves, Settle
  <2> QED BY <2>2, <2>3, <2>4, <2>5 DEF TypeOK, FlagsTyped, SocketTyped, MapTyped, LinesTyped
<1>2. MapAgrees'
  BY SameMap DEF AckResolves, subVars
<1>3. AckAgrees'
  BY DEF TypeOK, AckAgrees, SubscribedOnlyAcknowledged, AckResolves, Settle, socketVars, ackVars, subVars
<1>4. NothingToResume'
  BY DEF TypeOK, NothingToResume, AckResolves, Settle, socketVars, ackVars, subVars
<1> QED BY <1>1, <1>2, <1>3, <1>4

(* A failure rejects the promise and closes the socket together.                *)
LEMMA AckRejectsInv == ASSUME IInv, AckRejects PROVE IInv'
<1> USE DEF IInv
<1>1. TypeOK'
  <2>1. FlagsTyped /\ SocketTyped /\ MapTyped /\ LinesTyped
    BY TypeParts
  <2>2. FlagsTyped'
    BY <2>1 DEF FlagsTyped, AckRejects, Settle, Close, ackVars
  <2>3. SocketTyped'
    BY <2>1 DEF SocketTyped, NothingToResume, AckRejects, Settle, Close, socketVars, ackVars
  <2>4. MapTyped'
    BY <2>1 DEF MapTyped, AckRejects, Settle, Close, subVars
  <2>5. LinesTyped'
    BY <2>1 DEF LinesTyped, AckRejects, Settle, Close
  <2> QED BY <2>2, <2>3, <2>4, <2>5 DEF TypeOK, FlagsTyped, SocketTyped, MapTyped, LinesTyped
<1>2. MapAgrees'
  BY SameMap DEF AckRejects, subVars
<1>3. AckAgrees'
  BY DEF TypeOK, AckAgrees, SubscribedOnlyAcknowledged, AckRejects, Settle, Close, socketVars, ackVars, subVars
<1>4. NothingToResume'
  BY DEF TypeOK, NothingToResume, AckRejects, Settle, Close, socketVars, ackVars, subVars
<1> QED BY <1>1, <1>2, <1>3, <1>4

(* The timeout closes the socket.                                               *)
LEMMA InitTimeoutInv == ASSUME IInv, InitTimeout PROVE IInv'
<1> USE DEF IInv
<1>1. TypeOK'
  <2>1. FlagsTyped /\ SocketTyped /\ MapTyped /\ LinesTyped
    BY TypeParts
  <2>2. FlagsTyped'
    BY <2>1 DEF FlagsTyped, InitTimeout, Close, ackVars
  <2>3. SocketTyped'
    BY <2>1 DEF SocketTyped, NothingToResume, InitTimeout, Close, socketVars, ackVars
  <2>4. MapTyped'
    BY <2>1 DEF MapTyped, InitTimeout, Close, subVars
  <2>5. LinesTyped'
    BY <2>1 DEF LinesTyped, InitTimeout, Close
  <2> QED BY <2>2, <2>3, <2>4, <2>5 DEF TypeOK, FlagsTyped, SocketTyped, MapTyped, LinesTyped
<1>2. MapAgrees'
  BY SameMap DEF InitTimeout, subVars
<1>3. AckAgrees'
  BY DEF TypeOK, AckAgrees, SubscribedOnlyAcknowledged, InitTimeout, Close, socketVars, ackVars, subVars
<1>4. NothingToResume'
  BY DEF TypeOK, NothingToResume, InitTimeout, Close, socketVars, ackVars, subVars
<1> QED BY <1>1, <1>2, <1>3, <1>4

(* The application closes an open socket.                                       *)
LEMMA ServerCloseInv == ASSUME IInv, ServerClose PROVE IInv'
<1> USE DEF IInv
<1>1. TypeOK'
  <2>1. FlagsTyped /\ SocketTyped /\ MapTyped /\ LinesTyped
    BY TypeParts
  <2>2. FlagsTyped'
    BY <2>1 DEF FlagsTyped, ServerClose, Close, ackVars
  <2>3. SocketTyped'
    BY <2>1 DEF SocketTyped, NothingToResume, ServerClose, Close, socketVars, ackVars
  <2>4. MapTyped'
    BY <2>1 DEF MapTyped, ServerClose, Close, subVars
  <2>5. LinesTyped'
    BY <2>1 DEF LinesTyped, ServerClose, Close
  <2> QED BY <2>2, <2>3, <2>4, <2>5 DEF TypeOK, FlagsTyped, SocketTyped, MapTyped, LinesTyped
<1>2. MapAgrees'
  BY SameMap DEF ServerClose, subVars
<1>3. AckAgrees'
  BY DEF TypeOK, AckAgrees, SubscribedOnlyAcknowledged, ServerClose, Close, socketVars, ackVars, subVars
<1>4. NothingToResume'
  BY DEF TypeOK, NothingToResume, ServerClose, Close, socketVars, ackVars, subVars
<1> QED BY <1>1, <1>2, <1>3, <1>4

(* The promise is rejected at the close if it is pending; if not, nothing is parked.*)
LEMMA CloseEventInv == ASSUME IInv, CloseEvent PROVE IInv'
<1> USE DEF IInv
<1>1. TypeOK'
  <2>1. FlagsTyped /\ SocketTyped /\ MapTyped /\ LinesTyped
    BY TypeParts
  <2>2. FlagsTyped'
    BY <2>1 DEF FlagsTyped, CloseEvent, Shut, Settle, Quiet, ackVars
  <2>3. SocketTyped'
    BY <2>1 DEF SocketTyped, NothingToResume, CloseEvent, Shut, Settle, Quiet, socketVars, ackVars
  <2>4. MapTyped'
    BY <2>1 DEF MapTyped, CloseEvent, Shut, Settle, Quiet, subVars
  <2>5. LinesTyped'
    BY <2>1 DEF LinesTyped, CloseEvent, Shut, Settle, Quiet
  <2> QED BY <2>2, <2>3, <2>4, <2>5 DEF TypeOK, FlagsTyped, SocketTyped, MapTyped, LinesTyped
<1>2. MapAgrees'
  BY SameMap DEF CloseEvent, subVars
<1>3. AckAgrees'
  BY DEF TypeOK, AckAgrees, SubscribedOnlyAcknowledged, CloseEvent, Shut, Settle, Quiet, socketVars, ackVars, subVars
<1>4. NothingToResume'
  BY DEF TypeOK, NothingToResume, CloseEvent, Shut, Settle, Quiet, socketVars, ackVars, subVars
<1> QED BY <1>1, <1>2, <1>3, <1>4

(* The error handler rejects the promise of a socket that is closing.           *)
LEMMA ErrorEventInv == ASSUME IInv, ErrorEvent PROVE IInv'
<1> USE DEF IInv
<1>1. TypeOK'
  <2>1. FlagsTyped /\ SocketTyped /\ MapTyped /\ LinesTyped
    BY TypeParts
  <2>2. FlagsTyped'
    BY <2>1 DEF FlagsTyped, ErrorEvent, Shut, Settle, ackVars
  <2>3. SocketTyped'
    BY <2>1 DEF SocketTyped, NothingToResume, ErrorEvent, Shut, Settle, socketVars, ackVars
  <2>4. MapTyped'
    BY <2>1 DEF MapTyped, ErrorEvent, Shut, Settle, subVars
  <2>5. LinesTyped'
    BY <2>1 DEF LinesTyped, ErrorEvent, Shut, Settle
  <2> QED BY <2>2, <2>3, <2>4, <2>5 DEF TypeOK, FlagsTyped, SocketTyped, MapTyped, LinesTyped
<1>2. MapAgrees'
  BY SameMap DEF ErrorEvent, subVars
<1>3. AckAgrees'
  BY DEF TypeOK, AckAgrees, SubscribedOnlyAcknowledged, ErrorEvent, Shut, Settle, socketVars, ackVars, subVars
<1>4. NothingToResume'
  BY DEF TypeOK, NothingToResume, ErrorEvent, Shut, Settle, socketVars, ackVars, subVars
<1> QED BY <1>1, <1>2, <1>3, <1>4

(* A rejected handler is taken from the line.                                   *)
LEMMA ResumeRejectedInv == ASSUME IInv, ResumeRejected PROVE IInv'
<1> USE DEF IInv
<1>1. TypeOK'
  <2>1. FlagsTyped /\ SocketTyped /\ MapTyped /\ LinesTyped
    BY TypeParts
  <2>2. FlagsTyped'
    BY <2>1 DEF FlagsTyped, ResumeRejected, Unpark, Close, ackVars
  <2>3. SocketTyped'
    BY <2>1 DEF SocketTyped, NothingToResume, ResumeRejected, Unpark, Close, socketVars, ackVars
  <2>4. MapTyped'
    BY <2>1 DEF MapTyped, ResumeRejected, Unpark, Close, subVars
  <2>5. LinesTyped'
    BY <2>1 DEF LinesTyped, ResumeRejected, Unpark, Close
  <2> QED BY <2>2, <2>3, <2>4, <2>5 DEF TypeOK, FlagsTyped, SocketTyped, MapTyped, LinesTyped
<1>2. MapAgrees'
  BY SameMap DEF ResumeRejected, Unpark, subVars
<1>3. AckAgrees'
  BY DEF TypeOK, AckAgrees, SubscribedOnlyAcknowledged, ResumeRejected, Unpark, Close, socketVars, ackVars, subVars
<1>4. NothingToResume'
  BY DEF TypeOK, NothingToResume, ResumeRejected, Unpark, Close, socketVars, ackVars, subVars
<1> QED BY <1>1, <1>2, <1>3, <1>4

(* A handler is parked on a socket that can still receive.                      *)
LEMMA ReceiveOperationInv == ASSUME IInv, NEW type \in {"subscribe", "complete"}, NEW id \in Ids, ReceiveOperation(type, id) PROVE IInv'
<1> USE DEF IInv
<1>0. FlagsTyped /\ SocketTyped /\ MapTyped /\ LinesTyped
  BY TypeParts
<1>1. MapTyped' /\ MapAgrees'
  BY <1>0, SameMap DEF MapTyped, ReceiveOperation, subVars
<1>2. FlagsTyped' /\ SocketTyped'
  BY <1>0 DEF FlagsTyped, SocketTyped, ReceiveOperation, Receive, Close, socketVars, ackVars
<1>3. LinesTyped'
  <2>1. parked' = parked \/ parked' = Append(parked, [type |-> type, id |-> id])
    BY DEF ReceiveOperation
  <2>2. [type |-> type, id |-> id] \in [type : {"subscribe", "complete"}, id : Ids]
    OBVIOUS
  <2>3. parked' \in Seq([type : {"subscribe", "complete"}, id : Ids])
    <3> DEFINE handler == [type |-> type, id |-> id]
               handlers == [type : {"subscribe", "complete"}, id : Ids]
    <3>1. handler \in handlers /\ parked \in Seq(handlers)
      BY <1>0, <2>2 DEF LinesTyped
    <3>2. parked' = parked \/ parked' = Append(parked, handler)
      BY <2>1
    <3> HIDE DEF handler, handlers
    <3>3. parked' \in Seq(handlers)
      BY <3>1, <3>2
    <3> QED BY <3>3 DEF handlers
  <2>4. received' = received + 1 /\ UNCHANGED <<sweep, lastSent>>
    BY DEF ReceiveOperation, Receive
  <2> QED BY <1>0, <2>3, <2>4 DEF LinesTyped
<1>4. AckAgrees'
  BY <1>0, <1>1 DEF MapTyped, AckAgrees, SubscribedOnlyAcknowledged, ReceiveOperation, Receive, Close, ackVars, subVars
<1>5. NothingToResume'
  BY <1>0 DEF SocketTyped, LinesTyped, NothingToResume, ReceiveOperation, Receive, Close, socketVars, ackVars
<1> QED BY <1>1, <1>2, <1>3, <1>4, <1>5 DEF TypeOK, FlagsTyped, SocketTyped, MapTyped, LinesTyped

(* A value is sent, or dropped.                                                 *)
LEMMA PumpNextInv == ASSUME IInv, NEW s \in Subs, PumpNext(s) PROVE IInv'
<1> USE DEF IInv
<1>0. FlagsTyped /\ SocketTyped /\ MapTyped /\ LinesTyped
  BY TypeParts
<1>1. MapTyped' /\ MapAgrees'
  BY <1>0, SameMap DEF MapTyped, PumpNext, subVars
<1>2. FlagsTyped' /\ SocketTyped'
  BY <1>0 DEF FlagsTyped, SocketTyped, PumpNext, Send, Id, Gen, Subs, socketVars, ackVars
<1>3. LinesTyped'
  BY <1>0 DEF LinesTyped, PumpNext, Send, Id, Gen, Subs
<1>4. AckAgrees'
  BY <1>0, <1>1 DEF MapTyped, AckAgrees, SubscribedOnlyAcknowledged, PumpNext, Send, Id, Gen, Subs, ackVars, subVars
<1>5. NothingToResume'
  BY <1>0 DEF SocketTyped, LinesTyped, NothingToResume, PumpNext, Send, Id, Gen, Subs, socketVars, ackVars
<1> QED BY <1>1, <1>2, <1>3, <1>4, <1>5 DEF TypeOK, FlagsTyped, SocketTyped, MapTyped, LinesTyped

(* A complete handler returns the subscription it found.                        *)
LEMMA CompleteReturnsInv == ASSUME IInv, NEW s \in Subs, CompleteReturns(s) PROVE IInv'
<1> USE DEF IInv
<1>0. FlagsTyped /\ SocketTyped /\ MapTyped /\ LinesTyped
  BY TypeParts
<1>1. MapTyped' /\ MapAgrees'
  BY <1>0, ReturnedFacts DEF MapTyped, CompleteReturns
<1>2. FlagsTyped' /\ SocketTyped'
  BY <1>0 DEF FlagsTyped, SocketTyped, CompleteReturns, Returned, socketVars, ackVars
<1>3. LinesTyped'
  BY <1>0 DEF LinesTyped, CompleteReturns, Returned
<1>4. AckAgrees'
  BY <1>0, <1>1 DEF MapTyped, AckAgrees, SubscribedOnlyAcknowledged, CompleteReturns, Returned, ackVars, subVars
<1>5. NothingToResume'
  BY <1>0 DEF SocketTyped, LinesTyped, NothingToResume, CompleteReturns, Returned, socketVars, ackVars
<1> QED BY <1>1, <1>2, <1>3, <1>4, <1>5 DEF TypeOK, FlagsTyped, SocketTyped, MapTyped, LinesTyped

(* A complete handler looks its subscription up.                                *)
LEMMA ResumeCompleteInv == ASSUME IInv, ResumeComplete PROVE IInv'
<1> USE DEF IInv
<1>0. FlagsTyped /\ SocketTyped /\ MapTyped /\ LinesTyped
  BY TypeParts
<1>1. MapTyped' /\ MapAgrees'
  <2>1. UNCHANGED <<subscriptions, stage, expiry>>
    BY DEF ResumeComplete, Unpark, subVars
  <2>2. ASSUME NEW id, Subscribed(id)
        PROVE  Current(id) \in Subs
    BY <1>0, <2>2 DEF MapTyped, Subscribed, Current, Position
  <2> QED BY <1>0, <2>1, <2>2, SameMap DEF MapTyped, ResumeComplete, subVars
<1>2. FlagsTyped' /\ SocketTyped'
  BY <1>0 DEF FlagsTyped, SocketTyped, ResumeComplete, Unpark, Close, socketVars, ackVars
<1>3. LinesTyped'
  BY <1>0 DEF LinesTyped, ResumeComplete, Unpark, Close
<1>4. AckAgrees'
  BY <1>0, <1>1 DEF MapTyped, AckAgrees, SubscribedOnlyAcknowledged, ResumeComplete, Unpark, Close, ackVars, subVars
<1>5. NothingToResume'
  BY <1>0 DEF SocketTyped, LinesTyped, NothingToResume, ResumeComplete, Unpark, Close, socketVars, ackVars
<1> QED BY <1>1, <1>2, <1>3, <1>4, <1>5 DEF TypeOK, FlagsTyped, SocketTyped, MapTyped, LinesTyped

(* A subscription that started streams or has failed, and stays in the map.     *)
LEMMA StartSettlesInv == ASSUME IInv, NEW s \in Subs, StartSettles(s) PROVE IInv'
<1> USE DEF IInv
<1>0. FlagsTyped /\ SocketTyped /\ MapTyped /\ LinesTyped
  BY TypeParts
<1>1. MapTyped' /\ MapAgrees'
  <2>1. \A t \in Subs : t # s => stage'[t] = stage[t]
    BY <1>0 DEF MapTyped, StartSettles
  <2>2. stage[s] = "starting" /\ stage'[s] \in {"streaming", "failed"}
    BY <1>0 DEF MapTyped, StartSettles
  <2> QED BY <1>0, <2>1, <2>2 DEF MapTyped, MapAgrees, InMap, Live, Distinct, ToSet, StartSettles
<1>2. FlagsTyped' /\ SocketTyped'
  BY <1>0 DEF FlagsTyped, SocketTyped, StartSettles, Send, Id, Gen, Subs, socketVars, ackVars
<1>3. LinesTyped'
  <2>1. UNCHANGED <<parked, received, sweep>>
    BY DEF StartSettles
  <2>2. lastSent' = lastSent \/ Send(s, "error")
    BY DEF StartSettles
  <2>3. Id(s) \in Ids /\ Gen(s) \in Nat
    BY DEF Id, Gen, Subs
  <2> QED BY <1>0, <2>1, <2>2, <2>3 DEF LinesTyped, Send
<1>4. AckAgrees'
  BY <1>0, <1>1 DEF MapTyped, AckAgrees, SubscribedOnlyAcknowledged, StartSettles, Send, Id, Gen, Subs, ackVars, subVars
<1>5. NothingToResume'
  BY <1>0 DEF SocketTyped, LinesTyped, NothingToResume, StartSettles, Send, Id, Gen, Subs, socketVars, ackVars
<1> QED BY <1>1, <1>2, <1>3, <1>4, <1>5 DEF TypeOK, FlagsTyped, SocketTyped, MapTyped, LinesTyped

(* A pump that ends leaves its subscription to the delayed delete.              *)
LEMMA PumpEndsInv == ASSUME IInv, NEW s \in Subs, stage[s] \in {"streaming", "returning"}, PumpEnds(s) PROVE IInv'
<1> USE DEF IInv
<1>0. FlagsTyped /\ SocketTyped /\ MapTyped /\ LinesTyped
  BY TypeParts
<1>1. MapTyped' /\ MapAgrees'
  <2>1. \A t \in Subs : t # s => stage'[t] = stage[t]
    BY <1>0 DEF MapTyped, PumpEnds
  <2>2. stage'[s] = "ended" /\ expiry' = expiry \cup {s}
    BY <1>0 DEF MapTyped, PumpEnds
  <2> QED BY <1>0, <2>1, <2>2 DEF MapTyped, MapAgrees, InMap, Live, Distinct, ToSet, PumpEnds
<1>2. FlagsTyped' /\ SocketTyped'
  BY <1>0 DEF FlagsTyped, SocketTyped, PumpEnds, Send, Id, Gen, Subs, socketVars, ackVars
<1>3. LinesTyped'
  BY <1>0 DEF LinesTyped, PumpEnds, Send, Id, Gen, Subs
<1>4. AckAgrees'
  BY <1>0, <1>1 DEF MapTyped, AckAgrees, SubscribedOnlyAcknowledged, PumpEnds, Send, Id, Gen, Subs, ackVars, subVars
<1>5. NothingToResume'
  BY <1>0 DEF SocketTyped, LinesTyped, NothingToResume, PumpEnds, Send, Id, Gen, Subs, socketVars, ackVars
<1> QED BY <1>1, <1>2, <1>3, <1>4, <1>5 DEF TypeOK, FlagsTyped, SocketTyped, MapTyped, LinesTyped

(* A delayed delete takes away its own subscription, the only one of its id.    *)
LEMMA ExpireInv == ASSUME IInv, NEW s \in Subs, Expire(s) PROVE IInv'
<1> USE DEF IInv
<1>0. FlagsTyped /\ SocketTyped /\ MapTyped /\ LinesTyped
  BY TypeParts
<1>1. MapTyped' /\ MapAgrees'
  <2>1. s \in expiry /\ stage[s] = "ended" /\ s \in ToSet(subscriptions)
    BY DEF MapAgrees, InMap, Expire
  <2>2. /\ subscriptions' \in Seq(Subs)
        /\ Distinct(subscriptions')
        /\ \A t \in Subs :
             t \in ToSet(subscriptions') <=> t \in ToSet(subscriptions) /\ Id(t) # Id(s)
    BY <1>0, DeletedFacts DEF MapTyped, MapAgrees, Expire
  <2>3. \A t \in ToSet(subscriptions) : Id(t) = Id(s) => t = s
    BY <2>1 DEF MapAgrees, Distinct, ToSet
  <2> QED BY <1>0, <2>1, <2>2, <2>3 DEF MapTyped, MapAgrees, InMap, Live, Distinct, Expire
<1>2. FlagsTyped' /\ SocketTyped'
  BY <1>0 DEF FlagsTyped, SocketTyped, Expire, socketVars, ackVars
<1>3. LinesTyped'
  BY <1>0 DEF LinesTyped, Expire
<1>4. AckAgrees'
  BY <1>0, <1>1 DEF MapTyped, AckAgrees, SubscribedOnlyAcknowledged, Expire, ackVars, subVars
<1>5. NothingToResume'
  BY <1>0 DEF SocketTyped, LinesTyped, NothingToResume, Expire, socketVars, ackVars
<1> QED BY <1>1, <1>2, <1>3, <1>4, <1>5 DEF TypeOK, FlagsTyped, SocketTyped, MapTyped, LinesTyped

(* One subscription per id: a new one enters a map that has none of its id.     *)
LEMMA ResumeSubscribeInv == ASSUME IInv, ResumeSubscribe PROVE IInv'
<1> USE DEF IInv
<1>0. FlagsTyped /\ SocketTyped /\ MapTyped /\ LinesTyped
  BY TypeParts
<1>1. MapTyped' /\ MapAgrees'
  <2>1. PICK s \in Subs :
          /\ IsNext(s)
          /\ \/ UNCHANGED subVars
             \/ /\ ~Subscribed(Id(s))
                /\ stage' = [stage EXCEPT ![s] = "starting"]
                /\ subscriptions' = Append(subscriptions, s)
                /\ UNCHANGED <<expiry, completing>>
    BY DEF ResumeSubscribe, socketVars
  <2>2. CASE UNCHANGED subVars
    BY <1>0, <2>2, SameMap DEF MapTyped, subVars
  <2>3. CASE ~UNCHANGED subVars
    <3>1. /\ subscriptions' \in Seq(Subs)
          /\ Distinct(subscriptions')
          /\ ToSet(subscriptions') = ToSet(subscriptions) \cup {s}
      BY <1>0, <2>1, <2>3, AppendFacts DEF MapTyped, MapAgrees
    <3>2. stage'[s] = "starting" /\ \A t \in Subs : t # s => stage'[t] = stage[t]
      BY <1>0, <2>1, <2>3 DEF MapTyped
    <3>3. s \notin expiry
      BY <2>1 DEF MapAgrees, IsNext
    <3> QED BY <1>0, <2>1, <2>3, <3>1, <3>2, <3>3 DEF MapTyped, MapAgrees, InMap, Live
  <2> QED BY <2>2, <2>3
<1>2. FlagsTyped' /\ SocketTyped'
  BY <1>0 DEF FlagsTyped, SocketTyped, ResumeSubscribe, Unpark, Close, socketVars, ackVars
<1>3. LinesTyped'
  BY <1>0 DEF LinesTyped, ResumeSubscribe, Unpark, Close
<1>4. AckAgrees'
  BY <1>0, <1>1 DEF MapTyped, AckAgrees, SubscribedOnlyAcknowledged, ResumeSubscribe, Unpark, Close, ackVars, subVars
<1>5. NothingToResume'
  BY <1>0 DEF SocketTyped, LinesTyped, NothingToResume, ResumeSubscribe, Unpark, Close, socketVars, ackVars
<1> QED BY <1>1, <1>2, <1>3, <1>4, <1>5 DEF TypeOK, FlagsTyped, SocketTyped, MapTyped, LinesTyped

(* A loop returns the next subscription of the map.                             *)
LEMMA SweepStepInv == ASSUME IInv, NEW k \in {"close", "error"}, SweepStep(k) PROVE IInv'
<1> USE DEF IInv
<1>0. FlagsTyped /\ SocketTyped /\ MapTyped /\ LinesTyped
  BY TypeParts
<1>1. MapTyped' /\ MapAgrees'
  <2>1. CASE Unvisited(k) = {} /\ UNCHANGED stage
    BY <1>0, <2>1, SameMap DEF MapTyped, SweepStep
  <2>2. CASE ~(Unvisited(k) = {} /\ UNCHANGED stage)
    <3>1. PICK n \in Unvisited(k) : stage' = Returned(subscriptions[n])
      BY <2>2 DEF SweepStep
    <3>2. subscriptions[n] \in Subs
      BY <1>0, <3>1 DEF MapTyped, Unvisited
    <3> QED BY <1>0, <3>1, <3>2, ReturnedFacts DEF MapTyped, SweepStep
  <2> QED BY <2>1, <2>2
<1>2. FlagsTyped' /\ SocketTyped'
  BY <1>0 DEF FlagsTyped, SocketTyped, SweepStep, Returned, socketVars, ackVars
<1>3. LinesTyped'
  <2>1. UNCHANGED <<parked, received, lastSent>>
    BY DEF SweepStep
  <2>2. sweep' \in [{"close", "error"} -> [phase : {"idle", "on", "off"}, visited : SUBSET Subs]]
    <3>1. ASSUME NEW n \in Unvisited(k)
          PROVE  subscriptions[n] \in Subs
      BY <1>0, <3>1 DEF MapTyped, Unvisited
    <3> DEFINE states == [phase : {"idle", "on", "off"}, visited : SUBSET Subs]
    <3>2. sweep \in [{"close", "error"} -> states]
      BY <1>0 DEF LinesTyped
    <3>3. CASE sweep' = [sweep EXCEPT ![k].phase = "off"]
      <4>1. [sweep[k] EXCEPT !.phase = "off"] \in states
        <5>1. sweep[k] \in states
          BY <3>2
        <5> QED BY <5>1
      <4> HIDE DEF states
      <4>2. sweep' \in [{"close", "error"} -> states]
        BY <3>2, <3>3, <4>1
      <4> QED BY <4>2 DEF states
    <3>4. CASE ~(sweep' = [sweep EXCEPT ![k].phase = "off"])
      <4>1. PICK n \in Unvisited(k) :
              sweep' = [sweep EXCEPT
                 ![k] = [phase |-> IF Unvisited(k) = {n} THEN "off" ELSE "on",
                         visited |-> @.visited \cup {subscriptions[n]}]]
        BY <3>4 DEF SweepStep
      <4>2. sweep[k].visited \cup {subscriptions[n]} \in SUBSET Subs
        BY <3>1, <3>2
      <4> QED BY <3>2, <4>1, <4>2
    <3> QED BY <3>3, <3>4
  <2> QED BY <1>0, <2>1, <2>2 DEF LinesTyped
<1>4. AckAgrees'
  BY <1>0, <1>1 DEF MapTyped, AckAgrees, SubscribedOnlyAcknowledged, SweepStep, Returned, ackVars, subVars
<1>5. NothingToResume'
  BY <1>0 DEF SocketTyped, LinesTyped, NothingToResume, SweepStep, Returned, socketVars, ackVars
<1> QED BY <1>1, <1>2, <1>3, <1>4, <1>5 DEF TypeOK, FlagsTyped, SocketTyped, MapTyped, LinesTyped

--------------------------------------------------------------------------------
(* The invariant and what follows from it *)

(* A new socket satisfies the invariant.                                         *)
LEMMA InitInv == Init => IInv
<1> SUFFICES ASSUME Init PROVE IInv
  OBVIOUS
<1>1. FlagsTyped
  BY DEF Init, FlagsTyped
<1>2. SocketTyped
  BY DEF Init, SocketTyped, Supported
<1>3. MapTyped
  BY DEF Init, MapTyped
<1>4. LinesTyped
  BY DEF Init, LinesTyped
<1>5. MapAgrees
  BY DEF Init, MapAgrees, Distinct, InMap, Live, ToSet
<1>6. AckAgrees
  BY DEF Init, AckAgrees, SubscribedOnlyAcknowledged
<1>7. NothingToResume
  BY DEF Init, NothingToResume
<1> QED BY <1>1, <1>2, <1>3, <1>4, <1>5, <1>6, <1>7, TypeParts DEF IInv

(* Every step of the socket preserves the invariant.                             *)
LEMMA NextInv == IInv /\ [Next]_vars => IInv'
<1> SUFFICES ASSUME IInv, [Next]_vars PROVE IInv'
  OBVIOUS
<1>1. CASE UNCHANGED vars
  <2>1. MapAgrees'
    BY <1>1, SameMap DEF IInv, vars, subVars
  <2> QED BY <1>1, <2>1 DEF IInv, TypeOK, AckAgrees, SubscribedOnlyAcknowledged, NothingToResume,
        vars, socketVars, ackVars, subVars
<1>2. ASSUME NEW m \in Operations, ReceiveOperation(m.type, m.id)
      PROVE  IInv'
  <2>1. m.type \in {"subscribe", "complete"} /\ m.id \in Ids
    BY DEF Operations
  <2> QED BY <1>2, <2>1, ReceiveOperationInv
<1>3. ASSUME NEW s \in Subs,
             \/ CompleteReturns(s) \/ StartSettles(s) \/ PumpNext(s)
             \/ SourceEnds(s) \/ IteratorReturns(s) \/ Expire(s)
      PROVE  IInv'
  <2>1. SourceEnds(s) \/ IteratorReturns(s) =>
          stage[s] \in {"streaming", "returning"} /\ PumpEnds(s)
    BY DEF SourceEnds, IteratorReturns
  <2> QED BY <1>3, <2>1, CompleteReturnsInv, StartSettlesInv, PumpNextInv, PumpEndsInv, ExpireInv
<1>4. ASSUME NEW k \in {"close", "error"}, SweepStep(k)
      PROVE  IInv'
  BY <1>4, SweepStepInv
<1>5. CASE \/ ReceiveInvalid \/ ReceiveInit \/ AckResolves \/ AckRejects \/ InitTimeout
           \/ ResumeRejected \/ ResumeSubscribe \/ ResumeComplete
           \/ ServerClose \/ CloseEvent \/ ErrorEvent
  BY <1>5, ReceiveInvalidInv, ReceiveInitInv, AckResolvesInv, AckRejectsInv, InitTimeoutInv,
     ResumeRejectedInv, ResumeSubscribeInv, ResumeCompleteInv, ServerCloseInv, CloseEventInv,
     ErrorEventInv
<1> QED BY <1>1, <1>2, <1>3, <1>4, <1>5 DEF Next

(* The invariant holds of every reachable state.                                 *)
THEOREM Invariant == Spec => []IInv
BY InitInv, NextInv, PTL DEF Spec

(* The fields and the suspended handlers keep their types.                       *)
THEOREM TypeCorrect == Spec => []TypeOK
<1>1. IInv => TypeOK
  BY DEF IInv
<1> QED BY <1>1, Invariant, PTL

(* What is alive is in the map, for the close handlers and complete messages.    *)
THEOREM AliveIsInMap == Spec => []LiveIsRegistered
<1>1. IInv => LiveIsRegistered
  BY DEF IInv, MapAgrees, InMap, LiveIsRegistered
<1> QED BY <1>1, Invariant, PTL

(* One pump per id: both would be in the map, which has distinct keys.           *)
THEOREM OnePump == Spec => []OnePumpPerId
<1>1. IInv => OnePumpPerId
  <2> SUFFICES ASSUME IInv, NEW s \in Subs, NEW t \in Subs, Live(s), Live(t), Id(s) = Id(t)
               PROVE  s = t
    BY DEF OnePumpPerId
  <2>1. s \in ToSet(subscriptions) /\ t \in ToSet(subscriptions)
    BY DEF IInv, MapAgrees, InMap
  <2> QED BY <2>1 DEF IInv, MapAgrees, Distinct, ToSet
<1> QED BY <1>1, Invariant, PTL

(* A delayed delete hits the subscription that scheduled it.                     *)
THEOREM DeletesHitTheirOwn == Spec => []DeleteHitsItsOwn
<1>1. IInv => DeleteHitsItsOwn
  <2> SUFFICES ASSUME IInv, NEW s \in expiry
               PROVE  Subscribed(Id(s)) /\ Current(Id(s)) = s
    BY DEF DeleteHitsItsOwn
  <2>1. s \in ToSet(subscriptions)
    BY DEF IInv, TypeOK, MapAgrees, InMap
  <2> QED BY <2>1, CurrentFacts DEF IInv, MapAgrees
<1> QED BY <1>1, Invariant, PTL

(* Nothing starts before acknowledge() has succeeded, or after it has failed.    *)
THEOREM StartsAreAcknowledged == Spec => []SubscribedOnlyAcknowledged
<1>1. IInv => SubscribedOnlyAcknowledged
  BY DEF IInv, AckAgrees
<1> QED BY <1>1, Invariant, PTL

(* A closed socket starts nothing: what is still parked there is rejected.       *)
THEOREM ClosedStartsNothing == Spec => NoStartAfterClose
<1>1. ASSUME IInv, [Next]_vars, readyState = "closed", NEW s \in Subs, stage[s] = "none"
      PROVE  stage'[s] = "none"
  <2>1. ~ResumeSubscribe
    BY <1>1 DEF IInv, NothingToResume, ResumeSubscribe, Unpark
  <2>2. CASE UNCHANGED stage
    BY <2>2, <1>1
  <2>3. CASE \E t \in Subs : CompleteReturns(t) \/ StartSettles(t) \/ SourceEnds(t) \/ IteratorReturns(t)
    BY <2>3, <1>1 DEF IInv, TypeOK, CompleteReturns, Returned, StartSettles, SourceEnds,
       IteratorReturns, PumpEnds
  <2>4. CASE \E k \in {"close", "error"} : SweepStep(k)
    <3>1. PICK k \in {"close", "error"} : SweepStep(k)
      BY <2>4
    <3>2. CASE \E n \in Unvisited(k) : stage' = Returned(subscriptions[n])
      <4>1. PICK n \in Unvisited(k) : stage' = Returned(subscriptions[n])
        BY <3>2
      <4>2. stage'[s] = IF s = subscriptions[n] /\ stage[s] = "streaming" THEN "returning" ELSE stage[s]
        BY <4>1, <1>1 DEF IInv, TypeOK, Returned
      <4> QED BY <4>2, <1>1
    <3> QED BY <3>1, <3>2, <1>1 DEF SweepStep
  <2>5. CASE \/ ReceiveInvalid \/ ReceiveInit \/ AckResolves \/ AckRejects \/ InitTimeout
             \/ ResumeRejected \/ ResumeComplete \/ ServerClose \/ CloseEvent \/ ErrorEvent
             \/ UNCHANGED vars
    <3>1. UNCHANGED stage
      BY <2>5, <1>1 DEF ReceiveInvalid, ReceiveInit, AckResolves, AckRejects, InitTimeout,
         ResumeRejected, ResumeComplete, ServerClose, CloseEvent, ErrorEvent, vars, subVars
    <3> QED BY <3>1, <2>2
  <2>6. CASE \/ \E m \in Operations : ReceiveOperation(m.type, m.id)
             \/ \E t \in Subs : PumpNext(t) \/ Expire(t)
    <3>1. UNCHANGED stage
      BY <2>6 DEF ReceiveOperation, PumpNext, Expire, subVars
    <3> QED BY <3>1, <2>2
  <2> QED BY <1>1, <2>1, <2>3, <2>4, <2>5, <2>6 DEF Next
<1>2. IInv /\ [Next]_vars =>
        [readyState = "closed" => \A s \in Subs : stage[s] = "none" => stage'[s] = "none"]_vars
  BY <1>1
<1> QED BY <1>2, Invariant, PTL DEF Spec, NoStartAfterClose

--------------------------------------------------------------------------------
(* The wire *)

(* The subscriptions of an id start one after the other, each when those before  *)
(* it have started and are no longer alive.                                      *)
InOrder ==
  \A s, t \in Subs :
    Id(s) = Id(t) /\ Gen(s) < Gen(t) /\ stage[t] # "none" => stage[s] # "none" /\ ~Live(s)

(* The last message of an id is of a subscription that has started, and a last   *)
(* word is of one that is over.                                                  *)
SentAgrees ==
  \A id \in Ids :
    LET last == lastSent[id]
    IN  /\ last.gen = 0 <=> last.type = "none"
        /\ last.gen # 0 => <<id, last.gen>> \in Subs /\ stage[<<id, last.gen>>] # "none"
        /\ last.type \in {"complete", "error"} => ~Live(<<id, last.gen>>)

WireInv == InOrder /\ SentAgrees

(* What a step does to the stages and to the wire: a return() or nothing, a      *)
(* start, the success of subscribe(), a value, or the last word.                 *)
Returns == UNCHANGED lastSent /\ (UNCHANGED stage \/ \E s \in Subs : stage' = Returned(s))

Starting(s) ==
  /\ IsNext(s) /\ ~Subscribed(Id(s))
  /\ stage' = [stage EXCEPT ![s] = "starting"]
  /\ UNCHANGED lastSent

Streams(s) ==
  /\ Live(s)
  /\ stage' = [stage EXCEPT ![s] = "streaming"]
  /\ UNCHANGED lastSent

Says(s) == Live(s) /\ UNCHANGED stage /\ Send(s, "next")

EndsWith(s, type, last) ==
  /\ Live(s)
  /\ stage' = [stage EXCEPT ![s] = last]
  /\ Send(s, type)

LEMMA WireSteps ==
  ASSUME IInv, [Next]_vars
  PROVE  \/ Returns
         \/ \E s \in Subs :
              \/ Starting(s) \/ Streams(s) \/ Says(s)
              \/ \E type \in {"complete", "error"}, last \in {"failed", "ended"} : EndsWith(s, type, last)
<1>1. CASE ResumeSubscribe
  BY <1>1 DEF ResumeSubscribe, Unpark, subVars, Returns, Starting
<1>2. ASSUME NEW k \in {"close", "error"}, SweepStep(k)
      PROVE  Returns
  <2>1. \A n \in DOMAIN subscriptions : subscriptions[n] \in Subs
    BY DEF IInv, TypeOK
  <2> QED BY <1>2, <2>1 DEF SweepStep, Unvisited, Returns
<1>3. ASSUME NEW s \in Subs, CompleteReturns(s)
      PROVE  Returns
  BY <1>3 DEF CompleteReturns, Returns
<1>4. ASSUME NEW s \in Subs, StartSettles(s)
      PROVE  Streams(s) \/ EndsWith(s, "error", "failed")
  BY <1>4 DEF StartSettles, Streams, EndsWith, Live
<1>5. ASSUME NEW s \in Subs, PumpNext(s)
      PROVE  Says(s)
  BY <1>5 DEF PumpNext, Says, Live, subVars
<1>6. ASSUME NEW s \in Subs, SourceEnds(s) \/ IteratorReturns(s)
      PROVE  \E type \in {"complete", "error"} : EndsWith(s, type, "ended")
  BY <1>6 DEF SourceEnds, IteratorReturns, PumpEnds, EndsWith, Live
<1>7. CASE \/ ReceiveInvalid \/ ReceiveInit \/ AckResolves \/ AckRejects \/ InitTimeout
           \/ ResumeRejected \/ ResumeComplete \/ ServerClose \/ CloseEvent \/ ErrorEvent
           \/ UNCHANGED vars
  BY <1>7 DEF ReceiveInvalid, ReceiveInit, AckResolves, AckRejects, InitTimeout,
     ResumeRejected, ResumeComplete, Unpark, ServerClose, CloseEvent, ErrorEvent, vars, subVars, Returns
<1>8. CASE \/ \E m \in Operations : ReceiveOperation(m.type, m.id)
           \/ \E t \in Subs : Expire(t)
  BY <1>8 DEF ReceiveOperation, Expire, subVars, Returns
<1> QED BY <1>1, <1>2, <1>3, <1>4, <1>5, <1>6, <1>7, <1>8 DEF Next

(* A message of s is the last one of the id of s, and of no other.               *)
LEMMA SendFacts ==
  ASSUME TypeOK, NEW s \in Subs, NEW type \in {"next", "complete", "error"}, Send(s, type),
         NEW id \in Ids
  PROVE  \/ lastSent'[id] = lastSent[id]
         \/ id = Id(s) /\ lastSent'[id] = [gen |-> Gen(s), type |-> type]
BY DEF TypeOK, Send, Subs, Id

(* A pair is what its id and its number say.                                     *)
LEMMA Pairs ==
  ASSUME NEW s \in Subs
  PROVE  Id(s) \in Ids /\ Gen(s) \in Nat \ {0} /\ Gen(s) \in 1..MaxStarts /\ s = <<Id(s), Gen(s)>>
BY BoundsAssumption DEF Subs, Id, Gen

(* What may be sent of a live subscription: it is the latest one of its id.      *)
LEMMA LatestSpeaks ==
  ASSUME TypeOK, WireInv, NEW s \in Subs, Live(s)
  PROVE  LET last == lastSent[Id(s)]
         IN  Gen(s) > last.gen \/ (Gen(s) = last.gen /\ last.type = "next")
<1> DEFINE last == lastSent[Id(s)]
           t == <<Id(s), last.gen>>
<1>1. last.gen \in Nat /\ last.type \in {"none", "next", "complete", "error"}
  BY Pairs DEF TypeOK
<1>2. CASE last.gen = 0
  BY <1>2, Pairs
<1>3. CASE last.gen # 0
  <2>1. t \in Subs /\ stage[t] # "none" /\ last.type # "none"
    BY <1>3, Pairs DEF WireInv, SentAgrees
  <2>2. last.gen <= Gen(s)
    <3>1. Id(t) = Id(s) /\ Gen(t) = last.gen
      BY DEF Id, Gen
    <3>2. ~(Gen(s) < Gen(t))
      BY <2>1, <3>1 DEF WireInv, InOrder
    <3> QED BY <3>1, <3>2, <1>1, Pairs
  <2>3. last.gen = Gen(s) => last.type = "next"
    BY <1>1, <2>1, Pairs DEF WireInv, SentAgrees
  <2> QED BY <1>1, <2>2, <2>3, Pairs
<1> QED BY <1>1, <1>2, <1>3

(* Nothing that has started is reset, and what is not alive stays so unless it   *)
(* starts: such a step keeps the order.                                          *)
LEMMA OrderKept ==
  ASSUME InOrder, \A t \in Subs : /\ stage'[t] = "none" <=> stage[t] = "none"
                                  /\ Live(t)' => Live(t)
  PROVE  InOrder'
BY DEF InOrder

(* And with the wire as it is, its last messages stay right.                     *)
LEMMA WireKept ==
  ASSUME TypeOK, SentAgrees, UNCHANGED lastSent,
         \A t \in Subs : /\ stage[t] # "none" => stage'[t] # "none"
                         /\ stage[t] # "none" /\ Live(t)' => Live(t)
  PROVE  SentAgrees'
<1> SUFFICES ASSUME NEW id \in Ids
             PROVE  LET last == lastSent[id]
                    IN  /\ last.gen = 0 <=> last.type = "none"
                        /\ last.gen # 0 => <<id, last.gen>> \in Subs /\ stage'[<<id, last.gen>>] # "none"
                        /\ last.type \in {"complete", "error"} => ~Live(<<id, last.gen>>)'
  BY DEF SentAgrees
<1>1. lastSent[id].gen # 0 => <<id, lastSent[id].gen>> \in Subs /\ stage[<<id, lastSent[id].gen>>] # "none"
  BY DEF SentAgrees
<1> QED BY <1>1 DEF SentAgrees

(* Nothing has started or been said.                                             *)
LEMMA WireInvInit == Init => WireInv
BY DEF Init, WireInv, InOrder, SentAgrees

(* The next step keeps the order and what is known of the last messages.         *)
LEMMA WireInvNext ==
  ASSUME IInv, WireInv, [Next]_vars
  PROVE  WireInv'
<1>1. /\ stage \in [Subs -> {"none", "starting", "streaming", "returning", "failed", "ended"}]
      /\ lastSent \in [Ids -> [gen : Nat, type : {"none", "next", "complete", "error"}]]
      /\ TypeOK /\ MapAgrees
  BY DEF IInv, TypeOK
<1>2. CASE Returns
  <2>1. \A t \in Subs : (stage'[t] = "none" <=> stage[t] = "none") /\ (Live(t)' => Live(t))
    BY <1>1, <1>2 DEF Returns, Returned, Live
  <2> QED BY <1>1, <1>2, <2>1, OrderKept, WireKept DEF WireInv, Returns
<1>3. ASSUME NEW s \in Subs, Starting(s)
      PROVE  WireInv'
  <2>1. stage[s] = "none" /\ \A t \in Subs : t # s => stage'[t] = stage[t] /\ (Live(t)' <=> Live(t))
    BY <1>1, <1>3 DEF Starting, IsNext, Live
  <2>2. SentAgrees'
    BY <1>1, <1>3, <2>1, WireKept DEF WireInv, Starting
  <2>3. ASSUME NEW t \in Subs, NEW u \in Subs, Id(t) = Id(u), Gen(t) < Gen(u), stage'[u] # "none"
        PROVE  stage'[t] # "none" /\ ~Live(t)'
    <3>1. CASE u = s
      <4>1. t # s /\ t = <<Id(s), Gen(t)>> /\ Gen(t) \in 1..(Gen(s) - 1)
        BY <2>3, <3>1, Pairs
      <4>2. stage[t] # "none"
        BY <4>1, <1>3 DEF Starting, IsNext
      <4>3. ~Live(t)
        BY <1>1, <1>3, <2>3, <3>1 DEF Starting, MapAgrees, InMap, Subscribed, ToSet
      <4> QED BY <2>1, <4>1, <4>2, <4>3
    <3>2. CASE u # s
      <4>1. stage[t] # "none" /\ ~Live(t)
        BY <2>1, <2>3, <3>2 DEF WireInv, InOrder
      <4> QED BY <2>1, <4>1
    <3> QED BY <3>1, <3>2
  <2> QED BY <2>2, <2>3 DEF WireInv, InOrder
<1>4. ASSUME NEW s \in Subs, Streams(s)
      PROVE  WireInv'
  <2>1. \A t \in Subs : (stage'[t] = "none" <=> stage[t] = "none") /\ (Live(t)' => Live(t))
    BY <1>1, <1>4 DEF Streams, Live
  <2> QED BY <1>1, <1>4, <2>1, OrderKept, WireKept DEF WireInv, Streams
<1>5. ASSUME NEW s \in Subs, NEW type \in {"next", "complete", "error"}, Live(s), Send(s, type),
             \A t \in Subs : /\ stage'[t] = "none" <=> stage[t] = "none"
                             /\ Live(t)' => Live(t),
             type # "next" => ~Live(s)'
      PROVE  WireInv'
  <2>1. InOrder'
    BY <1>5, OrderKept DEF WireInv
  <2>2. ASSUME NEW id \in Ids
        PROVE  /\ lastSent'[id].gen = 0 <=> lastSent'[id].type = "none"
               /\ lastSent'[id].gen # 0 =>
                    <<id, lastSent'[id].gen>> \in Subs /\ stage'[<<id, lastSent'[id].gen>>] # "none"
               /\ lastSent'[id].type \in {"complete", "error"} =>
                    stage'[<<id, lastSent'[id].gen>>] \notin {"starting", "streaming", "returning"}
    <3>1. CASE id = Id(s) /\ lastSent'[id] = [gen |-> Gen(s), type |-> type]
      <4>1. stage'[s] # "none" /\ s = <<id, Gen(s)>> /\ Gen(s) # 0
        BY <1>5, <3>1, Pairs DEF Live
      <4> QED BY <1>5, <3>1, <4>1 DEF Live
    <3>2. CASE lastSent'[id] = lastSent[id]
      <4>1. lastSent[id].gen # 0 =>
              <<id, lastSent[id].gen>> \in Subs /\ stage[<<id, lastSent[id].gen>>] # "none"
        BY DEF WireInv, SentAgrees
      <4> QED BY <1>5, <3>2, <4>1 DEF WireInv, SentAgrees, Live
    <3> QED BY <1>1, <1>5, <3>1, <3>2, SendFacts
  <2> QED BY <2>1, <2>2 DEF WireInv, SentAgrees, Live
<1>6. ASSUME NEW s \in Subs, Says(s)
      PROVE  WireInv'
  <2>1. Live(s) /\ Send(s, "next") /\ stage' = stage
    BY <1>6 DEF Says
  <2>2. \A t \in Subs : (stage'[t] = "none" <=> stage[t] = "none") /\ (Live(t)' => Live(t))
    BY <2>1 DEF Live
  <2> QED BY <1>5, <2>1, <2>2
<1>7. ASSUME NEW s \in Subs, NEW type \in {"complete", "error"}, NEW last \in {"failed", "ended"},
             EndsWith(s, type, last)
      PROVE  WireInv'
  <2>1. /\ \A t \in Subs : (stage'[t] = "none" <=> stage[t] = "none") /\ (Live(t)' => Live(t))
        /\ ~Live(s)'
    BY <1>1, <1>7 DEF EndsWith, Live
  <2> QED BY <1>5, <1>7, <2>1 DEF EndsWith
<1> QED BY <1>2, <1>3, <1>4, <1>6, <1>7, WireSteps

(* What the client reads of an id is one subscription after the other, and        *)
(* nothing after a complete or an error: the next one of the id only starts when  *)
(* the one before it is out of the map, which is three seconds after its last     *)
(* word.                                                                          *)
THEOREM OneAfterTheOther == Spec => WireOrder
<1>1. ASSUME IInv, WireInv, [Next]_vars, NEW id \in Ids, lastSent'[id] # lastSent[id]
      PROVE  \/ lastSent'[id].gen > lastSent[id].gen
             \/ lastSent'[id].gen = lastSent[id].gen /\ lastSent[id].type = "next"
  <2>1. ASSUME NEW s \in Subs, NEW type \in {"next", "complete", "error"}, Live(s), Send(s, type)
        PROVE  \/ lastSent'[id].gen > lastSent[id].gen
               \/ lastSent'[id].gen = lastSent[id].gen /\ lastSent[id].type = "next"
    <3>1. id = Id(s) /\ lastSent'[id] = [gen |-> Gen(s), type |-> type]
      BY <1>1, <2>1, SendFacts DEF IInv
    <3> QED BY <1>1, <2>1, <3>1, LatestSpeaks DEF IInv
  <2>2. lastSent' # lastSent
    BY <1>1
  <2>3. \E s \in Subs : Live(s) /\ \E type \in {"next", "complete", "error"} : Send(s, type)
    BY <1>1, <2>2, WireSteps DEF Returns, Starting, Streams, Says, EndsWith
  <2> QED BY <2>1, <2>3
<1>2. IInv /\ WireInv /\ [Next]_vars =>
        [\A id \in Ids : lastSent'[id] # lastSent[id] =>
           \/ lastSent'[id].gen > lastSent[id].gen
           \/ lastSent'[id].gen = lastSent[id].gen /\ lastSent[id].type = "next"]_vars
  BY <1>1
<1>3. IInv /\ WireInv /\ [Next]_vars => WireInv'
  BY WireInvNext
<1>4. Spec => []WireInv
  BY <1>3, Invariant, WireInvInit, PTL DEF Spec
<1> QED BY <1>2, <1>4, Invariant, PTL DEF Spec, WireOrder

==================================================================================

------------------------ MODULE GraphQLWebSocketClientProofs ---------------------
(***************************************************************************)
(* Proofs about GraphQLWebSocketClient: for any number of subscriptions    *)
(* and sockets, one socket is live at a time, nobody is stranded on a      *)
(* closed standard socket or abandoned, and the delay is bounded.          *)
(***************************************************************************)
EXTENDS GraphQLWebSocketClient, FiniteSetTheorems, TLAPS

\* Sockets are created one after the other, and the current one is the last.
SocketsInOrder == \A n \in Sockets : readyState[n] # "none" <=> n <= current

\* A socket that does not exist is not acknowledged.
FreshPending == \A n \in Sockets : readyState[n] = "none" => ack[n] = "pending"

\* A loop that uses a socket uses one that exists.
LoopsHaveSocket ==
  \A s \in Subs : pc[s] \in {"ack", "inner"} => at[s] # 0 /\ at[s] <= current

\* The socket a loop was acknowledged on is not closed before the loop goes on, and
\* the current socket is the same or not yet acknowledged.
AckedIsCurrent ==
  \A s \in Subs :
    pc[s] = "ack" /\ ack[at[s]] = "resolved" =>
      /\ readyState[at[s]] # "closed"
      /\ current = at[s] \/ ack[current] = "pending"

\* Nor is the one an inner iterator is about to register on.
SetupBeforeClose ==
  \A s \in Subs :
    pc[s] = "inner" /\ inner[s] \in {"setup", "aborted"} /\ ack[at[s]] = "resolved" =>
      readyState[at[s]] # "closed"

Standard == ~lateMessages => AckedIsCurrent /\ SetupBeforeClose /\ NoneOnClosedSocket

SocketsOK == SocketsInOrder /\ OneLiveSocket /\ FreshPending

LoopsOK == LoopsHaveSocket /\ OpenHasLoop /\ WaitersHaveTimer

IInv == TypeOK /\ SocketsOK /\ LoopsOK /\ Standard

--------------------------------------------------------------------------------
(* Sockets are numbered from 1.                                                 *)
LEMMA SocketNumbers == 0 \notin Sockets /\ Sockets \subseteq Nat
BY ClientAssumption DEF Sockets

(* The sockets that the client and its loops refer to are numbers.              *)
LEMMA NumbersUsed ==
  ASSUME TypeOK
  PROVE  current \in Nat /\ \A s \in Subs : at[s] \in Nat
BY DEF TypeOK, Sockets

(* There are as many sockets as the number of the current one.                  *)
LEMMA CreatedCount ==
  ASSUME TypeOK, SocketsInOrder
  PROVE  Cardinality(Created) = current
<1>1. current \in 0..MaxSockets
  BY ClientAssumption DEF TypeOK, Sockets
<1>2. Created = 1..current
  BY <1>1, ClientAssumption DEF Created, SocketsInOrder, Sockets
<1> QED BY <1>1, <1>2, FS_Interval

(* The delay grows to a natural number of milliseconds.                         *)
LEMMA IncreasedType ==
  ASSUME NEW d \in Nat
  PROVE  Increased(d) \subseteq Nat
<1> DEFINE m == IF d > MinDelay THEN d ELSE MinDelay
           base == Multiplier * m
<1>1. m \in Nat /\ Multiplier \in Nat /\ MaxDelay \in Nat /\ MinDelay \in Nat
  BY ClientAssumption
<1>2. base \in Nat
  BY <1>1
<1>3. Increased(d) = {(IF base < MaxDelay THEN base ELSE MaxDelay) + r : r \in 0..(MinDelay - 1)}
  BY DEF Increased
<1> HIDE DEF base
<1> QED BY <1>1, <1>2, <1>3

(* What leaves the sockets alone keeps what is known of them.                   *)
LEMMA SocketsFrame ==
  ASSUME SocketsOK, UNCHANGED <<readyState, ack, current>>
  PROVE  SocketsOK'
BY DEF SocketsOK, SocketsInOrder, OneLiveSocket, FreshPending, Live

--------------------------------------------------------------------------------
(* One lemma per action: it preserves the inductive invariant.                  *)

(* A loop that begins has no socket yet.                                        *)
LEMMA IterateStep ==
  ASSUME IInv, NEW s \in Subs, Iterate(s)
  PROVE  IInv'
<1> USE DEF IInv
<1>1. TypeOK'
  BY DEF Iterate, TypeOK, socketVars, delayVars, subVars, Begin
<1>2. SocketsOK'
  BY SocketsFrame DEF Iterate, socketVars
<1>3. LoopsOK'
  BY DEF Iterate, TypeOK, LoopsOK, LoopsHaveSocket, OpenHasLoop, WaitersHaveTimer,
         delayVars, subVars, Begin
<1>4. Standard'
  BY DEF Iterate, TypeOK, LoopsOK, LoopsHaveSocket, Standard, AckedIsCurrent,
         SetupBeforeClose, NoneOnClosedSocket, socketVars, subVars, Begin
<1> QED BY <1>1, <1>2, <1>3, <1>4

(* Returning an inner iterator never makes it live.                             *)
LEMMA EndStep ==
  ASSUME IInv, NEW s \in Subs, End(s)
  PROVE  IInv'
<1> USE DEF IInv
<1>1. TypeOK'
  BY DEF End, TypeOK, socketVars, delayVars, subVars, InnerReturned, Unsubscribed
<1>2. SocketsOK'
  BY SocketsFrame DEF End, socketVars
<1>3. LoopsOK'
  BY DEF End, TypeOK, LoopsOK, LoopsHaveSocket, OpenHasLoop, WaitersHaveTimer, delayVars,
         subVars, InnerReturned, Unsubscribed
<1>4. Standard'
  BY DEF End, TypeOK, LoopsOK, LoopsHaveSocket, Standard, AckedIsCurrent,
         SetupBeforeClose, NoneOnClosedSocket, socketVars, subVars, InnerReturned,
         Unsubscribed
<1> QED BY <1>1, <1>2, <1>3, <1>4

(* close() makes no socket live and leaves no outer iterator open.              *)
LEMMA ClientCloseStep ==
  ASSUME IInv, ClientClose
  PROVE  IInv'
<1> USE DEF IInv
<1>1. TypeOK'
  BY DEF ClientClose, TypeOK, socketVars, delayVars, subVars
<1>2. SocketsOK'
  BY DEF ClientClose, TypeOK, SocketsOK, SocketsInOrder, OneLiveSocket, FreshPending, Live
<1>3. LoopsOK'
  BY DEF ClientClose, TypeOK, LoopsOK, LoopsHaveSocket, OpenHasLoop, WaitersHaveTimer,
         delayVars, subVars
<1>4. Standard'
  BY DEF ClientClose, TypeOK, SocketsOK, OneLiveSocket, Live, LoopsOK, LoopsHaveSocket,
         Standard, AckedIsCurrent, SetupBeforeClose, NoneOnClosedSocket, socketVars,
         subVars
<1> QED BY <1>1, <1>2, <1>3, <1>4

(* A loop that runs again has no socket yet.                                    *)
LEMMA RetryStep ==
  ASSUME IInv, NEW s \in Subs, Retry(s)
  PROVE  IInv'
<1> USE DEF IInv
<1>1. TypeOK'
  BY DEF Retry, TypeOK, socketVars, delayVars, subVars, Begin
<1>2. SocketsOK'
  BY SocketsFrame DEF Retry, socketVars
<1>3. LoopsOK'
  BY DEF Retry, TypeOK, LoopsOK, LoopsHaveSocket, OpenHasLoop, WaitersHaveTimer,
         delayVars, subVars, Begin
<1>4. Standard'
  BY DEF Retry, TypeOK, LoopsOK, LoopsHaveSocket, Standard, AckedIsCurrent,
         SetupBeforeClose, NoneOnClosedSocket, socketVars, subVars, Begin
<1> QED BY <1>1, <1>2, <1>3, <1>4

(* Whoever waits for the delay is woken with the others.                        *)
LEMMA DelayElapsesStep ==
  ASSUME IInv, DelayElapses
  PROVE  IInv'
<1> USE DEF IInv
<1>1. TypeOK'
  BY DEF DelayElapses, TypeOK, socketVars, delayVars, subVars
<1>2. SocketsOK'
  BY SocketsFrame DEF DelayElapses, socketVars
<1>3. LoopsOK'
  BY DEF DelayElapses, TypeOK, LoopsOK, LoopsHaveSocket, OpenHasLoop, WaitersHaveTimer,
         delayVars, subVars
<1>4. Standard'
  BY DEF DelayElapses, TypeOK, LoopsOK, LoopsHaveSocket, Standard, AckedIsCurrent,
         SetupBeforeClose, NoneOnClosedSocket, socketVars, subVars
<1> QED BY <1>1, <1>2, <1>3, <1>4

(* The socket that is shared is the current one.                                *)
LEMMA ConnectSharedStep ==
  ASSUME IInv, NEW s \in Subs, ConnectShared(s)
  PROVE  IInv'
<1> USE DEF IInv
<1>1. TypeOK'
  BY DEF ConnectShared, TypeOK, socketVars, delayVars, subVars
<1>2. SocketsOK'
  BY SocketsFrame DEF ConnectShared, socketVars
<1>3. LoopsOK'
  BY SocketNumbers DEF ConnectShared, TypeOK, LoopsOK, LoopsHaveSocket, OpenHasLoop,
         WaitersHaveTimer, delayVars, subVars, Live
<1>4. Standard'
  BY SocketNumbers DEF ConnectShared, TypeOK, SocketsOK, OneLiveSocket, Live, LoopsOK,
         LoopsHaveSocket, Standard, AckedIsCurrent, SetupBeforeClose,
         NoneOnClosedSocket, socketVars, subVars
<1> QED BY <1>1, <1>2, <1>3, <1>4

(* A socket is created only when none is live, and becomes the current one.     *)
LEMMA ConnectNewStep ==
  ASSUME IInv, NEW s \in Subs, ConnectNew(s)
  PROVE  IInv'
<1> USE DEF IInv
<1>0. /\ ~Live(current)
      /\ current + 1 \in Sockets
      /\ readyState' = [readyState EXCEPT ![current + 1] = "connecting"]
      /\ current' = current + 1
      /\ at' = [at EXCEPT ![s] = current + 1]
      /\ UNCHANGED <<lateMessages, ack, inner>>
  BY CreatedCount DEF ConnectNew, SocketsOK, subVars
<1>1. TypeOK'
  BY <1>0, SocketNumbers DEF ConnectNew, TypeOK, socketVars, delayVars
<1>2. SocketsOK'
  BY <1>0, SocketNumbers DEF TypeOK, SocketsOK, SocketsInOrder, OneLiveSocket,
         FreshPending, Live
<1>3. LoopsOK'
  <2>1. current \in Nat /\ current + 1 # 0 /\ current + 1 <= current + 1
    BY SocketNumbers DEF TypeOK
  <2>2. \A r \in Subs : at[r] \in Nat /\ (at[r] <= current => at[r] <= current + 1)
    BY <2>1, NumbersUsed
  <2>3. LoopsHaveSocket'
    BY <1>0, <2>1, <2>2 DEF ConnectNew, TypeOK, LoopsOK, LoopsHaveSocket
  <2>4. OpenHasLoop' /\ WaitersHaveTimer'
    BY DEF ConnectNew, TypeOK, LoopsOK, OpenHasLoop, WaitersHaveTimer, delayVars
  <2> QED BY <2>3, <2>4 DEF LoopsOK
<1>4. Standard'
  BY <1>0, SocketNumbers DEF ConnectNew, TypeOK, SocketsOK, FreshPending, SocketsInOrder,
         LoopsOK, LoopsHaveSocket, Standard, AckedIsCurrent, SetupBeforeClose,
         NoneOnClosedSocket
<1> QED BY <1>1, <1>2, <1>3, <1>4

(* A loop that is over has thrown its outer iterator.                           *)
LEMMA ConnectThrowsStep ==
  ASSUME IInv, NEW s \in Subs, ConnectThrows(s)
  PROVE  IInv'
<1> USE DEF IInv
<1>1. TypeOK'
  BY DEF ConnectThrows, TypeOK, socketVars, delayVars, subVars, Caught
<1>2. SocketsOK'
  BY SocketsFrame DEF ConnectThrows, socketVars
<1>3. LoopsOK'
  BY DEF ConnectThrows, TypeOK, LoopsOK, LoopsHaveSocket, OpenHasLoop, WaitersHaveTimer,
         delayVars, subVars, Caught
<1>4. Standard'
  BY DEF ConnectThrows, TypeOK, LoopsOK, LoopsHaveSocket, Standard, AckedIsCurrent,
         SetupBeforeClose, NoneOnClosedSocket, socketVars, subVars, Caught
<1> QED BY <1>1, <1>2, <1>3, <1>4

(* The loop moves to the current socket: not closed, or not acknowledged yet.    *)
LEMMA AckedStep ==
  ASSUME IInv, NEW s \in Subs, Acked(s)
  PROVE  IInv'
<1> USE DEF IInv
<1>1. TypeOK'
  BY ClientAssumption DEF Acked, TypeOK, socketVars, delayVars, subVars
<1>2. SocketsOK'
  BY SocketsFrame DEF Acked, socketVars
<1>3. LoopsOK'
  <2>1. current \in Nat /\ at[s] \in Nat /\ at[s] # 0 /\ at[s] <= current
    BY NumbersUsed DEF Acked, LoopsOK, LoopsHaveSocket
  <2>2. current # 0 /\ current <= current
    BY <2>1
  <2> QED BY <2>2 DEF Acked, TypeOK, LoopsOK, LoopsHaveSocket, OpenHasLoop, WaitersHaveTimer
<1>4. Standard'
  BY SocketNumbers DEF Acked, TypeOK, SocketsOK, OneLiveSocket, Live, LoopsOK,
         LoopsHaveSocket, Standard, AckedIsCurrent, SetupBeforeClose,
         NoneOnClosedSocket, socketVars, subVars
<1> QED BY <1>1, <1>2, <1>3, <1>4

(* A loop that is over has thrown its outer iterator.                           *)
LEMMA AckFailedStep ==
  ASSUME IInv, NEW s \in Subs, AckFailed(s)
  PROVE  IInv'
<1> USE DEF IInv
<1>1. TypeOK'
  BY IncreasedType DEF AckFailed, TypeOK, socketVars, delayVars, subVars, Caught
<1>2. SocketsOK'
  BY SocketsFrame DEF AckFailed, socketVars
<1>3. LoopsOK'
  BY DEF AckFailed, TypeOK, LoopsOK, LoopsHaveSocket, OpenHasLoop, WaitersHaveTimer,
         delayVars, subVars, Caught
<1>4. Standard'
  BY DEF AckFailed, TypeOK, LoopsOK, LoopsHaveSocket, Standard, AckedIsCurrent,
         SetupBeforeClose, NoneOnClosedSocket, socketVars, subVars, Caught
<1> QED BY <1>1, <1>2, <1>3, <1>4

(* What registers does so on a socket that has not closed.                      *)
LEMMA InnerSetupStep ==
  ASSUME IInv, NEW s \in Subs, InnerSetup(s)
  PROVE  IInv'
<1> USE DEF IInv
<1>1. TypeOK'
  BY DEF InnerSetup, TypeOK, socketVars, delayVars, subVars
<1>2. SocketsOK'
  BY SocketsFrame DEF InnerSetup, socketVars
<1>3. LoopsOK'
  BY DEF InnerSetup, TypeOK, LoopsOK, LoopsHaveSocket, OpenHasLoop, WaitersHaveTimer,
         delayVars, subVars
<1>4. Standard'
  BY DEF InnerSetup, TypeOK, LoopsOK, LoopsHaveSocket, Standard, AckedIsCurrent,
         SetupBeforeClose, NoneOnClosedSocket, socketVars, subVars
<1> QED BY <1>1, <1>2, <1>3, <1>4

(* A failed setup registers nothing.                                            *)
LEMMA InnerSetupFailsStep ==
  ASSUME IInv, NEW s \in Subs, InnerSetupFails(s)
  PROVE  IInv'
<1> USE DEF IInv
<1>1. TypeOK'
  BY DEF InnerSetupFails, TypeOK, socketVars, delayVars, subVars, Failures
<1>2. SocketsOK'
  BY SocketsFrame DEF InnerSetupFails, socketVars
<1>3. LoopsOK'
  BY DEF InnerSetupFails, TypeOK, LoopsOK, LoopsHaveSocket, OpenHasLoop, WaitersHaveTimer,
         delayVars, subVars, Failures
<1>4. Standard'
  BY DEF InnerSetupFails, TypeOK, LoopsOK, LoopsHaveSocket, Standard, AckedIsCurrent,
         SetupBeforeClose, NoneOnClosedSocket, socketVars, subVars, Failures
<1> QED BY <1>1, <1>2, <1>3, <1>4

(* A loop that ends finishes its outer iterator.                                *)
LEMMA LoopEndsStep ==
  ASSUME IInv, NEW s \in Subs, LoopEnds(s)
  PROVE  IInv'
<1> USE DEF IInv
<1>1. TypeOK'
  BY DEF LoopEnds, TypeOK, socketVars, delayVars, subVars
<1>2. SocketsOK'
  BY SocketsFrame DEF LoopEnds, socketVars
<1>3. LoopsOK'
  BY DEF LoopEnds, TypeOK, LoopsOK, LoopsHaveSocket, OpenHasLoop, WaitersHaveTimer,
         delayVars, subVars
<1>4. Standard'
  BY DEF LoopEnds, TypeOK, LoopsOK, LoopsHaveSocket, Standard, AckedIsCurrent,
         SetupBeforeClose, NoneOnClosedSocket, socketVars, subVars
<1> QED BY <1>1, <1>2, <1>3, <1>4

(* A loop that is over has thrown its outer iterator.                           *)
LEMMA LoopFailsStep ==
  ASSUME IInv, NEW s \in Subs, LoopFails(s)
  PROVE  IInv'
<1> USE DEF IInv
<1>1. TypeOK'
  BY DEF LoopFails, TypeOK, socketVars, delayVars, subVars, Caught
<1>2. SocketsOK'
  BY SocketsFrame DEF LoopFails, socketVars
<1>3. LoopsOK'
  BY DEF LoopFails, TypeOK, LoopsOK, LoopsHaveSocket, OpenHasLoop, WaitersHaveTimer,
         delayVars, subVars, Caught
<1>4. Standard'
  BY DEF LoopFails, TypeOK, LoopsOK, LoopsHaveSocket, Standard, AckedIsCurrent,
         SetupBeforeClose, NoneOnClosedSocket, socketVars, subVars, Caught
<1> QED BY <1>1, <1>2, <1>3, <1>4

(* A socket that opens was live.                                                *)
LEMMA SocketOpensStep ==
  ASSUME IInv, NEW n \in Sockets, SocketOpens(n)
  PROVE  IInv'
<1> USE DEF IInv
<1>1. TypeOK'
  BY DEF SocketOpens, TypeOK, socketVars, delayVars, subVars
<1>2. SocketsOK'
  BY DEF SocketOpens, TypeOK, SocketsOK, SocketsInOrder, OneLiveSocket, FreshPending, Live
<1>3. LoopsOK'
  BY DEF SocketOpens, TypeOK, LoopsOK, LoopsHaveSocket, OpenHasLoop, WaitersHaveTimer,
         delayVars, subVars
<1>4. Standard'
  BY SocketNumbers DEF SocketOpens, TypeOK, SocketsOK, OneLiveSocket, Live, LoopsOK,
         LoopsHaveSocket, Standard, AckedIsCurrent, SetupBeforeClose,
         NoneOnClosedSocket, socketVars, subVars
<1> QED BY <1>1, <1>2, <1>3, <1>4

(* A standard socket that is acknowledged is open, and so the current one.      *)
LEMMA AckArrivesStep ==
  ASSUME IInv, NEW n \in Sockets, AckArrives(n)
  PROVE  IInv'
<1> USE DEF IInv
<1>1. TypeOK'
  BY DEF AckArrives, TypeOK, socketVars, delayVars, subVars, Delivers
<1>2. SocketsOK'
  BY DEF AckArrives, TypeOK, SocketsOK, SocketsInOrder, OneLiveSocket, FreshPending, Live,
         Delivers
<1>3. LoopsOK'
  BY DEF AckArrives, TypeOK, LoopsOK, LoopsHaveSocket, OpenHasLoop, WaitersHaveTimer,
         delayVars, subVars, Delivers
<1>4. Standard'
  BY SocketNumbers DEF AckArrives, TypeOK, SocketsOK, OneLiveSocket, Live, LoopsOK,
         LoopsHaveSocket, Standard, AckedIsCurrent, SetupBeforeClose,
         NoneOnClosedSocket, socketVars, subVars, Delivers, Quiet, Due
<1> QED BY <1>1, <1>2, <1>3, <1>4

(* Closing is not closed.                                                       *)
LEMMA AckTimeoutStep ==
  ASSUME IInv, NEW n \in Sockets, AckTimeout(n)
  PROVE  IInv'
<1> USE DEF IInv
<1>1. TypeOK'
  BY DEF AckTimeout, TypeOK, socketVars, delayVars, subVars
<1>2. SocketsOK'
  BY DEF AckTimeout, TypeOK, SocketsOK, SocketsInOrder, OneLiveSocket, FreshPending, Live
<1>3. LoopsOK'
  BY DEF AckTimeout, TypeOK, LoopsOK, LoopsHaveSocket, OpenHasLoop, WaitersHaveTimer,
         delayVars, subVars
<1>4. Standard'
  BY SocketNumbers DEF AckTimeout, TypeOK, SocketsOK, OneLiveSocket, Live, LoopsOK,
         LoopsHaveSocket, Standard, AckedIsCurrent, SetupBeforeClose,
         NoneOnClosedSocket, socketVars, subVars
<1> QED BY <1>1, <1>2, <1>3, <1>4

(* Closing is not closed.                                                       *)
LEMMA BadMessageStep ==
  ASSUME IInv, NEW n \in Sockets, BadMessage(n)
  PROVE  IInv'
<1> USE DEF IInv
<1>1. TypeOK'
  BY DEF BadMessage, TypeOK, socketVars, delayVars, subVars
<1>2. SocketsOK'
  BY DEF BadMessage, TypeOK, SocketsOK, SocketsInOrder, OneLiveSocket, FreshPending, Live
<1>3. LoopsOK'
  BY DEF BadMessage, TypeOK, LoopsOK, LoopsHaveSocket, OpenHasLoop, WaitersHaveTimer,
         delayVars, subVars
<1>4. Standard'
  BY SocketNumbers DEF BadMessage, TypeOK, SocketsOK, OneLiveSocket, Live, LoopsOK,
         LoopsHaveSocket, Standard, AckedIsCurrent, SetupBeforeClose,
         NoneOnClosedSocket, socketVars, subVars
<1> QED BY <1>1, <1>2, <1>3, <1>4

(* An inner iterator that ends is not live.                                     *)
LEMMA ServerCompletesStep ==
  ASSUME IInv, NEW s \in Subs, ServerCompletes(s)
  PROVE  IInv'
<1> USE DEF IInv
<1>1. TypeOK'
  BY DEF ServerCompletes, TypeOK, socketVars, delayVars, subVars
<1>2. SocketsOK'
  BY SocketsFrame DEF ServerCompletes, socketVars
<1>3. LoopsOK'
  BY DEF ServerCompletes, TypeOK, LoopsOK, LoopsHaveSocket, OpenHasLoop, WaitersHaveTimer,
         delayVars, subVars
<1>4. Standard'
  BY DEF ServerCompletes, TypeOK, LoopsOK, LoopsHaveSocket, Standard, AckedIsCurrent,
         SetupBeforeClose, NoneOnClosedSocket, socketVars, subVars
<1> QED BY <1>1, <1>2, <1>3, <1>4

(* An inner iterator that throws is not live.                                   *)
LEMMA ServerErrorsStep ==
  ASSUME IInv, NEW s \in Subs, ServerErrors(s)
  PROVE  IInv'
<1> USE DEF IInv
<1>1. TypeOK'
  BY DEF ServerErrors, TypeOK, socketVars, delayVars, subVars, Failures
<1>2. SocketsOK'
  BY SocketsFrame DEF ServerErrors, socketVars
<1>3. LoopsOK'
  BY DEF ServerErrors, TypeOK, LoopsOK, LoopsHaveSocket, OpenHasLoop, WaitersHaveTimer,
         delayVars, subVars, Failures
<1>4. Standard'
  BY DEF ServerErrors, TypeOK, LoopsOK, LoopsHaveSocket, Standard, AckedIsCurrent,
         SetupBeforeClose, NoneOnClosedSocket, socketVars, subVars, Failures
<1> QED BY <1>1, <1>2, <1>3, <1>4

(* Closing throws what is registered, and nothing is about to register.         *)
LEMMA SocketClosesStep ==
  ASSUME IInv, NEW n \in Sockets, SocketCloses(n)
  PROVE  IInv'
<1> USE DEF IInv
<1>1. TypeOK'
  BY DEF SocketCloses, TypeOK, socketVars, delayVars, subVars, Fail, Failures
<1>2. SocketsOK'
  BY DEF SocketCloses, TypeOK, SocketsOK, SocketsInOrder, OneLiveSocket, FreshPending,
         Live, Fail, Failures
<1>3. LoopsOK'
  BY DEF SocketCloses, TypeOK, LoopsOK, LoopsHaveSocket, OpenHasLoop, WaitersHaveTimer,
         delayVars, subVars, Fail, Failures
<1>4. Standard'
  BY SocketNumbers DEF SocketCloses, TypeOK, SocketsOK, OneLiveSocket, Live, LoopsOK,
         LoopsHaveSocket, Standard, AckedIsCurrent, SetupBeforeClose,
         NoneOnClosedSocket, socketVars, subVars, Fail, Failures, Quiet, Due
<1> QED BY <1>1, <1>2, <1>3, <1>4

(* Closing is not closed.                                                       *)
LEMMA SocketErrorsStep ==
  ASSUME IInv, NEW n \in Sockets, SocketErrors(n)
  PROVE  IInv'
<1> USE DEF IInv
<1>1. TypeOK'
  BY DEF SocketErrors, TypeOK, socketVars, delayVars, subVars, Fail, Failures
<1>2. SocketsOK'
  BY DEF SocketErrors, TypeOK, SocketsOK, SocketsInOrder, OneLiveSocket, FreshPending,
         Live, Fail, Failures
<1>3. LoopsOK'
  BY DEF SocketErrors, TypeOK, LoopsOK, LoopsHaveSocket, OpenHasLoop, WaitersHaveTimer,
         delayVars, subVars, Fail, Failures
<1>4. ASSUME ~lateMessages PROVE AckedIsCurrent' /\ SetupBeforeClose' /\ NoneOnClosedSocket'
  <2>1. AckedIsCurrent /\ SetupBeforeClose /\ NoneOnClosedSocket
    BY <1>4 DEF Standard
  <2>2. /\ readyState' = [readyState EXCEPT ![n] = "closing"]
        /\ ack' = [ack EXCEPT ![n] = IF @ = "pending" THEN "passing" ELSE @]
        /\ UNCHANGED <<current, pc, at>>
        /\ \A s \in Subs : inner'[s] \in {inner[s], "passing"}
    BY DEF SocketErrors, Fail, subVars
  <2>3. AckedIsCurrent'
    <3> SUFFICES ASSUME NEW s \in Subs, pc[s] = "ack", ack'[at[s]] = "resolved"
                 PROVE  FALSE
      BY <2>2 DEF AckedIsCurrent
    <3>1. at[s] \in Sockets
      BY DEF TypeOK, LoopsOK, LoopsHaveSocket
    <3>2. ack[at[s]] = "resolved"
      BY <2>2, <3>1 DEF TypeOK
    <3> QED BY <3>2 DEF SocketErrors, Quiet, Due
  <2>4. SetupBeforeClose'
    BY <2>1, <2>2, SocketNumbers DEF SetupBeforeClose, TypeOK, LoopsOK, LoopsHaveSocket
  <2>5. NoneOnClosedSocket'
    BY <2>1, <2>2, SocketNumbers DEF NoneOnClosedSocket, TypeOK, LoopsOK, LoopsHaveSocket
  <2> QED BY <2>3, <2>4, <2>5
<1>5. Standard'
  BY <1>4 DEF Standard, SocketErrors, socketVars
<1> QED BY <1>1, <1>2, <1>3, <1>5

--------------------------------------------------------------------------------
(* In the initial state there is no socket and no loop.                         *)
LEMMA InitInvariant == Init => IInv
<1> SUFFICES ASSUME Init PROVE IInv
  OBVIOUS
<1>1. TypeOK
  BY DEF Init, TypeOK
<1>2. SocketsOK
  BY SocketNumbers DEF Init, SocketsOK, SocketsInOrder, OneLiveSocket, FreshPending, Live
<1>3. LoopsOK
  BY DEF Init, LoopsOK, LoopsHaveSocket, OpenHasLoop, WaitersHaveTimer
<1>4. Standard
  BY DEF Init, Standard, AckedIsCurrent, SetupBeforeClose, NoneOnClosedSocket
<1> QED BY <1>1, <1>2, <1>3, <1>4 DEF IInv

(* Every step preserves the inductive invariant.                                *)
LEMMA StepInvariant == IInv /\ [Next]_vars => IInv'
<1> SUFFICES ASSUME IInv, [Next]_vars PROVE IInv'
  OBVIOUS
<1>1. CASE ClientClose
  BY <1>1, ClientCloseStep
<1>2. CASE DelayElapses
  BY <1>2, DelayElapsesStep
<1>3. ASSUME NEW s \in Subs, Iterate(s) \/ End(s) \/ Retry(s) PROVE IInv'
  BY <1>3, IterateStep, EndStep, RetryStep
<1>4. ASSUME NEW s \in Subs, Connect(s) PROVE IInv'
  BY <1>4, ConnectSharedStep, ConnectNewStep, ConnectThrowsStep DEF Connect
<1>5. ASSUME NEW s \in Subs, Continue(s) PROVE IInv'
  BY <1>5, AckedStep, AckFailedStep, InnerSetupStep, InnerSetupFailsStep, LoopEndsStep,
     LoopFailsStep DEF Continue
<1>6. ASSUME NEW s \in Subs, ServerCompletes(s) \/ ServerErrors(s) PROVE IInv'
  BY <1>6, ServerCompletesStep, ServerErrorsStep
<1>7. ASSUME NEW n \in Sockets, SocketOpens(n) \/ AckArrives(n) \/ AckTimeout(n) PROVE IInv'
  BY <1>7, SocketOpensStep, AckArrivesStep, AckTimeoutStep
<1>8. ASSUME NEW n \in Sockets, BadMessage(n) \/ SocketCloses(n) \/ SocketErrors(n) PROVE IInv'
  BY <1>8, BadMessageStep, SocketClosesStep, SocketErrorsStep
<1>9. CASE UNCHANGED vars
  BY <1>9 DEF vars, socketVars, delayVars, subVars, IInv, TypeOK, SocketsOK, SocketsInOrder,
     OneLiveSocket, FreshPending, Live, LoopsOK, LoopsHaveSocket, OpenHasLoop,
     WaitersHaveTimer, Standard, AckedIsCurrent, SetupBeforeClose, NoneOnClosedSocket
<1> QED
  BY <1>1, <1>2, <1>3, <1>4, <1>5, <1>6, <1>7, <1>8, <1>9 DEF Next

(* The inductive invariant holds in every reachable state.                      *)
THEOREM Invariance == Spec => []IInv
BY InitInvariant, StepInvariant, PTL DEF Spec

--------------------------------------------------------------------------------
(* The fields and loops of the client keep their types.                         *)
THEOREM TypeCorrect == Spec => []TypeOK
<1>1. IInv => TypeOK
  BY DEF IInv
<1> QED BY <1>1, Invariance, PTL

(* However many loops wake at the same time, one socket is live, the current    *)
(* one.                                                                         *)
THEOREM SocketsShared == Spec => []OneLiveSocket
<1>1. IInv => OneLiveSocket
  BY DEF IInv, SocketsOK
<1> QED BY <1>1, Invariance, PTL

(* Nobody is registered on a socket that has closed, if sockets obey the        *)
(* standard.                                                                    *)
THEOREM NobodyStranded == Spec => []NoneOnClosedStandardSocket
<1>1. IInv => NoneOnClosedStandardSocket
  BY DEF IInv, Standard, NoneOnClosedStandardSocket
<1> QED BY <1>1, Invariance, PTL

(* An open outer iterator has a loop to serve it.                               *)
THEOREM NobodyAbandoned == Spec => []OpenHasLoop
<1>1. IInv => OpenHasLoop
  BY DEF IInv, LoopsOK
<1> QED BY <1>1, Invariance, PTL

(* A loop that waits for the delay waits for a timer that is running.           *)
THEOREM TimersRun == Spec => []WaitersHaveTimer
<1>1. IInv => WaitersHaveTimer
  BY DEF IInv, LoopsOK
<1> QED BY <1>1, Invariance, PTL

--------------------------------------------------------------------------------
(* A multiplier of at least one keeps the delay between minimum and maximum,    *)
(* but for the random part.                                                     *)
LEMMA IncreasedBounded ==
  ASSUME Multiplier >= 1, NEW d \in Nat, NEW e \in Increased(d)
  PROVE  e \in (IF MinDelay < MaxDelay THEN MinDelay ELSE MaxDelay)
                  .. (IF MinDelay < MaxDelay THEN MaxDelay + MinDelay ELSE 2 * MinDelay)
<1> DEFINE m == IF d > MinDelay THEN d ELSE MinDelay
           base == Multiplier * m
           capped == IF base < MaxDelay THEN base ELSE MaxDelay
<1>1. m \in Nat /\ m >= MinDelay /\ Multiplier \in Nat /\ MaxDelay \in Nat
      /\ MinDelay \in Nat \ {0}
  BY ClientAssumption
<1>2. base \in Nat /\ base >= m
  <2>1. \A x, y \in Nat : x >= 1 => x * y \in Nat /\ x * y >= y
    OBVIOUS
  <2> HIDE DEF m
  <2> QED BY <1>1, <2>1
<1>3. PICK r \in 0..(MinDelay - 1) : e = capped + r
  BY DEF Increased
<1> HIDE DEF base, m
<1>4. capped \in Nat /\ capped <= MaxDelay
      /\ capped >= (IF MinDelay < MaxDelay THEN MinDelay ELSE MaxDelay)
  BY <1>1, <1>2
<1> HIDE DEF capped
<1> QED BY <1>1, <1>3, <1>4

(* However many loops multiply the delay, it exceeds the documented maximum by  *)
(* the random part at most.                                                     *)
THEOREM DelayStaysBounded ==
  ASSUME Multiplier >= 1
  PROVE  Spec => []DelayBounded
<1>1. Init => DelayBounded
  BY DEF Init, DelayBounded
<1>2. IInv /\ DelayBounded /\ [Next]_vars => DelayBounded'
  <2> SUFFICES ASSUME IInv, DelayBounded, [Next]_vars PROVE DelayBounded'
    OBVIOUS
  <2>1. ASSUME NEW s \in Subs, Acked(s) PROVE DelayBounded'
    BY <2>1, ClientAssumption DEF Acked, DelayBounded
  <2>2. ASSUME NEW s \in Subs, AckFailed(s) PROVE DelayBounded'
    BY <2>2, IncreasedBounded DEF AckFailed, DelayBounded, IInv, TypeOK
  <2>3. CASE UNCHANGED delay
    BY <2>3 DEF DelayBounded
  <2>4. (\E s \in Subs : Acked(s) \/ AckFailed(s)) \/ UNCHANGED delay
    BY DEF Next, Connect, Continue, vars, delayVars, ClientClose, DelayElapses, Iterate, End,
       Retry, ConnectShared, ConnectNew, ConnectThrows, InnerSetup, InnerSetupFails, LoopEnds,
       LoopFails, ServerCompletes, ServerErrors, SocketOpens, AckArrives, AckTimeout,
       BadMessage, SocketCloses, SocketErrors
  <2> QED BY <2>1, <2>2, <2>3, <2>4
<1> QED BY <1>1, <1>2, Invariance, PTL DEF Spec

================================================================================

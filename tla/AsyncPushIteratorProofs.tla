------------------------- MODULE AsyncPushIteratorProofs -------------------------
(***************************************************************************)
(* What holds of AsyncPushIterator for every set of values, every number   *)
(* of overlapping callers and every bound on the pushes: its invariants,   *)
(* its action property, and that it implements the stream of module Stream.*)
(***************************************************************************)
EXTENDS AsyncPushIterator, TLAPS

(* NoLostWakeup and SetupOnce are not inductive alone: the flags have to be   *)
(* tied to each other first.  A truthy error and an abort imply the end, and  *)
(* nothing happens before the first call has started the setup.                *)
FlagsAgree ==
  /\ error # "none" => done
  /\ aborted => done
  /\ ~initialized => ~teardown /\ \A c \in Callers : pc[c] = "idle"

IInv == TypeOK /\ FlagsAgree /\ NoLostWakeup /\ SetupOnce

--------------------------------------------------------------------------------
(* Waking the sleepers leaves nobody asleep and keeps every other pc.          *)
LEMMA WakeFacts ==
  ASSUME NEW p \in [Callers -> {"idle", "setup", "waiting", "woken"}]
  PROVE  /\ Wake(p) \in [Callers -> {"idle", "setup", "waiting", "woken"}]
         /\ \A c \in Callers : Wake(p)[c] # "waiting"
         /\ \A c \in Callers : Wake(p)[c] = "setup" <=> p[c] = "setup"
         /\ \A c \in Callers : Wake(p)[c] = "idle" <=> p[c] = "idle"
BY DEF Wake

(* teardownOnce() clears the teardown function and leaves a legal error, which  *)
(* is a new one only if there was a teardown function to throw it.              *)
LEMMA TeardownFacts ==
  ASSUME NEW t \in BOOLEAN, NEW e \in {"none", "thrown", "teardown"},
         TeardownOnce(t, e)
  PROVE  /\ teardown' = FALSE
         /\ error' \in {"none", "thrown", "teardown"}
BY DEF TeardownOnce

(* The initial state of a new iterator satisfies the invariant.                *)
LEMMA InitInv == Init => IInv
<1> SUFFICES ASSUME Init PROVE IInv
  OBVIOUS
<1>1. \A c \in Callers : pc[c] = "idle"
  BY DEF Init
<1>2. TypeOK
  <2>1. /\ initialized \in BOOLEAN /\ finished \in BOOLEAN /\ done \in BOOLEAN
        /\ teardown \in BOOLEAN /\ aborted \in BOOLEAN
        /\ error \in {"none", "thrown", "teardown"}
    BY DEF Init
  <2>2. pc \in [Callers -> {"idle", "setup", "waiting", "woken"}]
    BY DEF Init
  <2>3. queue \in Seq(Values) /\ delivered \in Seq(Values)
    BY DEF Init
  <2> QED BY <2>1, <2>2, <2>3 DEF TypeOK
<1> QED BY <1>1, <1>2 DEF Init, IInv, FlagsAgree, NoLostWakeup, SetupOnce

(* The synchronous part of next(), run by a caller that is not asleep while no *)
(* other caller awaits the setup function unless t is the current teardown,    *)
(* preserves the invariant.                                                    *)
LEMMA StepInv ==
  ASSUME IInv, NEW c \in Callers, NEW t \in BOOLEAN,
         initialized, UNCHANGED initialized, Step(c, t),
         \/ t = teardown /\ pc[c] # "setup"
         \/ pc[c] = "setup"
  PROVE  IInv'
<1> USE DEF IInv
<1>1. CASE StepEnded(c, t)
  BY <1>1 DEF StepEnded, TypeOK, FlagsAgree, NoLostWakeup, SetupOnce
<1>2. CASE StepValue(c, t)
  <2>1. /\ Head(queue) \in Values
        /\ Tail(queue) \in Seq(Values)
        /\ delivered' \in Seq(Values)
    BY <1>2 DEF StepValue, TypeOK
  <2>2. TypeOK'
    BY <1>2, <2>1 DEF StepValue, TypeOK
  <2>3. (FlagsAgree /\ SetupOnce)'
    BY <1>2 DEF StepValue, TypeOK, FlagsAgree, SetupOnce
  <2>4. NoLostWakeup'
    BY <1>2 DEF StepValue, TypeOK, NoLostWakeup
  <2> QED BY <2>2, <2>3, <2>4
<1>3. CASE StepDrained(c, t)
  <2> DEFINE p == [pc EXCEPT ![c] = "idle"]
  <2>1. p \in [Callers -> {"idle", "setup", "waiting", "woken"}]
    BY DEF TypeOK
  <2>2. pc' = Wake(p) /\ done' = TRUE /\ TeardownOnce(t, error)
        /\ UNCHANGED <<finished, queue, delivered, aborted>>
    BY <1>3 DEF StepDrained
  <2>3. teardown' = FALSE /\ error' \in {"none", "thrown", "teardown"}
    BY <2>2, TeardownFacts DEF TypeOK
  <2> HIDE DEF p
  <2>4. /\ pc' \in [Callers -> {"idle", "setup", "waiting", "woken"}]
        /\ \A d \in Callers : pc'[d] # "waiting"
        /\ \A d \in Callers : pc'[d] = "setup" <=> p[d] = "setup"
    BY <2>1, <2>2, WakeFacts
  <2>5. \A d \in Callers : p[d] = "setup" => pc[d] = "setup"
    BY DEF p, TypeOK
  <2> QED
    BY <2>2, <2>3, <2>4, <2>5 DEF TypeOK, FlagsAgree, NoLostWakeup, SetupOnce
<1>4. CASE StepWait(c, t)
  BY <1>4 DEF StepWait, TypeOK, FlagsAgree, NoLostWakeup, SetupOnce
<1> QED BY <1>1, <1>2, <1>3, <1>4 DEF Step

(* Every step of every caller and of every method preserves the invariant.     *)
LEMMA NextInv == IInv /\ [Next]_vars => IInv'
<1> SUFFICES ASSUME IInv, [Next]_vars PROVE IInv'
  OBVIOUS
<1> USE DEF IInv
<1> DEFINE PCs == [Callers -> {"idle", "setup", "waiting", "woken"}]
<1>1. ASSUME NEW c \in Callers, NextFirst(c) PROVE IInv'
  BY <1>1 DEF NextFirst, TypeOK, FlagsAgree, NoLostWakeup, SetupOnce
<1>2. ASSUME NEW c \in Callers, NextLater(c) PROVE IInv'
  BY <1>2, StepInv DEF NextLater, TypeOK
<1>3. ASSUME NEW c \in Callers, SetupResolves(c) PROVE IInv'
  <2>1. PICK t \in BOOLEAN : Step(c, t)
    BY <1>3 DEF SetupResolves
  <2>2. initialized /\ pc[c] = "setup" /\ UNCHANGED initialized
    BY <1>3 DEF SetupResolves, SetupOnce
  <2> QED BY <2>1, <2>2, StepInv
<1>4. ASSUME NEW c \in Callers, SetupRejects(c) PROVE IInv'
  BY <1>4 DEF SetupRejects, fields, TypeOK, FlagsAgree, NoLostWakeup, SetupOnce
<1>5. ASSUME NEW c \in Callers, Resume(c) PROVE IInv'
  <2>1. initialized
    BY <1>5 DEF Resume, FlagsAgree, TypeOK
  <2> QED BY <1>5, <2>1, StepInv DEF Resume, TypeOK
<1>6. ASSUME NEW v \in Values, Push(v) PROVE IInv'
  <2>1. queue' \in Seq(Values)
    BY <1>6 DEF Push, TypeOK
  <2>2. /\ pc' \in PCs
        /\ \A d \in Callers : pc'[d] # "waiting"
        /\ \A d \in Callers : pc'[d] = "setup" <=> pc[d] = "setup"
        /\ \A d \in Callers : pc'[d] = "idle" <=> pc[d] = "idle"
    BY <1>6, WakeFacts DEF Push, TypeOK
  <2> QED BY <1>6, <2>1, <2>2 DEF Push, TypeOK, FlagsAgree, NoLostWakeup, SetupOnce
<1>7. CASE Finish
  <2>1. /\ pc' \in PCs
        /\ \A d \in Callers : pc'[d] # "waiting"
        /\ \A d \in Callers : pc'[d] = "setup" <=> pc[d] = "setup"
        /\ \A d \in Callers : pc'[d] = "idle" <=> pc[d] = "idle"
    BY <1>7, WakeFacts DEF Finish, TypeOK
  <2> QED BY <1>7, <2>1 DEF Finish, TypeOK, FlagsAgree, NoLostWakeup, SetupOnce
<1>8. CASE Return
  <2>1. /\ pc' \in PCs
        /\ \A d \in Callers : pc'[d] # "waiting"
        /\ \A d \in Callers : pc'[d] = "setup" <=> pc[d] = "setup"
        /\ \A d \in Callers : pc'[d] = "idle" <=> pc[d] = "idle"
    BY <1>8, WakeFacts DEF Return, TypeOK
  <2>2. teardown' = FALSE /\ error' \in {"none", "thrown", "teardown"}
    BY <1>8, TeardownFacts DEF Return, TypeOK
  <2> QED
    BY <1>8, <2>1, <2>2 DEF Return, TypeOK, FlagsAgree, NoLostWakeup, SetupOnce
<1>9. ASSUME NEW err \in {"none", "thrown"}, Throw(err) PROVE IInv'
  <2>1. /\ pc' \in PCs
        /\ \A d \in Callers : pc'[d] # "waiting"
        /\ \A d \in Callers : pc'[d] = "setup" <=> pc[d] = "setup"
        /\ \A d \in Callers : pc'[d] = "idle" <=> pc[d] = "idle"
    BY <1>9, WakeFacts DEF Throw, TypeOK
  <2>2. teardown' = FALSE /\ error' \in {"none", "thrown", "teardown"}
    BY <1>9, TeardownFacts DEF Throw, TypeOK
  <2> QED
    BY <1>9, <2>1, <2>2 DEF Throw, TypeOK, FlagsAgree, NoLostWakeup, SetupOnce
<1>10. CASE UNCHANGED vars
  BY <1>10 DEF vars, TypeOK, FlagsAgree, NoLostWakeup, SetupOnce
<1> QED
  BY <1>1, <1>2, <1>3, <1>4, <1>5, <1>6, <1>7, <1>8, <1>9, <1>10 DEF Next

--------------------------------------------------------------------------------
(* The inductive invariant holds in every reachable state.                     *)
THEOREM Invariance == Spec => []IInv
<1>1. Init => IInv
  BY InitInv
<1>2. IInv /\ [Next]_vars => IInv'
  BY NextInv
<1> QED BY <1>1, <1>2, PTL DEF Spec

(* Type correctness of the fields and of the suspended calls.                  *)
THEOREM TypeCorrect == Spec => []TypeOK
<1>1. IInv => TypeOK
  BY DEF IInv
<1> QED BY <1>1, Invariance, PTL

(* No call of next() ever sleeps through a push(), finish(), return() or       *)
(* throw(), however many calls overlap.                                        *)
THEOREM WakeupsKept == Spec => []NoLostWakeup
<1>1. IInv => NoLostWakeup
  BY DEF IInv
<1> QED BY <1>1, Invariance, PTL

(* The setup function runs at most once, whatever calls of next() overlap.     *)
THEOREM SetupRunsOnce == Spec => []SetupOnce
<1>1. IInv => SetupOnce
  BY DEF IInv
<1> QED BY <1>1, Invariance, PTL

--------------------------------------------------------------------------------
(* A step of next() clears the teardown function only by ending the iterator.  *)
LEMMA StepTeardown ==
  ASSUME IInv, NEW c \in Callers, NEW t \in BOOLEAN, Step(c, t),
         teardown => t
  PROVE  /\ teardown /\ ~teardown' => ~done /\ done'
         /\ ~done /\ done' => ~teardown'
BY DEF Step, StepEnded, StepValue, StepDrained, StepWait, TeardownOnce, IInv, TypeOK

(* The teardown function is dropped exactly by the step that ends the iterator.*)
THEOREM TeardownRunsAtEnd == Spec => TeardownAtEnd
<1> DEFINE A == /\ teardown /\ ~teardown' => ~done /\ done'
                /\ ~done /\ done' => ~teardown'
<1>1. IInv /\ [Next]_vars => [A]_vars
  <2> SUFFICES ASSUME IInv, Next PROVE A
    OBVIOUS
  <2>1. ASSUME NEW c \in Callers, NextLater(c) \/ Resume(c) PROVE A
    BY <2>1, StepTeardown DEF NextLater, Resume, IInv, TypeOK
  <2>2. ASSUME NEW c \in Callers, SetupResolves(c) PROVE A
    <3>1. PICK t \in BOOLEAN : Step(c, t)
      BY <2>2 DEF SetupResolves
    <3>2. ~teardown
      BY <2>2 DEF SetupResolves, IInv, SetupOnce
    <3> QED BY <3>1, <3>2, StepTeardown
  <2>3. ASSUME NEW c \in Callers, NextFirst(c) \/ SetupRejects(c) PROVE A
    BY <2>3 DEF NextFirst, SetupRejects, fields
  <2>4. ASSUME NEW v \in Values, Push(v) PROVE A
    BY <2>4 DEF Push
  <2>5. CASE Finish
    BY <2>5 DEF Finish
  <2>6. CASE Return
    BY <2>6 DEF Return, TeardownOnce
  <2>7. ASSUME NEW err \in {"none", "thrown"}, Throw(err) PROVE A
    BY <2>7 DEF Throw, TeardownOnce
  <2> QED BY <2>1, <2>2, <2>3, <2>4, <2>5, <2>6, <2>7 DEF Next
<1> QED BY <1>1, Invariance, PTL DEF Spec, TeardownAtEnd

--------------------------------------------------------------------------------
(* The refinement.  A step of next() delivers, drains, or does not show.        *)
LEMMA StepRefines ==
  ASSUME IInv, NEW c \in Callers, NEW t \in BOOLEAN, Step(c, t)
  PROVE  AsStream!Next \/ UNCHANGED AsStream!vars
<1> USE DEF AsStream!vars, streamPhase
<1>1. CASE StepEnded(c, t)
  BY <1>1 DEF StepEnded
<1>2. CASE StepValue(c, t)
  <2>1. AsStream!Deliver
    BY <1>2 DEF StepValue, AsStream!Deliver
  <2> QED BY <2>1 DEF AsStream!Next
<1>3. CASE StepDrained(c, t)
  <2>1. AsStream!Drain
    BY <1>3 DEF StepDrained, AsStream!Drain, IInv, TypeOK, FlagsAgree
  <2> QED BY <2>1 DEF AsStream!Next
<1>4. CASE StepWait(c, t)
  BY <1>4 DEF StepWait
<1> QED BY <1>1, <1>2, <1>3, <1>4 DEF Step

(* Each method is one step of the stream while the iterator lives; once it has *)
(* ended (by throw(), which leaves it open for push() and finish()) none shows. *)
LEMMA NextRefines ==
  ASSUME IInv, [Next]_vars
  PROVE  [AsStream!Next]_(AsStream!vars)
<1>1. ASSUME NEW c \in Callers, NextFirst(c) \/ SetupRejects(c)
      PROVE  UNCHANGED AsStream!vars
  BY <1>1 DEF NextFirst, SetupRejects, fields, AsStream!vars, streamPhase
<1>2. ASSUME NEW c \in Callers, NextLater(c) \/ SetupResolves(c) \/ Resume(c)
      PROVE  AsStream!Next \/ UNCHANGED AsStream!vars
  <2>1. PICK t \in BOOLEAN : Step(c, t)
    BY <1>2 DEF NextLater, SetupResolves, Resume, IInv, TypeOK
  <2> QED BY <2>1, StepRefines
<1>3. ASSUME NEW v \in Values, Push(v)
      PROVE  AsStream!Next \/ UNCHANGED AsStream!vars
  <2>1. CASE done
    BY <1>3, <2>1 DEF Push, AsStream!vars, streamPhase
  <2>2. CASE ~done
    <3>1. AsStream!Accept(v)
      BY <1>3, <2>2 DEF Push, AsStream!Accept, streamPhase
    <3> QED BY <3>1 DEF AsStream!Next
  <2> QED BY <2>1, <2>2
<1>4. CASE Finish
  <2>1. CASE done
    BY <1>4, <2>1 DEF Finish, AsStream!vars, streamPhase
  <2>2. CASE ~done
    <3>1. AsStream!Finish
      BY <1>4, <2>2 DEF Finish, AsStream!Finish, streamPhase
    <3> QED BY <3>1 DEF AsStream!Next
  <2> QED BY <2>1, <2>2
<1>5. ASSUME Return \/ \E err \in {"none", "thrown"} : Throw(err)
      PROVE  AsStream!Next
  <2>1. AsStream!Abort
    BY <1>5 DEF Return, Throw, AsStream!Abort, streamPhase, IInv, TypeOK
  <2> QED BY <2>1 DEF AsStream!Next
<1>6. CASE UNCHANGED vars
  BY <1>6 DEF vars, AsStream!vars, streamPhase
<1> QED BY <1>1, <1>2, <1>3, <1>4, <1>5, <1>6 DEF Next

(* The iterator is a first-in first-out stream: every value pushed before the   *)
(* end comes out once, in order, and nothing comes out after the end.           *)
THEOREM Refinement == Spec => ImplementsStream
<1>1. Init => AsStream!Init
  BY DEF Init, AsStream!Init, streamPhase
<1>2. IInv /\ [Next]_vars => [AsStream!Next]_(AsStream!vars)
  BY NextRefines
<1> QED BY <1>1, <1>2, Invariance, PTL DEF Spec, ImplementsStream, AsStream!Spec

================================================================================

---------------------------- MODULE AsyncPushIterator ----------------------------
(***************************************************************************)
(* util/AsyncPushIterator.ts: the queue between code that pushes values    *)
(* (web socket message handlers, event listeners) and code that iterates   *)
(* over them (for await loops, the pump of a server subscription).         *)
(*                                                                         *)
(* JavaScript runs one synchronous stretch of code at a time, so an action *)
(* is everything a call does up to its next await.  A next() call is an    *)
(* activation that is suspended in one of two places: awaiting the setup   *)
(* function ("setup") or awaiting the shared promise of wait() ("waiting", *)
(* and "woken" once that promise is resolved but the call has not resumed).*)
(* Several next() calls may be suspended at once.                          *)
(***************************************************************************)
EXTENDS Naturals, Sequences

CONSTANTS
  Values,       \* values that are pushed
  Callers,      \* the places that call next(); each has one call at a time
  MaxPush       \* bound: how many values are pushed in all

ASSUME PushAssumption == MaxPush \in Nat

VARIABLES
  initialized,  \* this.initialized
  finished,     \* this.finished
  done,         \* this.done
  error,        \* this.error: "none" when falsy, "thrown", or "teardown"
  queue,        \* this.queue
  teardown,     \* is this.teardown set?
  pc,           \* pc[c]: "idle", "setup", "waiting" or "woken"
  delivered,    \* history: the values next() returned
  aborted       \* history: was the end brought by return() or throw()?

fields == <<initialized, finished, done, error, queue, teardown>>
vars == <<initialized, finished, done, error, queue, teardown,
          pc, delivered, aborted>>

Init ==
  /\ initialized = FALSE
  /\ finished = FALSE
  /\ done = FALSE
  /\ error = "none"
  /\ queue = <<>>
  /\ teardown = FALSE
  /\ pc = [c \in Callers |-> "idle"]
  /\ delivered = <<>>
  /\ aborted = FALSE

---------------------------------------------------------------------------------
(* continue(): resolving the shared promise resumes every call that awaits it. *)
Wake(p) == [c \in Callers |-> IF p[c] = "waiting" THEN "woken" ELSE p[c]]

(* teardownOnce() when this.teardown is t and this.error is e; the teardown    *)
(* function may itself throw, which replaces the error.                        *)
Bug_TeardownKept(t, e) ==
  /\ teardown' = t
  /\ error' \in IF t THEN {e, "teardown"} ELSE {e}

TeardownOnce(t, e) ==
  /\ teardown' = FALSE
  /\ error' \in IF t THEN {e, "teardown"} ELSE {e}

---------------------------------------------------------------------------------
(* The synchronous part of next() after the setup check, for caller c, when    *)
(* this.teardown is t.                                                         *)

\* if (this.error) throw; if (this.done) return: the call settles with no value.
StepEnded(c, t) ==
  /\ error # "none" \/ done
  /\ pc' = [pc EXCEPT ![c] = "idle"]
  /\ teardown' = t
  /\ UNCHANGED <<finished, done, error, queue, delivered, aborted>>

Bug_StepValue(c, t) ==
  /\ error = "none"
  /\ queue # <<>>
  /\ delivered' = Append(delivered, Head(queue))
  /\ queue' = Tail(queue)
  /\ pc' = [pc EXCEPT ![c] = "idle"]
  /\ teardown' = t
  /\ UNCHANGED <<finished, done, error, aborted>>

StepValue(c, t) ==
  /\ error = "none" /\ ~done
  /\ queue # <<>>
  /\ delivered' = Append(delivered, Head(queue))
  /\ queue' = Tail(queue)
  /\ pc' = [pc EXCEPT ![c] = "idle"]
  /\ teardown' = t
  /\ UNCHANGED <<finished, done, error, aborted>>

\* Finished and drained: next() returns through return().
StepDrained(c, t) ==
  /\ error = "none" /\ ~done
  /\ queue = <<>> /\ finished
  /\ done' = TRUE
  /\ TeardownOnce(t, error)
  /\ pc' = Wake([pc EXCEPT ![c] = "idle"])
  /\ UNCHANGED <<finished, queue, delivered, aborted>>

\* Nothing to return yet: await this.wait().
StepWait(c, t) ==
  /\ error = "none" /\ ~done
  /\ queue = <<>> /\ ~finished
  /\ pc' = [pc EXCEPT ![c] = "waiting"]
  /\ teardown' = t
  /\ UNCHANGED <<finished, done, error, queue, delivered, aborted>>

Step(c, t) ==
  \/ StepEnded(c, t)
  \/ StepValue(c, t)
  \/ StepDrained(c, t)
  \/ StepWait(c, t)

---------------------------------------------------------------------------------
(* next() *)

Bug_NextFirst(c) ==
  /\ pc[c] = "idle"
  /\ ~initialized
  /\ pc' = [pc EXCEPT ![c] = "setup"]
  /\ UNCHANGED <<fields, delivered, aborted>>

\* The first call runs the setup function and suspends on its result.
NextFirst(c) ==
  /\ pc[c] = "idle"
  /\ ~initialized
  /\ initialized' = TRUE
  /\ pc' = [pc EXCEPT ![c] = "setup"]
  /\ UNCHANGED <<finished, done, error, queue, teardown, delivered, aborted>>

\* Every later call goes straight on, even while the first awaits the setup.
NextLater(c) ==
  /\ pc[c] = "idle"
  /\ initialized
  /\ Step(c, teardown)
  /\ UNCHANGED initialized

\* The setup resolves, with a teardown function or with undefined, and the
\* first call goes on.
SetupResolves(c) ==
  /\ pc[c] = "setup"
  /\ \E t \in BOOLEAN : Step(c, t)
  /\ UNCHANGED initialized

\* The setup rejects: so does the first call, and nothing else changes.
SetupRejects(c) ==
  /\ pc[c] = "setup"
  /\ pc' = [pc EXCEPT ![c] = "idle"]
  /\ UNCHANGED <<fields, delivered, aborted>>

\* A call resumes from wait() and calls next() again.
Resume(c) ==
  /\ pc[c] = "woken"
  /\ Step(c, teardown)
  /\ UNCHANGED initialized

---------------------------------------------------------------------------------
(* The other methods, called by either side at any time. *)

\* return() by anyone but next() itself; a no-op once done.
Return ==
  /\ ~done
  /\ done' = TRUE
  /\ finished' = TRUE
  /\ TeardownOnce(teardown, error)
  /\ pc' = Wake(pc)
  /\ aborted' = TRUE
  /\ UNCHANGED <<initialized, queue, delivered>>

\* throw(err), err possibly falsy; it does not set this.finished.
Throw(err) ==
  /\ ~done
  /\ done' = TRUE
  /\ TeardownOnce(teardown, err)
  /\ pc' = Wake(pc)
  /\ aborted' = TRUE
  /\ UNCHANGED <<initialized, finished, queue, delivered>>

Bug_PushNoWake(v) ==
  /\ ~finished
  /\ Len(queue) + Len(delivered) < MaxPush
  /\ queue' = Append(queue, v)
  /\ UNCHANGED <<initialized, finished, done, error, teardown, pc, delivered, aborted>>

\* push(value): only this.finished is consulted, so a thrown iterator still queues.
Push(v) ==
  /\ ~finished
  /\ Len(queue) + Len(delivered) < MaxPush
  /\ queue' = Append(queue, v)
  /\ pc' = Wake(pc)
  /\ UNCHANGED <<initialized, finished, done, error, teardown, delivered, aborted>>

Bug_FinishNoWake ==
  /\ ~finished
  /\ finished' = TRUE
  /\ UNCHANGED <<initialized, done, error, queue, teardown, pc, delivered, aborted>>

Finish ==
  /\ ~finished
  /\ finished' = TRUE
  /\ pc' = Wake(pc)
  /\ UNCHANGED <<initialized, done, error, queue, teardown, delivered, aborted>>

---------------------------------------------------------------------------------
Next ==
  \/ \E c \in Callers :
       NextFirst(c) \/ NextLater(c) \/ SetupResolves(c) \/ SetupRejects(c) \/ Resume(c)
  \/ \E v \in Values : Push(v)
  \/ \E err \in {"none", "thrown"} : Throw(err)
  \/ Finish
  \/ Return

Spec == Init /\ [][Next]_vars

(* The event loop runs every resumed call, and a setup function settles.       *)
(* Nobody is obliged to push, finish, return or throw.                         *)
Fairness ==
  \A c \in Callers :
    /\ WF_vars(Resume(c))
    /\ WF_vars(SetupResolves(c) \/ SetupRejects(c))

FairSpec == Spec /\ Fairness

---------------------------------------------------------------------------------
(* Types of the fields and of the suspended calls of util/AsyncPushIterator.ts. *)
TypeOK ==
  /\ initialized \in BOOLEAN
  /\ finished \in BOOLEAN
  /\ done \in BOOLEAN
  /\ error \in {"none", "thrown", "teardown"}
  /\ queue \in Seq(Values)
  /\ teardown \in BOOLEAN
  /\ pc \in [Callers -> {"idle", "setup", "waiting", "woken"}]
  /\ delivered \in Seq(Values)
  /\ aborted \in BOOLEAN

(* No lost wake-up: a call of next() sleeps in wait() only while there is      *)
(* nothing to tell it: no queued value, no finish(), no return(), no throw().  *)
NoLostWakeup ==
  \A c \in Callers :
    pc[c] = "waiting" => queue = <<>> /\ ~finished /\ ~done

(* The setup function runs once: at most one call ever awaits it, whatever     *)
(* calls of next() overlap with it, and teardown is unset until it settled.    *)
SetupOnce ==
  \A c \in Callers :
    pc[c] = "setup" => /\ initialized
                       /\ ~teardown
                       /\ \A d \in Callers : pc[d] = "setup" => d = c

(* The teardown function runs when and only when the iterator ends: no step    *)
(* clears it earlier, and none that ends the iterator leaves it behind.        *)
TeardownAtEnd ==
  [][/\ teardown /\ ~teardown' => ~done /\ done'
     /\ ~done /\ done' => ~teardown']_vars

(* Every call of next() settles once the iterator was finished, returned or    *)
(* thrown: nobody is left hanging in a for await loop.                         *)
CallersSettle ==
  \A c \in Callers :
    (pc[c] # "idle" /\ (finished \/ done)) ~> (pc[c] = "idle")

(* The doc comment of the class (AsyncPushIterator.ts:9) says that the         *)
(* teardown function cleans up what was done during setup: once the iterator   *)
(* has ended, none is left unrun.  The end may come before the setup function  *)
(* has settled, even before the first next(), which sets up an ended iterator. *)
NoTeardownLeftBehind == done => ~teardown

---------------------------------------------------------------------------------
(* The iterator implements the stream of module Stream.  Values that are       *)
(* queued when the iterator ends, or pushed after throw(), are never handed    *)
(* out: to the stream they do not exist.                                       *)
streamPhase ==
  CASE done /\ aborted -> "aborted"
    [] done /\ ~aborted -> "drained"
    [] ~done /\ finished -> "finishing"
    [] ~done /\ ~finished -> "open"

AsStream == INSTANCE Stream WITH
  phase <- streamPhase,
  pending <- IF done THEN <<>> ELSE queue,
  delivered <- delivered

(* Values come out once each, in the order pushed, none after the end, and a   *)
(* finished iterator ends only when drained.                                   *)
ImplementsStream == AsStream!Spec

=================================================================================

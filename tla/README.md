# GraphQLade in TLA+

A verification project for [GraphQLade](../src/README.md), a TypeScript library for
GraphQL servers and clients. TLC model-checks small instances of the modules, TLAPS
proves theorems about them for every value of their constants. `PROJECT.json` lists
the runs, what each definition translates (`map`), the hazards the properties are for,
and the theorems.

    tlc -config MCAsyncPushIterator.cfg MCAsyncPushIterator.tla
    tlapm AsyncPushIteratorProofs.tla

Paths below are relative to `src/src/` unless they say otherwise.

## The system

GraphQLade runs on Node.js: one thread, and code is interrupted only at an `await`, a
timer, an event or a callback. Everything below that is hard is about what happens
between two such points.

| component | state | operations | interacts with | hard behaviour | what makes it correct |
|---|---|---|---|---|---|
| `util/AsyncPushIterator.ts` | flags `initialized`, `finished`, `done`, `error`, `queue`, a shared wait promise, `teardown` | `next`, `return`, `throw`, `push`, `finish` | the web socket client, users' resolvers, `for await` loops | overlapping `next()` calls, an end while the setup is awaited | FIFO, no lost wake-up, setup once, teardown at the end |
| `ws/GraphQLServerWebSocket.ts` | socket state, init flags and promise, `subscriptions` map, timers | message, close and error handlers, pumps, delayed deletes | `GraphQLWebSocketServer` (`subscribe`, `acknowledge`), iterators | handlers interleaving at awaits, 3 s deletes by id, legacy clients that do not wait for the ack, closing in any state | one pump per id, nothing unacknowledged, nothing after close, everything ends |
| `ws/GraphQLWebSocketServer.ts` | set of sockets | `handleConnection`, `close`, `subscribe` | parser, graphql-js | errors become results | never rejects |
| `ws/GraphQLClientWebSocket.ts` | ack promise, `subscriptions`, next id, ack timer | `init`, `subscribe`, message, close and error handlers | iterators, the server's socket | late messages, subscribing on a socket that just closed | every iterator ends with its socket |
| `ws/GraphQLWebSocketClient.ts` | current socket, reconnect delay and its promise, outer iterators | `subscribe` (a retry loop), `close`, `requireConnection` | client sockets, iterators | many loops sharing one reconnect, cancel or close while connecting | one live socket, delay respected, cancelled stays cancelled |
| `util/LRUCache.ts` | map with an index per entry, running index | `get`, `set`, `size` | the parser | eviction by index distance | size bound, recency |
| `server/GraphQLExecutionArgsParser.ts` | parse cache, validation cache | `parse`, `validate` | `LRUCache`, `util/limitDepth.ts`, graphql-js | cached results standing for fresh ones | caching is invisible |
| `http/GraphQLHttpServer.ts` | none | `execute` | parser, graphql-js, user context | mutation check before the cached validation, errors at every stage | only valid, allowed operations execute |
| `server/GraphQLSchemaManager.ts`, `util/mergeResolvers.ts` | the resolvers of a schema | `setResolvers`, inheritance, error handler | graphql-js schema objects | order of explicit, inherited and default resolvers; a throw in the middle | explicit beats inherited beats default |
| `server/GraphQLServer.ts` | - | `bootstrap` | all of the server side | order of the setup steps | the error handler wraps every resolver |
| `util/limitDepth.ts` | - (pure, recursive) | `limitDepth` | parser | fragments, circles, introspection fields | agrees with the depth of the expanded document |
| `read/GraphQLReader.ts` | cache by file name and mtime | `readDir`, `readFile` | the file system | stat before read, a write in between, generations that share the cache | no text from before a generation began |
| `codegen/CodeGenerator.ts`, `util/watchRecursive.ts` | watchers, debounce timer | `run`, `watch`, `write` | reader, introspector, file system | events dropped by the debounce, overlapping generations, introspection fallback | the output follows the last change, or there is a known reason why not |
| `codegen/*CodeGenerator.ts`, `codegen/gql2ts.ts` | - (pure, text) | schema and operations to TypeScript | graphql-js | fragment closure, type conditions, type mappings | names are declared, documents complete, types fit the answers |
| `client/GraphQLClient.ts`, `introspect/GraphQLIntrospector.ts` | - | one HTTP request each | `fetch` | error paths of the response | errors are reported as such |
| `graphiql`, `browser`, `util/*` one-liners | - | - | - | none | - |

The main paths: a client subscription is an outer `AsyncPushIterator` whose retry loop
opens (or shares) a client socket, subscribes to it through an inner
`AsyncPushIterator`, and copies one into the other; on the server, one
`GraphQLServerWebSocket` per connection parses messages, asks
`GraphQLWebSocketServer.subscribe` (parser, validation cache, context, graphql-js) for
an iterator, and a pump copies that iterator into the socket. HTTP requests take the
same parser and caches and then execute once.

## Plan

In order of importance. Every item is done; what is left open is named with it.

1. `Stream`, `AsyncPushIterator`: the queue everything asynchronous goes through. Refinement proved.
2. `LRUCache`, `LRUCacheUse`. Size bound and recency proved.
3. `GraphQLServerWebSocket`: the server's end of a connection. Its invariants and both action properties proved.
4. `GraphQLWebSocketClient`: the reconnecting client, with the connection part of `GraphQLClientWebSocket`. Its invariants proved.
5. `GraphQLWebSocketSession`: both ends of a connection over two channels, implementing `Subscription`. Refinement and, with everybody prompt, `NobodyIsStray` proved.
6. `GraphQLServing`: parser, HTTP and web socket servers on two caches, implementing `UncachedServing`. Refinement proved.
7. `SchemaManager`: default, inherited and explicit resolvers, error handler, failures half-way. All four invariants proved.
8. `CodeGeneration`: reader, watchers, debounce and overlapping generations. All three invariants proved.
9. `Documents`, `CommonCode`, `ServerCode`, `ClientCode`, composed in `Operations`: what is generated, and the depth limit. All four invariants proved.

Bounds are always named constants: `MaxPush`, `MaxIndex`, `MaxStarts`, `MaxMessages`,
`MaxSockets`, `MaxUses`, `MaxSubs`, `MaxValues`, `MaxChanges`, `MaxGenerations`. No
module has a `RECURSIVE` operator: what is recursive in the code is a recursive function
or the closure of a step (`Documents.Closure`).

## Modules

### `Stream`, `AsyncPushIterator`

`Stream` is what an iterator promises: accept while open, deliver in order, end when
finished and drained, or abort and drop the rest.

`AsyncPushIterator` has the class's fields as variables and one action per method. A
call of `next()` is an activation: `NextFirst` runs the setup function and suspends;
`NextLater`, `SetupResolves` and `Resume` run the synchronous part, whose four outcomes
are `StepEnded`, `StepValue`, `StepDrained`, `StepWait`. The shared promise of `wait()`
is the set of callers with `pc = "waiting"`; `continue()` is `Wake`. The history
variables are `delivered` and `aborted` (`done` does not say which way the end came).
The setup may settle in any way at any time, including after the iterator has ended.

Runs. `iterator` (three callers, two values, three pushes: enough for two sleepers to
race for one value while a third ends the iterator) checks the invariants, the action
property, termination of calls and the refinement. `iterator_leak` shows that
an iterator that ends before its setup function has settled, even before the first
`next()`, is left with a teardown function that nobody runs; the class comment promises
that it cleans up. (The trace is the shortest one: `throw()`, the first `next()`, which
does not look at `done`, then the setup settles.) Fairness: the event loop resumes woken calls, and the
user's setup function settles. Nobody is obliged to push or to end an iterator, so
`CallersSettle` speaks of calls made on finished or ended ones.

Proofs (`AsyncPushIteratorProofs`). The inductive invariant `IInv` is `TypeOK`,
`NoLostWakeup`, `SetupOnce` and `FlagsAgree`: an error or an abort implies `done`, and
nothing is suspended and no teardown exists before the first call. `FlagsAgree` is
needed because `SetupOnce` alone does not exclude a second first call, and because the
refinement must tell a drained from an aborted end. From it follow `TeardownRunsAtEnd`
(an action property) and `Refinement`: each method is one step of `Stream` or a
stutter; after `throw()`, which leaves `finished` unset, pushes are stutters because
the stream maps the queue of an ended iterator to nothing. Assumption used: none beyond
the module's constants. Liveness (`CallersSettle`) is model-checked only.

### `LRUCache`, `LRUCacheUse`

`LRUCache` has no variables: a cache is a record of its map and its running index, and
`Touch`, `Insert`, `Evict` and `Put` are what `get` and `set` do to it, so that a
component can own several. `LRUCacheUse` is any sequence of calls on one cache, with
the history `last` of each key's last use.

Runs. `lru` (four keys, three places, eight calls) checks the size bound and recency.
The cache stops only because calls are bounded
(`CHECK_DEADLOCK FALSE`).

Proofs. `GraphQLServingProofs`, which owns two caches, begins with facts about the
operators; the key one is a counting argument (`Window`): entries have distinct indexes (`DistinctIndexes`), the survivors'
indexes lie in a window of `maxSize` numbers, hence there are at most `maxSize`. It
uses `MaxSize \in Nat` and the library's `FS_Injection` and `FS_Interval`.
It extends `LRUCacheUse` as well, adds that an entry's index is the key's last
use, and proves `SizeBounded` and `RecentKept` for all keys, values and sizes.

### `GraphQLServerWebSocket`

One socket of the server. Handlers run to their first await in the action that
receives the message (`ReceiveInit`, `ReceiveOperation`, `ReceiveInvalid`); what comes
after `requireAck()` is parked in order and resumed by `ResumeSubscribe`,
`ResumeComplete` or `ResumeRejected`. `subscriptions` is the map in insertion order,
holding which start of an id (`Subs`) it has; `stage` is where each start's promise
and pump are; `expiry` the pending 3 s deletes; `completing` the complete handlers that
await a subscription that has not settled; `sweep` the loops of the close and error
handlers, which go through the live map one await at a time. `protocol` is chosen
initially and covers both protocols and an unsupported one. Iterators are abstracted to
when they yield, end, throw or obey `return()`; they may deliver one more value after
`return()`.

The order of JavaScript's queues is kept as far as it matters: a settled promise's
continuations run before the next timer, close event or answer of the application
(`Quiet`), but a message or an error of the same chunk of data may come first.

Run `server_socket` (two ids, each started at most twice, four messages) checks five
invariants, two action properties and two liveness properties. Two starts per id are
enough for an old and a new subscription of one id to meet; four messages are init,
two operations on one id and one on the other, or three on one.
Fairness, beyond the event loop's own steps: `acknowledge` and
`subscribe` settle, iterators obey `return()`, and ws closes a closing socket (it has
a timeout of its own). Without the second, the loop of the close handler blocks at the
first subscription that never settles, and later ones are never returned. A socket
that has closed stops (`CHECK_DEADLOCK FALSE`).

Proofs (`GraphQLServerWebSocketProofs`). One inductive invariant proves nearly all. Its
core is `MapAgrees`: the ids in the map are distinct, whatever is alive is in the map,
whatever was never started is not, and a pending delete is for a subscription that is
still there. `OnePumpPerId`, `LiveIsRegistered` and
`DeleteHitsItsOwn` each follow from it, and none is inductive without the others: a
delete by id is harmless only because ids are distinct, and ids stay distinct only
because `subscribe` looks into the map at the moment it resumes. `AckAgrees` and
`NothingToResume` tie parked handlers to the state of the acknowledgement, which
`SubscribedOnlyAcknowledged` and `NoStartAfterClose` (an action property) need. The map
is a sequence; `DeletedFacts`, `AppendFacts` and `CurrentFacts` are what the code does
to it. On top of that, `WireOrder` needs `WireInv`, which relates the wire to the
stages: the subscriptions of an id start one after the other, each when those before it
are no longer alive (`InOrder`, from `MapAgrees`), and the last message of an id is of a
subscription that has started, and its last word of one that is over (`SentAgrees`). So
whoever sends is the latest one of its id (`LatestSpeaks`). `WireSteps` reduces the
actions to what they do to the two. The liveness properties are model-checked only.

### `GraphQLWebSocketClient`

The reconnecting client. Each subscription is an outer iterator (`outer`: new, open,
finished, over), a run loop (`pc`: where between two awaits it is, `at`: which socket it
uses) and the inner iterator it reads from (`inner`: its setup pending, returned during
the setup, live, ended, or the failure it throws). Shared are the sockets' states and
their ack promises, `current` (`this.graphqlSocket`), the delay and whether its promise
is pending. `remote` is where the server has the subscription. Results that stream
through are left out: `AsyncPushIterator` is about them. Failures are of three kinds:
normal closures (1000, 1005), passing ones (1006, 1012-1014, an error event), and fatal
ones (any other code, or none), which `shouldRetry` tells apart. Any close event may
carry any of them.

As on the server, continuations run before the next event (`Quiet`), while the consumer
and the application may act at any time. `lateMessages` is chosen initially: sockets of
ws deliver messages that arrive during the closing handshake, browsers' do not.

Run `client` (two subscriptions, two sockets one after the other, delays from 2 to 7):
at most one live socket; no subscription on a socket that has closed, if sockets obey
the standard; an open outer iterator has a loop, a waiting loop a timer; the delay stays
within the sum of its two documented bounds; every attempt settles. Two loops are enough to race for one socket, two
sockets for one to be closing while its successor lives and dies. When the sockets are used up,
creating one fails, which the code must expect of `createWebSocket` anyhow. Fairness: the event
loop's, the acknowledgement timer, and that a closing socket gets closed. Nothing is
asked of the server. `CHECK_DEADLOCK FALSE`: it may all be over.

Run `client_cancel` shows a disagreement: a subscription returned before its connection
is acknowledged is sent to the server all the same and stays there. `ReconnectsForOpen`,
`ReconnectsIfAsked`, `NoneOnClosedSocket` and `DelayWithinMaximum` state others, see
*Divergences*.

Proofs (`GraphQLWebSocketClientProofs`), one lemma per action. `OpenHasLoop` and
`WaitersHaveTimer` are inductive. `OneLiveSocket` needs `SocketsInOrder`: sockets are
created in order and the current one is the last, so creating one makes the newest one
current. `NoneOnClosedStandardSocket` needs what the loops know across their awaits
(`Standard`): the socket a loop was acknowledged on is still the current one, or the
current one is not acknowledged yet (`AckedIsCurrent`), and an inner iterator about to
register does so on a socket that is not closed (`SetupBeforeClose`). Both rest on
`Quiet`: no event comes between a settled promise and its continuation. Assumptions:
`ClientAssumption`; for the delay also a multiplier of at least one, without which it
may fall below the minimum. `AttemptsSettle` is model-checked only.

### `GraphQLRequests`, `GraphQLServing`, `UncachedServing`

`GraphQLServer` gives its HTTP and its web socket server one parser. `GraphQLServing`
is `execute()` and `subscribe()` on that parser's two caches: a request is judged
without an await, in one action per outcome (`RefuseMethod`, `RefuseBody`,
`RefuseArgs`, `RefuseMutation`, `RefuseInvalid`, `Accept`), each with what it leaves in
the caches; then its context and its execution are awaited. `GraphQLRequests` has what
graphql-js says of a text (the constant `Document`) and of an operation name.
`UncachedServing` is the same service without caches: one condition, `Acceptable`.

Run `serving` (two clients; five texts: good, with a mutation, invalid, too deep,
unparsable; caches of two places; four uses of the parse cache, so that the caches
fill, evict and evict differently) checks that the caches are honest, that no
mutation comes through GET, and that caching is invisible. The run ends when the uses
are spent (`CHECK_DEADLOCK FALSE`). Over GET, unlike the validation, the mutation check
depends on method and operation name, and precedes the cache.

Proofs (`GraphQLServingProofs`). `IInv` is: both caches are well-formed (see
`LRUCache`), bounded and honest, and what a
client waits for was acceptable when it came. It follows from the facts about `Touch` and `Put` alone; honesty makes the
cached answers equal to fresh ones (`CachesAnswer`), which is the refinement. It uses
`RequestsAssumption`: the types of requests and documents, and nothing about what
graphql-js decides.

### `Subscription`, `GraphQLWebSocketSession`

`Subscription` is what one subscription promises from end to end: results in order and
without gaps, a normal end only after a normal end of the source with everything
received, and in all other cases a break.

`GraphQLWebSocketSession` is one acknowledged connection: the client's map, iterators
and queues at one end, the server's map, stages and pumps at the other, and a FIFO
channel each way that carries messages and close frames. Both ends delete an entry of
their map three seconds after they are done with it (`ClientDelete`, `ServerDelete`). A
message that finds no entry closes the connection with 4409 (`closedBy` remembers who did:
one of the ends, or "outside", an application or the network),
and with it all other subscriptions. Time is not counted: `Prompt` names who answers
within those three seconds, and the deletes wait for them. What precedes the
acknowledgement is in the two modules above.

The setup function of a client's iterator is two awaits, on an acknowledged connection,
too: `FirstNext` calls it ("setup"), `Subscribe` is what comes after `requireAck()`
("subscribed"), and with `SetupResolves` the iterator has its teardown function ("open").
An iterator that is ended in between (`ReturnInSetup`) is "abandoned": the setup goes on,
sends `subscribe` all the same, and nobody runs the teardown function. Continuations run
before the next message or timer (`Quiet`), but the consumer may cancel between them.

Run `session` (two subscriptions, two results in all, everybody prompt) checks that
nobody is closed on, that every subscription implements `Subscription`, and that both
ends of a subscription end together. `EndsMeet` excepts, by name, the abandoned
subscriptions: their sources run on until the connection ends, which is the finding of
`client_cancel` on a connection that is acknowledged. Two subscriptions are enough for one to take down
the other, and for the close handler to wait for one before it reaches the next; two
results for order and for one to be under way when its subscription is cancelled.
Fairness is that of `SystemStep` as a whole, weaker than fairness of its parts. It is
enough because only finitely much of it can happen; nobody is obliged to send, end,
subscribe or cancel. It may all be over (`CHECK_DEADLOCK FALSE`). The run
takes three to four minutes, most of them for `EndsMeet`.

Proofs (`GraphQLWebSocketSessionProofs`), for any number of subscriptions and results;
assumption: that ids are numbers up to a bound (`SessionAssumption`). Channels are sequences; `Appended` and `Taken` say
once what a message more or less changes in them, in terms of `Has`, `NoneAfter`,
`HasValue` and `Ordered`. There are two inductive invariants. `IInv` needs nobody to be
prompt: per subscription, what was consumed, what waits in the queue and what is under
way are the results that the server has sent, without gap or overlap (`Queued`,
`UnderWay`), its completion comes after its last result (`Completed`), and every iterator
that is read is registered at its client (`Registered`). From it follows `Refinement`:
even a connection on which deletes come too early loses, reorders or completes nothing,
it breaks. `PInv` is about who knows of what if network, application and consumer all
answer before the deletes (`EverybodyIsPrompt`): whatever is under way finds its
subscription at the other end (`ClientExpects`, `ServerExpects`), the server is told of every iterator that has run its
teardown function (`TornDown`, `EndsAreTold`) and a client of every source that has ended, and deletes are scheduled for what is over (`Scheduled`).
`NobodyIsStray` is a part of it that is not inductive alone; `PromptIsEnough` is the
theorem. `EndsMeet` is liveness and stays with TLC.

### `Schemas`, `SchemaManager`

`Schemas` is a schema as graphql-js shows it to the code; the modules about generated
code use it, too.

`SchemaManager` is `GraphQLServer.bootstrap()` driving the schema manager: default
resolvers, inherited ones, explicit ones, the error handler, and the resolvers of the
SDL. `set` has the function at each place, a place being a type, a field (or enum value,
or the type's own function) and one of the slots `resolve` and `subscribe`; `wrapped`
are the places with the error handler around. Inheritance goes type by type, in any
order (`BeginType`), and interface by interface, in the order of the declaration
(`InheritFrom`); explicit resolvers are set type by type (`SetExplicit`), and where the
code throws, what was set before stays set. `mergeResolvers` folds a list of maps.

Run `schema` (a schema with every kind of type and two interfaces, one implementing the
other; all resolver maps of two entries, all of four entries of types that inherit from
each other, all lists of two maps of one entry; every option) checks where each resolver
comes from, that the error handler is around every one of them, how early an unknown
type is refused, and that a map with the generated type `Resolvers`
(`ServerCode.TypedResolvers`) is refused for nothing but the parts that `Refusable` names:
the marker `__isGeneratedResolvers`, an explicit `undefined` for a type (all an input
object may have), and enum instances in a list. The maps have each of them. Four entries are enough for a type with
two interfaces, one of which inherits from the other, next to an unknown type. The
server is up or has failed at the end (`CHECK_DEADLOCK FALSE`).

Proofs (`SchemaManagerProofs`), for every schema and all maps. `IInv` is `SetTyped`,
`RestIsLeft` (the interfaces still to come are the last ones of the type's list) and
`FieldsAreSet`: what is at each field now, in terms of the interfaces passed so far
and the types not begun with. `Precedence` is this at the end. `EveryResolverIsHandled`
and `UnknownTypesFailEarly` have invariants of their own. `TypedResolversAccepted`
(`Accepting`) needs what a list of maps is merged into, however long it is:
`mergedResolvers` is a recursive function, and what it computes is shown by a minimal
counterexample instead of an induction. Of the numbers of maps after which the merged map
would have an entry of the wrong form (`Harmless`), there would be a least one
(`LeastNumber`); it is not 0, and one typed map
more does no harm, if it has none of the parts that `Refusable` names (`TypedInList`,
`MergedHarmless`).
Assumptions: `SchemaAssumption`, that the interfaces of a type are a sequence of
interfaces whose fields the type has, as graphql-js demands of a schema;
`ResolversAssumption`, that lists of maps are finite sequences.

### `CommonCode`, `ServerCode`, `ClientCode`, `Documents`, `Operations`

What is generated, as sets of names declared, imported and referred to, and the types of
selection sets. A name is a tuple such as `<<"R", t>>`, never a string: that two of
them could collide as strings is not represented. The first three modules follow the
generators of the same names. `Documents` has operations and fragments, `limitDepth()`
(`Traverse`), the expanded document as its reference, and what executing a document
answers. `Operations` composes them: generate the server, generate the client, send what
the client has generated or a document as it is.

A document is a function from positions to selections, whose own selections are
positions again. What the code does by recursion over selections is then the closure of
a step: `Closure(step, start)` is where `start` leads to. A call of `limitDepth()`'s
`traverse()` is a visit `<<selection, depth, fragments>>`, and `Traverse` has all visits
up to those that throw. The type of a selection set is made of alternatives at places
`<<selections, object type>>` (`Generated`), each with its fields and the names of the
fragments it is intersected with (`ForObject`); `MaybeLevels` and `Collect` stay
recursive functions, as in the code.

Run `operations` (a query and a subscription that share three fragments: up to three of six
kinds of selection or all of them, which is enough for any two to meet a third, two ways to select from a union, three bodies for each of two
fragments, which may lead to each other in circles; two schemas with different `@ts`
directives on types of three kinds; depths 1 and 2) checks
that generated code refers to nothing undeclared, that the documents sent have exactly
the fragments they need, that `limitDepth` agrees with the depth of the expanded
document, and that the generated types fit the answers. For the last, `Answers` goes
through all objects there may be in the answers to an operation, as triples of the
alternatives that describe the object, the selections that are executed on it, and its
type; `FitsHere` compares fields, `__typename` and nullability, list level by list level,
with `CollectFields` of the GraphQL specification. `TypesFitAnswers` leaves out documents
the generator does not support; they are listed at `Supported`. It all ends
(`CHECK_DEADLOCK FALSE`), and takes more than two minutes.

Proofs (`OperationsProofs`), for all schemas, documents, limits and type mappings.
Assumptions: `SchemasAssumption` and `DocumentsAssumption` say what graphql-js lets
through as a schema and as a document (finite, references to types of the right kind, an
object is possible for exactly the interfaces it names), `OptionsAssumption` that limits
are numbers and mappings say a type. The inductive invariant `IInv` is simple: the server
and the client are what was generated from the schema and the document, the client only
from a valid one, and requests are judged as `limitDepth()` does. The work is in the
lemmas about what is generated. They rest on two facts about closures, `ClosureFacts` (a
closure has the start and is closed) and `ClosureIn` (it lies in every closed set), which
are proved for finitely many places by a counterexample with the fewest places left.

- `LimitIsExact`: a visit and an occurrence in the expanded document correspond
  (`BelowIsOnward`), so an accepted document stays within the limit; that it has no
  circles is because the visits below a fragment carry its name (`AcceptedReach`). The
  other way round, every visit is of a selection of the expanded document, at its depth
  and within the fragments it carries (`WithinIsAccepted`), so that none throws.
- `DocumentsStandAlone`: `collect()` adds names as it goes, so its result is put as the
  least set that has the names so far and what the names to come lead to without passing
  them (`Wanted`), which is shown to obey its recursion, and to be the only one that does.
- `NamesDeclared`: reference by reference; mapped types are imported or ambient, others
  are declared by the walk that the kind of the type calls for.
- `TypesFit`: every triple `Matches`: the selections of its alternatives together are
  those that are executed, and there may be such an object. Then the alternatives that are
  intersected have exactly the fields that are collected (`IntersectedFacts`), because
  the generator decides conditions as the server does (`ConditionsAgree`), and fields with
  one key are the same field (`OneNamePerKey`, from validation), so that triples lead to
  triples that match (`BelowMatches`). That they are nullable at the same levels is a
  minimal counterexample over the levels (`LevelsAreNullable`).

### `CodeGeneration`

`CodeGenerator` in watch mode with the reader, the watchers and introspection. A
generation is a record that goes from `stage` to `stage`, an await of `write()` at each
step; several may be under way, because the debounce callback does not wait for the
one before. `ReadDir`, `StatFile`, `ReadFile` and `FinishReadFile` are the awaits of
the reader, whose `cache` the generations share. The environment changes files,
removes and restores folders, and changes what the endpoint answers: nothing of use, data
that is no schema, or a schema. The reader goes through the folders next to each other
side by side (`ReadDir`). The clock counts changes
and is both the new text and the new mtime of a file: two writes never have the same
mtime (with coarser file times the cache could not tell them apart, and says so nowhere).
`Notice` is the callback of a watcher, `Fire` and `FireForNothing` are the timer.

A folder moves with all that is in it, folders in it included (`Above` is where a path
lies: the least set that leads from it to a directory).

Run `watch` (a schema file, an operations file, a schema file in a folder in a folder,
which both come and go, a file of another type; server and client, client with introspection file, and a
single run from an endpoint; two changes, as the clock starts at 1 and `MaxChanges` is 3;
two generations at a time) checks freshness
of what is read, that changes are reflected, and that with an introspection file the
client is generated from the endpoint's last answer, or not at all if that was no schema
(`FallbackIsLastAnswer`). Of two overlapping generations, the slower may write the older
answer to the file; the property excepts them until a generation on its own has used an
answer again. That it holds again from there takes more generations than the run has
changes for, and is shown by the theorem.
`ChangesAreReflected` holds unless a hurdle was in the way since the last generation
that began alone: the change came before the watchers were set up ("early"), the
endpoint had no schema ("endpoint"), generations overlapped ("overlap"), or the last
event was for a file of another type ("other"). Each is a way the code may really miss
a change. Two changes are enough to change a file, or the endpoint, during the generation
that a first change has led to, and for a second generation to begin during it. `watch_ignored` shows that "other" contradicts the changelog: a
file of another type does not go unnoticed but cancels the regeneration that the schema
has asked for. Setting up the watchers is one step, `disableCaching` is left
out (it is the case without cache), and so are the files of directive definitions.
Without `watch` it ends (`CHECK_DEADLOCK FALSE`).

Proofs (`CodeGenerationProofs`), for all files, folders, options and numbers of changes
and generations. Assumptions: `CodeGenerationAssumption` (the bounds are numbers and the
markers are no numbers) and `LayoutAssumption` (every path is in a directory or folder,
and what exists to begin with is in what exists); folders need not form a finite tree,
because `Above` is defined without recursion and reasoned about by its minimality
(`AboveLeast`). There is one inductive invariant for each property.

- `ReadsAreFresh` is not inductive; `IInv` adds that the cache is honest
  (`CacheIsHonest`: a document is never older than the time it is cached under, because
  `stat` precedes the read) and that what a generation has noted but not used yet is not
  later than the files.
- `FallbackIsLastAnswer` needs `LInv`: one generation runs unless some have overlapped
  since the last answer used by one on its own (`OneRuns`), the file has the last answer,
  unless a generation is about to write it (`LastIsKept`), and that generation has the
  last answer in hand, as has one that works on the operations (`HasLast`).
- `ChangesAreReflected` needs `RInv`: what exists is in what exists (`Rooted`) and is
  watched, or a watcher is about to report a folder it is in (`Covered`); the cache holds
  nothing newer than the file (`CacheIsNotLater`), so that with `CacheIsHonest` a cache
  hit is the file; and whenever everything that happened has been reported and has led to
  a generation (`Quiet`), the one that runs describes the files as they are (`Faithful`),
  or the output does. The argument: a change that leaves things quiet was reported by
  nobody, hence by `Covered` not in a watched directory; every step of a generation keeps
  it faithful, and it fails only if the files do not build.

## Divergences

Runs that expect a violation show three: `iterator_leak`, `client_cancel` and
`watch_ignored`, described above and in `PROJECT.json` `findings`. Others were met while
modelling and have no run of their own:

- The LRU window is counted in uses, not in keys, so repeated hits of one key evict
  others early; `src/docs/server-side/performance.md` speaks of an LRU cache of a given
  size (`KeepsMostRecent` in `LRUCacheUse`).
- The client reconnects for subscriptions that have ended, against the comment on
  `minReconnectDelay` (`ReconnectsForOpen`), and never reads `autoReconnect`
  (`ReconnectsIfAsked`).
- `requireConnection()` reads `this.graphqlSocket` again after its await: with a late
  acknowledgement on a closing socket of ws, a loop may subscribe on a newer socket that
  has closed already and wait for ever (`NoneOnClosedSocket`; browsers' sockets deliver
  nothing while they close).
- If iterators take more than three seconds to obey `return()`, a client that cancels
  may have its whole connection closed with 4409 by a result that is still under way
  (`NobodyIsStray` with `Prompt <- SlowApplication`).
- Subscribe functions are not wrapped by the error handler, nor are the resolvers of the
  SDL, which are set after it (`EveryResolverIsHandled` says so);
  `src/docs/server-side/error-handling.md` speaks of resolvers only.
- The generated type `Resolvers` lets through what the schema manager refuses, the
  exceptions in `TypedResolversAccepted` (`codegen/ServerCodeGenerator.ts:132-157` against
  `server/GraphQLSchemaManager.ts:145-147, 176-190`): `undefined` as the entry of a type,
  of an input object, too (`User: undefined`, `Filter: undefined`); the marker
  `__isGeneratedResolvers`, which is no type of the schema; and instances of
  `GraphQLEnumType` in a list of maps, because merging spreads them into records.
- The comment on `maxReconnectDelay` (`ws/GraphQLWebSocketClient.ts:62-63`) says "Maximum
  delay to wait before reconnection"; `increaseReconnectDelay()` (`:301-308`) adds the
  random part after `Math.min()`, so that the delay may pass it by up to
  `minReconnectDelay` (`DelayWithinMaximum`).
- The comment on `introspection.file` (`codegen/CodeGenerator.ts:60-63`) says "Write
  introspection to this file when successful. Also used as fallback in case introspection
  via URL fails". An answer that is no schema overwrites the file as well (`:366-383`);
  the schema that was there is gone, and every generation fails until the endpoint
  answers with a schema again. `FallbackIsLastAnswer` says what the file has instead.

## Not modelled

- graphql-js, ws, `fetch`, the file system and the watchers of TypeScript appear as the
  choices they leave to their caller. In particular, whether a query is valid is a
  function of its text, and the introspection endpoint answers or does not.
- `client/GraphQLClient.ts`: named requests, headers, `errorFilter`; it has no state of
  its own. What `post()` makes of an answer is in `CodeGeneration`.
- In the generators: descriptions, layout, order and spelling of names; the files of
  directive definitions that `CodeGenerator` writes.
- Parsing of messages: a message is valid or not.
- `util/getProjection.ts`, GraphiQL, the entry points and one-line helpers: stateless.

What stays with TLC, because TLAPS does not reach it, is liveness under fairness:
`CallersSettle`, the two liveness properties of `server_socket`, `AttemptsSettle` and
`EndsMeet`. Every invariant and every action property of the passing runs, and every
refinement, is proved.

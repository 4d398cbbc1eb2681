# TLA+ models of the data-plane core

This directory holds the specifications kept beside the stage library in `src/src` (namespace
`adl::axp::core`): models of the stages whose behaviour is hard to test, the TLC configurations that
check them on small instances, and machine-checked proofs of what must hold on every instance.

## 1. The system

The library is a kit of *stages*. A stage has named sinks and sources; a source is wired to the sink of
another stage, and a message is passed by calling `on_message` on it. There is no scheduler: a message
travels through a chain of stages on the thread of whoever emitted it, until a stage hands it to a queue,
an `io_context` or a thread of its own. A gateway is a wiring of such stages, for instance

    HTTP server -> validation -> filters -> load balancer -> throttling -> HTTP dispatcher -> HTTP server

| component | state | operations | how it interacts |
|---|---|---|---|
| HTTP server (`stages/http_server_stage`) | installed routes, a counter, per request a pointer to the uWS response | `configuration_in`, route handler, `onData`, `onAborted`, `on_message` (response) | emits requests; is called back with responses, maybe by another thread |
| Request validation (`stages/http_validation_stages`) | the `_valid` flag of every validator, shared by all who look a specification up | `validate`, `add_*`, stage `on_message` | reads `KeyComplexValueStore` |
| Key/value store (`services/store_services`) | single values, lists and sets with a type per key | `add*`, `get*`, `contains_in_set` | read by filters and load balancer, filled by whoever configures |
| Filters (`stages/filter_stage`) | none | `on_message`, white- or blacklisting | reads the store |
| Round robin load balancer (`stages/load_balancer_stages`) | last index of each pool | `on_message` | reads the store |
| In-process load balancer (same directory) | an atomic index | `on_message`, from any thread | picks one of N outputs |
| Queue stage (`stages/queue_stages`) | a `folly::ProducerConsumerQueue` | `on_message` (producers), `run` (worker), `stop` | decouples threads |
| Throttling (`stages/throttling_stages`) | enforcer: last known verdicts; builder: throttlers with their logs and the verdicts to be sent | `on_message`, `on_throttle_state_message`, `flush_updates`, configuration | two stages on two threads, joined by queues in both directions |
| HTTP dispatcher (`stages/http_dispatcher_stage`) | pool of connections; per connection a state machine, a write queue, a read queue, a buffer | `on_message`, the posted handler, six completions | asynchronous Beast/Asio operations, continuations |
| Configuration messages (`event_processing/messages`) | a promise | `on_complete`, `on_error` | from sender to stage |
| TCP server (`stages/tcp_server_stage`) | an acceptor, every connection ever accepted | accept and read loops, `on_message` (response) | handlers of an `io_context`; any number of writes at a time |
| Delay (`stages/misc_stages`) | a thread per message | `on_message` | lets messages overtake each other |
| JWT decoder and validation (`stages/jwt_*`) | none | `on_message` | read a token from the message, write its claims to it, choose an output |
| Augmentors (`stages/message_augmentor_stage`) | configuration | concatenate, extract tokens | write fields of the message |
| Routers, broadcast (`stages/misc_stages`) | none | `on_message` | forward by type; hand one object to several stages |
| Dynamic message (`event_processing`) | fields, typed groups | setters and getters, which may throw | what all stages share |
| UDP server, sinks, framework | see `PROJECT.json` | | section 7 |

What makes the system hard: continuations passed through several callbacks (a request can be lost or
answered twice), operations of a connection completing in any order or failing while others are pending,
stages shared by threads, verdicts used after they have become stale, pointers to responses of clients that
have gone, flags that outlive a message, exceptions thrown half way through a message out of functions declared
`noexcept`. `PROJECT.json` lists each of these at its line with the property
that covers it.

What makes each component correct, in a sentence: the *dispatcher* answers or drops every request once, with its
own response; the *queue* is a bounded FIFO; the *in-process balancer* rotates and stays in its array;
*throttling* lets through no more than a window allows, as far as its verdicts are current; *validation* judges
a request by its own fields only; the *round robin* gives every endpoint its turn; the *filters* keep out what
they once kept out; the *server* gives an answer to the client that asked; the *TCP server* answers whoever
stays, with bytes of its own; the *gateway* of server and dispatcher serves every client it does not say is
disturbed; the *message stages* leave on a message what its text and its token say, and send it where these
lead.

## 2. Modules

| module | models | notes |
|---|---|---|
| `HttpConnection` | `HTTPConnectionStateMachine` + `Connection` | a connection is a record, every operation of the machine an operator on it |
| `HttpDispatcher` | `HttpDispatcherStage` | extends `HttpConnection`; one action per handler that runs on the io thread |
| `BoundedFifo` | abstract specification of a bounded FIFO | no code; what the queue promises |
| `MPMCQueue` | the queue stage | loads and stores of the folly queue (external) are steps; implements `BoundedFifo` |
| `InProcessLoadBalancer` | `InProcessRoundRobinLoadBalancerStage` | each access to the atomic is a step |
| `SlidingLog` | `SlidingLogThrottler` | pure operators |
| `Throttling` | enforcer, state builder, the queues between | extends `SlidingLog` |
| `RequestValidation` | validation stage, validators, `KeyComplexValueStore` | reset, visit and check of a section are steps |
| `KeyValueStore` | `KeyValueStore` | writers as actions, readers as predicates (does it throw?) and values |
| `PresentAbsentFilter` | `FilterPresentAbsentStage<bool>` | extends `KeyValueStore`; the output of a message |
| `RoundRobinLoadBalancer` | `RoundRobinLoadBalancerStage` | extends `KeyValueStore` |
| `StorePipeline` | whitelist, blacklist and balancer wired in a row | composes the three above over one store |
| `HttpServer` | `HttpServerStage`, `ConfiguratorSink` | uWebSockets is external |
| `RequestService` | abstract specification of a request/response service | no code; what a gateway promises its clients |
| `Gateway` | server and dispatcher wired to each other | instances of both; implements `RequestService` |
| `TcpServer` | `TcpServerStage` with `DelayStage` behind it | one `io_context` as a queue of handlers; a write is several writes of the socket |
| `Maps` | `std::map`, `std::unordered_map` | external; assignment to one key, and of all entries of another map |
| `DynamicMessage` | `DynamicMessage` | operators on a record; a predicate beside each getter that may throw |
| `UrlParameters` | `extract_query`, `extract_path_parameters` | pure, on sequences of characters |
| `Augmentors` | both augmentors and the loop of their stage | a fold over the characters |
| `JwtStages` | decoder and validation stage | each the set of its outcomes |
| `MessagePipeline` | routers, broadcast; the handler that makes a message, augmentors and JWT stages behind each other | extends the four above; `calls` is the chain of direct calls still to be made |
| `MC*` | constants for TLC | |
| `Folding` | lemmas: induction over numbers, folds, functions that call themselves | no code; what the proofs about loops rest on |
| `*_proofs` | theorems and proofs | section 5 |

Exact line ranges are under `map` in `PROJECT.json`. Operators marked "Mutant" in a comment are plausible
bugs: each property is checked to fail when the named definition is replaced by one of them.

### How state and actions correspond

*Dispatcher.* `conn[e]` is the `HttpConnection` of an endpoint. `resolveFor`, `connectFor`, `writing` and
`reading` are the continuations of the asynchronous operations under way; `wire` and `buffer` are the
responses the server still owes and those already received. `Handle*` are the branches of the lambda that
`on_message` posts, `ResolveDone`, `ConnectDone`, `WriteDone`, `ReadDone` and their `...Failed` twins are the
completions, each including everything the continuation calls. A response is identified with the
request it answers. `on_write` in the code copies a queue entry into a local, starts `async_write`
with a reference to it and returns; the bytes that go out are undefined, which `BytesOf` expresses.

*Throttling.* `toBuilder` and `toEnforcer` are the queues between the stages, `updates` is
`_updated_throttlers`, `history` and `current` are history variables. `is_allowed` compares with `<=` after
the request was logged, so a window lets through one request more than `allowed_count`; the model keeps
the comparison, and `RateBound` states the bound the code has. `on_add_throttler` and `on_update_throttler`
answer an unknown throttler type with success and do nothing: also kept.

*Validation.* `valid[s]` is the set of validators whose `_valid` is true. The three section classes are one
class written three times; `ValidateHeaders`, `ValidatePath` and `ValidateQuery` are one set of steps, and
`section[t]` says which of them is under way.
Exceptions that leave a `noexcept` function end the program (`running`).

*Store pipeline.* A reader that throws is told by the predicate beside it (`Gets`, `HasAt`, `CanSearch`).
`Select` moves the index even when the endpoint turns out to be incomplete and the message is swallowed.

*Server.* A connection object of uWebSockets is reused, so the pointer in a message is named by its
connection; `pending[conn]` is the request that object currently stands for. An answer goes to it, whoever
it belongs to. `Free` is the sender of a configuration message releasing it; the handler's `string_view`s
dangle from then on. A route of an unknown method is answered with an error and then completed as well, which
throws out of a `noexcept` function: `running` becomes FALSE.

*Gateway.* A source calls the sink it is wired to, so the last piece of a body (`Forward`) is at the same time
a step of the dispatcher, and the end of a read (`Relay`) at the same time one of the server. What comes out of
`dropped_requests_out` is answered with 500 by the application, whose part this is. All six completions of the
dispatcher, failed ones included, are steps (`Serve(r)` is whichever of them is next for a request). Three history
variables say where no promise is made: `overlapped`, the endpoints that were ever sent a request while they had
one; `unreachable`, those an earlier request could not resolve or connect to, whose connection stays in `error` or
`not_connected` for good; and `stranded`, the requests sent to these, for which the posted handler has no branch
and which nobody hears of again. The request that met the failure itself is dropped, hence answered.

*TCP server.* The handlers that are ready are a queue, taken by the one thread that runs the `io_context`.
`async_write` is a sequence of writes of the socket; two of them on one socket may alternate, as the
documentation of Asio warns. The thread of the delay stage wakes at any time. The history variables `eager` and
`refused` are the clients that sent a request before they had their answer, and whether an accept failed.

*Message stages.* A string is a sequence of characters, a token one character whose meaning `Jwt` gives. Stages
without state call each other directly; one action is one `on_message`, and what is left to call is the sequence
`calls`. A token whose header names no algorithm, or not by a string, makes `verify` throw what the
validation stage does not catch; so do a time that is no date and a text that decodes to JSON that is no object.
`running` is "terminated" where an exception leaves a `noexcept` function, "undefined" where the code
goes past the end of a list or calls through a null pointer.

## 3. Runs

| run | instance | what it shows |
|---|---|---|
| `DispatcherPipelined` | 5 requests, 1 endpoint, window 5, all faults | `TypeOK`; no continuation has two owners (`OneOwner`); the state a machine believes in agrees with the operations under way (`StateMatchesOperations`); outcomes are final; while nothing fails queues drain and writes keep their order; connections come to rest |
| `DispatcherLoses` (violation) | 3 requests, no faults | a request that arrives while the endpoint is being connected is forgotten |
| `DispatcherMismatch` (violation) | 4 requests, no faults | pipelined requests get each other's responses |
| `QueueOneProducer` | ring of 3, 5 messages | the stage implements `BoundedFifo` (refinement), never touches one slot from both sides, delivers what it accepted |
| `BalancerThreads` | 3 threads, 3 sources, 8 messages | out of range only while a thread is about to wrap the index; strict rotation while messages do not overlap |
| `BalancerRace` (violation) | 2 threads | a thread reads past the end of the array |
| `Throttling` | 2 ids, 9 configuration commands | the rate bound, the enforcer following the builder, the log being the window |
| `Validation` | 2 threads, 2 specifications, 2 rules in any of the three sections, 3 messages | a validation that shares its specification with no other at the time is right, whatever earlier messages left in the flags |
| `StorePipeline` | pools of up to 4 endpoints, an index of 3 values, wrong types | one round visits every endpoint once, incomplete ones included; filters only ever tighten |
| `Gateway` | 3 requests, 2 connections of clients, 2 endpoints, resolving, connecting, writing and reading that fail, bodies of up to 2 pieces, clients that leave at any time, routes of every sort | answers go astray only after a client left during its answer, at most one for each; responses that did not overlap on an endpoint are right in spite of failures and reconnects; the program ends for named causes only; every request is concluded unless it overlaps, or its endpoint could not be reached before; and clients that are not disturbed get the abstract service (refinement) |
| `TcpServer` | 2 clients, 3 requests, answers of two pieces, clients that hang up, reads and accepts that fail | a connection reads on until its client is gone, by one operation; the acceptor accepts on, by one operation, until an accept fails; a client receives nothing but pieces of its own answers; one that waits for each answer reads them whole and in order; whoever stays is answered |
| `MessagePipeline` | texts of up to 6 characters, query strings of up to 5, 9 tokens, 27 configurations | tokens and parameters are extracted as an independent definition says; the output tells what the token is; claims on a message are complete, come from a verified token, payload before header; the program ends for a named cause, and always when there is one |

The bounds. The dispatcher's five requests give a first operation, two queued ones and two that arrive after a
failure, which is what `on_write` and `on_read` tell apart. A ring of three slots wraps and fills with five
messages. Three threads on three sources cover a thread overtaking two others between its two accesses. The
throttling instance has a window of 2 on a clock that ticks from 8 to 11, so entries of the log expire while
others stay, and one of its two ids starts without a throttler. `IndexSize` is 3 instead of 2^8, and a pool may
be shorter, as long, and longer. Three requests on one connection are enough for an answer to be displaced
twice. In the gateway one endpoint has a single request and the other may be sent two, at a time or one after the
other, so that the second meets what a failure of the first has left. `CounterSize`
is 3 instead of 2^8: texts of four tokens then make the counter of extracted tokens wrap, and counts and lists
of targets from 0 to 3 are below, at and past it. Every bound is a constant named `Max...`, `Window` or
`...Size`, declared with "bound:" in its module.

`CHECK_DEADLOCK FALSE` is set where the bounds let an instance stop, and, for the dispatcher, validation, the
gateway and the message stages, where the program itself ends.

### Disagreements between the code and what it says

Three runs end in a violation on purpose; `findings` in `PROJECT.json` quotes the lines.

* The class comment of the dispatcher promises to relay the response received back and to forward what is
  dropped. A request that meets `resolving`, `connecting`, `not_connected` or `error` is forgotten
  (`NoRequestLost`), and `on_read` pops a queue entry that was never read (`NoForeignReply`).
* `InProcessRoundRobinLoadBalancerStage` says "Thread safe - yes" (`NeverAstray`).

`MPMCQueue` is a multi-producer queue by name over a single-producer ring; nothing in the repository says that
several stages may feed one, so the models hold it to one producer.

## 4. Fairness

Safety runs assume none. `DispatcherPipelined` and `Gateway` assume weak fairness of the io thread running
posted handlers and of every operation that is under way completing, one way or the other: Asio calls each
handler once. Before it connects, writes or reads, a connection calls `expires_after` with 30 seconds, so an
operation whose peer never answers completes with an error; a resolve is ended by the resolver. `Gateway`
assumes besides that a client which stays sends its whole body; that its answer comes is what the run shows.
`QueueOneProducer` assumes that threads inside a function of the stage are scheduled: the worker in `run`
(`Work`), and a producer in `on_message` (`Produce`), which has to go on from storing a record to publishing it
for the message to be seen. That a producer calls `on_message` at all, or anybody `stop`, is not assumed.
`TcpServer` assumes that the `io_context` runs its handlers, in the order in which they became ready, that the
threads of the delay stage wake, and that a socket takes what is written to it or fails. `MessagePipeline` has
no liveness property: its stages are function calls.

## 5. Proofs

TLAPS checks every safety invariant and every action property the runs check, and the safety of both
refinements, for every value of the constants: any number of requests, clients, threads, endpoints,
specifications, keys and messages, texts of any length, any ring, window and index size. Each proof module
begins with lemmas about the operators its model is built from; every inductive invariant below was first
checked by TLC on the instance of the module's run (`PipelineInv` on a smaller one).

* **Dispatcher** (`HttpDispatcher_proofs`, which starts with what the operations of one connection preserve).
  `TypeCorrect` and `StatesMatch` are inductive only together (`IInv`): the type of a connection after a
  completion depends on which operations it has under way, and that a state has the right operations needs
  the types of the queues. `EveryRequestHasOneOwner` and the action property `OutcomesAreFinal` add `OwnerInv`:
  a request is posted once, held by its own endpoint's connection only, never in two places, and its
  continuation is alive only between arrival and outcome; without the last part a completion could run a
  continuation twice. `RestMeansDrained` and the action property `WritesKeepOrder` add `SmoothInv`, how the
  queues of a connection without failures stand in each of its states.
* **Queue** (`Threads_proofs`, one producer). `OneProducerNoSlotRace`: worker and producer are never in the
  same slot. The invariant says what each side's last load of the other's index still guarantees; it may be
  stale, but only in the safe direction. `OneProducerTypeCorrect` adds what every slot in use holds, which is
  needed to say that the worker takes a message. `OneProducerImplementsFifo` is the refinement `ImplementsFifo`:
  the abstract queue is read off the slots from `readIndex` on, and a lemma for publish and release each says
  how these places move; every step accepts, refuses, takes, delivers or stutters.
* **In-process balancer** (`StorePipeline_proofs`). `BalancerTypeCorrect`, `OutOfRangeEnds`, and
  `SerialUseRotates`, which needs where the index stands relative to the counts of the sources at each point of
  the one message under way (`SerialInv`).
* **Validation** (`Threads_proofs`). `ValidationTypeCorrect` and `LoneVerdicts`. A thread that is
  alone on its specification has found every earlier section in order, its flags tell for exactly the fields it
  has visited what they are worth and for the rest what `reset()` left, and nobody else touches them
  (`ValidationInv`).
* **Store pipeline** (`StorePipeline_proofs`). `StoreTypeCorrect`; `RotationsAreFair`; the action property
  `FiltersKeepTheirVerdicts`. Fairness needs more than that no turn is repeated: the turns of a round, told
  backwards, are one less each (modulo the length of the pool) down from the index stored last (`InTurn`), which
  is where "as long as the index's type can number the pool" comes in. The filters' verdicts rest on sets that
  only grow and keep their type (`SetsGrow`).
* **Gateway** (`Gateway_proofs`), over the invariants of both of its instances. `GatewayTypeCorrect`,
  `ForeignAnswersNeedAborts`, `ExcessAnswersHaveLeavers`, `AloneRepliesAreOwn`, `EndsOnlyForCause`. On the
  server's side an answer nobody waits for belongs to a client that left before on the same response object, and
  there are never more of the one than of the other; on the dispatcher's, an endpoint that never had two
  requests at a time holds one at most, in its buffer or on the wire only its own response (`Alone`).
  The five completions that answer the client, the one that is relayed and the four that fail, have one lemma in
  common (`AnswersAreMessages`).
  `GatewayServesSafely` is the safety of the refinement: initial states and steps of the gateway are those of
  `RequestService`, whose `Safety` is its specification without fairness.
* **TCP server** (`TcpServer_proofs`). `TcpTypeCorrect`, `AllLoopsGoOn` (from `ReadLoopsGoOn` and
  `AcceptLoopGoesOn`), `PiecesAreOwn`, `PatientClientsReadInOrder`. That the acceptor accepts on is more than that it never has two operations: unless
  an accept failed there is one under way or one handler about to start the next, and the connections accepted are
  those before the one it is at. The invariant `TInv` follows a response: until its last piece is written
  exactly one of a sleeping thread, a handler or a pending write carries on with it (`Carried`), and the number
  of pieces on the wire is the one its carrier believes (`Delivered`); requests sent are those asked for plus those
  that handlers are still to bring (`Counted`); a patient client has at most one request open (`Asks`).
* **Throttling** (`Throttling_proofs`). `ThrottlingTypeCorrect`, `EnforcerFollows`, `RateIsBounded`,
  `LogsAreWindows`. The log is cut at what `std::lower_bound` finds, and `LowerBoundFinds` proves the binary
  search: it ends in the log or just behind, and in a log in order it parts what is below the value from what is
  not. That the enforcer follows is inductive as `Follows`: an id's verdict is the last thing said of it in the
  updates not yet flushed, or, if they are silent, in the messages under way, or, if these are silent too, it is
  the one the enforcer has. The rate bound rests on three more invariants: the builder's queue is the end of the
  history and the history in order of time (`Ordered`); the log of an id that was not reconfigured has an entry
  of its own for every message let through in the last window that the builder has seen (`Logs`, an injection,
  so that no message need be counted); and an id without a verdict was named by no message yet. `RateIsBounded`
  has the hypothesis `WindowsArePast`: no configured window is longer than the first time stamp. Time stamps are
  milliseconds since 1970, and for a longer window `time_stamp - _window_duration` wraps around and the whole
  log is cut, so the bound is lost. The action property `LogsAreWindows` needs less (`LogsInOrder`: every log is
  in order and of the past of all messages under way), and holds through every reconfiguration. The clock of the
  model is never set back; the log would be out of order then, and the search meaningless.
* **Message stages** (`MessagePipeline_proofs`). `PipelineInvHolds`, and from it `OutputsTellTheTokenHolds`,
  `ClaimsAreVerifiedHolds`, `StopsForCauseHolds`, `AugmentedAsWrittenHolds`; `ParametersAsWrittenHolds` adds
  `ParametersKept`. The invariant says where the message is and what is known of it there: at a router, that no
  router before has its type (`PassedBy`); before the augmentors, that it is as the handler made it (`Fresh`);
  behind them, that the fields are exactly those its text fills (`Filled`); between two outputs, that the token
  is where it was put and nothing stood in the way of an output already called (`Carries`, `PassesValidation`);
  and if the program has ended, the cause. It cannot do without any of them: that claims are verified needs that
  the stage reads the same field the extractor filled, and that a broadcast leaves it alone. What the code
  computes and what the text says are compared separately, each to the end of its loop:
  - the token extractor's fold goes over the text with two positions and a counter of a byte, the reference
    definition counts marks. `ScanStep` follows the fold character by character: up to `k` the fields are those
    of the ranks of the closing marks so far, or one of them was a fault (`ScanTells`);
  - a joiner's body is the tokens it names with separators between (`BodyIs`), and the augmentors behind
    each other each add a field of their own (`AfterNext`);
  - the pieces of a query or a path are found by a loop from delimiter to delimiter, the reference takes the
    positions behind delimiters. `PiecesListed`: both have the same pieces in the same order, except that a
    delimiter at the end opens none; `SplitIs` and `WordIs`: key and value of a piece are those the reference
    reads at its position; `AllAssigned`: a map filled in order has the last value of each key;
  - the claims a validation adds are the token's, payload before header, through two loops over them (`AllClaims`).

Assumptions are the named `ASSUME`s of the modules; TLC evaluates them in the runs. They give constants their
types and say that the model values for "nothing" are none of the real ones: `NoneAssumption` of `TcpServer` and
`DispatcherAssumption` and `ServerAssumption` of `Gateway` are of this sort, the latter also that a program
installs finitely many routes; `AbsentAssumption` and `ConfiguredAssumption` of `Throttling`, the latter also
that a throttler's log is empty before traffic. `ConfigAssumption` of `MessagePipeline` says which pipelines are
meant (`IsPipeline`): the first augmentor extracts tokens from the credentials, into targets that are all
different, the first of them the field the JWT stages read; the others join such tokens, each into a field of
its own; the group of the validation stage is none the message has already. It leaves free how many routers,
targets, joiners and outputs there are and in which order outputs are called, how many tokens are asked for,
whether the key can be loaded and which sources were left unconnected. A configuration outside it (an augmentor
that writes over the token, say) does what its fields say, and the reference definitions do not apply to it.
`JwtAssumption` says what the library can make of a token: in particular `verify` throws something the validation
stage does not catch if the token names no algorithm, and may throw it for others. `RequestAssumption` gives
texts their types.

The models were changed for the proofs where they were wrong or could not be reasoned about. The type invariant
of the store did not say what its comment said, that a set is never empty; the proof found this, and it says it
now. `RequestService` names the part of its specification without fairness. The binary search of `SlidingLog` is
a function of the length still to be searched, and the folds of `Throttling` have names. Maps of the message
stages are filled with the operators of `Maps`. The loop of `UrlParameters` is a recursive function in place of
a `RECURSIVE` operator, written with `IF` because the prover loses a recursive call inside a `CASE`; the
reference definitions of `ParametersAsWritten` have names and take the text as a parameter.

Model-checked only:

* liveness (`ENABLED` and fairness are outside the prover's reach): that connections come to rest, that messages
  accepted by the queue are delivered, that requests are concluded, that clients which stay are answered, and
  with them the fairness part of the refinement of `RequestService`.

Induction theorems that take an operator as a parameter are out of the provers' reach. What a fold computes is
proved here by induction over a set of numbers instead (`Folding`): `Counting` is that induction, from the
well-foundedness of `<`; `FoldExists` says that the recursive function inside a fold exists, `FoldSteps` that it
goes from position to position, `FlattenSteps` the same of joined sequences. A loop of `Throttling` or of the
message stages is then a sequence of steps about which a lemma is proved by `Counting`.

## 6. Abstractions

Field names, keys and payloads are model values. Field values are told apart as far as validators do
(digits, one decimal point, other text). Logging, metrics labels, JSON and TLS are left out. A query string and
the text an extractor reads are sequences over the delimiters and one or two other characters. What
cryptography says of a token, and which of its header claims are strings, is given with the token. Library code (Asio, Beast, folly, uWebSockets) is
modelled from how it is used, and marked external in the map. A data race on library internals (a
response written from another thread than the server's loop) is not modelled; on the project's own data
races are steps of their own. The store and the validation specifications are changed between messages
only: their comments say they are not thread safe.

## 7. Plan

Order of work, the most important behaviour first:

1. *Done*: dispatcher and connection, queue with its abstract specification, balancers, throttling.
2. *Done*: validation, store with filters and round robin, server.
3. *Done*: the TCP server with the delay stage; the stages that only read and write messages, against
   reference definitions; a gateway of server and dispatcher and the abstract service it implements.
4. *Done*: proofs of every safety invariant, all action properties, and the safety of both refinements.

Left to TLC is liveness. What a further model could take up is the life of a connection of the TCP server that
is never taken off its list, and responses written from another thread than the server's loop.

### Not modelled

The UDP server receives datagrams and drops them; its source is never called. The printing and no-op sinks and
the task execution sink keep no state. The stage framework is maps from names to sources and sinks that
constructors fill; a source that was never connected is a case of `MessagePipeline`. `get_list`,
`get_front_list` and `get_back_list` of the store are used by no stage. `start()` of the TCP server is modelled
from where it has bound its port. The handlers for routes other than GET are empty functions.

Some failures are left to the stages around. The posted handler of the dispatcher reads `endpoint_host` and
`endpoint_port`, which throws if the load balancer in front did not set them; requests of `HttpDispatcher` have an
endpoint. A source that was never connected is a case where a message leaves the pipeline of `MessagePipeline`, not
between its stages (augmentor, routers and broadcast to each other). `DelayStage` starts a thread in a `noexcept`
function, which ends the program when the system has no thread to give. And a client of the TCP server sends only
while it is being read from, so that nothing is left unread when it hangs up.

# Verification of diy-bacnet-server

TLA+ models of the server in `src/bacpypes_server/`, checked by TLC on small
instances, with theorems that TLAPS checks for every value of the constants.
`PROJECT.json` lists components, runs, mutants, findings, hazards, theorems,
and for every definition the source lines it models.

    tlc -workers 4 -config RpcGateway.cfg MCRpcGateway      # one run
    tlapm RpcGatewayProofs.tla                              # one proof module

Line numbers below are of the files in `src/bacpypes_server/`.

## 1. The system

One process holds a BACnet device (bacpypes3), an HTTP JSON-RPC server
(uvicorn, fastapi-jsonrpc) and up to two MQTT clients (aiomqtt), all on one
asyncio event loop. RPC methods declared `async def` run on the loop; those
declared `def` run on a thread pool when they come over HTTP, and on the loop
when the MQTT tasks call them.

| component | state | operations | interacts with |
|---|---|---|---|
| CSV loader, `server_utils.py:119-457` | `instance_ids`, `used_instances` during the load; `point_map`, `commandable_point_names` for good | one pass over the rows | makes the points everything else uses |
| Points, `rpc_methods.py:98-245` | `presentValue`, priority array of every object | update, read all, read commandable, schedule read and update | HTTP threads, MQTT tasks, BACnet clients write the same objects |
| MQTT RPC gateway, `mqtt_rpc_gateway.py` | session, aiomqtt's queue, the command being served | connect, manifest, subscribe, serve, ack, status loop, reconnect | broker; RPC methods; BACnet devices through the client |
| MQTT bridge, `mqtt_bridge.py` | session, queue, poll task | announce, `/set` handler, poll loop, reconnect | broker; `server_update_points` |
| main, `main.py:49-121` | the two tasks | start, serve, cancel and join | everything |
| BACnet client, `client_utils.py` | bacpypes3's device cache | read, write, multiple read, who-is, router discovery, discovery, supervisory check | other devices, which change meanwhile |
| Schedules, `client_utils.py:139-198` | three properties of a ScheduleObject | read, update | HTTP threads, the stack's interpreter, BACnet clients |
| Modbus, `modbus_service.py`, `modbus_routes.py` | none between requests | batch read in a worker thread | Modbus devices |
| Auth, models, errors, app assembly, flags | none | validation of one request, registration at import | - |

What is hard, and what makes each part correct:

* **Loader.** A row performs several registrations and can fail between two of
  them. Correct: the tables agree, identifiers stay unique, the points BACnet
  commands are those that updates skip, and a failed row costs no other row.
* **Points.** Read, compare and write are not atomic on a thread. Correct:
  priorities govern, reports tell what happened, one bad name spoils no other.
* **Gateway and bridge.** Connections fail at any await, requests time out after
  they took effect, `CancelledError` arrives at any await. Correct: order and
  truth of acks, no command served in the wrong session, newest state last, no
  message dropped, and both tasks end when main cancels them.
* **Discovery and read-multiple.** Up to five dependent phases over a device that
  changes, with chunks that fail in three ways. Correct: results are attributed to
  the right object, nothing is invented, nothing lasting is missed on the objects
  that are asked about.
* **Schedules and snapshots.** Several properties are read or written one by one
  while others write them. Correct: a call on the event loop shows the outputs as
  they were at one moment, a schedule's report never shows an old default beside
  what was derived from a newer one, an update that runs alone leaves the present
  value at the default.
* **Modbus.** A batch can fail at any operation, and waits for a thread. Correct:
  it is answered whole or refused before the device is asked, in order, with the
  numbers the declared types have, and every queued request is answered.

## 2. Modules

    PointRegistry  <--implements--  CsvLoader       <-- CsvLoaderProofs
                                        |  (assumption of)
    PointStore     <--implements--  PointService    <-- PointServiceProofs
                   <--implements--  ServerReads     <-- ServerReadsProofs
    CommandLedger  <--implements--  RpcGateway      <-- RpcGatewayProofs
    BrokerTask     <--implements--  RpcGateway, MqttBridge  <-- MqttBridgeProofs
    BrokerTask x 2 <--composed in-- Lifecycle       <-- LifecycleProofs
    Discovery      <-- DiscoveryProofs
    ModbusReads    <-- ModbusReadsProofs

`MC*` modules give TLC its instances.

**CsvLoader** takes an arbitrary row at each step. A row says what its Instance
column holds (nothing, a number, other text), whether it is commandable and
where it fails after its instance is chosen: CovIncrement or the constructor.
`next`, `used`, `commandable`, `pointMap` and `app` are the loader's tables and
the objects of the BACnet application; `Register` has their order of
assignment (450-453 and the constructor branches). The order matters because
`add_object`, which is external, refuses a name or an identifier that is taken,
the device's own name included. **PointRegistry** is what it promises: a growing
set of points with unique names and identifiers.

**PointService** has several callers of `server_update_points`. `ReadDifferent`
and `Store` are two steps for the read and the write of a value: a thread can be
preempted between them. A caller on the event loop excludes the other ones on
it (`LoopFree`), not the threads. A conversion and an assignment can each fail
(`StoreFails`); either way the point has an error entry. A BACnet client writes a slot,
and the present value follows from the priority array; a point without one it writes
directly, commandable by name or not (`Commands`). `held` and `asked` are histories that
properties need; no action reads them. Numbers are in halves so that `int()`
and `float()` differ; `NaN` differs from everything, as `!=` does. **PointStore**
is what a reader may rely on: a commandable point changes only between the calls
of the event loop, any other at any moment.

**ServerReads** has the calls that report points and schedules, and the schedule
update, on threads and on the loop. Points change as PointStore allows: its
`Change` is instanced, with `busy` true while a coroutine is in a call; that no step
of a reader asks for more is a theorem. A point that cannot be read
(`ReadFails`) is missing in `seen`, as the report has an error in its place. A schedule
is reduced to ages: `default` counts the assignments of `scheduleDefault`;
`present` and `weekly` hold the count they belong to. `FetchDefault` and
`CopyDefault` are the two halves of `obj.presentValue = obj.scheduleDefault`,
between which a thread can be preempted. The stack's interpreter and BACnet clients
write all three (`SetsPresent`, `SetsWeekly`, `SetsDefault`); what they write to the
present value or the week is `Foreign`, of no update's age. `began` (the points when a coroutine's
call began) and `clash` (schedules of which two updates overlapped, or whose default a
BACnet client wrote since) are histories.

**RpcGateway** numbers the commands, so that aiomqtt's queue is the interval
`taken+1 .. received`. `pc` is where the task is suspended. A command is
`malformed`, `refused`, `local` (runs to its end on the loop), `read`
(`bacnet_read`, which catches cancellation), `scan` (reports whatever answered,
so that its ok promises nothing: who-is, router and multiple read, supervisory check, and
discovery, which returns no objects if the list cannot be read, `client_utils.py:501-515`)
or `remote` (write, priority array). `DeviceServes` is separate from the answer, as a request can be
served and time out. `AckLost`, `PublishFails`, `PubackTimesOut` are the ways in
which an ack is lost. **CommandLedger** is its abstract specification: a command
is queued, handled, answered once in order, or abandoned together with all the
others that are open.

**MqttBridge** has the handler and the poll task on one client. Building a
payload and handing it to the client are two steps, as threads change points in
between; no other step of the event loop comes between them (`LoopFree`). A
state is known by its age, the number of changes of its point.

**BrokerTask** is the skeleton both tasks share, seen by main: where it is
suspended, its sub-task, whether it has swallowed a cancellation. RpcGateway and
MqttBridge implement it (`TaskSteps`, `TaskSpec`), **Lifecycle** composes two
of them with main. The gateway's status loop is the sub-task there and is left
out of RpcGateway, whose view is therefore `sub = "none"`. The bridge implements
BrokerTask from its start; the gateway step by step from its first connection.

**Discovery** follows `point_discovery` and `supervisory_logic_check` request by
request. `DeviceChanges` may come between any two: an override is set or
released, the object list is replaced. A chunk is answered (any of its entries
being an error of its own), refused (one entry for the whole chunk), or raises
(one entry for each request). An error of its discovery ends a check with an empty
summary (`Raise`). Objects of any type may have an array (`Arrayed`); the code asks
those of nine types (`MayCommand`). The same chunks serve `client_read_multiple`, the
goal "multiple", for which a chunk that raises ends the call. `Selected` is
`SelectSeq` with an explicit function, so that lemmas can be proved about it.

**ModbusReads** follows a request through the route's validation, the executor's
queue, a thread that reads one operation after the other, and the rendering of the
answer. A read gives words (as many as asked for, or fewer), raises, or times out;
each becomes a reading of its own, inside a 200. Words are modulo `M` (2^16 in the code, any even
number here) and decoded by `DecodeWords`; `FloatOf` stands for `struct`'s `">f"`. A scale or an offset can take a value
past the largest float (`Finite`); it then is as unrenderable as one read as NaN.

## 3. Runs

| run | states | shows |
|---|---|---|
| `CsvLoader.cfg` | 16 k | tables agree and reserve what is hosted, commandable names protected, registry implemented |
| `CsvLoaderShadowed.cfg` | - | violation: the name that a refused commandable row leaves behind |
| `PointService.cfg` | 2.06 M | overlapping calls of a thread and two coroutines, failed assignments, BACnet writes between them; the store implemented |
| `ServerReads.cfg` | 4.73 M | snapshots on the loop, reports never backwards, the present value follows the default |
| `RpcGateway.cfg` | 505 k | acks, sessions, ledger, skeleton; every command is answered or its session ends, and a step towards that is always possible |
| `RpcGatewayCancel.cfg` | - | violation: swallowed cancellation |
| `MqttBridge.cfg` | 142 k | order of states, no message dropped, skeleton; subscribers catch up |
| `MqttBridgeOffline.cfg` | - | violation: never offline |
| `Lifecycle.cfg` | 370 | no orphan task; shutdown awaits nothing that need not happen, and ends; the steps it waits for are possible |
| `Discovery.cfg` | 1.66 M | attribution, whole lists, nothing invented, nothing missed of what is asked, by checks and read-multiple |
| `DiscoveryText.cfg` | - | violation: an error text makes a point commandable |
| `ModbusReads.cfg` | 365 k | whole batches, decoding; every queued request is answered |

Bounds, and why they are enough:

* Loader: three rows, instances 0..2, two names and the device's own, one
  always-commandable type and one type with a flag. A collision takes two rows, a
  lasting effect of it on a later row three; three numbers can be exhausted. The
  tables of types are constants of the module, their types interact through
  kinds only.
* Points: a thread, two coroutines and three calls: any harmful overlap is of two
  calls, the third shows that nothing is left behind. Six points, one for each
  kind and each way of being commandable, and the device's own name, which is
  skipped without being a point; requests include every outcome. BACnet clients write
  three of them: an arrayed one, a commandable one without an array, and a server-owned one.
* Gateway: three commands over two sessions, so that one is acknowledged, one
  being served and one in the queue when the link drops, and another session
  follows.
* Bridge: one commandable and one plain point, two messages, two changes of each
  point, two sessions. An older state after a newer one takes two changes.
* Lifecycle: finite as it is.
* Discovery: three candidates in chunks of two, so that there is a full and a
  partial chunk, and three changes of the device, one between any two of its phases. A
  lighting output has an array and is not of the nine types. One priority is enough, as
  an object's slots are copied whole; the proof has any. The
  requests of read-multiple are one of two chunks, one whose chunk is refused for a
  vendor's object, and an empty one.
* Schedules and snapshots: one thread and the gateway, three calls, one schedule
  and three points. An update that overlaps another, and the call that reads what
  they left, are three calls; more threads are covered by the proof.
* Modbus: two valid requests and an invalid one for a single thread, so that one
  waits; `M = 4` has every case of a sign change in one word and in two, and the scale and
  offset of one operation take one of its words past `MaxFloat`. The "raw"
  decode occurs only in the invalid request here; the proof covers it.

`CHECK_DEADLOCK FALSE` stands where behaviours really end: a loaded file, a
finished check, a stopped task, a used-up bound. Every property of a passing run
has a mutant: a plausible bug of the mapped definition that TLC finds with it.

**Fairness.** The event loop runs what is ready, so each task's own steps have
weak fairness: a BACnet request ends by an answer or the APDU timeout, a publish
by its PUBACK or aiomqtt's timeout. Nothing is assumed of the network, the
broker, devices or clients: links may drop for ever, nobody need send a message
or end `serve()`. A Modbus request's thread and its answer are fair (`Serve`): the
executor runs what it has, and pyModbusTCP gives a read up after its timeout, which
the model bounds (0.5 to 60 s). Clients need not send a request. In Lifecycle only main's finally, the tasks' finally and a
pending read are fair. `CurrentStateShown` speaks of sessions that last from
some moment on with the poll task alive; without that the bridge owes nothing.

### Findings

| run | the code | a doc, comment or test |
|---|---|---|
| `CsvLoaderShadowed` | a name is recorded as commandable before its row is accepted (`server_utils.py:249`) | `docs/csv-points.md:26` |
| `RpcGatewayCancel` | `except BaseException` takes main's cancellation for a read error (`client_utils.py:253`) | the comment at 254 |
| `MqttBridgeOffline` | the offline state is built and never published (`mqtt_bridge.py:235`) | `docs/mqtt.md:22`, comment at 246 |
| `DiscoveryText` | an error text counts as a value, the point as commandable (`client_utils.py:79,593`) | comments at 592 and 695 |

Seen while modelling, and left without a run as each is evident from a few lines:

* `point_discovery` asks the objects of nine types for a priority array
  (`client_utils.py:574-584`). An object of another type that has one (a lighting output,
  an access door, a characterstring value) is reported as not commandable, and its
  overrides are missing from a supervisory check, without a failed read; the comment at
  695 says "on each point". `SteadyOverridesReported` is limited to the nine types for
  this reason, and the model has a lighting output with an array.
* A Modbus read that fails is a reading with `success` false inside a 200
  (`modbus_service.py:127-155`; `tests/test_modbus_service.py:113`); the docstring at 27 says "device
  read failure (wrapped as HTTP 400 in routes)". `AnswersComplete` follows the code.
* An instance is reserved before `add_object` can refuse (`server_utils.py:451`), while
  `tests/test_server_utils_csv_config.py:165` expects a skipped row to reserve nothing.
* The discovery fallback lists the device object (`client_utils.py:533`), the comment at
  517 excludes it.
* `modbus_service.py:73` and `modbus_routes.py:79,137` speak of one TCP connection, the
  client opens and closes one for each read (`auto_open`, `auto_close`,
  `modbus_service.py:88-95`).

## 4. Proofs

All constants are arbitrary within the named assumptions of their module
(`LoaderAssumption`, `ServiceAssumption`, `GatewayAssumption`,
`BridgeAssumption`, `ReadsAssumption`, `ModbusAssumption`, `DiscoveryAssumption`);
Lifecycle has none. The proof modules keep one lemma per
action or family of actions and one theorem per property.

* **CsvLoaderProofs.** `TablesAgree`, which includes that hosted identifiers are
  reserved, and `OutputsProtected` are inductive with `TypeOK`. Agreement holds because `app` and `point_map` are
  assigned after the only call that can refuse. The refinement follows from
  `AddObjectAccepts` and agreement: a new object is compatible with all hosted.
  `GoodRowsAlwaysHosted` is the converse: `add_object` refuses a built object for its
  name only, so that a failed row costs others no more than what it took. Of what such
  rows leave behind, `SkippedAlwaysKnown` says that the skipped names are those of points
  or the device's, which takes that hosted names only grow (`HostedGrows`), and
  `NumbersAlwaysAccounted` that automatic numbers are lost to rows refused for a later
  column only: the counter passes a number that is used (`PassedAreUsed`) or that such a row had.
  A used number is a hosted point's unless `add_object` refused its row; without either kind
  of refusal the points are numbered without gaps (`NumbersDenseWithoutDefects`).
* **PointServiceProofs.** `PriorityGoverns` needs that a store is never under way
  on a commandable point: `StoreInv` says so of every caller between its read and
  its write, with the value read being among those held. That `CommandableNames`
  contains all arrayed points is an assumption here and `OutputsAlwaysProtected`
  of the loader; it may contain points with no array (`CsvLoaderShadowed`) and a name that
  is no point (`SkippedAlwaysKnown`). `NoNameLost` rests on `NamesKept`: the names asked for are those
  reported, the one being stored and those still to do. `NeverStaleStore` rests on
  `OneCoroutine`: at most one call is under way on the event loop. `LoopUpdatesExact`
  is what that gives a point which no thread updates: each store replaces the very value
  it read. That PointStore
  is implemented (`PointsAreAStore`) needs both: a store on a commandable point does
  not happen, and a BACnet write happens only when the loop is free.
* **ServerReadsProofs.** Of points: while a coroutine is in a call the commandable
  ones have the values of `began`, since `Change` excludes them (`StandStill`). Of
  schedules: `weekly`, `present` and every copy in hand are at most `default`
  (`NeverAhead`), if an update set them and not the stack; the stages of a report are read in their order (`ReadInOrder`),
  so that what was read first is not ahead of a default read later (`Forward`);
  an update no other overlaps copies the current default (`Alone`), of which a later BACnet
  write of the default or of the present value is the exception. `IdleClean`
  says that a call starts from nothing. `ReadersKeepTheStore` closes the composition:
  all that the readers take from the points is PointStore, which PointService provides.
* **ModbusReadsProofs.** `Progress` relates the stage of a request to its readings:
  one for each operation passed, none for one refused, and only valid requests
  are ever queued. `ReadingsWitnessed` gives the words each decoded value came
  from; the arithmetic of two's complement and of word pairs is a set of lemmas
  about `Signed` and `Pair`. From them, decoding loses nothing (`DecodingInjective`)
  and has all numbers of its type (`EveryNumberRepresented`), so that with
  `DecodedAsDeclared` it is a bijection. `BatchesShorten` and `NeverAllStuck` are the two
  safety halves of `EveryRequestAnswered`: each step takes one batch on, by the measure
  `Remaining`, and while one is unanswered some batch can go on; a batch
  that has its thread can go on, and while none has, one is free for the queue's head.
* **DiscoveryProofs.** The first part is about sequences: the places of selected
  elements are counted in order (`UptoStep`, `KthPlace`), so that `Selected` has
  exactly the selected elements, each at its turn (`SelectedFacts`); a chunk and
  what is left make up what was left before (`Chunking`). In the invariant,
  `InStep` ties the results to the part of `sent` that has been answered,
  `Witnessed` bounds what was read by what was in force. Without a failed read,
  each request is open or answered (`Attended`), a steady override of an object
  asked about is among the answers once its chunk is (`Gathered`), and a check
  asks about every listed object of the nine types (`Asked`); of arrays on other types nothing is
  assumed and nothing is claimed. `ListWhole` carries the fallback's list through the phases. A second invariant, `DInv`, adds
  what each phase inherits (`Stages`, with entries being of objects asked about,
  `EntriesOwn`) and that reading a device that keeps still copies it (`ListedSoFar`). It
  gives completeness (`DiscoveryComplete`) and, against such a device, exactness
  (`QuietDeviceExact`). `CallsShorten` bounds a call: each answer lowers the pair of the
  phases and the requests left; what the device does meanwhile is excluded, not bounded.
* **RpcGatewayProofs.** `IInv` adds to the checked invariants: the queue and the
  command being served are of this session (`QueueOfSession`); acks are of
  commands taken and, until the current one is published, of earlier ones
  (`AcksOfTaken`, without which order is not inductive); a PUBACK can come only
  for an ack the broker has (`PubackAcked`); what was carried out was taken
  (`EffectsTaken`). The refinement of CommandLedger has a lemma for each kind of
  ledger step, that of BrokerTask one for each group of actions. `AnswersAreFinal`
  follows from the ledger; `AcksHaveNoGaps` has an invariant of its own. `CommandsAdvance`
  is the step of liveness: `Distance` counts the awaits before a command's answer; it
  rests on `PInv`, that a session which has not yet subscribed has nothing queued.
  `QueueMoves` follows the four awaits of one command and joins them by fairness: what is
  ahead of a command gets less, so that none is held up for ever by one before it.
  `EffectsInTurn` is about what the devices see: `CarriedOutInTurn` is inductive with the
  order of acks.
* **MqttBridgeProofs.** `DraftsFresh` is the heart: at most one payload is in the
  making, and no other is sent before it, so that it is not older than what was
  shown. `TasksInStep` ties the poll task to the session. `ShownOnceSuffices`: after the
  last change of a point, one publish that gets through is never undone. `RoundsCatchUp`:
  while rounds go on in a session that lasts, that publish comes. A point at rest is still
  to be published, is the payload in hand, or is shown as it is (`Attended`), until the
  round ends; a round starts with all points to be published and a session without a
  round (`RoundInv`). `RoundsShorten` bounds a round: `RoundLeft` counts three steps for
  each point, and only the poll task's own steps change it while the session lasts.
* **LifecycleProofs.** `Joins` says which task has ended by each stage of main, and
  `JoinsAtLastAwait` where the task is that main awaits. `ShutdownEnds` derives
  `ExitsUnlessSwallowed` from fairness along main's stages. `MainComposesTasks`: to each
  task, what main and the other one do is a step of its BrokerTask or nothing, so that what
  is proved of every BrokerTask holds in the composition.

**Liveness.** The provers cannot decide `ENABLED`. Where a proof needs that a step is
possible, this is a named condition on states: `FinallyReady` and `ClosingReady` in
Lifecycle, `ServeReady` in RpcGateway. TLC checks them in every reachable state as
part of `ExitsUnlessSwallowed` and `EveryCommandAnswered`; the theorems have them as
hypotheses and prove what follows. Lifecycle has no constants, so TLC's check of its
conditions is exhaustive, and `ShutdownEnds` adds the argument to it.

Model-checked only:

* the `ENABLED` conditions themselves;
* of `EveryCommandAnswered`, the chaining: `QueueMoves` is proved for every place in the
  queue and is the whole property for the command being served, but to follow a command
  from its place to its answer is an induction over the places, with an operator as
  parameter;
* `EveryRequestAnswered`: its halves are proved, the fair schedule that joins them
  needs the same induction;
* of `CurrentStateShown`, that rounds go on (`RoundsGoOn`) and that points come to
  rest: the first depends on the fairness of the poll task and on how much the handler
  keeps the loop busy, the second on the bound. That rounds which go on bring a point at
  rest to the broker is `RoundsCatchUp`, that a round has an end `RoundsShorten`.

## 5. Not modelled

* How `serve()` ends: uvicorn handles signals, and may end the process without
  main's finally. The models start at the finally.
* Topic and payload parsing, broker URLs, JSON encoding, units, default values,
  log lines: data that no property tells apart.
* A broker's retained `/set` messages and repeated delivery to the bridge: a
  repeated message is another message.
* A cached address that has come to belong to another device: all answers are then
  that device's, and nothing in the code can tell.
* `bacnet_write`, who-is, router discovery and the priority array of one point: each
  is one request and the conversion of its answer. They are the gateway's remote
  and scan commands.
* A publish of the bridge that fails while its link stays up: the model's publishes fail
  with a lost link only, and what a later round repairs is shown for those.
* An exit of the aiomqtt client that raises in place of a cancellation: aiomqtt is external,
  and what its `__aexit__` raises under a cancelled task is not followed.
* Modbus addresses, labels, hosts and error texts; the 502 for an error outside an
  operation, which cannot be reached after the validation.
* Requesters that repeat a command: to the gateway it is a new command.
* Auth, request models, app assembly: no state. REST who-is: not registered.

## 6. Plan

Written so far, in this order: CsvLoader, PointService, RpcGateway, BrokerTask and
Lifecycle, MqttBridge, Discovery, PointStore, ServerReads, ModbusReads, with the
proofs above. What would add most to them:

1. The status loop inside RpcGateway, as a second publisher beside the acks: today
   it is the sub-task of BrokerTask only.
2. A broker's retained store in MqttBridge, so that the replay of a retained `/set`
   can be told from a new one; the code promises nothing of it yet.
3. PointService and RpcGateway composed, the gateway's `local` commands being calls
   of a coroutine there.

What more could be proved: that update calls get shorter (PointService) and reads of
schedules too (ServerReads), as for Discovery, Modbus and the poll rounds; and, with a
prover for induction, the chains of steps that section 4 leaves to TLC.

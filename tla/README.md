# JadeAI: TLA+ models of the HID service

JadeAI is one program with real state, the C++ service `services/hid` (a Bluetooth
keyboard and mouse behind an HTTP API), and a few Python services that are mostly
stubs. These modules model the HID service: what its threads do to each other, what
a paired host sees, how the process starts and stops, and all of it together; and of
the Python services the planner, the event bus and the memory store, the three that
decide or keep anything. TLC checks them on small instances; TLAPS proves the safety
properties of the HID service for every value of the constants.

    tlc -workers 2 -config HidServer_safety.cfg MC_HidServer
    tlapm HidServerProofs.tla

Line numbers are those of the repository; `bhs` is
`services/hid/src/bluetooth_hid_server.cpp` and `api` is
`services/hid/src/http_api.cpp`.

## 1. Inventory

### Components

| Component | State | Operations | Status |
|---|---|---|---|
| HID server, execution path (`bhs` 225-350, 546-765) | `executionMutex_`, `lastPointerX_/Y_`, `value_` and `notifying_` of four input characteristics | `sendText`, `movePointer`, `click`; `notifyValue`; `StartNotify`, `StopNotify` | modelled: `HidServer` |
| HID server, pointer arithmetic (`bhs` 739-757) | `int` position and distance, `uint32_t` limit, `int8_t` displacement | `movePointerInternal` | modelled: `MachineInt`, `PointerMotion` |
| HID reports (`hid_reports.cpp`, `hidReportMap` in `bhs`) | none | key table, report constructors, button names, the report map a host decodes with | modelled: `HidReports` |
| GATT objects, control point, protocol mode (`bhs` 107-350, 594-700) | `value_` of every characteristic, `controlPointValue_`, `protocolModeValue_` | `setupApplication`, `GetManagedObjects`, `ReadValue`, `WriteValue`, the bytes of every report | modelled: `HidGatt` |
| HID daemon (`main.cpp`, `HIDHttpApi::start/stop/serverLoop`, `Impl::start/stop`) | `running_` (twice), `serverFd_`, `serverThread_`, `eventThread_`, the connection, the registrations with BlueZ, the shutdown promise | start, stop, accept loop, signal handler, event loop | modelled: `HidDaemon` |
| HID service: the process with its calls | all of the two parts | a request runs through the execution path while the process starts, stops or dies | modelled: `HidService` |
| HTTP request handling (`api` 152-297) | the request read so far | assembly of head and body, dispatch, response | modelled: `HttpRequest` |
| Configuration loader (`hid_config.cpp`) | none | `loadHIDConfig` | modelled: `HidConfig` |
| Planner (`services/planner/planner.py`) | blocked terms | `from_llm` | modelled: `Planner` |
| Event bus (`services/bus/bus.py`) | subscriptions per topic | `subscribe`, `publish` | modelled: `EventBus` |
| Memory (`services/memory/memory.py`, the gateway's memory router) | records | `add`, `query` | modelled: `MemoryStore`, driven by `EventBus` |
| Gateway, perception, LLM service | none | constant answers | not modelled: no state |
| Scripts, Docker, configs | none | | not modelled: no program state |

### How they interact

`main` constructs a `BluetoothHIDServer` and an `HIDHttpApi`, starts them in that
order, waits for SIGINT or SIGTERM and stops them in the opposite order. The HTTP
API has one thread: it accepts a client, reads one request, calls the HID server
synchronously, answers, closes. The HID server's public calls are safe for any
number of threads and serialise on `executionMutex_`. A call writes reports into
characteristics; each write becomes a D-Bus signal that BlueZ turns into a
notification of the paired host. A second thread runs the D-Bus event loop, where
BlueZ subscribes and unsubscribes. The Python services do not call the HID service
in this repository.

### What is hard here

* A press and its release are separate notifications. Each can be suppressed by an
  unsubscription and each can throw out of the call.
* `notifying_` is read in one step and acted on in a later one, without a lock.
* Every key and every movement goes to two characteristics, one after the other.
* The pointer position is a guess: it is advanced after the notifications, by what
  was sent. A throw between the two notifications makes it wrong.
* The step limit changes type twice (`uint32_t`, `int`, `int8_t`).
* `stop()` shuts down, closes and clears `serverFd_` while the server thread creates,
  uses, closes and clears it, with no lock between them.
* The server thread may clear `running_` itself, and then nobody joins it.
* A client can hold the only server thread for as long as it likes.
* A request arrives in segments cut anywhere, and its end may never arrive.
* A call of the server thread can be in any state when a signal arrives; only the
  order of two stops and a join keep it away from objects that are destroyed.
* The objects a host finds refer to each other by paths and ids spelled out one by one,
  and the server ignores the protocol mode a host chooses.
* `publish` walks a list that its own callbacks change, and they may publish in turn.

PROJECT.json lists these at their lines, with the properties aimed at each.

### What makes each component correct

* Execution path: what is pressed is released, calls do not interleave on the wire,
  a text arrives complete and in order, a click lands where it was asked for, the
  tracker agrees with what was sent, a disabled device is silent, calls return.
* Pointer arithmetic: every move ends, on target, with full steps, without overshoot
  and without loss in a cast.
* Reports and objects: a host finds its way through the object table to the reports,
  and reads what was asked for in either protocol mode.
* Requests: an honest client is answered, once, for the whole of its body, however the
  network cuts it.
* Configuration: what loads means what is written, and no value comes from another key.
* Daemon: no request touches a connection that is being taken down, every handled
  signal ends the process, an exit leaves nothing behind.
* Service: a report is sent only on a live connection, and no end of the process but a
  premature kill leaves a key down.
* Planner: no step that `configs/policy.yml` blocks gets into a plan.
* Event bus and memory: every subscriber of a topic hears each message once, in order.

## 2. The modules

| Module | Models | Extends |
|---|---|---|
| `HidDevice` | abstract: what one characteristic promises a host | |
| `MachineInt` | operators: `int` that wraps, the cast to a byte, `std::min<int>`, `std::clamp` | |
| `HidServer` | execution path, with its properties | `MachineInt` |
| `HidServerInv` | the inductive invariant of `HidServer` | `HidServer` |
| `HidServerProofs` | the proofs of its properties and of the refinement of `HidDevice` | `HidServerInv`, `TLAPS` |
| `MC_HidServer` | instances for TLC | `HidServerInv` |
| `PointerMotion`, `MC_PointerMotion` | `movePointerInternal` alone, at the edges of its integers | `MachineInt` |
| `PointerMotionProofs` | the proofs about it | `PointerMotion`, `TLAPS` |
| `HidReports` | operators: key table, reports, button names, report map | |
| `HidGatt`, `MC_HidGatt` | object table, reads and writes of a host, the bytes of every report | `HidReports`, `MachineInt` |
| `HidGattProofs` | the proofs about both | `HidGatt`, `TLAPS` |
| `HidDaemon`, `HidDaemonProofs` | process, threads, socket, signals, clients | |
| `HidService`, `MC_HidService` | the process with the calls inside it | `HidServer`, `INSTANCE HidDaemon` |
| `HidServiceProofs` | that it implements both parts, and its own properties | `HidService`, `HidServerProofs`, `INSTANCE HidDaemonProofs` |
| `HttpExchange` | abstract: one call and one answer per connection | |
| `HttpRequest`, `MC_HttpRequest`, `HttpRequestProofs` | `handleClient` on one connection | |
| `HidConfig`, `MC_HidConfig`, `HidConfigProofs` | `loadHIDConfig` | |
| `Planner` | `from_llm` and its policy | |
| `MemoryStore` | operators: `add`, `query` | |
| `EventBus`, `EventBusProofs` | `publish` and `subscribe` with callbacks of four kinds | `MemoryStore` |

Operators named `...Early`, `...Nothing`, `...Uncapped` and the like, under a comment
that begins with "Mutant", are not used by any specification. Each is a plausible
mistake in the definition that follows it; put in its place, it must break a property.

### HidServer

Actors: the callers (threads inside the public API) and BlueZ. The thread inside a
call owns the mutex, so one copy of a call's locals is enough; they are reset when the
call leaves.

| Model | Code |
|---|---|
| `Call`, `Refuse` | the check of `enabled` before the lock |
| `Lock`, `Return` | the `lock_guard`; `Lock` also computes `dx`, `dy`, which nobody else can change |
| `SkipChar`, `TypeChar` | one iteration of the loop over the text |
| `StepPointer`, `AdvancePointer` | the clamped step; the bookkeeping after both notifications |
| `PressButton` | `sendMouseButton(true)`, then `(false)` |
| `Store`, `CheckNotifying` or `SkipSignal`, `Emit` or `EmitThrows` | `updateValue`: store under `valueMutex_`, read `notifying_`, emit |
| `at` in 1..4 | which `notifyValue` of the iteration: report then boot characteristic with the report, then both with the release |
| `StartNotify`, `StopNotify` | the D-Bus methods, between any two steps |

A report keeps what the properties distinguish: what it holds down and its
displacement. `heard`, `moved`, `lost`, `stale` and `typed` are history: what was
signalled and what was suppressed. Positions and distances are those of `MachineInt`: an
`int` that wraps, a limit that `std::min<int>` converts, a step that is cast to a byte; only
the history adds up without bound. A signal that throws leaves the call where it stands, with the value
stored and the tracker not advanced, exactly as the exception does.

`WriteValue` on an input characteristic is left out: the flags of those
characteristics (`read`, `notify`) offer no write to a host.

### PointerMotion

`MachineInt` has an `int` that goes to `IntMax` and wraps, an unsigned limit as wide that
`std::min<int>` converts (`StepCap`), `std::clamp`, and a cast to a byte that goes to
`ReportMax`. Signed overflow of the subtraction is undefined in C++; the model takes the two's
complement result of the build. `std::clamp` with its bounds the wrong way round is undefined
too; the model allows both results that the usual implementations give. `PointerMotion` is the
loop of `movePointerInternal` for one caller, at the edges of these integers; `HidServer` has
the same operators in the loop that other threads and BlueZ interrupt, and `HidGatt` where the
report's bytes are made.

### HidReports and HidGatt

`HidReports` has the key table row by row, the constructors, `mouseButtonFromString`,
`MouseButtonMask` and the fields of `hidReportMap`. `HostReads` decodes the bits of a
report through the map, and `HostTypes` is a US layout: together they are the reference
that the table is checked against.

`HidGatt` has the object table of `setupApplication` as a record of objects by path, and
as state what is read and written of it. The calling thread puts the bytes of each report
into the report characteristic (`TypeChar`, `MovePointer`, `PressButton`, `Release`) and
then, without the id, into the boot characteristic (`SendBoot`); between the two, BlueZ may
fetch the objects with the values they have then (`GetManagedObjects`) and a host may write
(`WriteValue`, for the flags that allow it; the handlers of both writable characteristics keep
the byte in a member that nothing reads). A `MovePointer` is one iteration of the loop for any
way left, with the clamp and the casts between it and the report's byte. The notifications themselves are in `HidServer`. The value of a report
begins with the report id, and `HostReads` skips it; whether a host expects that, given
that a Report Reference descriptor names the id too, is not decided in this repository.

### HidDaemon

One program counter for `main`, one for the server thread, the state of the event
thread, of the listening socket (open, shut down, listening) and of `serverFd_`, which
is a different thing: `stop()` may close the socket before it clears the variable.
Every line of `HIDHttpApi::stop` and `serverLoop` that reads or writes shared state is
an action of its own. A system or D-Bus call may fail, `MaxFaults` times in all; a
signal may arrive at any time; a client may send, stall or leave at any time. `fate`
says how the process ended: `exited` (normal), `failed` (exception), `aborted`
(`std::terminate`, from the destructor of a thread that was not joined), `killed`
(the default action of a signal, SIGPIPE included) or `crashed`. `Deliver` runs the handler
in one step (`HandleSignal`): `signalHandled` is set together with the promise and read by
nothing else. A second `set_value` would throw in the handler and abort (`SetValue`), which is
what that flag prevents. `CloseSocket` treats a second `close` of the same descriptor as
without effect; that its number may have been given to another file is not modelled.

`Destroy` covers the destructors. `stop` destroys the connection (`ResetObjects`) before
the characteristics whose D-Bus objects were created on it; what the destructors of those
then do is undefined, so the last step may end as `crashed` whenever the connection was
taken down that way. What a failed start leaves in an object that is
started again is not modelled, because `main` never starts one twice.

### HidService

`HidService` is `HidServer` and `HidDaemon` in one state space, with the server thread as the only
caller. `HidDaemon` lets a call take one step of time (`CallEnds`); here `BeginCall` enters
the execution path, `InCall` are its steps, and `EndCall` is allowed when the call has left.
Everything else of the process goes on meanwhile (`Outside`), and BlueZ subscribes only while
the event loop runs (`Subscription`). Its fairness is that of `HidDaemon` with the steps of
the call in place of "a call returns", so `KeepsDaemon` shows that the shutdown ends
although a call has to finish first.

### HttpRequest

One connection. The client sends a request unit by unit and may close or reset at any
time; `recv` returns any part of what has arrived, up to `Buffer` units. A head takes
one or more units, the last of which completes the blank line, so the blank line may be
cut too. A body is a sequence of complete YAML lines; a line cut in the middle is not
modelled. `Content-Length` may be missing, repeated (the last one wins) or malformed
(zero). Of a key that is repeated the first counts (`Named`), as for `yaml-cpp`. `HidDaemon` has the same handler in fewer steps, among the other threads;
`HttpRequest` has its data.

### HidConfig

The keys are read in the order of the code; each reading step either assigns or throws.
`std::stoul` is modelled with its largest value: it takes a sign, negates modulo the size and stops at
the first character that is no digit. Files have one or two keys, because a key is read
without regard to the others. A file that is missing or no YAML (`Unreadable`) ends the load at
once. The loader accepts step limits that `int` does not represent, with which a move never
ends (section 6); `LimitEndsMoves` says which texts give one: those that are such a number, and
negative ones.

### Planner, EventBus, MemoryStore

`Planner` is the loop of `from_llm`. A text is the set of terms it contains, whatever the
case of its letters, which is what `is_allowed` looks at.

`EventBus` keeps the live list of each topic and a stack of publications: `publish` called
from a callback starts another one that returns before the first goes on. A callback has one
of four duties: record the message in the store, subscribe a recorder, publish, or raise.
`Raise` drops the whole stack, as no `publish` catches. There is one thread: the services
that would use the bus are not in the repository. A callback that subscribes itself anew on every
call would keep `publish` from returning; in the model, callbacks subscribe recorders only.
`MemoryStore` has the slice of `query`, with Python's meaning of a negative start.

## 3. The runs

| Run | Question | Bounds |
|---|---|---|
| `server_safety` | Do the safety properties and the inductive invariant hold under contention, unsubscription and throws? | 2 callers, 2 calls, 1 key, targets (3,-1) and (-5,-1), `IntMax` 4, `ReportMax` 3, limit 4, 1 throw per device |
| `server_typing` | Does a text arrive complete, in order, without another call's strokes? | 2 callers, texts with CR, an unsupported and a repeated character, mouse disabled |
| `server_liveness` | Does a call finish, is a press that a host was told of followed by its release, and do the report characteristics implement `HidDevice`? | 1 caller, 1 call, texts of several keys, target (3,-1), limit 2, 1 throw per device |
| `motion_sane` | Do moves between any points behave, for limits that `int` represents? | `IntMax` 31, `ReportMax` 7; points at the edges; limits 1, 7, 8, 31 |
| `motion_huge` | The same for limits that `int` does not represent: a violation, section 6 | limits 32, 63 |
| `reports` | Does a host find, and decode in either protocol mode, what was asked for, whatever it writes? | all 256 characters, all button names, `ReportMax` 127, limit 200, `IntMax` 511, distances at the edges of all three, one request |
| `daemon` | Is the order of shutdown safe in every interleaving, and does a signal, or a failed start, end the process? | 2 clients, 2 faults |
| `service` | With calls that take many steps: are reports sent only while the connection is up, is nothing left pressed at the end, and do the promises of `HidDaemon` still hold? | 1 client, 1 call of one key with its release, 1 D-Bus or system fault, 1 throw |
| `request` | Is an honest client answered for its whole body, however the stream is cut, and nobody twice? | heads of 1 or 2 units, bodies of up to 3 lines, `Buffer` 2, eight forms of length |
| `config` | Does what loads mean what is written, and does every good file load? | `LongMax` 63, `IntMax` 31, `ShortMax` 7; numbers at each edge, six environments, a file that cannot be read |
| `bus` | Does every recorder hear each message once and in order, whatever the other callbacks do? | 2 topics, 4 subscriptions, 3 messages |
| `policy` | Does the planner deny what `configs/policy.yml` blocks? A violation, section 6 | 1 step |

Why the bounds are enough. Two callers and two calls are the least that contend for
the mutex, and give every pair of kinds of call. The two targets are 8 apart on one axis, more
than an `int` of -5..4 represents, so that a second move or click computes its distance with a
wrap; limit 4 is above the largest displacement of a report (3), so that a move takes several
steps on one axis and one, not full, on the other. One throw per device reaches every
place where a throw can happen; with more, only the drift of `PointerTracked` grows,
which the proof covers for any number. The sizes of `PointerMotion` keep the relations
between the real ones: the report is narrower than `int`, its largest displacement (7)
lies between limits on both sides, and the points are far enough apart to wrap. In
`reports` the byte has its real size, and limit and `int` lie above it in the order of the real
ones; one request is enough because the values it leaves do not influence the next;
its press and release, and the report and boot halves of each, are separate steps. Two
clients give one in service and one waiting; two faults give every pair of failures. In
`service` one client with one key already puts every state of a call against every state of
start, shutdown and failure; the proof has no bound.
Heads of two units and bodies of three, with a buffer of two, give every position of a
cut: before, inside and behind the blank line, and inside and behind the body. The sizes
of `HidConfig` are ordered as the real ones. Three messages on two topics nest three
deep, and four subscriptions put recorders before, behind and inside the callback
that publishes.

`server_liveness` uses one caller and one call: with it every path through the loops is
there. The competition for the mutex, and one call after another, are in `server_safety`,
which checks the safety part of the same promise (`PressesAlternate`).

Deadlock is not checked: calls, clients and the process are allowed to end.

### What the properties say

* `ReleasedBetweenIterations`, `HostSeesReleased`: nothing stays pressed between two
  iterations, as stored and as heard by a host that was told the last value. They
  are about a device none of whose signals has thrown: after a throw the code does
  leave the key down.
* `ClickOnTarget`: a button is down only with the pointer on the target of the click
  that pressed it, whatever other calls wait for the mutex.
* `PointerTracked`: the tracker equals what the boot characteristic was sent, and
  differs from what the report characteristic was sent by at most one step per throw,
  whatever wraps on the way.
* `TypedInOrder`: at each loop head what is left is the rest of the text, and what was
  typed is the strokes of the typeable characters before it, in order.
* `PressesAlternate`: the safety part of `HidDevice`, on both devices;
  `DevicesKeepPromise`: all of it, with the release that must follow a press.
* `PressIsLifted`, `OwnerReturns`: as their comments say.
* `MotionInv`, `MoveEnds`, `StepsAreFull`, `ReportCarriesStep`: the loop ends on its target,
  wrapped distances included, as soon as the limit allows, without passing it, and the
  host is sent the displacement the tracker records.
* `FitsReportMap`, `HostTypesTheChar`, `HostSeesTheMouse`: the map, the reports and the
  tables of keys and buttons agree, and a host sees a move go its way on each axis as far as
  the limit and a report allow, whatever the distance. `BootSeesTheSame`: a host in boot protocol sees the
  same, which is why the server may ignore the mode. `ReportsAreFound`: the references of
  the object table lead from an advertised service to each report id of the map.
* `WholeBody`, `SegmentsDoNotMatter`, `HonestIsAnswered`, `EndedIsLetGo`: requests, for
  clients that declare the length they send; `KeepsExchange` is the refinement of
  `HttpExchange`, for all clients.
* `NumbersAsWritten`: a number that loads is the one `std::stoul` makes of its text, its
  complement for a negative one, and fits its key. `LimitEndsMoves`: a step limit with which a
  move never ends comes from such a text only. `GoodFileLoads`: no file in range is refused.
* `NothingUsedAfterStop`, `EndsInOrder`, `NothingLeftRegistered`, `StopsInTheEnd`: the
  process.
* `SendsOnLiveConnection`, `PressedOnlyIfKilledEarly`: a call against the end of the
  process. `main` starts the HTTP server before it installs its handlers, so a signal
  in between may kill the process with a key down; no other end does, SIGPIPE included,
  because a response follows its call. `KeepsDaemon` is the refinement of
  `HidDaemon!FairSpec`.
* `EveryoneHearsOnce`, `OnlyNestedOvertake`: a subscriber of a topic, one included that
  subscribes during a publication, hears the message once, and in order but for
  messages published from inside another publication. `QueryIsRecent`: the store, for positive
  limits.
* `IInv`, `DaemonInv`, `RequestInv` and `MotionInv` are the inductive invariants of the
  proofs; the runs check them first.

### Fairness, and why the code justifies it

* `HidServer`: the thread inside a call is scheduled (it never blocks but on
  `sleep_for`, which ends), and a mutex that is free is granted to somebody who waits.
  No fairness for callers, for BlueZ or for throws. Weak fairness of "some caller
  locks" is all that `std::mutex` gives, so no property says that a given caller
  gets its turn.
* `PointerMotion`: the thread inside the loop keeps running.
* `HttpRequest`: the server thread runs and a call returns; a client that has not closed
  goes on sending.
* `HidDaemon`: `main` and the server thread run when they can, and need no failure for
  it; the event loop ends once `leaveEventLoop` was called; a client sends its request
  unless it stalls. Nothing forces a signal, a connection or a failure.
  `StopsInTheEnd` excepts a client that stalls for good: `recv` has no timeout and
  `stop()` joins the thread that waits in it. That is the behaviour of the code.
* `HidService`: the same, with the server thread scheduled inside a call instead of a call
  that simply ends.

## 4. What is proved

No theorem uses the fairness of its specification; each holds for every value of
its constants under the assumptions the module names. Each argument is the same: an inductive
invariant holds initially and is kept by each action, one lemma or step per action, and the
property follows from it.

### The execution path

`HidServerProofs`, for every set of callers, texts and
targets, every stroke table, limit and bound, every size of `int` and of the report, under
`WidthAssumption` of `MachineInt`, `ConstantsAssumption` and `NoRequestAssumption` of `HidServer`
(the limit is an unsigned number but not 0, model values differ, targets are pairs of `int`). Where
the table says `LimitFits`, the limit is at most `IntMax`: with a larger one, which the loader
accepts, the statement is false of the code (section 6).

| Theorem | Statement |
|---|---|
| `Inductive` | `Spec => []IInv`; its part `WithinLimit` is conditional on `LimitFits` |
| `TypeCorrect` | `Spec => []TypeOK` |
| `Released` | `Spec => []ReleasedBetweenIterations` |
| `HostReleased` | `Spec => []HostSeesReleased` |
| `Clicked` | `Spec => []ClickOnTarget` |
| `Tracked` | `LimitFits`: `Spec => []PointerTracked` |
| `Alternate` | `Spec => PressesAlternate`: the safety part of `HidDevice`, on both devices |
| `Silent` | `Spec => []DisabledIsSilent` |
| `Typed` | `Spec => []TypedInOrder` |
| `GetsOn` | `LimitFits`: `Spec => CallsGetOn`: each step of a call leaves it less to do |

The properties are not inductive: that nothing is held at a loop head says nothing of
the state in the middle of an iteration, from where the next step returns to the loop
head. `IInv` (in `HidServerInv`) says what holds in the middle:

* `LocalsOwned`, `LocalsOfText`, `LocalsOfPointer`: the locals describe the owner's
  call; in particular tracker and `delta` always lead to the target, in the arithmetic of `int`.
* `WithinLimit`: with a limit that `int` represents, a step is within it (`StepBounded`) and
  `PointerInv` holds.
* `HeldOnlyWhenPressed`: a characteristic holds something only in the stretch of the
  iteration between its own two stores (`PressedNow`).
* `StoredIsPayload`, `HeardIsValue`: between its store and its signal an update is the
  stored value, and a host that is not stale has heard the stored value of every
  characteristic but the one in flight.
* `PointerInv`: what was sent is the tracker plus what the current iteration has sent
  already (`Ahead`), with one step of slack per throw for the report characteristic.

There is one lemma per action, each with the parts of `IInv` that the action can
disturb; `Inductive` puts them together, and the other theorems follow from `IInv` at
the states they speak of. `server_safety` checks `IInv` as an invariant too.

`Alternate` maps every step of `HidServer` to a step of `HidDevice` or a stutter: only
`Store` changes what a characteristic holds (`OnlyStoreWrites`), only `EmitThrows` changes
`faulted` (`FaultsGrow`), and `IInv` says that a first store finds nothing held
(`StoreAlternates`). `Silent` adds to `IInv` that every waiting or running call has passed
the check of its device (`EnabledInv`).

`Typed` adds `TypedInv`, which says what is typed in the middle of an iteration too, where the
stroke of the current character may or may not be stored. No induction over the text is
needed: a typeable character has as its place among the strokes the number of typeable
characters up to it (`Spells`), and one more character adds one place or none.

`GetsOn` is the part of `OwnerReturns` that is no liveness: `WorkLeft` is a natural number
(characters, distance not yet sent and the click, each worth more than one iteration, plus what is left of
the iteration), a step of the call that does not end it makes it smaller, and no step of
another thread or of BlueZ changes it.

### The daemon

`HidDaemonProofs`, for any number of clients and failures: `DaemonInductive` (`DaemonInv`),
`DaemonTyped`, `LiveObjects` (`NothingUsedAfterStop`), `Ends` (`EndsInOrder`), `TakenBack`
(`NothingLeftRegistered`). None of them is inductive: that a request never runs while the
connection is taken down depends on the join that lies before it, the join on `joinable`, and
that on what the server thread may have done by itself. `DaemonInv` says what holds at each
place of `main` and of the server thread:

* `HidUp`: where the connection is up, `running_` is set and the event thread may run.
* `ThreadHeld`: a thread that `main` has not joined is known to `joinable`, and past the
  join only a thread that gave up is left.
* `StopsForFailure`: before `main` stops it, the server thread leaves its loop for a failure
  only, which is what makes the unjoined thread of `std::terminate` cost a fault.
* `SocketHeld`: how `serverFd_` and the socket can differ while both threads close it.
* `Registrations`: what is still registered was refused.

`JoinEnds` is the part of `StopsInTheEnd` that is no liveness. While `stop` waits in its join, a server
thread in `accept` has been woken by the shutdown of its socket (`Woken`: it was
there before `running_` was cleared, and then there was a socket to shut down), and each of its steps
takes it nearer its end (`StepsLeft`): the join waits for the client being
served and for nothing else.

### The service

`HidServiceProofs`: `ImplementsDaemon` (`ServiceSpec => Daemon!Spec`) and
`ImplementsServer` (`ServiceSpec => Spec` of `HidServer`): each step of the composition is a
step of either part or leaves it alone. So both invariants hold in the composition, and with
two facts about where a call can be (`CallInRequest`, `EndsOutsideCall`) they give `SendsLive`
and `PressedEarly`: `DaemonInv` knows when a request may run, `IInv` knows what is pressed
between and inside calls.

`ServiceJoinEnds` (`JoinOfServiceEnds`, under `LimitFits`) composes `JoinEnds` and `GetsOn`: while `main` waits in its join,
every step that moves the server thread, a step of its call included, makes a
triple smaller in lexicographic order: the places left in the server loop, whether the call still waits
for the mutex, its `WorkLeft`. Everybody else leaves the triple as it is.

### Requests

`HttpRequestProofs`: `RequestInductive` (`RequestInv`), `RequestTyped`, `Whole` (`WholeBody`),
`AnySegments` (`SegmentsDoNotMatter`), `Exchanges` (`KeepsExchange`), for any request, any buffer
and any cut. `RequestInv` says that the body is the prefix of what was received behind the
head, so that what is executed depends on how much was received and not on how.
`HandlerEnds` (`HandlerGetsOn`) is the part of `HonestIsAnswered` and `EndedIsLetGo` that is no
liveness: the handler has a bounded number of steps, and `recv` waits only for
a client that has not ended its stream, for an honest one only while part of its request is
unsent.

### Reports and objects

`HidGattProofs`: `ReportsFit` (`FitsReportMap`), `TextArrives` (`HostTypesTheChar`), `MouseArrives`
(`HostSeesTheMouse`), `ProtocolsAgree` (`BootSeesTheSame`), `HostFindsReports` (`ReportsAreFound`),
for any manufacturer and number of requests, any `Chars` within `char`, any distances and any
limit that `int` represents, whatever its size (`ReportsAssumption`).
`GattInductive` proves `GattInv`: every input characteristic holds what a constructor made
of some stroke, clamped distance or button, the last one written that of the last request (`ReportsInv`); a boot
characteristic holds the report without its id except while its write is pending (`BootInv`);
no other value is ever written, and what a host knows of an object is what was built but for
the value of a characteristic (`ObjectsInv`). What a host sees then follows from facts
about the program's tables: a stroke found for a character types it back (`StrokeFacts`),
there is one for every printable character (`PrintableTyped`), the fields of the report map
cut a report into what its constructor put there (`KeyboardReads`, `MouseReads`: the bits
of a byte, and the byte of a signed displacement), and each object refers to objects that exist
(`ObjectFacts`).

### Configuration

`HidConfigProofs`: `ConfigInductive` (`ConfigInv`: the loader has read a prefix of the keys,
each to its own field with its own value), `LimitsEnd` (`LimitEndsMoves`), `AsWritten`
(`NumbersAsWritten`), `Loads` (`GoodFileLoads`), for every set of
files and environments and any sizes of `unsigned long`, `uint32_t` and `uint16_t` in that order.

### Pointer arithmetic

`PointerMotionProofs`: `MotionInductive` (`MotionInv`), `MotionTyped`, `Carries`
(`ReportCarriesStep`), `FullSteps` (`StepsAreFull`), for every size of `int` and of the
report and every set of points; the first two for any limits, the others under `LimitsAreInts`:
each limit is at most `IntMax`. This assumption is what the finding of section 6 is about;
without it these two are false. `HidServerProofs` takes its arithmetic from here.
The wrapped arithmetic is the heart of it: adding and subtracting a step commute with the wrap,
so tracker and way left keep leading to the target in the arithmetic of `int`.

### Event bus

`EventBusProofs`: `BusInductive` (`BusInv`), `HeardOnce` (`EveryoneHearsOnce`),
`InOrderButForNested` (`OnlyNestedOvertake`), `RecentQuery` (`QueryIsRecent`), for any topics
and any number of subscriptions and messages. When `publish` returns every recorder has the
message; that follows from what holds in the middle of the loop (`HeardSoFar`): the recorders
called so far have it once, the others do not have it. This survives the calls of the callbacks because
the list only grows at its end (`Grown`), new callbacks and messages have new numbers
(`Numbered`), and the stack holds later messages above earlier ones (`Nested`).

## 5. What is only model-checked

* Liveness (`OwnerReturns`, `PressIsLifted`, `MoveEnds`, `StopsInTheEnd`, `HonestIsAnswered`,
  `EndedIsLetGo`, and the fairness parts of `DevicesKeepPromise` and `KeepsDaemon`): out of
  the prover's reach. Of most of them the part that depends on the code and not on the
  scheduler is proved as an action property: `CallsGetOn`, `JoinComesToAnEnd`,
  `JoinOfServiceEnds`, `HandlerGetsOn`, and
  for `MoveEnds`, with limits that `int` represents, `StepsAreFull`, which takes a full step or
  the rest off the way left. What remains is that a scheduled thread runs.

Every other property of a passing run is stated by a theorem. The other way round, no run
repeats `CallsGetOn`, `JoinComesToAnEnd`, `JoinOfServiceEnds`, `HandlerGetsOn`, `TypedInv`, `GattInv`, `ConfigInv`, `BusInv`
and `DisabledIsSilent`: they are steps of proofs, or the halves of the liveness properties that the runs check whole.

## 6. Findings

`motion_huge`: `std::min<int>(config_.safety.mouseStepLimit, 127)` (`bhs` 741) turns a
configured limit of 2^31 or more into a negative number; `loadHIDConfig` accepts such a
limit. Both bounds of `std::clamp` then come from a negative number, the steps lead nowhere
(away from the target, or at 2^31 itself to and fro by the whole of `int`) and the loop runs
for ever with the mutex held. `docs/SAFETY.md` line 4
promises that the limits prevent runaway loops. Limits that `int` represents are fine
(`motion_sane`).

`policy`: `docs/SAFETY.md` line 7 says that the planner checks `configs/policy.yml` and denies
commands that match its patterns. `Policy.blocked` is the literal list `format`, `delete`
(`services/planner/planner.py` 14); the file is never read, so a step on a target with `erase` or `rm -rf` is
planned, and `from_llm` looks at the target of a step only, so what a step would type is
planned whatever it is.

Behaviours the models have and no document of the repository contradicts, so that they
are not findings: a throw between press and release leaves the key down; a signal
before the handlers are installed ends the process without unregistering; a server
thread that gave up makes the exit a `std::terminate`; a stalled client blocks the
shutdown; a client that resets before the response ends the process by SIGPIPE.

## 7. Not modelled

* Gateway, perception and LLM service: stubs that return constants or echo their request;
  they forward nothing and keep nothing but the list of the memory router.
* Scripts, Docker files, configurations: no program state.
* Whether `RegisterApplication`, which blocks before the event loop runs, waits for ever
  depends on when BlueZ reads the managed objects, which is not in this repository.
* Destructors of D-Bus objects after their connection: undefined, `crashed` in `HidDaemon`.
* A second `start` of an object whose first one failed: `main` never makes one.
* YAML and JSON text below the level of lines, nodes that are not scalars, getters of
  constant properties, logging and the delays between notifications.

## 8. Plan

Every component with state is modelled, and every safety property of a passing run is
proved, with the bounds that the liveness properties of calls, shutdown and requests rest on. What
remains:

* `ReleasedBetweenIterations` and `PressIsLifted` meet in a bound for a key: how many steps of
  the owner it may stay down, as an action property like `CallsGetOn`;
* for `Planner`, that every planned step passes the default policy. It is a fact about one
  operator without state.

The abstract specifications are `HidDevice`, `HttpExchange` and, for the composition,
`HidDaemon`.

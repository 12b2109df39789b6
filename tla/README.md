# TLA+ specifications of the Shure–NMOS bridge

The bridge is a Go process that connects Shure wireless receivers (a TCP text
protocol, TPCI) to NMOS: it registers every receiver as an IS-04 device, sends
its meter values as IS-07 events over websockets, exposes it as an IS-12 (NCP)
object model, and accepts IS-05 connection requests. This directory models the
parts of it that run concurrently, checks them with TLC, and proves their safety
with TLAPS for every number of devices, clients, registries and resources. Source
paths below are relative to the repository root.

- [1. Inventory](#1-inventory)
- [2. Modules and how they correspond to the code](#2-modules-and-how-they-correspond-to-the-code)
- [3. Runs](#3-runs)
- [4. Proofs](#4-proofs)
- [5. Where the code and its documentation disagree](#5-where-the-code-and-its-documentation-disagree)
- [6. What is not modelled](#6-what-is-not-modelled)
- [7. Plan](#7-plan)

To repeat everything:

    tlc -workers 2 -config MCMessageBus.cfg MCMessageBus     # any run of section 3
    tlapm MessageBusProofs.tla                               # any ...Proofs module

## 1. Inventory

| Component | Code | State | Operations | Modelled by |
|---|---|---|---|---|
| Message bus | `internal/infrastructure/message_bus.go` | two channels of 100, a context, a WaitGroup | `Send`, `Receive`, `Close`, a forwarding goroutine | `MessageBus`, `BoundedFifo`, `MessageBusProofs` |
| Shure controller | `shure_controller_impl.go` | the TCP connection, `isRunning`, `done`, the `events` channel | `Start`, `Stop`, `signalDone`, `readEvents`, the lifecycle goroutine; `SendCommand` | `ShureController`, `ShureControllerProofs` |
| Gateway | `internal/module/gateway.go` | the table `shureCtrls` under `g.mu`, per device `info` with index, `lastSeen` and the maps of NMOS identifiers | `Start`, `Stop`, `handleDiscovery`, `addShureController`, `listenToShureEvents`, `processMessages`/`handleShureDevice`, `reapStaleDevices`, `setupDeviceNCP` | `Gateway`, `GatewayProofs`; `setupDeviceNCP` and the routing of reports in `NcpTree` and `DeviceArrival` |
| IS-07 transport | `nmos_controller.go` 1626–1921 | `clients`, `clientLastHealth`, `lastEvents` under `c.mu`; one websocket per client | `handleWebsocket`, `BroadcastEvent`, `broadcastUpdate`, two tickers, `closeAllWebsocketConnections` | `Is07Events`, `Is07EventsProofs` |
| IS-04 registration | `nmos_controller.go` 272–844, 1470–1522 | `registryURL`, `currentRegistryURL`, `registered`, `monitoringRegistry`, `peerToPeerMode`, `isRunning` | `discoverAndRegister`, `registerWithRegistry`, `reRegisterAll`, heartbeat, monitor, `unregisterAll` in `Stop` | `Registration`, `RegistrationProofs` |
| Resource store | `nmos_controller.go` 2420–2715 | `resources`, peer-to-peer version counters | `RegisterResource`, `UpdateResource` | only its effect on the gateway (`RegisterReturns` in `Gateway`) |
| IS-12 NCP server | `nmos_controller.go` 1200–1470, `ncp_objects.go`, `internal/nca/nca_model.go` | `ncpObjects`, `ncpClients`, `ncpSubscriptions`; `Value` of each worker | `handleNCP`, `dispatchNCPCommand`, `handleSubscriptions`, `SetProperty`, `BroadcastNCPNotification` | `NcpServer`, `MCControl`, `ControlProofs` |
| NCP object model | `gateway.go` 315–712, `ncp_workers.go`, `nca_model.go` | members of blocks, registered classes, `parameterOIDs` | `setupDeviceNCP`, `Create...Workers`, `AddItem`, the searches of a block | `NcpTree`, `NcpSearch`, `NcpOids`, `NcpOidProofs` |
| IS-05 | `nmos_controller.go` 2919–3069, `nmos_connection_types.go` | `stagedConnections`, `activeConnections` under `c.mu` | GET active and staged, PATCH staged | `Connection`, `MCControl`, `ControlProofs` |
| Discovery | `mdns_discovery.go` | `lastSent`, the `devices` channel of 20, a WaitGroup | `Start`, `Stop`, `browseMDNS`, `listenShureDiscovery`, `sendDevice` | `Discovery`, composed in `DeviceArrival`, `DeviceArrivalProofs` |
| Shure command protocol | `shure_commands.go` | none | parsing, formatting, models and their channels | models and channels in `NcpOids` |
| Database | `database.go` | an in-memory SQLite database | one statement per method | no |
| Node API | `nmos_controller.go` | none | read-only JSON views | no |
| Programs | `cmd/*/main.go` | flags, the signal context | start, wait for the context, stop | inside the other modules (`Signal`) |

How they interact. `main` starts the gateway and calls `Gateway.Stop` once the
signal context is done. `Gateway.Start` and the discovery goroutine call
`addShureController`, which dials the device outside `g.mu`, then takes `g.mu`
and keeps it while it inserts the entry, starts `listenToShureEvents`, builds the
NCP objects and registers the device's IS-07 resources with the NMOS controller.
Each listener passes the controller's events to the bus; `processMessages`
receives them, looks the device up, broadcasts IS-07 events, updates resources
and NCP objects. `c.mu` of the NMOS controller is taken inside `g.mu`.

A device gets into the process through discovery: the goroutines of the
discoverer put what they hear on `devices`, `handleDiscovery` filters and passes
it to `addShureController`, and `setupDeviceNCP` builds the device's part of the
control tree, call by call, while NCP clients read it. The gateway's `Stop` waits
for the discoverer with `g.mu` held. A control object is then set from two sides,
by the handlers of NCP clients and by `processMessages` for reports of the device;
both call `SetProperty`, which sends the value to the device (`OnSet`), stores it
and notifies the subscribers, without a lock around the three.

What is hard in this code, and hence what the properties are about:

- *Two-stage channels and their shutdown.* A report crosses three channels and
  two goroutines' hands; the shutdown cancels and closes them in an order that
  nobody joins. Reports must be neither lost, repeated nor reordered, blocked
  senders must be released, and `Close` must return although its consumer is stuck.
- *Unlocked shared state.* `isRunning` and `done` of a Shure controller,
  `registryURL` and `isRunning` of the NMOS controller are read and written by
  several goroutines. Every access is a step of its own in the models.
- *Locks released between decision and effect.* The heartbeat check, broadcasts,
  the reaper and the double-checked insertion of a device all act on what they
  saw under an earlier lock.
- *Locks kept for long.* `addShureController` keeps `g.mu` through registrations,
  `Stop` while the discoverer ends, and a notification keeps `ncpClientsMu` while
  it writes to clients that may be gone.
- *Identifiers computed from indices.* Reports are routed and objects registered by
  numbers that are products of a device index; a collision replaces an object
  silently.
- *Throttling before delivery.* An announcement is marked as sent before it is
  offered to a channel that may be full.
- *The outside world.* Devices and clients vanish, write deadlines pass,
  registries disappear, forget the node or reject a request, and discovery moves.

`PROJECT.json` lists every hazard at its line with the properties that cover it.

## 2. Modules and how they correspond to the code

Names follow the code; `PROJECT.json` maps each definition to its lines. Actions
are the sections between two points at which another goroutine can interfere: a
section under a lock is one action, an unlocked access of a shared variable is
one action, a select with several ready cases is a disjunction. Go's log
messages, formats and identifiers are left out.

**BoundedFifo** is the abstract specification of the bus: a queue of `Capacity`
places with `Put`, `Get` and `Shut`, the shutdown, which may lose messages at the
end of the queue but never leaves a gap.

**MessageBus** is `InMemoryMessageBus` with its users. `sendChan` and
`receiveChan` are sequences of at most `Cap`; `sendq` is the queue of goroutines
parked in `Send`'s select (Go hands a freed slot to the oldest, hence
`ForwardTakeAndWake`); `inHand` is the message the forwarder has taken and not
yet passed on; `stop` is the progress of `Close`: cancel, wait for the forwarder,
close both channels. `accepted` and `delivered` are histories. A `Send` on a
closed channel panics and ends the process (`crashed`).
`ImplementsFifo` states that the module implements `BoundedFifo` with capacity
`2 * Cap + 1` and `receiveChan \o inHand \o sendChan` as its queue.

**ShureController** is one controller. `reader`, `lifecycle` and `stopper[c]` are
program counters of `readEvents`, of the goroutine that waits for the context,
and of the two callers of `Stop` (reaper and gateway); `wire` holds the lines the
device has sent. Closing `done` twice panics, which ends the process in one step: that
the deferred `wg.Done` of the lifecycle goroutine may let a waiting `Stop` go on for the
moment before the runtime ends the process is left out. The reader has exited by then,
so that a `close(c.events)` in that moment meets no send. A line is a number and a Boolean:
whether `ParseTPCIResponse` makes a report of it.

**Gateway** is the device table and everybody who uses it. `gmu` names the goroutine
that holds `g.mu` across steps. `adder[t]` walks the two callers of `addShureController`
through dial, double check, insertion, registration of the device and, for each metered
parameter, of source, flow and sender. `age` counts the reaper's ticks since `lastSeen`.
`proc` walks `handleShureDevice` through the lookup, the broadcast, the lookup of the
object (`ProcFindsOID`) and its `SetProperty` (`ProcUpdates`), which calls `SendCommand`
and may not return. A Shure controller is the summary that `ShureController` justifies:
`Stop` on a running one never returns. `RegisterReturns` chooses the NMOS controller:
see section 5, first item.

**Is07Events** is the websocket side. `conn[c]` is the state of a connection
(external: gorilla/websocket): writable, past its write deadline, broken by a
failed write, or closed. `proc` is `processMessages` inside `BroadcastEvent` or
`broadcastUpdate`, `reader[c]` the handler of a connection, `expired` and `pings`
the two tickers. Removing a connection from the maps (under `c.mu`) and closing it
(after) are separate actions. Events of a source are numbered by the order in
which `BroadcastEvent` is called.

**Registration** is the life of the node in the registries. `pc[p]` is where the
starter, the heartbeat or the monitor is inside `registerWithRegistry` (two assignments,
the check of `isRunning`, the requests); each request goes to the value of `registryURL`
at that moment. `holds[u]` is what registry `u` has; a registry rejects a resource whose
parent it does not hold. `Discoverable` is what `discoverRegistry` may return, in any of
its modes: before the signal what is advertised; after it that or nothing, since mDNS
looks at the context and the static and unicast modes do not (a static registry is an
advertisement that never moves). In the heartbeat, the return of the discovery
(`Rediscovers`) and the assignments that follow it (`Assigns`) are two steps, and the
signal and `Stop` fall between. `found[p]` and `next[p]` are reset when the code no
longer uses them, to keep the state space small.

**NcpServer** is the IS-12 server and the objects behind it. `pc[a]` walks each
client's handler, the gateway (a report) and `Stop`; a write is `Starts`,
`OnSetSends` or `OnSetFails`, `Stores`, and a broadcast that holds `mu`
(`ncpClientsMu`) while it deals with `targets` one connection at a time. `conn[c]`
is the connection (external): in order, past its write deadline, broken by a failed
write, gone without closing, or closed. A message carries one command, and an object
has one property that can be set; commands that change nothing (Get, the searches,
anything refused, which includes every sequence method) are `Asks`. A method of the gain
worker is `InvokesMethod`, whose `SendCommand` may not return (`MethodReturns`).
`sent`, `told` and `raced` are histories.

**Connection** is IS-05: the two maps under GET and PATCH. `Patched` is the merge of
a body with what is staged, `Patch` the handler.

**NcpOids** holds the operators of models and identifiers: `DetectModelFamily` and
`MaxChannelsFromModel` over what they see of an instance name, the filter of
`handleDiscovery` (`Accepts`), the workers of each family, and the arithmetic of
object identifiers.

**NcpTree** is the tree of control objects. `SetupOps(i, m)` is the list of calls
that `setupDeviceNCP` makes for a device of index `i` and model `m` (register an
object, add it to its parent), `SetupStep` one of them; `RouteReport` finds the
object of a report as `handleShureDevice` does.

**Discovery** is the discoverer. `browse[s]` is the browsing goroutine of a service,
`sender[s]` the goroutine that drains its results or, for `"slp"`, the listener of
Shure's own protocol, `hand[s]` the record it offers, `recent` the addresses in
`lastSent` that are less than thirty seconds old. The draining goroutine exists from
`Resolves` on and may be given records before `Browse` returns, also if that fails.
zeroconf and the network are external.

**DeviceArrival** composes `Discovery` and `NcpTree` with `handleDiscovery`,
`addShureController` and the gateway's `Stop`, which share `g.mu` (`gmu`) and the
table. Manual devices, NMOS registration and the reaper are in `Gateway` and not
repeated: here what follows `setupDeviceNCP` returns.

**NcpSearch** adds the searches of a block to `DeviceArrival`: `FindMembers` goes
through the resolver, which wraps what it finds. It is a module of its own because it
is recursive, which the prover cannot take.

**MCControl** checks `NcpServer` and `Connection` in one run. They share no state,
so a behaviour exercises one or the other; interleaving them would only multiply
the states.

**MC...** modules extend a module for TLC; the `.cfg` files hold the bounds.

### Composition

The modules are checked at the interfaces at which the repository's own tests
drive the code: `gateway_test.go` gives the gateway an NMOS controller whose
`RegisterResource` returns, and `nmos_heartbeat_test.go` and
`nmos_unregistration_test.go` put the resources in place directly. This is
necessary, because in the process as it is built today `RegisterResource` never
returns (section 5): `g.mu` and `c.mu` then stay locked, and nothing that needs
either is reached. `Gateway` with `RegisterReturns = FALSE` is that composition.

## 3. Runs

All runs allow the system to stop (`CHECK_DEADLOCK FALSE`): after the shutdown, a
panic or the last bounded input there is nothing left to do; the liveness
properties say what must have happened by then.

| Run | Bounds | Properties |
|---|---|---|
| `bus` | 2 senders, `Cap` 1, 3 calls each | safety, refinement of `BoundedFifo`, liveness |
| `shure` | `EventCap` 1, 4 lines | order of reports, `Stop`/lifecycle, liveness |
| `gateway_safety` | 2 addresses (one manual), 1 parameter, 1 report | the table and its readers |
| `gateway_live` | 1 address, 1 parameter, 1 report | liveness with a controller that returns |
| `gateway_connect` | 2 addresses, no report | violated: `ConnectRegisters` |
| `is07_safety` | 2 clients, 1 source, 1 event | subscriptions, removal |
| `is07_live` | 1 client, 1 source, 2 events | cache, liveness |
| `registration` | 2 registries, device and child, 2 changes (failures of registries, moves of discovery) | completeness, unregistration, recovery |
| `reg_notfound` | the same | violated: `NotFoundReregisters` |
| `control` | 1 client and the gateway, 2 objects (one without `OnSet`), 2 writes, 2 subscriptions; 2 senders, 1 value of the parameters | values and notifications, lost clients, activation |
| `arrival` | 1 mDNS service and the listener, `ChannelSize` 1, a QLX-D (31 objects), an SLX-D (8 objects) and an ignored record of the same address | the tree, routing, shutdown, arrival |
| `tree_recurse` | the same | violated: `RecursiveSearchFindsNested` |

What they show:

- `bus`: while the forwarder runs, what was accepted is what was received
  followed by what is in transit (`NoLossWhileForwarding`); afterwards received is
  still a prefix of accepted (`DeliveredIsPrefix`). Nobody is parked unless the channel is
  full and the bus open (`ParkedOnlyWhenFull`), so closing `sendChan` never meets a
  parked sender. `Close` returns even if the handler never does (`CloseReturns`).
  If the handler keeps returning and the bus is not closed, parked senders go on
  and accepted messages are received (`SendersReleased`, `AcceptedIsDelivered`).
- `shure`: what the listener has heard, and what is on its way, are reports of the
  wire in its order (`ReportsInOrder`). No `Stop` gets past its `WaitGroup` while the
  context lives (`JoinUnreachable`): the reaper's `Stop` does not return before the
  shutdown, and `close(c.events)` is not reached by a process that goes on.
  Closing the connection ends the reader wherever it is (`StopEndsReader`).
- `gateway_safety`: although the dial is outside the lock a device has one listener
  (`OneListenerPerDevice`); `handleShureDevice`, which reads `info` without the
  lock, sees complete maps (`HandlerSeesCompleteInfo`) and broadcasts only events
  whose source, flow and sender are registered (`EventsHaveResources`). Device
  indices are unique (`DeviceIndexUnique`), but only because the table never shrinks
  while the gateway runs: the mutant in which the reaper's `Stop` returns breaks it.
- `gateway_live`: a report that was taken is dealt with, if devices take what
  `SendCommand` writes to them (`ReportsHandled`); the signal ends the gateway, also when
  a device keeps `processMessages` in `SendCommand` for ever (`SignalStops`).
- `is07_safety`: events reach only clients that subscribed, whatever happened since
  the snapshot (`OnlySubscribersHear`); whichever of the five places that remove a
  connection is first, nothing of it is left when its reader is gone
  (`NothingLeftBehind`).
- `is07_live`: no client knows a newer event than the cache (`CacheIsNewest`); a
  client that stops sending health is disconnected (`SilentClientExpires`); and the
  reader of a connection that was removed from the maps or closed ends
  (`RemovedReaderExits`).
- `registration`: without registry failures, whenever nobody is registering the
  registry that `registryURL` names has everything (`QuietMeansComplete`): the
  heartbeat and the monitor overlap freely, yet whoever assigns `registryURL` last
  posts everything afterwards. A `Stop` that finds no request under way, and neither discovery nor a
  goroutine with another registry than the reachable one of `registryURL`, leaves nothing
  in that registry while these stay as they are (`QuietStopUnregisters`). The heartbeat
  and the monitor go on during it: a heartbeat fails because the context is done,
  discovery may still answer, `registryURL` is assigned and `registerWithRegistry`
  entered, and only the check of `isRunning` in `RegisterNode` keeps the node from
  coming back (the mutant drops it). A registered node that is lost is
  registered again once discovery finds a registry that works (`HeartbeatRecovers`).
- `control`: once nobody is writing an object, its subscribers know the stored value,
  unless the last store fell between the store and the end of the notification of
  another write (`SettledSubscribersAgree`); a value the device refused is neither
  stored nor shown (`OnlyAcceptedShown`). A write that is past `OnSet` ends although
  broadcasts hold the lock for the slowest subscriber, and whatever other writers are
  stuck in `SendCommand` (`WritesEnd`); a client that closed or vanished leaves nothing
  in the three tables that know it, if its own handler's `SendCommand` calls return
  (`GoneClientLeaves`). A patch of a sender activates only if it asks for it, whatever
  earlier patches left staged (`OnlyImmediateActivates`).
- `arrival`: at every point of the set-up a member of a block resolves to an object of
  a known class, and a device in the root block is complete
  (`ClientsSeeWholeDevices`). A report reaches the worker of its own device, channel
  and parameter (`ReportsReachTheirWorker`). After `Stop` only a goroutine that drains
  mDNS results can still send (`OnlyDrainsSendLate`). `Stop` returns although it holds
  `g.mu` and the handler may be waiting for it (`DiscovererStopReturns`). A receiver
  arrives if its announcements are, again and again, the first of their thirty seconds
  and do not always meet a full channel (`AnnouncedArrives`): without these two
  hypotheses the throttle can silence it for ever.

Why the bounds are enough. Each run has the smallest sizes at which its hazards can
happen: a channel of capacity one is full or empty, and three messages per sender fill
the bus (three places) and park both senders; two addresses let Start and discovery meet
on one device and on different ones; two clients let one fail while the other is written
to; two events can be received out of order; two registries and two moves let discovery
leave a registry and come back to it while the monitor is still registering, and two
changes also let a registry fail, forget or reject once and discovery move; the
invariants also hold with three changes (2.7 million states). In `control` one client and the gateway are two writers
that race for the same object, and two objects let one broadcast pass while another
waits; the invariants also hold with two clients and one object (1.5 million states). In
`arrival` the QLX-D has every kind of object the code creates, a second device exposes
collisions of identifiers, a channel of one place is full after one record, and the
ignored record shares the address of a receiver and so its throttle. What section 4
lists needs no bound: it is proved.

Fairness. `FairSpec` of each module gives weak fairness to the goroutines of the
process: the Go scheduler runs what is runnable, and requests and tickers have
timeouts and periods. `Gateway` uses strong fairness for steps that lock `g.mu`,
since `sync.RWMutex` does not starve a waiter; `NcpServer` does so for
`ncpClientsMu`, and `DeviceArrival` for `g.mu`. In `NcpServer` a read of a client that
is gone or closed fails some time, because the code sets a read deadline, and a write
to it fails at its write deadline. `SendCommand` writes to a device without a deadline
(`shure_controller_impl.go:139`), so it is not assumed to return: `OnSetSends`,
`OnSetFails` and `MethodReturns` (`NcpServer`) and `ProcUpdates` (`Gateway`) have no
fairness. `GoneClientLeaves` and `ReportsHandled` need it and have it as a hypothesis
(`SendCommandReturns`: that goroutine is outside `SendCommand` again and again);
`WritesEnd` and `SignalStops` do without. One exception: an adder of `Gateway` gets past
the few short commands it sends over a connection it has just made, whose send buffer
holds them. `DeviceArrival` assumes that a device that is
dialled again and again answers some time; what else `AnnouncedArrives` needs of the
environment is a hypothesis of the property. Nothing is assumed otherwise of devices,
clients, registries, discovery, time or the operator's signal. The consumer's handler
is not assumed to return: properties that need it say so (`HandlerReturns`).

Each property has a mutant in `PROJECT.json`: an operator marked `Mutant` next to
the definition it replaces, under which TLC finds the property violated.

## 4. Proofs

`MessageBusProofs` proves, for every set of senders, every capacity and any number
of calls (assumption `BusAssumption`: `Cap` is a positive natural number,
`MaxCalls` a natural number):

| Theorem | Statement |
|---|---|
| `BusTypeCorrect` | `Spec => []TypeOK` |
| `BusLosesNothing` | `Spec => []NoLossWhileForwarding` |
| `BusDeliversPrefix` | `Spec => []DeliveredIsPrefix` |
| `BusParksOnlyWhenFull` | `Spec => []ParkedOnlyWhenFull` |
| `BusImplementsFifo` | `Spec => ImplementsFifo` |

The argument. `TypeOK` is not inductive: a parked sender's current message must
be a message, so `TypeInv` adds that parked senders have called `Send`. The
inductive invariant is

    BusInv == TypeInv /\ ParkedOnlyWhenFull /\ NoLossWhileForwarding
              /\ Drainable /\ ExitsWhenCancelled

`NoLossWhileForwarding` says nothing once the forwarder has exited, when messages left
in `sendChan` and in the forwarder's hand are lost; `Drainable` carries the rest of the
way that what the consumer has and can still get is a prefix of what was accepted, which
gives `DeliveredIsPrefix`. `ExitsWhenCancelled` says that the forwarder leaves its loop
only for the cancelled context. The lemmas before it say what each action does to
`InTransit`, the concatenation of the two channels and the hand: accepting (with or
without waking a parked sender) appends to it, forwarding leaves it alone, receiving
takes its head, and exiting cuts it to a prefix. These are also the four cases of the
refinement: `Put`, a stuttering step, `Get` and `Shut`.

`NcpOidProofs` proves three facts about the identifiers of `NcpOids`, for all device
indices, without assumptions, and the lemmas about the calls of `setupDeviceNCP` that
`DeviceArrivalProofs` needs:

| Theorem | Statement |
|---|---|
| `DevicesShareNoOid` | up to index 100 two devices share no identifier, and none has 1, 2 or 3 |
| `DeviceOidsAreDistinct` | within a device an identifier stands for one channel and one position |
| `NextIndexCollides` | index 101 shares an identifier with index 1 |

The argument. Up to index 100 the identifiers of blocks lie in 110..1104, those of the
workers of devices and channels (a block's number times 100) in 11000..110406, and
those below a channel (times 1000) from 111001 on: the ranges do not meet (`OidKinds`),
and within a range dividing by the factor gives the number back, hence device and
channel. The first worker range reaches the third at index 101, where
`DeviceWorkerOID(101, 1)` and `SubObjectOID(1, 1, 1)` are both 111001. With
`ArrivalReportsReachTheirWorker` below this says how far the routing of reports
scales; nothing in `gateway.go` limits the number of devices.

`ShureControllerProofs`, for every capacity of `events` and any number of lines
(`ControllerAssumption`: `EventCap` is positive):

| Theorem | Statement |
|---|---|
| `ControllerTypeCorrect` | `Spec => []TypeOK` |
| `ControllerKeepsOrder` | `Spec => []ReportsInOrder` |
| `ControllerNeverJoins` | `Spec => []JoinUnreachable` |

The argument. `ControllerInv` is `TypeInv`, `OneCloser`, `NothingMissing` and
`Drainable`. As for the bus, the report in the reader's hand is lost if the reader ends
while it offers it; `Drainable` keeps that the listener has, and can still get, a prefix
of what was parsed. `OneCloser` is why a `Stop` never joins: in a process that has not
panicked, a `Stop` past `signalDone` has closed `done` and the lifecycle goroutine has
not ended, because it would have closed `done` as well.

`ControlProofs`, for every set of clients, objects and senders and any number of writes
(`NcpServerAssumption`: there is an object, the root block; no client is named like a
goroutine of the server):

| Theorem | Statement |
|---|---|
| `NcpTypeCorrect` | `NcpSpec => []NcpTypeOK` |
| `NcpShowsOnlyAccepted` | `NcpSpec => []OnlyAcceptedShown` |
| `NcpSubscribersAgree` | `NcpSpec => []SettledSubscribersAgree` |
| `ConnectionActivatesOnRequest` | `ConnectionSpec => OnlyImmediateActivates` |

The argument. What is shown comes from a write that is past `OnSet`, so `JobsAccepted`
says that such a write carries a value the device took. `SettledSubscribersAgree` only
speaks of objects that nobody writes; `AgreeInv` follows the writes in flight: unless
stores overlapped, every one of them carries the stored value (`FlightsCarryValue`), and
a subscriber that can be reached either knows that value or is still going to be told
by one of them (`ToldOrWillBe`). That needs `ListedHaveHandlers` (a broadcast goes to
listed clients, whose handlers live, and nobody has targets while the lock is free) and
`ToldAreSubscribed` (who was ever told is subscribed until it leaves). For IS-05,
`StagedInv` says that no staged entry has the mode `activate_immediate` between two
requests: otherwise a later patch without a mode would activate.

`GatewayProofs`, for every finite set of addresses, any parameters, any number of
reports and both kinds of NMOS controller (`GatewayAssumption`):

| Theorem | Statement |
|---|---|
| `GatewayTypeCorrect` | `Spec => []TypeOK` |
| `GatewayListensOnce` | `Spec => []OneListenerPerDevice` |
| `GatewayIndexesDiffer` | `Spec => []DeviceIndexUnique` |
| `GatewayHandlerSeesAll` | `Spec => []HandlerSeesCompleteInfo` |
| `GatewayEventsHaveResources` | `Spec => []EventsHaveResources` |

The argument. `LockInv` says who has `g.mu` (an adder from the insertion to the last
registration), `NewInv` that a controller that is being dialled is nobody else's.
`RunningInv` is the surprising part: until the signal the reaper deletes nothing, since
it stops at its first victim. Therefore `KeptInv`: before the signal a controller with a
listener is the one in the table, and the indices of the entries are different numbers up
to their count, so that the count plus one is free. This is where a finite set of
addresses is needed, and the reason why indices would repeat if the reaper worked.
`BuildInv` follows the registration of one device (`sourceIDs` is what is done, and a
parameter that is not the current one has its three resources), and `CompleteInv` says
that a controller with a listener is complete or its adder still holds the lock, which
the lookup of `handleShureDevice` waits for.

`Is07EventsProofs`, for every set of clients, every non-empty set of sources and any
number of events (`Is07Assumption`):

| Theorem | Statement |
|---|---|
| `Is07TypeCorrect` | `Spec => []TypeOK` |
| `Is07NothingLeftBehind` | `Spec => []NothingLeftBehind` |
| `Is07OnlySubscribersHear` | `Spec => []OnlySubscribersHear` |
| `Is07CacheIsNewest` | `Spec => []CacheIsNewest` |

The argument. Events are written from what was collected under an earlier lock, so the
invariants speak of those collections: the targets of a broadcast and the initial states
a reader has still to send belong to sources the client has subscribed to at some time
(`TargetsInv`, `SubscriptionInv`), and none of them is newer than the cache
(`CacheInv`). `NothingLeftBehind` is inductive with the types.

`RegistrationProofs`, for every set of registries, any number of resources, failures and
moves (`RegistrationAssumption`):

| Theorem | Statement |
|---|---|
| `RegistrationTypeCorrect` | `Spec => []TypeOK` |
| `RegistrationQuietMeansComplete` | `Spec => []QuietMeansComplete` |
| `RegistrationQuietStop` | `Spec => QuietStopUnregisters` |

The argument. `TypeInv` adds to the types that a goroutine about to assign
`registryURL` has found a registry, and that `reRegisterAll` has a resource to post.
`OrderInv` is the order of the program: the starter is alone until it ends, and `Stop`
begins after the signal. `OwedInv` makes `QuietMeansComplete` inductive: without
failures, the registry that `registryURL` names has everything, or some goroutine *owes*
it, which means that it has still to post the node again, or is in the loop of
`reRegisterAll` and the registry has all the resources before its next one. Whoever
assigns `registryURL` owes from then on. A goroutine whose request is rejected because
the parent is missing (it had posted the parents to another registry) does not owe, so
another one does. For the shutdown, `QuietStopInv(n)` says, as long as there have been
`n` changes of discovery and the registries: `isRunning` is false and nobody is
past its check, so goroutines may find, assign and enter `registerWithRegistry` again but
never post; every registry in sight is the one of `registryURL`, so the assignments do not
redirect the deletions; and that registry holds at most what `Stop` has still to delete
(`Left`). It is entered at a quiet `Stop` and kept until discovery or a registry changes.

`DeviceArrivalProofs`, for every set of services and records, any models and every
capacity (`DiscoveryAssumption`, and `ArrivalAssumption`: the addresses are those of the
records, and finitely many). `SmallNetwork` says that there are at most 100 addresses:

| Theorem | Statement |
|---|---|
| `ArrivalOnlyDrainsSendLate` | `Spec => []OnlyDrainsSendLate` |
| `ArrivalClientsSeeWholeDevices` | `SmallNetwork => (Spec => []ClientsSeeWholeDevices)` |
| `ArrivalReportsReachTheirWorker` | `SmallNetwork => (Spec => []ReportsReachTheirWorker)` |

The argument for the first. `DrainInv`: the channel is closed only when all that the
WaitGroup counts have ended, which is for good. What can still send is then a draining
goroutine whose browser has ended.

The argument for the other two. In `NcpOidProofs` the list of calls is read by position:
`OtherBelow` and `QlxdBelow` say which object is the n-th below a device block, for a
QLX-D and for the other families; `BelowWellFormed` that identifiers differ, parents come
first, classes are registered and a channel has one worker per parameter; and
`SetupIsGoodPlan` what follows for the calls (`GoodPlan`): an object is registered once,
before it is added and after the block it is added to, everything is added, and the root
block gets the device with the last call. `ArrivalInv` is the inductive invariant. Its
heart is `CallInv`: what a call has done is still there, for all the calls of the devices
in the table and those done so far for the one being set up. A later registration could
undo one by taking its identifier or by emptying a block; `RegistersFresh` excludes it,
within a device by `GoodPlan` and between devices by `DevicesShareNoOid`, because indices
differ (`IndexInv`) and are at most the number of addresses. `RootInv` says that the root
block has only complete devices. The routing of reports follows because the keys of
`parameterOIDs` are unique. The bound is that of the identifiers: by `NextIndexCollides`
the hundred and first device may take an object of the first.

Every strengthening was checked with TLC on small instances before it was proved. Two
of the proofs showed a fault of the model: in `GetStaged` (`Connection`) and
`RouteReport` (`NcpTree`) a CASE had two guards that could both hold, where the code
takes the first; they are conditionals now.

Model-checked only:

- liveness (`CloseReturns`, `SendersReleased`, `AcceptedIsDelivered`, `StopEndsReader`,
  `ReportsHandled`, `SignalStops`, `SilentClientExpires`, `RemovedReaderExits`,
  `HeartbeatRecovers`, `WritesEnd`, `GoneClientLeaves`, `DiscovererStopReturns`,
  `AnnouncedArrives`): fairness is out of reach of the prover used.

## 5. Where the code and its documentation disagree

Checked by a run whose property TLC finds violated:

1. `gateway_connect`. `RegisterResource` holds `c.mu` (deferred unlock, 2520) when it
   calls `broadcastUpdate`, which takes `c.mu.RLock` (1744). A `sync.RWMutex` is not
   reentrant: the call never returns, `addShureController` keeps `g.mu`, and no
   source, flow or sender is registered. `gateway.go:280` says they "are registered
   immediately when the device connects".
2. `reg_notfound`. On 404 the heartbeat first runs discovery and gives up if that
   finds nothing, although the registry answered. `nmos_heartbeat_test.go:79` says
   "Should have re-registered node after 404".
3. `tree_recurse`. The searches of a block descend when `obj.(*Block)` holds
   (`nca_model.go:651`), but the resolver that `NcBlock.SetResolver` installs
   (`ncp_objects.go:208`) wraps every object in an adapter: a recursive search finds
   the direct members only. `docs/NCA_GENERIC_MODEL.md:202` says "Block search methods
   support recursive traversal for discovering nested objects".

Met while modelling, part of the models' behaviours, without a run of their own:

- `Close` closes `sendChan` under listeners that nobody joins: with the channel
  closed and the context done both cases of `Send`'s select are ready, and one
  panics (`SendPanic` in `MessageBus`).
- `Stop` and the lifecycle goroutine may both close `done` (`crashed` in
  `ShureController`); if the lifecycle goroutine clears `isRunning` first, `Stop`
  returns without closing the connection ("Stop halts the Shure controller",
  `shure_controller_impl.go:81`).
- `Stop` of a Shure controller waits for the lifecycle goroutine, which waits for the
  gateway's context: the reaper's call (`gateway.go:1416`) returns only at shutdown,
  and no device is ever removed (`JoinUnreachable`).
- `BroadcastEvent` does not renew the write deadline that connect, updates and pings
  set, so an event later than that fails on a healthy connection, although it "sends
  an IS-07 event to all connected websocket clients" (`nmos_controller.go:1863`).
- The reaper stops devices it found stale earlier without looking again, and
  `lastSeen` follows discovery only, not the device's reports.
- A websocket client that never sends health has no entry in `clientLastHealth` and
  is not closed by the heartbeat check, against
  `tasks/is07-websocket-heartbeat-timeout.md:13`.
- `BroadcastEvent` returns before it caches the event when nobody is subscribed, so
  a later subscriber does not get it as its initial state.
- Initial states are collected under `c.mu` and written after: a newer event may
  reach the client first.
- The reader, broadcasts and pings write to one websocket connection without a
  common lock, which gorilla/websocket answers with a panic (`WritesCollide`).
- When the first registration fails, neither heartbeat nor monitor is started and
  the node stays in peer-to-peer mode. A monitor that once finds monitoring off ends
  for good. A single resource that a registry rejects is not retried.
- A goroutine past the `isRunning` check of `RegisterNode` puts the node back after
  `Stop` has deleted it, and one that assigns `registryURL` during `Stop` redirects
  the remaining deletions to another registry (`Assigns`, `SetsURL`; hence the hypotheses
  of `QuietStopUnregisters`).
- `SendCommand` has no write deadline: a device that stops reading keeps the handler of a
  client, or `processMessages` and with it the reports of all devices, for ever.
- A report of the device is passed to `SetProperty`, whose `OnSet` sends it back to the
  device as a SET (`gateway.go:1179`): an old report may undo a newer setting. Workers
  of read-only parameters accept a Set of a client and show its value.
- `SetProperty` stores and notifies without a lock: two writes may notify in the other
  order, and every subscriber is left with the older value (`raced` in `NcpServer`).
- After a failed response `break` leaves the switch of `handleNCP`, not its loop; the
  client stays until its read fails. A client accepted after
  `closeAllWebsocketConnections` is not closed by it.
- The sequence methods of `nca_model.go` need a property of type `[]interface{}`, and no
  object has one: they always fail.
- A PATCH without `master_enable` sets it to false. A scheduled activation is stored
  and never performed.
- `ShureDiscoverer.Stop` closes `devices` while a goroutine that drains mDNS results
  may still send to it (`Panics` in `Discovery`). The throttle is per IP address, so an
  announcement of another service, ignored later, silences a receiver.
- `ClassManager.Classes` and `Items` of a block are written by `setupDeviceNCP` and read
  by NCP handlers without a lock.
- `registryURL` has a default, so the branch of `discoverAndRegister` for an empty
  one is dead code.

## 6. What is not modelled

- Text: TPCI parsing and formatting, SLP payloads, JSON, the conversion of samples to
  events. A line of a device is a report or not; a resource, an event or an update is
  an identity; a record of discovery is an address and a model.
- The bytes that `SendCommand` writes: the callers share a `bufio.Writer` without a
  lock, and commands may mix, but what a receiver makes of a mixed line is outside the
  repository. `NcpServer` has the callers and the two outcomes of a call.
- The resource store and its peer-to-peer version counters: `RegisterResource` never
  returns once it knows the type and the id of a resource (section 5, first item), so
  that no caller ever sees a second state of the store; what lies behind it is only
  reached by a controller that is deadlocked.
- Data races on Go maps and slices: a call of `RegisterClass` or `AddItem` is one step.
- The database (single SQL statements behind `database/sql`) and the read-only
  Node API: no protocol of their own.
- Real time: a ticker ticks at any time, a timeout may strike whenever it is
  pending.
- In `Registration`, only one device, and no resources added while it runs.

## 7. Plan

The parts that run concurrently are modelled, and every invariant and action property that
the runs check is proved. What is left is the interface between the modules as a
refinement: that a controller of `ShureController` behaves as `Gateway` assumes of one.

------------------------------ MODULE Gateway -------------------------------
(***************************************************************************)
(* The gateway's device table (internal/module/gateway.go) and the         *)
(* goroutines that share it under g.mu: Start (the manually configured     *)
(* device), handleDiscovery (devices found by mDNS), processMessages, the  *)
(* reaper, and Stop.                                                       *)
(*                                                                         *)
(* A Shure controller is reduced to what ShureController.tla shows of its  *)
(* Stop: called on a running controller it never returns, and the          *)
(* lifecycle goroutine then panics when the context is done; called after  *)
(* the lifecycle goroutine it returns at once.                             *)
(*                                                                         *)
(* The NMOS controller is behind an interface.  RegisterReturns = FALSE is *)
(* nmosController of the repository: RegisterResource calls                *)
(* broadcastUpdate, which takes c.mu for reading, while it holds c.mu for  *)
(* writing.  RegisterReturns = TRUE is the controller gateway_test.go puts *)
(* in its place, whose RegisterResource returns.                           *)
(***************************************************************************)
EXTENDS Integers, FiniteSets

CONSTANTS
  Addrs,           \* device addresses
  ManualAddr,      \* the address given on the command line (NoAddr: none)
  NoAddr,
  Params,          \* GetIS07MeteredParams of the device's family
  StaleTicks,      \* an entry not refreshed for more ticks than this is stale
  MaxReports,      \* bound: reports handled
  RegisterReturns  \* which NMOS controller: see above

ASSUME GatewayAssumption ==
  /\ IsFiniteSet(Addrs)
  /\ ManualAddr \in Addrs \cup {NoAddr}
  /\ NoAddr \notin Addrs
  /\ StaleTicks \in Nat
  /\ MaxReports \in Nat
  /\ RegisterReturns \in BOOLEAN

VARIABLES
  ctxDone,     \* the gateway's context is done
  crashed,     \* a controller's done channel was closed twice
  gmu,         \* who holds g.mu across steps ("free": nobody)
  main,        \* Start, then Stop
  adder,       \* adder[t]: where t is in addShureController
  adding,      \* adding[t]: the address it adds
  todo,        \* todo[t]: metered parameters it has still to register
  param,       \* param[t]: the parameter it is registering
  table,       \* shureCtrls: addr -> the controller (its adder), index
  age,         \* age[a]: ticks since lastSeen was set
  ctl,         \* ctl[t, a]: the controller that t started for a
  listeners,   \* controllers with a listenToShureEvents goroutine
  sourceIDs,   \* sourceIDs[t, a]: parameters with an entry in info.sourceIDs
  registered,  \* NMOS resources registered: <<kind, addr, param>>
  proc,        \* processMessages
  msg,         \* the report being handled: [ctl, param]
  info,        \* the table entry it looked up
  reports,     \* how many reports have been handled
  broadcast,   \* the IS-07 event of that report: {<<controller, param>>} or {}
  reaper,      \* reapStaleDevices
  stale,       \* addresses it has still to remove
  victim       \* the controller it is stopping

vars == <<ctxDone, crashed, gmu, main, adder, adding, todo, param, table, age,
          ctl, listeners, sourceIDs, registered, proc, msg, info, reports,
          broadcast, reaper, stale, victim>>

addVars == <<adder, adding, todo, param>>
deviceVars == <<ctl, listeners, sourceIDs, registered>>
procVars == <<proc, msg, info, reports, broadcast>>
reaperVars == <<reaper, stale, victim>>

Adders == {"main", "disc"}
Controllers == Adders \X Addrs
NoCtl == <<"none", NoAddr>>
NoEntry == [ctl |-> NoCtl, index |-> 0]

Present == {a \in Addrs : table[a] # NoEntry}

\* A report of a metered parameter, or of another one.
Unmetered == "unmetered"
NoMsg == [ctl |-> NoCtl, param |-> Unmetered]

MainTypes ==
  /\ ctxDone \in BOOLEAN
  /\ crashed \in BOOLEAN
  /\ gmu \in Adders \cup {"free"}
  /\ main \in {"starting", "running", "stopLock", "stopCtrls", "stopWait", "stopped"}

AdderTypes ==
  /\ adder \in [Adders -> {"idle", "dial", "lock", "device", "eager", "flow",
                          "sender", "stuck", "exited"}]
  /\ adding \in [Adders -> Addrs \cup {NoAddr}]
  /\ todo \in [Adders -> SUBSET Params]
  /\ param \in [Adders -> Params \cup {Unmetered}]

TableTypes ==
  /\ table \in [Addrs -> [ctl : Controllers \cup {NoCtl}, index : 0..Cardinality(Addrs)]]
  /\ age \in [Addrs -> 0..StaleTicks + 1]

DeviceTypes ==
  /\ ctl \in [Controllers -> {"none", "up", "signalled", "down"}]
  /\ listeners \subseteq Controllers
  /\ sourceIDs \in [Controllers -> SUBSET Params]
  /\ registered \subseteq {"device", "source", "flow", "sender"} \X Addrs \X (Params \cup {Unmetered})

ProcTypes ==
  /\ proc \in {"off", "idle", "lookup", "use", "ncp", "set", "exited"}
  /\ msg \in [ctl : Controllers \cup {NoCtl}, param : Params \cup {Unmetered}]
  /\ info \in Controllers \cup {NoCtl}
  /\ reports \in 0..MaxReports
  /\ broadcast \subseteq Controllers \X Params

ReaperTypes ==
  /\ reaper \in {"idle", "next", "stop", "wait", "delete", "exited"}
  /\ stale \subseteq Addrs
  /\ victim \in Controllers \cup {NoCtl}

TypeOK ==
  MainTypes /\ AdderTypes /\ TableTypes /\ DeviceTypes /\ ProcTypes /\ ReaperTypes

Init ==
  /\ ctxDone = FALSE
  /\ crashed = FALSE
  /\ gmu = "free"
  /\ main = IF ManualAddr = NoAddr THEN "running" ELSE "starting"
  /\ adder = [t \in Adders |-> "idle"]
  /\ adding = [t \in Adders |-> NoAddr]
  /\ todo = [t \in Adders |-> {}]
  /\ param = [t \in Adders |-> Unmetered]
  /\ table = [a \in Addrs |-> NoEntry]
  /\ age = [a \in Addrs |-> 0]
  /\ ctl = [c \in Controllers |-> "none"]
  /\ listeners = {}
  /\ sourceIDs = [c \in Controllers |-> {}]
  /\ registered = {}
  /\ proc = IF ManualAddr = NoAddr THEN "idle" ELSE "off"
  /\ msg = NoMsg
  /\ info = NoCtl
  /\ reports = 0
  /\ broadcast = {}
  /\ reaper = "idle"
  /\ stale = {}
  /\ victim = NoCtl

-----------------------------------------------------------------------------
(***************************************************************************)
(* addShureController, run by Start for the manual device and by           *)
(* handleDiscovery for each device of a known family.                      *)
(***************************************************************************)
Mine(t) == <<t, adding[t]>>

\* addShureController returns; Start then starts processMessages.
Returns(t) ==
  /\ adder' = [adder EXCEPT ![t] = "idle"]
  /\ adding' = [adding EXCEPT ![t] = NoAddr]
  /\ param' = [param EXCEPT ![t] = Unmetered]
  /\ IF t = "main"
     THEN main' = "running" /\ proc' = "idle"
     ELSE UNCHANGED <<main, proc>>

\* The first critical section: refresh a known device, or go on to dial.
AddKnown(t, a) ==
  /\ adder[t] = "idle"
  /\ t = "main" => main = "starting" /\ a = ManualAddr
  /\ gmu = "free"
  /\ a \in Present
  /\ age' = [age EXCEPT ![a] = 0]
  /\ Returns(t)
  /\ UNCHANGED <<ctxDone, crashed, gmu, todo, table, deviceVars,
                 msg, info, reports, broadcast, reaperVars>>

AddUnknown(t, a) ==
  /\ adder[t] = "idle"
  /\ t = "main" => main = "starting" /\ a = ManualAddr
  /\ gmu = "free"
  /\ a \notin Present
  /\ ctl[<<t, a>>] = "none"  \* bound: t starts one controller per address
  /\ adder' = [adder EXCEPT ![t] = "dial"]
  /\ adding' = [adding EXCEPT ![t] = a]
  /\ UNCHANGED <<ctxDone, crashed, gmu, main, todo, param, table, age,
                 deviceVars, procVars, reaperVars>>

\* ctrl.Start fails
AddDialFails(t) ==
  /\ adder[t] = "dial"
  /\ Returns(t)
  /\ UNCHANGED <<ctxDone, crashed, gmu, todo, table, age,
                 deviceVars, msg, info, reports, broadcast, reaperVars>>

AddDials(t) ==
  /\ adder[t] = "dial"
  /\ ctl' = [ctl EXCEPT ![Mine(t)] = "up"]
  /\ adder' = [adder EXCEPT ![t] = "lock"]
  /\ UNCHANGED <<ctxDone, crashed, gmu, main, adding, todo, param, table, age,
                 listeners, sourceIDs, registered, procVars, reaperVars>>

\* Mutant: the early return of the double check forgets to unlock.
AddLosesRaceLocked(t) ==
  /\ adder[t] = "lock"
  /\ gmu = "free"
  /\ adding[t] \in Present
  /\ age' = [age EXCEPT ![adding[t]] = 0]
  /\ gmu' = t
  /\ Returns(t)
  /\ UNCHANGED <<ctxDone, crashed, todo, table, deviceVars,
                 msg, info, reports, broadcast, reaperVars>>

\* The double check finds an entry: the controller just started is dropped.
AddLosesRace(t) ==
  /\ adder[t] = "lock"
  /\ gmu = "free"
  /\ adding[t] \in Present
  /\ age' = [age EXCEPT ![adding[t]] = 0]
  /\ Returns(t)
  /\ UNCHANGED <<ctxDone, crashed, gmu, todo, table, deviceVars,
                 msg, info, reports, broadcast, reaperVars>>

\* Mutant: the index is computed after the insertion.
NextIndexAfterInsert == Cardinality(Present) + 2

\* deviceIndex := len(g.shureCtrls) + 1
NextIndex == Cardinality(Present) + 1

\* What AddInserts does once it holds g.mu.
Inserts(t) ==
  /\ adder[t] = "lock"
  /\ gmu = "free"
  /\ table' = [table EXCEPT ![adding[t]] = [ctl |-> Mine(t), index |-> NextIndex]]
  /\ age' = [age EXCEPT ![adding[t]] = 0]
  /\ sourceIDs' = [sourceIDs EXCEPT ![Mine(t)] = {}]
  /\ listeners' = listeners \cup {Mine(t)}
  /\ adder' = [adder EXCEPT ![t] = "device"]
  /\ UNCHANGED <<ctxDone, crashed, main, adding, todo, param, ctl, registered,
                 proc, msg, info, reports, broadcast, reaperVars>>

\* Mutant: no double check.
AddInsertsUnchecked(t) == Inserts(t) /\ gmu' = t

\* Mutant: g.mu is released before the registrations.
AddInsertsUnlocked(t) == Inserts(t) /\ adding[t] \notin Present /\ gmu' = "free"

\* The entry, its NCP objects and its listener; g.mu stays locked.
AddInserts(t) == Inserts(t) /\ adding[t] \notin Present /\ gmu' = t

\* RegisterResource("devices", ...)
AddRegistersDevice(t) ==
  /\ adder[t] = "device"
  /\ registered' = registered \cup {<<"device", adding[t], Unmetered>>}
  /\ IF RegisterReturns
     THEN /\ adder' = [adder EXCEPT ![t] = "eager"]
          /\ todo' = [todo EXCEPT ![t] = Params]
     ELSE /\ adder' = [adder EXCEPT ![t] = "stuck"]
          /\ UNCHANGED todo
  /\ UNCHANGED <<ctxDone, crashed, gmu, main, adding, param, table, age, ctl,
                 listeners, sourceIDs, procVars, reaperVars>>

\* ensureIS07Resources: the identifiers, then source, flow and sender
AddRegistersSource(t, p) ==
  /\ adder[t] = "eager"
  /\ p \in todo[t]
  /\ sourceIDs' = [sourceIDs EXCEPT ![Mine(t)] = @ \cup {p}]
  /\ registered' = registered \cup {<<"source", adding[t], p>>}
  /\ param' = [param EXCEPT ![t] = p]
  /\ todo' = [todo EXCEPT ![t] = @ \ {p}]
  /\ adder' = [adder EXCEPT ![t] = "flow"]
  /\ UNCHANGED <<ctxDone, crashed, gmu, main, adding, table, age, ctl,
                 listeners, procVars, reaperVars>>

\* Mutant: no sender is registered.
AddRegistersFlowOnly(t) ==
  /\ adder[t] = "flow"
  /\ registered' = registered \cup {<<"flow", adding[t], param[t]>>}
  /\ adder' = [adder EXCEPT ![t] = "eager"]
  /\ UNCHANGED <<ctxDone, crashed, gmu, main, adding, todo, param, table, age,
                 ctl, listeners, sourceIDs, procVars, reaperVars>>

AddRegistersFlow(t) ==
  /\ adder[t] = "flow"
  /\ registered' = registered \cup {<<"flow", adding[t], param[t]>>}
  /\ adder' = [adder EXCEPT ![t] = "sender"]
  /\ UNCHANGED <<ctxDone, crashed, gmu, main, adding, todo, param, table, age,
                 ctl, listeners, sourceIDs, procVars, reaperVars>>

AddRegistersSender(t) ==
  /\ adder[t] = "sender"
  /\ registered' = registered \cup {<<"sender", adding[t], param[t]>>}
  /\ adder' = [adder EXCEPT ![t] = "eager"]
  /\ UNCHANGED <<ctxDone, crashed, gmu, main, adding, todo, param, table, age,
                 ctl, listeners, sourceIDs, procVars, reaperVars>>

\* Mutant: no deferred unlock.
AddFinishesLocked(t) ==
  /\ adder[t] = "eager"
  /\ todo[t] = {}
  /\ Returns(t)
  /\ UNCHANGED <<ctxDone, crashed, gmu, todo, table, age, deviceVars,
                 msg, info, reports, broadcast, reaperVars>>

\* UpsertShureDevice, and the deferred g.mu.Unlock()
AddFinishes(t) ==
  /\ adder[t] = "eager"
  /\ todo[t] = {}
  /\ gmu' = "free"
  /\ Returns(t)
  /\ UNCHANGED <<ctxDone, crashed, todo, table, age, deviceVars,
                 msg, info, reports, broadcast, reaperVars>>

AddContinues(t) ==
  \/ AddDialFails(t)
  \/ AddDials(t)
  \/ AddLosesRace(t)
  \/ AddInserts(t)
  \/ AddRegistersDevice(t)
  \/ \E p \in Params : AddRegistersSource(t, p)
  \/ AddRegistersFlow(t)
  \/ AddRegistersSender(t)
  \/ AddFinishes(t)

\* handleDiscovery returns
DiscoveryExits ==
  /\ ctxDone
  /\ adder["disc"] = "idle"
  /\ adder' = [adder EXCEPT !["disc"] = "exited"]
  /\ UNCHANGED <<ctxDone, crashed, gmu, main, adding, todo, param, table, age,
                 deviceVars, procVars, reaperVars>>

AddStarts(t) == \E a \in Addrs : AddKnown(t, a) \/ AddUnknown(t, a)

-----------------------------------------------------------------------------
(***************************************************************************)
(* processMessages and handleShureDevice.                                  *)
(***************************************************************************)
ProcTakes(c, p) ==
  /\ proc = "idle"
  /\ c \in listeners
  /\ reports < MaxReports
  /\ reports' = reports + 1
  /\ msg' = [ctl |-> c, param |-> p]
  /\ proc' = "lookup"
  /\ UNCHANGED <<ctxDone, crashed, gmu, main, addVars, table, age, deviceVars,
                 info, broadcast, reaperVars>>

\* info, ok := g.shureCtrls[msg.Source] under g.mu.RLock
ProcLooksUp ==
  LET a == msg.ctl[2]
  IN  /\ proc = "lookup"
      /\ gmu = "free"
      /\ info' = table[a].ctl
      /\ IF a \in Present
         THEN proc' = "use" /\ UNCHANGED msg
         ELSE proc' = "idle" /\ msg' = NoMsg
      /\ UNCHANGED <<ctxDone, crashed, gmu, main, addVars, table, age,
                     deviceVars, reports, broadcast, reaperVars>>

\* BroadcastEvent if info.sourceIDs has the parameter: info is read unlocked
ProcBroadcasts ==
  /\ proc = "use"
  /\ broadcast' = IF msg.param \in sourceIDs[info] THEN {<<info, msg.param>>} ELSE {}
  /\ proc' = "ncp"
  /\ UNCHANGED <<ctxDone, crashed, gmu, main, addVars, table, age, deviceVars,
                 msg, info, reports, reaperVars>>

\* info.parameterOIDs[paramKey] under g.mu
ProcFindsOID ==
  /\ proc = "ncp"
  /\ gmu = "free"
  /\ proc' = "set"
  /\ UNCHANGED <<ctxDone, crashed, gmu, main, addVars, table, age, deviceVars,
                 msg, info, reports, broadcast, reaperVars>>

\* SetProperty of the worker, if there is one: its OnSet calls SendCommand,
\* which writes to the device without a deadline.
ProcUpdates ==
  /\ proc = "set"
  /\ proc' = "idle"
  /\ msg' = NoMsg
  /\ info' = NoCtl
  /\ broadcast' = {}
  /\ UNCHANGED <<ctxDone, crashed, gmu, main, addVars, table, age, deviceVars,
                 reports, reaperVars>>

ProcExits ==
  /\ ctxDone
  /\ proc = "idle"
  /\ proc' = "exited"
  /\ UNCHANGED <<ctxDone, crashed, gmu, main, addVars, table, age, deviceVars,
                 msg, info, reports, broadcast, reaperVars>>

Proc == ProcLooksUp \/ ProcBroadcasts \/ ProcFindsOID \/ ProcUpdates

-----------------------------------------------------------------------------
(***************************************************************************)
(* Time, and reapStaleDevices.                                             *)
(***************************************************************************)
Tick ==
  /\ Present # {}
  /\ age' = [a \in Addrs |->
               IF a \in Present /\ age[a] <= StaleTicks THEN age[a] + 1 ELSE age[a]]
  /\ UNCHANGED <<ctxDone, crashed, gmu, main, addVars, table, deviceVars, proc,
                 msg, info, reports, broadcast, reaperVars>>

ReapScans ==
  /\ reaper = "idle"
  /\ gmu = "free"
  /\ stale' = {a \in Present : age[a] > StaleTicks}
  /\ stale' # {}
  /\ reaper' = "next"
  /\ UNCHANGED <<ctxDone, crashed, gmu, main, addVars, table, age, deviceVars,
                 procVars, victim>>

\* info, ok := g.shureCtrls[addr] under g.mu: lastSeen is not looked at again
ReapPicks(a) ==
  /\ reaper = "next"
  /\ a \in stale
  /\ gmu = "free"
  /\ victim' = table[a].ctl
  /\ IF a \in Present
     THEN reaper' = "stop" /\ UNCHANGED stale
     ELSE reaper' = (IF stale = {a} THEN "idle" ELSE "next") /\ stale' = stale \ {a}
  /\ UNCHANGED <<ctxDone, crashed, gmu, main, addVars, table, age, deviceVars,
                 procVars>>

\* Mutant: the reaper does not wait for Stop.
ReapStopsAndGoesOn ==
  /\ reaper = "stop"
  /\ ctl' = [ctl EXCEPT ![victim] = IF @ = "up" THEN "signalled" ELSE @]
  /\ reaper' = "delete"
  /\ UNCHANGED <<ctxDone, crashed, gmu, main, addVars, table, age, listeners,
                 sourceIDs, registered, procVars, stale, victim>>

\* info.ctrl.Stop(ctx): isRunning decides
ReapStops ==
  /\ reaper = "stop"
  /\ IF ctl[victim] = "up"
     THEN ctl' = [ctl EXCEPT ![victim] = "signalled"] /\ reaper' = "wait"
     ELSE reaper' = "delete" /\ UNCHANGED ctl
  /\ UNCHANGED <<ctxDone, crashed, gmu, main, addVars, table, age, listeners,
                 sourceIDs, registered, procVars, stale, victim>>

ReapDeletes ==
  /\ reaper = "delete"
  /\ gmu = "free"
  /\ table' = [table EXCEPT ![victim[2]] = NoEntry]
  /\ age' = [age EXCEPT ![victim[2]] = 0]
  /\ stale' = stale \ {victim[2]}
  /\ reaper' = IF stale' = {} THEN "idle" ELSE "next"
  /\ victim' = NoCtl
  /\ UNCHANGED <<ctxDone, crashed, gmu, main, addVars, deviceVars, proc, msg,
                 info, reports, broadcast>>

ReapExits ==
  /\ ctxDone
  /\ reaper = "idle"
  /\ reaper' = "exited"
  /\ UNCHANGED <<ctxDone, crashed, gmu, main, addVars, table, age, deviceVars,
                 procVars, stale, victim>>

Reaper == ReapScans \/ (\E a \in Addrs : ReapPicks(a)) \/ ReapStops \/ ReapDeletes

-----------------------------------------------------------------------------
(***************************************************************************)
(* The signal, the controllers' lifecycle goroutines, and Gateway.Stop.    *)
(***************************************************************************)
Signal ==
  /\ ~ctxDone
  /\ ctxDone' = TRUE
  /\ UNCHANGED <<crashed, gmu, main, addVars, table, age, deviceVars, procVars,
                 reaperVars>>

\* signalDone by the lifecycle goroutine: it panics if Stop was there first
LifecycleEnds(c) ==
  /\ ctxDone
  /\ ctl[c] \in {"up", "signalled"}
  /\ ctl' = [ctl EXCEPT ![c] = "down"]
  /\ crashed' = (ctl[c] = "signalled")
  /\ UNCHANGED <<ctxDone, gmu, main, addVars, table, age, listeners, sourceIDs,
                 registered, procVars, reaperVars>>

\* main sees ctx.Done() and calls Stop, which closes the bus
StopBegins ==
  /\ main = "running"
  /\ ctxDone
  /\ main' = "stopLock"
  /\ UNCHANGED <<ctxDone, crashed, gmu, addVars, table, age, deviceVars,
                 procVars, reaperVars>>

StopLocks ==
  /\ main = "stopLock"
  /\ gmu = "free"
  /\ gmu' = "main"
  /\ main' = "stopCtrls"
  /\ UNCHANGED <<ctxDone, crashed, addVars, table, age, deviceVars, procVars,
                 reaperVars>>

\* info.ctrl.Stop(ctx) for a controller whose lifecycle goroutine is late
StopSignals(a) ==
  /\ main = "stopCtrls"
  /\ a \in Present
  /\ ctl[table[a].ctl] = "up"
  /\ ctl' = [ctl EXCEPT ![table[a].ctl] = "signalled"]
  /\ main' = "stopWait"
  /\ UNCHANGED <<ctxDone, crashed, gmu, addVars, table, age, listeners,
                 sourceIDs, registered, procVars, reaperVars>>

\* Every Stop of the loop has returned, and so have nmosCtrl.Stop and db.Close.
StopReturns ==
  /\ main = "stopCtrls"
  /\ \A a \in Present : ctl[table[a].ctl] # "up"
  /\ main' = "stopped"
  /\ gmu' = "free"
  /\ UNCHANGED <<ctxDone, crashed, addVars, table, age, deviceVars, procVars,
                 reaperVars>>

GatewayStop ==
  StopBegins \/ StopLocks \/ (\E a \in Addrs : StopSignals(a)) \/ StopReturns

-----------------------------------------------------------------------------
Next ==
  /\ ~crashed
  /\ main # "stopped"
  /\ \/ \E t \in Adders : AddStarts(t) \/ AddContinues(t)
     \/ \E c \in Controllers, p \in Params \cup {Unmetered} : ProcTakes(c, p)
     \/ Proc
     \/ Tick
     \/ Reaper
     \/ DiscoveryExits
     \/ ProcExits
     \/ ReapExits
     \/ Signal
     \/ \E c \in Controllers : LifecycleEnds(c)
     \/ GatewayStop

Spec == Init /\ [][Next]_vars

(***************************************************************************)
(* Every goroutine that can run does.  A goroutine waiting for g.mu gets   *)
(* it if it is free again and again: sync.RWMutex does not starve waiters, *)
(* hence strong fairness for the steps that lock.  processMessages need    *)
(* not get past SendCommand (ProcUpdates).  An adder does: it writes a few *)
(* short commands to a new connection, whose send buffer holds them.       *)
(***************************************************************************)
Live == ~crashed /\ main # "stopped"
AddStep(t) == Live /\ AddContinues(t)
MainAdds == Live /\ AddStarts("main")
ProcStep == Live /\ (ProcLooksUp \/ ProcBroadcasts \/ ProcFindsOID)
LifecycleStep(c) == Live /\ LifecycleEnds(c)
StopStep == Live /\ GatewayStop

FairSpec ==
  /\ Spec
  /\ \A t \in Adders : SF_vars(AddStep(t))
  /\ SF_vars(MainAdds)
  /\ SF_vars(ProcStep)
  /\ SF_vars(StopStep)
  /\ \A c \in Controllers : WF_vars(LifecycleStep(c))

-----------------------------------------------------------------------------
(***************************************************************************)
(* Start and handleDiscovery may dial the same device at the same time;    *)
(* the double check lets only one of the two controllers have a listener   *)
(* while the gateway runs, so no report is handled twice.                  *)
(***************************************************************************)
OneListenerPerDevice ==
  ~ctxDone => \A c, d \in listeners : c[2] = d[2] => c = d

(***************************************************************************)
(* handleShureDevice reads info.sourceIDs without the lock.  It is safe:   *)
(* whoever has looked an entry up sees the maps that the eager             *)
(* registration has filled, with every metered parameter.                  *)
(***************************************************************************)
HandlerSeesCompleteInfo ==
  proc \in {"use", "ncp"} => sourceIDs[info] = Params

(***************************************************************************)
(* deviceIndex is the size of the table plus one, and the object           *)
(* identifiers derive from it.  No two entries share it while the gateway  *)
(* runs, which rests on the table never shrinking before the shutdown.     *)
(***************************************************************************)
DeviceIndexUnique ==
  ~ctxDone => \A a, b \in Present : a # b => table[a].index # table[b].index

(***************************************************************************)
(* A consumer that receives an event can find its source, flow and sender. *)
(***************************************************************************)
EventsHaveResources ==
  \A e \in broadcast :
    \A k \in {"source", "flow", "sender"} : <<k, e[1][2], e[2]>> \in registered

(***************************************************************************)
(* A report that processMessages has taken is dealt with, whatever         *)
(* discovery and the reaper are doing, if every device takes what          *)
(* SendCommand writes to it.                                               *)
(***************************************************************************)
SendCommandReturns == []<>(proc # "set")
ReportsHandled ==
  SendCommandReturns => (proc = "lookup" ~> (proc \in {"idle", "exited"} \/ ~Live))

(***************************************************************************)
(* The signal ends the gateway, whatever discovery and the reaper are      *)
(* doing, and though a device keeps processMessages in SendCommand.        *)
(***************************************************************************)
SignalStops == ctxDone ~> ~Live

(***************************************************************************)
(* "IS-07 resources (Sources, Flows, Senders) are registered immediately   *)
(* when the device connects".                                              *)
(***************************************************************************)
ConnectRegisters ==
  \A a \in Addrs : \A p \in Params :
    a \in Present ~> (<<"sender", a, p>> \in registered \/ ctxDone)
=============================================================================

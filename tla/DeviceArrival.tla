---------------------------- MODULE DeviceArrival ---------------------------
(***************************************************************************)
(* How a device gets from the network into the control tree:               *)
(* Discovery.tla, the goroutine handleDiscovery with addShureController    *)
(* (internal/module/gateway.go), NcpTree.tla, and the part of the          *)
(* gateway's Stop that stops the discoverer with g.mu held.                *)
(*                                                                         *)
(* The manual device, the listeners, the NMOS registration and the reaper  *)
(* are in Gateway.tla.  As there with RegisterReturns, what follows        *)
(* setupDeviceNCP in addShureController returns; the table does not shrink *)
(* before the shutdown.                                                    *)
(***************************************************************************)
EXTENDS Discovery, NcpTree

VARIABLES
  gmu,         \* who holds g.mu across steps
  handler,     \* handleDiscovery
  found,       \* the record it is handling
  shureCtrls,  \* shureCtrls[a]: [index, model] of an entry
  built        \* steps of setupDeviceNCP that are done

handlerVars == <<gmu, handler, found, shureCtrls, built>>
vars == <<discVars, treeVars, handlerVars>>

Addr(r) == <<r.ip, r.port>>
NoEntry == [index |-> 0, model |-> "OTHER"]
Present == {a \in Addrs : shureCtrls[a] # NoEntry}

ASSUME ArrivalAssumption ==
  /\ IsFiniteSet(Addrs)
  /\ Addrs = {Addr(r) : r \in Records}

Init ==
  /\ DiscoveryInit
  /\ TreeInit
  /\ gmu = "free"
  /\ handler = "select"
  /\ found = NoRecord
  /\ shureCtrls = [a \in Addrs |-> NoEntry]
  /\ built = 0

\* What setupDeviceNCP does and creates for every index and model here.
AnnouncedModels == {r.model : r \in Records}
AllOps == [i \in 1..Cardinality(Addrs) |-> [m \in AnnouncedModels |-> SetupOps(i, m)]]
AllEntries == [i \in 1..Cardinality(Addrs) |-> [m \in AnnouncedModels |-> Entries(i, m)]]

-----------------------------------------------------------------------------
(***************************************************************************)
(* handleDiscovery                                                         *)
(***************************************************************************)
Turns(to) == handler' = to /\ UNCHANGED <<treeVars, shureCtrls, built>>

\* Mutant: return where continue is meant.
RejectsReturning ==
  /\ handler = "select"
  /\ devices # <<>>
  /\ ~Accepts(Head(devices).model)
  /\ devices' = Tail(devices)
  /\ Turns("exited")
  /\ UNCHANGED <<closed, recent, browse, sender, hand, stop, ctxDone, crashed, gmu, found>>

\* Wireless Workbench and unknown models are ignored.
Rejects ==
  /\ handler = "select"
  /\ devices # <<>>
  /\ ~Accepts(Head(devices).model)
  /\ devices' = Tail(devices)
  /\ Turns("select")
  /\ UNCHANGED <<closed, recent, browse, sender, hand, stop, ctxDone, crashed, gmu, found>>

Receives ==
  /\ handler = "select"
  /\ devices # <<>>
  /\ Accepts(Head(devices).model)
  /\ found' = Head(devices)
  /\ devices' = Tail(devices)
  /\ Turns("check")
  /\ UNCHANGED <<closed, recent, browse, sender, hand, stop, ctxDone, crashed, gmu>>

HandlerEnds ==
  /\ handler = "select"
  /\ ctxDone \/ (closed /\ devices = <<>>)
  /\ Turns("exited")
  /\ UNCHANGED <<discVars, gmu, found>>

-----------------------------------------------------------------------------
(***************************************************************************)
(* addShureController                                                      *)
(***************************************************************************)
AddReturns ==
  /\ found' = NoRecord
  /\ Turns("select")
  /\ UNCHANGED discVars

\* Under g.mu: an entry is refreshed, otherwise the device is dialled.
Known == handler = "check" /\ gmu = "free" /\ Addr(found) \in Present /\ AddReturns /\ UNCHANGED gmu

Unknown ==
  /\ handler = "check"
  /\ gmu = "free"
  /\ Addr(found) \notin Present
  /\ Turns("dial")
  /\ UNCHANGED <<discVars, gmu, found>>

DialFails == handler = "dial" /\ AddReturns /\ UNCHANGED gmu

DialSucceeds ==
  /\ handler = "dial"
  /\ Turns("lock")
  /\ UNCHANGED <<discVars, gmu, found>>

NextIndex == Cardinality(Present) + 1

\* The second look at the table, the entry, and the start of setupDeviceNCP.
\* (In this module nobody else adds entries: Gateway.tla has the race.)
Inserts ==
  LET a == Addr(found) IN
  /\ handler = "lock"
  /\ gmu = "free"
  /\ a \notin Present
  /\ gmu' = "handler"
  /\ shureCtrls' = [shureCtrls EXCEPT ![a] = [index |-> NextIndex, model |-> found.model]]
  /\ built' = 0
  /\ SetupStarts(a, found.model, AllEntries[NextIndex][found.model])
  /\ handler' = "setup"
  /\ UNCHANGED <<discVars, found>>

Ops == LET e == shureCtrls[Addr(found)] IN AllOps[e.index][e.model]

Builds ==
  /\ handler = "setup"
  /\ built < Len(Ops)
  /\ built' = built + 1
  /\ SetupStep(Addr(found), Ops[built + 1])
  /\ UNCHANGED <<discVars, gmu, handler, found, shureCtrls>>

\* The rest of addShureController, and the deferred Unlock.
Finishes ==
  /\ handler = "setup"
  /\ built = Len(Ops)
  /\ gmu' = "free"
  /\ AddReturns

-----------------------------------------------------------------------------
(***************************************************************************)
(* Stop of the gateway: with g.mu, the discoverer, then the rest.          *)
(***************************************************************************)
StopStarts ==
  /\ ctxDone
  /\ stop = "no"
  /\ gmu = "free"
  /\ gmu' = "stop"
  /\ stop' = "wait"
  /\ UNCHANGED <<devices, closed, recent, browse, sender, hand, ctxDone, crashed, treeVars,
                 handler, found, shureCtrls, built>>

StopUnlocks ==
  /\ stop = "returned"
  /\ gmu = "stop"
  /\ gmu' = "free"
  /\ UNCHANGED <<discVars, treeVars, handler, found, shureCtrls, built>>

-----------------------------------------------------------------------------
Handler ==
  \/ Rejects \/ Receives \/ HandlerEnds
  \/ Known \/ Unknown \/ DialFails \/ DialSucceeds \/ Inserts \/ Builds \/ Finishes

\* A panic ends the process.
Next ==
  /\ ~crashed
  /\ \/ DiscoverySteps /\ UNCHANGED <<treeVars, handlerVars>>
     \/ Handler
     \/ StopStarts \/ StopUnlocks

Spec == Init /\ [][Next]_vars

Does(A) == ~crashed /\ A /\ UNCHANGED <<treeVars, handlerVars>>

(***************************************************************************)
(* Goroutines run, a browse ends when its context does, and sync.Mutex     *)
(* does not starve the handler.  About the environment: a device that is   *)
(* dialled again and again answers.                                        *)
(***************************************************************************)
FairSpec ==
  /\ Spec
  /\ \A s \in Services : WF_vars(Does(Browses(s)))
  /\ WF_vars(Does(ListenerBinds \/ ListenerReads \/ ListenerTimesOut \/ ListenerEnds
                   \/ Sender("slp")))
  /\ WF_vars(Does(StopCloses))
  /\ WF_vars(~crashed /\ (Rejects \/ Receives \/ Builds \/ Finishes))
  /\ SF_vars(~crashed /\ (Known \/ Unknown \/ Inserts))
  /\ \A r \in {x \in Records : Accepts(x.model)} :
       SF_vars(~crashed /\ found = r /\ DialSucceeds)

-----------------------------------------------------------------------------
\* The device of a shows in the root block.
Shown(a) == a \in Present /\ DeviceOID(shureCtrls[a].index) \in items[RootOID]

EntriesOf(a) == AllEntries[shureCtrls[a].index][shureCtrls[a].model]

(***************************************************************************)
(* What NCP clients see while devices arrive: a member of a block always   *)
(* resolves to an object whose class the class manager knows, and a device *)
(* that shows in the root block is complete.                               *)
(***************************************************************************)
ClientsSeeWholeDevices ==
  /\ \A b \in DOMAIN items : \A o \in items[b] :
       o \in DOMAIN ncpObjects /\ ncpObjects[o].class \in classes
  /\ \A a \in Addrs : Shown(a) =>
       \A e \in EntriesOf(a) : e.oid \in Members(e.parent)

(***************************************************************************)
(* A report is routed through parameterOIDs, an OID and ncpObjects.        *)
(* Whenever g.mu is free, the report of a parameter of a device, by        *)
(* channel or device-level, finds the worker of that device, channel and   *)
(* parameter: no two workers, of one device or of two, have one OID.       *)
(***************************************************************************)
ReportsReachTheirWorker ==
  gmu = "free" =>
    \A a \in Present :
      LET f == DetectModelFamily(shureCtrls[a].model) IN
      \A e \in {x \in EntriesOf(a) : x.class # BlockClass} :
        LET oid == RouteReport(a, f, e.ch, e.class) IN
        oid \in DOMAIN ncpObjects /\ ncpObjects[oid] = Object(a, e)

(***************************************************************************)
(* Stop closes the channel that the goroutines send to.  A goroutine that  *)
(* the WaitGroup counts never sends to it any more: of those that can, the *)
(* ones left drain the mDNS results of a browser that has ended, and the   *)
(* panic of a late send is always theirs.                                  *)
(***************************************************************************)
OnlyDrainsSendLate ==
  closed => \A s \in Senders :
              sender[s] # "exited" => s \in Services /\ browse[s] \in {"failed", "done"}

(***************************************************************************)
(* Stop waits, with g.mu held, for goroutines that offer devices to        *)
(* handleDiscovery, which may be waiting for g.mu.  It returns all the     *)
(* same, unless a late send kills the process first.                       *)
(***************************************************************************)
DiscovererStopReturns == (stop = "wait") ~> (stop = "returned" \/ crashed)

Room == Len(devices) < ChannelSize

(***************************************************************************)
(* Any announcement from an address, also one that handleDiscovery         *)
(* ignores, silences the others for thirty seconds, and one that meets a   *)
(* full channel is forgotten.  A receiver arrives in the tree all the same *)
(* if its announcements are, again and again, the first of their thirty    *)
(* seconds, and do not always meet a full channel when there is room again *)
(* and again.                                                              *)
(***************************************************************************)
AnnouncedArrives ==
  \A r \in {x \in SlpRecords : Accepts(x.model)} :
    (/\ []<><<HearsNew("slp", r)>>_vars
     /\ []<>Room => []<><<hand["slp"] = r /\ Sends("slp")>>_vars)
      => <>(Shown(Addr(r)) \/ ctxDone)

=============================================================================

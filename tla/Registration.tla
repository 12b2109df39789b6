--------------------------- MODULE Registration -----------------------------
(***************************************************************************)
(* The IS-04 registration of nmosController                                *)
(* (internal/infrastructure/nmos_controller.go): the goroutine that        *)
(* discovers a registry and registers the node, the heartbeat and the      *)
(* monitor goroutines that it starts, and the unregistration in Stop.  All *)
(* of them read and write registryURL without a lock, and every request    *)
(* goes to the registry that registryURL names when it is made.            *)
(*                                                                         *)
(* The resources are in place from the beginning, as in                    *)
(* nmos_heartbeat_test.go and nmos_unregistration_test.go; what            *)
(* RegisterResource does to a running controller is in Gateway.tla.        *)
(* Registries and DNS-SD are external: a registry keeps what it accepts,   *)
(* rejects a resource whose parent it does not hold, may be unreachable,   *)
(* answer one request with an error, or forget everything.                 *)
(***************************************************************************)
EXTENDS Integers, FiniteSets

CONSTANTS
  Registries,  \* registry addresses
  NoURL,       \* discovery finds nothing
  DefaultURL,  \* registryURL of a new controller
  Last,        \* resources 1..Last in registration order: a device, its children
  MaxChanges   \* bound: registry failures, and changes of what discovery finds

ASSUME RegistrationAssumption ==
  /\ NoURL \notin Registries
  /\ DefaultURL \in Registries
  /\ Last \in Nat
  /\ MaxChanges \in Nat

\* Resource 0 is the node; each of the others refers to the one before it.
Resources == 0..Last
Node == 0
Device == 1

VARIABLES
  advertised,   \* what discoverRegistry finds
  up,           \* registries that can be reached
  holds,        \* holds[u]: resources that registry u has
  faults,       \* how often a registry has failed or recovered
  moves,        \* how often advertised has changed
  ctxDone,      \* the context passed to Start is done
  isRunning,
  registryURL,
  currentURL,   \* currentRegistryURL
  registered,
  peerToPeer,   \* peerToPeerMode
  monitoring,   \* monitoringRegistry
  pc,           \* pc[p]: where goroutine p is
  found,        \* found[p]: the URL it found and has not yet assigned
  next,         \* next[p]: the resource reRegisterAll posts next
  stop,         \* Stop
  toDelete      \* children it has still to delete

vars == <<advertised, up, holds, faults, moves, ctxDone, isRunning, registryURL,
          currentURL, registered, peerToPeer, monitoring, pc, found, next,
          stop, toDelete>>

world == <<advertised, up, faults, moves>>
urls == <<registryURL, currentURL>>
mode == <<registered, peerToPeer>>
stopVars == <<ctxDone, isRunning, stop, toDelete>>

Goroutines == {"starter", "heart", "monitor"}

(***************************************************************************)
(* The steps of registerWithRegistry: the two assignments, RegisterNode    *)
(* (it looks at isRunning, then posts), and reRegisterAll, which calls     *)
(* RegisterNode again before it posts the resources.                       *)
(***************************************************************************)
Registering == {"url", "current", "node", "postNode", "again", "postAgain", "res"}
Elsewhere == {"off", "idle", "discover", "assign", "compare", "exited"}

WorldTypes ==
  /\ advertised \in Registries \cup {NoURL}
  /\ up \subseteq Registries
  /\ holds \in [Registries -> SUBSET Resources]
  /\ faults \in Nat /\ moves \in Nat
  /\ faults + moves <= MaxChanges

NodeTypes ==
  /\ registryURL \in Registries
  /\ currentURL \in Registries \cup {NoURL}
  /\ registered \in BOOLEAN
  /\ peerToPeer \in BOOLEAN
  /\ monitoring \in BOOLEAN

GoroutineTypes ==
  /\ pc \in [Goroutines -> Registering \cup Elsewhere]
  /\ found \in [Goroutines -> Registries \cup {NoURL}]
  /\ next \in [Goroutines -> 1..Last + 1]

StopTypes ==
  /\ ctxDone \in BOOLEAN
  /\ isRunning \in BOOLEAN
  /\ stop \in {"idle", "children", "device", "node", "wait", "returned"}
  /\ toDelete \subseteq Resources

TypeOK == WorldTypes /\ NodeTypes /\ GoroutineTypes /\ StopTypes

Init ==
  /\ advertised \in Registries \cup {NoURL}
  /\ up = Registries
  /\ holds = [u \in Registries |-> {}]
  /\ faults = 0
  /\ moves = 0
  /\ ctxDone = FALSE
  /\ isRunning = TRUE
  /\ registryURL = DefaultURL
  /\ currentURL = NoURL
  /\ registered = FALSE
  /\ peerToPeer = FALSE
  /\ monitoring = TRUE
  /\ pc = [p \in Goroutines |-> IF p = "starter" THEN "discover" ELSE "off"]
  /\ found = [p \in Goroutines |-> NoURL]
  /\ next = [p \in Goroutines |-> 1]
  /\ stop = "idle"
  /\ toDelete = {}

-----------------------------------------------------------------------------
(***************************************************************************)
(* Registries and discovery (external).                                    *)
(***************************************************************************)
Accepts(u, r) == u \in up /\ (r = Node \/ r - 1 \in holds[u])

\* A registry becomes reachable or unreachable.
RegistryToggles(u) ==
  /\ faults + moves < MaxChanges
  /\ faults' = faults + 1
  /\ up' = IF u \in up THEN up \ {u} ELSE up \cup {u}
  /\ UNCHANGED <<advertised, holds, moves, urls, mode, monitoring, pc, found,
                 next, stopVars>>

\* A registry restarts, or expires the node.
RegistryForgets(u) ==
  /\ faults + moves < MaxChanges
  /\ holds[u] # {}
  /\ faults' = faults + 1
  /\ holds' = [holds EXCEPT ![u] = {}]
  /\ UNCHANGED <<advertised, up, moves, urls, mode, monitoring, pc, found,
                 next, stopVars>>

AdvertisementMoves(u) ==
  /\ faults + moves < MaxChanges
  /\ u # advertised
  /\ advertised' = u
  /\ moves' = moves + 1
  /\ UNCHANGED <<up, holds, faults, urls, mode, monitoring, pc, found, next,
                 stopVars>>

(***************************************************************************)
(* What discoverRegistry may return.  Once ctx is done discoverMDNS fails, *)
(* or it returns an entry that it already has; discoverStatic and          *)
(* discoverUnicastDNS do not look at ctx.  The static registry is an       *)
(* advertisement that never moves.                                         *)
(***************************************************************************)
Discoverable == IF ctxDone THEN {advertised, NoURL} ELSE {advertised}

-----------------------------------------------------------------------------
(***************************************************************************)
(* registerWithRegistry, in any of the goroutines.                         *)
(***************************************************************************)
Goes(p, to) == pc' = [pc EXCEPT ![p] = to]

\* What p does when registerWithRegistry has returned; ok: it returned nil.
Finishes(p, ok) ==
  IF p # "starter"
  THEN Goes(p, "idle") /\ UNCHANGED <<mode, monitoring>>
  ELSE IF ok
       THEN /\ registered' = TRUE
            /\ peerToPeer' = FALSE
            /\ pc' = [q \in Goroutines |-> IF q = "starter" THEN "exited" ELSE "idle"]
            /\ UNCHANGED monitoring
       ELSE /\ registered' = FALSE
            /\ peerToPeer' = TRUE
            /\ monitoring' = FALSE
            /\ Goes(p, "exited")

\* c.registryURL = registryURL
SetsURL(p) ==
  /\ pc[p] = "url"
  /\ registryURL' = found[p]
  /\ Goes(p, "current")
  /\ UNCHANGED <<world, holds, currentURL, mode, monitoring, found, next, stopVars>>

\* c.currentRegistryURL = registryURL
SetsCurrent(p) ==
  /\ pc[p] = "current"
  /\ currentURL' = found[p]
  /\ found' = [found EXCEPT ![p] = NoURL]
  /\ Goes(p, "node")
  /\ UNCHANGED <<world, holds, registryURL, mode, monitoring, next, stopVars>>

Posts(r) == holds' = [holds EXCEPT ![registryURL] = @ \cup {r}]

\* Mutant: RegisterNode does not look at isRunning.
ChecksNothing(p) ==
  /\ pc[p] \in {"node", "again"}
  /\ Goes(p, IF pc[p] = "node" THEN "postNode" ELSE "postAgain")
  /\ UNCHANGED <<world, holds, urls, mode, monitoring, found, next, stopVars>>

\* if !c.isRunning { return errors.New("controller not running") }
ChecksRunning(p) ==
  /\ pc[p] \in {"node", "again"}
  /\ IF isRunning
     THEN /\ Goes(p, IF pc[p] = "node" THEN "postNode" ELSE "postAgain")
          /\ UNCHANGED <<mode, monitoring>>
     ELSE Finishes(p, pc[p] = "again")
  /\ UNCHANGED <<world, holds, urls, found, next, stopVars>>

\* Mutant: registerWithRegistry returns without reRegisterAll.
RegistersNodeOnly(p) ==
  /\ pc[p] \in {"postNode", "postAgain"}
  /\ Accepts(registryURL, Node)
  /\ Posts(Node)
  /\ Finishes(p, TRUE)
  /\ UNCHANGED <<world, urls, found, next, stopVars>>

\* The request has a context of its own: neither ctx nor Stop ends it.
RegistersNode(p) ==
  /\ pc[p] \in {"postNode", "postAgain"}
  /\ Accepts(registryURL, Node)
  /\ Posts(Node)
  /\ next' = [next EXCEPT ![p] = 1]
  /\ IF pc[p] = "postAgain" /\ Last = 0
     THEN Finishes(p, TRUE)
     ELSE /\ Goes(p, IF pc[p] = "postNode" THEN "again" ELSE "res")
          /\ UNCHANGED <<mode, monitoring>>
  /\ UNCHANGED <<world, urls, found, stopVars>>

\* reRegisterAll logs the error, and registerWithRegistry returns nil.
RegisterNodeFails(p) ==
  /\ pc[p] \in {"postNode", "postAgain"}
  /\ ~Accepts(registryURL, Node)
  /\ Finishes(p, pc[p] = "postAgain")
  /\ UNCHANGED <<world, holds, urls, found, next, stopVars>>

\* Mutant: the loop goes one resource too far.
AfterResourceOverruns(p) ==
  IF next[p] > Last
  THEN Finishes(p, TRUE) /\ next' = [next EXCEPT ![p] = 1]
  ELSE /\ next' = [next EXCEPT ![p] = @ + 1]
       /\ UNCHANGED <<pc, mode, monitoring>>

AfterResource(p) ==
  IF next[p] = Last
  THEN Finishes(p, TRUE) /\ next' = [next EXCEPT ![p] = 1]
  ELSE /\ next' = [next EXCEPT ![p] = @ + 1]
       /\ UNCHANGED <<pc, mode, monitoring>>

ReRegisters(p) ==
  /\ pc[p] = "res"
  /\ ~ctxDone
  /\ Accepts(registryURL, next[p])
  /\ Posts(next[p])
  /\ AfterResource(p)
  /\ UNCHANGED <<world, urls, found, stopVars>>

\* The error is logged, and the loop goes on.
ReRegisterFails(p) ==
  /\ pc[p] = "res"
  /\ ctxDone \/ ~Accepts(registryURL, next[p])
  /\ AfterResource(p)
  /\ UNCHANGED <<world, holds, urls, found, stopVars>>

\* A reachable registry answers with an error status.
RequestRejected(p) ==
  /\ faults + moves < MaxChanges
  /\ faults' = faults + 1
  /\ IF pc[p] = "res"
     THEN AfterResource(p)
     ELSE /\ pc[p] \in {"postNode", "postAgain"}
          /\ Finishes(p, pc[p] = "postAgain")
          /\ UNCHANGED next
  /\ UNCHANGED <<advertised, up, moves, holds, urls, found, stopVars>>

RegisterWithRegistry(p) ==
  \/ SetsURL(p)
  \/ SetsCurrent(p)
  \/ ChecksRunning(p)
  \/ RegistersNode(p)
  \/ RegisterNodeFails(p)
  \/ ReRegisters(p)
  \/ ReRegisterFails(p)
  \/ RequestRejected(p)

-----------------------------------------------------------------------------
(***************************************************************************)
(* discoverAndRegister.  registryURL has a default, so without a           *)
(* discovered registry the node registers with that one.  Nobody else      *)
(* reads or writes the URLs yet: Stop does so only when registered.        *)
(***************************************************************************)
StarterDiscovers ==
  /\ pc["starter"] = "discover"
  /\ currentURL' \in Discoverable
  /\ registryURL' = IF currentURL' = NoURL THEN registryURL ELSE currentURL'
  /\ found' = [found EXCEPT !["starter"] = registryURL']
  /\ Goes("starter", "url")
  /\ UNCHANGED <<world, holds, mode, monitoring, next, stopVars>>

Stopping == ctxDone \/ stop # "idle"

\* The select of the heartbeat and of the monitor goroutine.
Exits(p) ==
  /\ p # "starter"
  /\ pc[p] = "idle"
  /\ Stopping
  /\ Goes(p, "exited")
  /\ UNCHANGED <<world, holds, urls, mode, monitoring, found, next, stopVars>>

(***************************************************************************)
(* performHeartbeat.  An accepted heartbeat and an unexpected status       *)
(* change nothing; an error and "not found" start the rediscovery.         *)
(***************************************************************************)
HeartbeatFails ==
  /\ pc["heart"] = "idle"
  /\ ctxDone \/ registryURL \notin up \/ Node \notin holds[registryURL]
  /\ monitoring' = FALSE
  /\ Goes("heart", "discover")
  /\ UNCHANGED <<world, holds, urls, mode, found, next, stopVars>>

\* rediscoverAndReregister; when it fails monitoringRegistry stays FALSE.
Rediscovers ==
  /\ pc["heart"] = "discover"
  /\ \E u \in Discoverable :
       /\ Goes("heart", IF u = NoURL THEN "idle" ELSE "assign")
       /\ found' = [found EXCEPT !["heart"] = u]
  /\ UNCHANGED <<world, holds, urls, mode, monitoring, next, stopVars>>

\* Mutant: the new registry is noted, and nothing is registered with it.
AssignsOnly ==
  /\ pc["heart"] = "assign"
  /\ registryURL' = found["heart"]
  /\ currentURL' = found["heart"]
  /\ monitoring' = TRUE
  /\ found' = [found EXCEPT !["heart"] = NoURL]
  /\ Goes("heart", "idle")
  /\ UNCHANGED <<world, holds, mode, next, stopVars>>

\* The assignments under registryMonitorMu, whatever has happened since.
Assigns ==
  /\ pc["heart"] = "assign"
  /\ registryURL' = found["heart"]
  /\ currentURL' = found["heart"]
  /\ monitoring' = TRUE
  /\ Goes("heart", "url")
  /\ UNCHANGED <<world, holds, mode, found, next, stopVars>>

Heartbeat == HeartbeatFails \/ Rediscovers \/ Assigns

(***************************************************************************)
(* monitorRegistry: the goroutine ends if it ever finds monitoring off.    *)
(***************************************************************************)
MonitorTicks ==
  /\ pc["monitor"] = "idle"
  /\ Goes("monitor", IF monitoring THEN "discover" ELSE "exited")
  /\ UNCHANGED <<world, holds, urls, mode, monitoring, found, next, stopVars>>

MonitorDiscovers ==
  /\ pc["monitor"] = "discover"
  /\ \E u \in Discoverable :
       /\ Goes("monitor", IF u = NoURL THEN "idle" ELSE "compare")
       /\ found' = [found EXCEPT !["monitor"] = u]
  /\ UNCHANGED <<world, holds, urls, mode, monitoring, next, stopVars>>

\* The heartbeat may have changed currentRegistryURL during the discovery.
MonitorCompares ==
  /\ pc["monitor"] = "compare"
  /\ IF found["monitor"] = currentURL
     THEN Goes("monitor", "idle") /\ found' = [found EXCEPT !["monitor"] = NoURL]
     ELSE Goes("monitor", "url") /\ UNCHANGED found
  /\ UNCHANGED <<world, holds, urls, mode, monitoring, next, stopVars>>

Monitor == MonitorTicks \/ MonitorDiscovers \/ MonitorCompares

-----------------------------------------------------------------------------
(***************************************************************************)
(* The signal; Stop, called by Gateway.Stop, with unregisterAll.           *)
(***************************************************************************)
Signal ==
  /\ ~ctxDone
  /\ ctxDone' = TRUE
  /\ UNCHANGED <<world, holds, urls, mode, monitoring, pc, found, next,
                 isRunning, stop, toDelete>>

Children == {r \in Resources : r > Device}

\* A device is found through its children only.
StopBegins ==
  /\ ctxDone
  /\ stop = "idle"
  /\ isRunning' = FALSE
  /\ toDelete' = Children
  /\ stop' = IF ~registered THEN "wait" ELSE IF Children = {} THEN "node" ELSE "children"
  /\ UNCHANGED <<world, holds, urls, mode, monitoring, pc, found, next, ctxDone>>

\* unregisterResourceFromRegistry; a failure is logged.
Deletes(r) ==
  /\ holds' = IF registryURL \in up
              THEN [holds EXCEPT ![registryURL] = @ \ {r}]
              ELSE holds
  /\ UNCHANGED <<world, urls, mode, monitoring, pc, found, next, ctxDone, isRunning>>

\* Up to four goroutines delete the children of the device, in any order.
StopDeletesChild(r) ==
  /\ stop = "children"
  /\ r \in toDelete
  /\ Deletes(r)
  /\ toDelete' = toDelete \ {r}
  /\ stop' = IF toDelete' = {} THEN "device" ELSE "children"

StopDeletesDevice ==
  /\ stop = "device"
  /\ Deletes(Device)
  /\ stop' = "node"
  /\ UNCHANGED toDelete

StopDeletesNode ==
  /\ stop = "node"
  /\ Deletes(Node)
  /\ stop' = "wait"
  /\ UNCHANGED toDelete

\* The goroutines have ended, or five seconds have passed.
StopReturns ==
  /\ stop = "wait"
  /\ stop' = "returned"
  /\ UNCHANGED <<world, holds, urls, mode, monitoring, pc, found, next,
                 ctxDone, isRunning, toDelete>>

Stop ==
  \/ StopBegins
  \/ \E r \in Resources : StopDeletesChild(r)
  \/ StopDeletesDevice
  \/ StopDeletesNode
  \/ StopReturns

-----------------------------------------------------------------------------
Next ==
  \/ \E u \in Registries : RegistryToggles(u) \/ RegistryForgets(u)
  \/ \E u \in Registries \cup {NoURL} : AdvertisementMoves(u)
  \/ \E p \in Goroutines : RegisterWithRegistry(p) \/ Exits(p)
  \/ StarterDiscovers
  \/ Heartbeat
  \/ Monitor
  \/ Signal
  \/ Stop

Spec == Init /\ [][Next]_vars

(***************************************************************************)
(* The requests have timeouts and the tickers tick: the starter and the    *)
(* heartbeat goroutine take the steps they can take.  Nothing is assumed   *)
(* of the registries, of discovery or of the signal.                       *)
(***************************************************************************)
StarterStep == StarterDiscovers \/ RegisterWithRegistry("starter")
HeartStep == Heartbeat \/ RegisterWithRegistry("heart")

FairSpec == Spec /\ WF_vars(StarterStep) /\ WF_vars(HeartStep)

-----------------------------------------------------------------------------
(***************************************************************************)
(* Three goroutines register with different registries while each request  *)
(* goes wherever registryURL points at that moment.  Still, without        *)
(* registry failures, whenever none of them is registering the registry    *)
(* that registryURL names has the node and every resource: whoever assigns *)
(* registryURL last posts everything afterwards.                           *)
(***************************************************************************)
Quiet == \A p \in Goroutines : pc[p] \notin Registering
QuietMeansComplete ==
  faults = 0 /\ registered /\ ~ctxDone /\ Quiet => holds[registryURL] = Resources

(***************************************************************************)
(* A Stop that finds no request under way, and neither discovery nor a     *)
(* goroutine with another registry than the reachable one of registryURL,  *)
(* leaves nothing of this node in that registry, as long as discovery and  *)
(* the registries stay as they are (n changes of either).  Meanwhile the   *)
(* heartbeat and the monitor still run, fail, rediscover, assign           *)
(* registryURL again and enter registerWithRegistry while the resources    *)
(* are deleted: it is isRunning that keeps them from posting.              *)
(***************************************************************************)
Posting == {"postNode", "postAgain", "res"}
QuietStop(n) ==
  /\ stop = "children" /\ toDelete = Children
  /\ \A p \in Goroutines : pc[p] \notin Posting /\ found[p] \in {NoURL, registryURL}
  /\ advertised \in {NoURL, registryURL}
  /\ registryURL \in up
  /\ faults + moves = n
QuietStopUnregisters ==
  \A n \in 0..MaxChanges :
    [](QuietStop(n) =>
         [](stop \in {"wait", "returned"} /\ faults + moves = n
              => holds[registryURL] = {}))

(***************************************************************************)
(* A registered node that its registry has lost is registered again, with  *)
(* that or with another registry, once discovery finds one that works.     *)
(***************************************************************************)
HeartbeatRecovers ==
  registered ~> (Node \in holds[registryURL] \/ advertised \notin up \/ ctxDone)

(***************************************************************************)
(* "Should have re-registered node after 404": when the registry answers   *)
(* and does not know the node, the node is registered with it again or     *)
(* with another one.                                                       *)
(***************************************************************************)
NotFoundReregisters ==
  registered ~> (Node \in holds[registryURL] \/ registryURL \notin up \/ ctxDone)
=============================================================================

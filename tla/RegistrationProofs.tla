------------------------- MODULE RegistrationProofs -------------------------
(***************************************************************************)
(* Theorems about the IS-04 registration, for every set of registries and  *)
(* every number of resources, failures and moves.                          *)
(***************************************************************************)
EXTENDS Registration, TLAPS

USE DEF Elsewhere

\* What TypeOK needs to be inductive: registerWithRegistry has a registry to
\* register with, and reRegisterAll a resource to post.
TypeInv ==
  /\ TypeOK
  /\ \A p \in Goroutines :
       /\ pc[p] \in {"assign", "url", "current", "compare"} => found[p] \in Registries
       /\ pc[p] = "res" => next[p] \in 1..Last

\* The starter is alone until it ends; Stop begins after the signal.
OrderInv ==
  /\ pc["starter"] # "exited" => pc["heart"] = "off" /\ pc["monitor"] = "off"
  /\ registered => pc["starter"] = "exited"
  /\ ~ctxDone => stop = "idle" /\ isRunning
  /\ stop # "idle" => ~isRunning
  /\ stop = "children" => registered
  /\ faults = 0 => up = Registries

\* p will still post to registryURL all that the registry does not have.
Owes(p) ==
  \/ pc[p] \in Registering \ {"res"}
  \/ pc[p] = "res" /\ 0..(next[p] - 1) \subseteq holds[registryURL]

\* Whoever assigned registryURL last owes until the registry has everything.
OwedInv ==
  faults = 0 /\ ~ctxDone /\ pc["starter"] # "discover"
    => holds[registryURL] = Resources \/ \E p \in Goroutines : Owes(p)

CompleteInv == TypeInv /\ OrderInv /\ OwedInv

\* What Stop has still to delete.
Left ==
  CASE stop = "children" -> toDelete \cup {Node, Device}
    [] stop = "device" -> {Node, Device}
    [] stop = "node" -> {Node}
    [] OTHER -> {}

\* Nobody posts any more, and until the world changes nobody can take another
\* registry than the one that Stop deletes from.
QuietStopInv(n) ==
  /\ ctxDone /\ ~isRunning
  /\ stop # "idle"
  /\ pc["starter"] = "exited"
  /\ \A p \in Goroutines : pc[p] \notin Posting
  /\ faults + moves >= n
  /\ faults + moves = n =>
       /\ \A p \in Goroutines : found[p] \in {NoURL, registryURL}
       /\ advertised \in {NoURL, registryURL}
       /\ registryURL \in up
       /\ holds[registryURL] \subseteq Left

-----------------------------------------------------------------------------
\* The two ways in which registerWithRegistry ends.
Ends(p) == Finishes(p, TRUE) \/ Finishes(p, FALSE)

\* What the end of registerWithRegistry does to the goroutines.
LEMMA EndSteps ==
  ASSUME TypeInv, NEW p \in Goroutines, Ends(p)
  PROVE  /\ pc' \in [Goroutines -> Registering \cup Elsewhere]
         /\ registered' \in BOOLEAN /\ peerToPeer' \in BOOLEAN /\ monitoring' \in BOOLEAN
         /\ \A q \in Goroutines : pc'[q] = pc[q] \/ pc'[q] \in {"idle", "exited"}
         /\ pc'[p] \in {"idle", "exited"}
         /\ p # "starter" => /\ registered' = registered
                             /\ \A q \in Goroutines : q # p => pc'[q] = pc[q]
         /\ p = "starter" => pc'["starter"] = "exited"
<1> USE DEF Goroutines
<1>1. /\ pc \in [Goroutines -> Registering \cup Elsewhere]
      /\ NodeTypes
  BY DEF TypeInv, TypeOK, GoroutineTypes
<1>2. CASE p # "starter"
  <2>1. pc' = [pc EXCEPT ![p] = "idle"] /\ UNCHANGED <<registered, peerToPeer, monitoring>>
    BY <1>2 DEF Ends, Finishes, Goes, mode
  <2> QED
    BY <1>1, <1>2, <2>1 DEF NodeTypes
<1>3. CASE p = "starter" /\ Finishes(p, TRUE)
  <2>1. /\ pc' = [q \in Goroutines |-> IF q = "starter" THEN "exited" ELSE "idle"]
        /\ registered' = TRUE /\ peerToPeer' = FALSE /\ UNCHANGED monitoring
    BY <1>3 DEF Finishes
  <2> QED
    BY <1>1, <1>3, <2>1 DEF NodeTypes
<1>4. CASE p = "starter" /\ Finishes(p, FALSE)
  <2>1. /\ pc' = [pc EXCEPT ![p] = "exited"]
        /\ registered' = FALSE /\ peerToPeer' = TRUE /\ monitoring' = FALSE
    BY <1>4 DEF Finishes, Goes
  <2> QED
    BY <1>1, <1>4, <2>1 DEF NodeTypes
<1> QED
  BY <1>2, <1>3, <1>4 DEF Ends

\* Going to the next resource, or the end.
LEMMA AfterResourceSteps ==
  ASSUME TypeInv, NEW p \in Goroutines, pc[p] = "res", AfterResource(p)
  PROVE  \/ /\ next[p] = Last
            /\ Ends(p)
            /\ next' = [next EXCEPT ![p] = 1]
         \/ /\ next[p] + 1 \in 1..Last
            /\ next' = [next EXCEPT ![p] = next[p] + 1]
            /\ UNCHANGED <<pc, registered, peerToPeer, monitoring>>
<1>1. next[p] \in 1..Last
  BY DEF TypeInv
<1>2. CASE next[p] = Last
  BY <1>2 DEF AfterResource, Ends
<1>3. CASE next[p] # Last
  <2>1. next[p] + 1 \in 1..Last
    BY <1>1, <1>3, RegistrationAssumption
  <2> QED
    BY <1>3, <2>1 DEF AfterResource, mode
<1> QED
  BY <1>2, <1>3

\* A new controller.
LEMMA InitTypeInv == Init => TypeInv
<1> SUFFICES ASSUME Init
             PROVE  TypeInv
  OBVIOUS
<1>1. WorldTypes
  BY RegistrationAssumption DEF Init, WorldTypes
<1>2. NodeTypes /\ StopTypes
  BY RegistrationAssumption DEF Init, NodeTypes, StopTypes
<1>3. pc \in [Goroutines -> Registering \cup Elsewhere]
  BY DEF Init
<1>4. found \in [Goroutines -> Registries \cup {NoURL}] /\ next \in [Goroutines -> 1..Last + 1]
  BY RegistrationAssumption DEF Init
<1>5. \A p \in Goroutines : pc[p] \notin {"assign", "url", "current", "compare", "res"}
  BY DEF Init
<1> QED
  BY <1>1, <1>2, <1>3, <1>4, <1>5 DEF TypeInv, TypeOK, GoroutineTypes

\* What a step leaves alone keeps its type.
LEMMA SameTypes ==
  ASSUME TypeInv
  PROVE  /\ UNCHANGED <<world, holds>> => WorldTypes'
         /\ UNCHANGED <<urls, mode, monitoring>> => NodeTypes'
         /\ UNCHANGED stopVars => StopTypes'
  BY DEF TypeInv, TypeOK, world, urls, mode, stopVars, WorldTypes, NodeTypes, StopTypes

\* The goroutines' part of TypeInv.
GoroutineInv ==
  /\ GoroutineTypes
  /\ \A p \in Goroutines :
       /\ pc[p] \in {"assign", "url", "current", "compare"} => found[p] \in Registries
       /\ pc[p] = "res" => next[p] \in 1..Last

LEMMA TypeParts == /\ TypeInv <=> WorldTypes /\ NodeTypes /\ GoroutineInv /\ StopTypes
                   /\ TypeInv' <=> WorldTypes' /\ NodeTypes' /\ GoroutineInv' /\ StopTypes'
  BY DEF TypeInv, TypeOK, GoroutineInv

\* A goroutine that moves and leaves found and next alone.
LEMMA GoesInv ==
  ASSUME TypeInv, NEW p \in Goroutines,
         NEW to \in (Registering \ {"url", "current", "res"}) \cup {"idle", "discover", "exited"},
         Goes(p, to), UNCHANGED <<found, next>>
  PROVE  GoroutineInv'
  BY DEF TypeInv, TypeOK, GoroutineTypes, GoroutineInv, Goes, Registering

\* The end of registerWithRegistry.
LEMMA EndTypes ==
  ASSUME TypeInv, NEW p \in Goroutines, Ends(p), UNCHANGED <<urls, found>>,
         next' = next \/ next' = [next EXCEPT ![p] = 1]
  PROVE  NodeTypes' /\ GoroutineInv'
<1> USE EndSteps, RegistrationAssumption
<1>1. NodeTypes'
  BY DEF TypeInv, TypeOK, NodeTypes, urls
<1>2. next' \in [Goroutines -> 1..Last + 1]
  BY DEF TypeInv, TypeOK, GoroutineTypes
<1>3. GoroutineTypes'
  BY <1>2 DEF TypeInv, TypeOK, GoroutineTypes
<1>4. ASSUME NEW q \in Goroutines
      PROVE  /\ pc'[q] \in {"assign", "url", "current", "compare"} => found'[q] \in Registries
             /\ pc'[q] = "res" => next'[q] \in 1..Last
  BY <1>4 DEF TypeInv, TypeOK, GoroutineTypes
<1> QED
  BY <1>1, <1>3, <1>4 DEF GoroutineInv

\* The requests go to a registry.
LEMMA PostsTypes ==
  ASSUME TypeInv, NEW r \in Resources, Posts(r), UNCHANGED world
  PROVE  WorldTypes'
  BY DEF TypeInv, TypeOK, WorldTypes, NodeTypes, Posts, world

LEMMA RegisterTypeInv ==
  ASSUME TypeInv, NEW p \in Goroutines, RegisterWithRegistry(p)
  PROVE  TypeInv'
<1> USE RegistrationAssumption, SameTypes, TypeParts
<1>1. CASE SetsURL(p)
  <2>1. NodeTypes'
    BY <1>1 DEF SetsURL, NodeTypes, TypeInv, mode
  <2>2. GoroutineInv'
    BY <1>1 DEF SetsURL, GoroutineInv, GoroutineTypes, Goes, Registering
  <2> QED
    BY <1>1, <2>1, <2>2 DEF SetsURL
<1>2. CASE SetsCurrent(p)
  <2>1. NodeTypes'
    BY <1>2 DEF SetsCurrent, NodeTypes, TypeInv, mode
  <2>2. GoroutineInv'
    BY <1>2 DEF SetsCurrent, GoroutineInv, GoroutineTypes, Goes, Registering
  <2> QED
    BY <1>2, <2>1, <2>2 DEF SetsCurrent
<1>3. CASE ChecksRunning(p)
  <2>1. UNCHANGED <<world, holds, urls, found, next, stopVars>>
    BY <1>3 DEF ChecksRunning
  <2>2. CASE isRunning
    <3>1. PICK to \in {"postNode", "postAgain"} : Goes(p, to)
      BY <1>3, <2>2 DEF ChecksRunning
    <3>2. UNCHANGED <<mode, monitoring>>
      BY <1>3, <2>2 DEF ChecksRunning
    <3>3. GoroutineInv'
      BY <2>1, <3>1, GoesInv DEF Registering
    <3> QED
      BY <2>1, <3>2, <3>3
  <2>3. CASE ~isRunning
    <3>1. Ends(p)
      BY <1>3, <2>3 DEF ChecksRunning, Ends, Finishes
    <3> QED
      BY <2>1, <3>1, EndTypes
  <2> QED
    BY <2>2, <2>3
<1>4. CASE RegistersNode(p)
  <2>1. /\ next' = [next EXCEPT ![p] = 1]
        /\ UNCHANGED <<world, urls, found, stopVars>>
    BY <1>4 DEF RegistersNode
  <2>2. WorldTypes'
    <3>1. Node \in Resources
      BY DEF Node, Resources
    <3> QED
      BY <1>4, <2>1, <3>1, PostsTypes DEF RegistersNode
  <2>3. CASE pc[p] = "postAgain" /\ Last = 0
    <3>1. Ends(p)
      BY <1>4, <2>3 DEF RegistersNode, Ends
    <3> QED
      BY <2>1, <2>2, <3>1, EndTypes
  <2>4. CASE ~(pc[p] = "postAgain" /\ Last = 0)
    <3>1. /\ Goes(p, IF pc[p] = "postNode" THEN "again" ELSE "res")
          /\ UNCHANGED <<mode, monitoring>>
      BY <1>4, <2>4 DEF RegistersNode
    <3>2. pc[p] # "postNode" => 1 \in 1..Last
      BY <1>4, <2>4 DEF RegistersNode
    <3>3. GoroutineInv'
      BY <2>1, <3>1, <3>2 DEF GoroutineInv, GoroutineTypes, Goes, Registering
    <3> QED
      BY <2>1, <2>2, <3>1, <3>3
  <2> QED
    BY <2>3, <2>4
<1>5. CASE RegisterNodeFails(p)
  <2>1. Ends(p) /\ UNCHANGED <<world, holds, urls, found, next, stopVars>>
    BY <1>5 DEF RegisterNodeFails, Ends, Finishes
  <2> QED
    BY <2>1, EndTypes
<1>6. CASE ReRegisters(p) \/ ReRegisterFails(p) \/ (RequestRejected(p) /\ pc[p] = "res")
  <2>1. pc[p] = "res" /\ AfterResource(p)
    BY <1>6 DEF ReRegisters, ReRegisterFails, RequestRejected
  <2>2. next[p] \in Resources
    BY <2>1 DEF Resources, GoroutineInv
  <2>3. WorldTypes'
    BY <1>6, <2>2, PostsTypes
      DEF ReRegisters, ReRegisterFails, RequestRejected, WorldTypes, world
  <2>4. UNCHANGED <<urls, found, stopVars>>
    BY <1>6 DEF ReRegisters, ReRegisterFails, RequestRejected
  <2>5. CASE Ends(p) /\ next' = [next EXCEPT ![p] = 1]
    BY <2>3, <2>4, <2>5, EndTypes
  <2>6. CASE /\ next[p] + 1 \in 1..Last
             /\ next' = [next EXCEPT ![p] = next[p] + 1]
             /\ UNCHANGED <<pc, registered, peerToPeer, monitoring>>
    <3>1. GoroutineInv'
      BY <2>4, <2>6 DEF GoroutineInv, GoroutineTypes
    <3> QED
      BY <2>3, <2>4, <2>6, <3>1 DEF mode
  <2> QED
    BY <2>1, <2>5, <2>6, AfterResourceSteps
<1>7. CASE RequestRejected(p) /\ pc[p] # "res"
  <2>1. Ends(p) /\ UNCHANGED <<urls, found, next, stopVars>>
    BY <1>7 DEF RequestRejected, Ends, Finishes
  <2>2. WorldTypes'
    BY <1>7 DEF RequestRejected, WorldTypes
  <2> QED
    BY <2>1, <2>2, EndTypes
<1> QED
  BY <1>1, <1>2, <1>3, <1>4, <1>5, <1>6, <1>7 DEF RegisterWithRegistry

LEMMA NextTypeInv == TypeInv /\ [Next]_vars => TypeInv'
<1> SUFFICES ASSUME TypeInv, [Next]_vars
             PROVE  TypeInv'
  OBVIOUS
<1> USE RegistrationAssumption, SameTypes, TypeParts
<1>0. UNCHANGED <<pc, found, next>> => GoroutineInv'
  BY DEF GoroutineInv, GoroutineTypes
<1>1. ASSUME NEW u \in Registries \cup {NoURL}, AdvertisementMoves(u)
      PROVE  TypeInv'
  <2>1. WorldTypes'
    BY <1>1 DEF AdvertisementMoves, WorldTypes
  <2> QED
    BY <1>0, <1>1, <2>1 DEF AdvertisementMoves
<1>2. ASSUME NEW u \in Registries, RegistryToggles(u) \/ RegistryForgets(u)
      PROVE  TypeInv'
  <2>1. WorldTypes'
    BY <1>2 DEF RegistryToggles, RegistryForgets, WorldTypes
  <2> QED
    BY <1>0, <1>2, <2>1 DEF RegistryToggles, RegistryForgets
<1>3. ASSUME NEW p \in Goroutines, Exits(p)
      PROVE  TypeInv'
  <2>1. GoroutineInv'
    BY <1>3, GoesInv DEF Exits
  <2> QED
    BY <1>3, <2>1 DEF Exits
<1>4. CASE StarterDiscovers
  <2>1. registryURL' \in Registries /\ currentURL' \in Registries \cup {NoURL}
    BY <1>4 DEF StarterDiscovers, Discoverable, WorldTypes, NodeTypes
  <2>2. NodeTypes'
    BY <1>4, <2>1 DEF StarterDiscovers, NodeTypes, mode
  <2>3. GoroutineInv'
    BY <1>4, <2>1
      DEF StarterDiscovers, GoroutineInv, GoroutineTypes, Goes, Registering, Goroutines
  <2> QED
    BY <1>4, <2>2, <2>3 DEF StarterDiscovers
<1>5. CASE HeartbeatFails
  <2>1. GoroutineInv'
    BY <1>5, GoesInv DEF HeartbeatFails, Goroutines
  <2>2. NodeTypes'
    BY <1>5 DEF HeartbeatFails, NodeTypes, urls, mode
  <2> QED
    BY <1>5, <2>1, <2>2 DEF HeartbeatFails
<1>6. CASE Rediscovers \/ Assigns
  <2>1. NodeTypes'
    BY <1>6 DEF Rediscovers, Assigns, NodeTypes, GoroutineInv, Goroutines, urls, mode
  <2>2. ASSUME Rediscovers
        PROVE  GoroutineInv'
    <3>1. PICK u \in Registries \cup {NoURL} :
             /\ Goes("heart", IF u = NoURL THEN "idle" ELSE "assign")
             /\ found' = [found EXCEPT !["heart"] = u]
             /\ UNCHANGED next
      BY <2>2 DEF Rediscovers, Discoverable, WorldTypes
    <3> QED
      BY <3>1 DEF GoroutineInv, GoroutineTypes, Goes, Registering, Goroutines
  <2>3. ASSUME Assigns
        PROVE  GoroutineInv'
    BY <2>3 DEF Assigns, GoroutineInv, GoroutineTypes, Goes, Registering, Goroutines
  <2>4. UNCHANGED <<world, holds, stopVars>>
    BY <1>6 DEF Rediscovers, Assigns
  <2> QED
    BY <1>6, <2>1, <2>2, <2>3, <2>4
<1>7. CASE MonitorTicks
  <2>1. PICK to \in {"discover", "exited"} : Goes("monitor", to)
    BY <1>7 DEF MonitorTicks
  <2>2. GoroutineInv'
    BY <1>7, <2>1, GoesInv DEF MonitorTicks, Goroutines
  <2> QED
    BY <1>7, <2>2 DEF MonitorTicks
<1>8. CASE MonitorDiscovers
  <2>1. PICK u \in Registries \cup {NoURL} :
           /\ Goes("monitor", IF u = NoURL THEN "idle" ELSE "compare")
           /\ found' = [found EXCEPT !["monitor"] = u]
           /\ UNCHANGED next
    BY <1>8 DEF MonitorDiscovers, Discoverable, WorldTypes
  <2>2. GoroutineInv'
    BY <2>1 DEF GoroutineInv, GoroutineTypes, Goes, Registering, Goroutines
  <2> QED
    BY <1>8, <2>2 DEF MonitorDiscovers
<1>9. CASE MonitorCompares
  <2>1. GoroutineInv'
    BY <1>9 DEF MonitorCompares, GoroutineInv, GoroutineTypes, Goes, Registering, Goroutines
  <2> QED
    BY <1>9, <2>1 DEF MonitorCompares
<1>10. CASE Signal
  BY <1>0, <1>10 DEF Signal, StopTypes
<1>11. CASE StopBegins \/ StopReturns
  <2>1. StopTypes'
    BY <1>11 DEF StopBegins, StopReturns, StopTypes, Children
  <2> QED
    BY <1>0, <1>11, <2>1 DEF StopBegins, StopReturns
<1>12. ASSUME NEW r \in Resources, StopDeletesChild(r)
       PROVE  TypeInv'
  <2>1. StopTypes' /\ WorldTypes'
    BY <1>12 DEF StopDeletesChild, Deletes, StopTypes, WorldTypes, world
  <2> QED
    BY <1>0, <1>12, <2>1 DEF StopDeletesChild, Deletes
<1>13. CASE StopDeletesDevice \/ StopDeletesNode
  <2>1. StopTypes' /\ WorldTypes'
    BY <1>13 DEF StopDeletesDevice, StopDeletesNode, Deletes, StopTypes, WorldTypes, world
  <2> QED
    BY <1>0, <1>13, <2>1 DEF StopDeletesDevice, StopDeletesNode, Deletes
<1>14. CASE UNCHANGED vars
  BY <1>0, <1>14 DEF vars, world, urls, mode, stopVars
<1> QED
  BY <1>1, <1>2, <1>3, <1>4, <1>5, <1>6, <1>7, <1>8, <1>9, <1>10, <1>11, <1>12, <1>13, <1>14,
     RegisterTypeInv DEF Next, Heartbeat, Monitor, Stop

(***************************************************************************)
(* registryURL always names a registry, and reRegisterAll never posts a    *)
(* resource that does not exist, however the three goroutines and Stop     *)
(* interleave.                                                             *)
(***************************************************************************)
THEOREM RegistrationTypeCorrect == Spec => []TypeOK
<1>1. TypeInv => TypeOK
  BY DEF TypeInv
<1> QED
  BY <1>1, InitTypeInv, NextTypeInv, PTL DEF Spec

-----------------------------------------------------------------------------
\* What a step of registerWithRegistry does to the goroutines and to Stop.
LEMMA RegisterSteps ==
  ASSUME TypeInv, NEW p \in Goroutines, RegisterWithRegistry(p)
  PROVE  /\ pc[p] \in Registering
         /\ UNCHANGED <<up, stopVars>>
         /\ faults' = faults \/ (faults + moves < MaxChanges /\ faults' = faults + 1)
         /\ \/ Ends(p)
            \/ /\ UNCHANGED registered
               /\ pc'[p] \in Registering
               /\ \A q \in Goroutines : q # p => pc'[q] = pc[q]
<1> USE DEF Registering
<1>0. pc \in [Goroutines -> Registering \cup Elsewhere]
  BY DEF TypeInv, TypeOK, GoroutineTypes
<1>1. CASE SetsURL(p)
  BY <1>0, <1>1 DEF SetsURL, Goes, world, mode
<1>2. CASE SetsCurrent(p)
  BY <1>0, <1>2 DEF SetsCurrent, Goes, world, mode
<1>3. CASE ChecksRunning(p)
  <2>1. CASE isRunning
    BY <1>0, <1>3, <2>1 DEF ChecksRunning, Goes, world, mode
  <2>2. CASE ~isRunning
    <3>1. Ends(p)
      BY <1>3, <2>2 DEF ChecksRunning, Ends, Finishes
    <3> QED
      BY <1>3, <3>1 DEF ChecksRunning, world
  <2> QED
    BY <2>1, <2>2
<1>4. CASE RegistersNode(p)
  <2>1. CASE pc[p] = "postAgain" /\ Last = 0
    BY <1>4, <2>1 DEF RegistersNode, Ends, world
  <2>2. CASE ~(pc[p] = "postAgain" /\ Last = 0)
    BY <1>0, <1>4, <2>2 DEF RegistersNode, Goes, world, mode
  <2> QED
    BY <2>1, <2>2
<1>5. CASE RegisterNodeFails(p)
  <2>1. Ends(p)
    BY <1>5 DEF RegisterNodeFails, Ends, Finishes
  <2> QED
    BY <1>5, <2>1 DEF RegisterNodeFails, world
<1>6. CASE ReRegisters(p) \/ ReRegisterFails(p) \/ (RequestRejected(p) /\ pc[p] = "res")
  <2>1. pc[p] = "res" /\ AfterResource(p)
    BY <1>6 DEF ReRegisters, ReRegisterFails, RequestRejected
  <2>2. /\ UNCHANGED <<up, stopVars>>
        /\ faults' = faults \/ (faults + moves < MaxChanges /\ faults' = faults + 1)
    BY <1>6 DEF ReRegisters, ReRegisterFails, RequestRejected, world
  <2> QED
    BY <2>1, <2>2, AfterResourceSteps
<1>7. CASE RequestRejected(p) /\ pc[p] # "res"
  <2>1. Ends(p)
    BY <1>7 DEF RequestRejected, Ends, Finishes
  <2> QED
    BY <1>7, <2>1 DEF RequestRejected
<1> QED
  BY <1>1, <1>2, <1>3, <1>4, <1>5, <1>6, <1>7 DEF RegisterWithRegistry

\* A goroutine that registers is the starter, or the starter has ended.
LEMMA AloneUntilExited ==
  ASSUME OrderInv, NEW p \in Goroutines, pc[p] \in Registering
  PROVE  /\ p # "starter" => pc["starter"] = "exited"
         /\ p = "starter" => \A q \in Goroutines : q # p => pc[q] = "off"
  BY DEF OrderInv, Goroutines, Registering

LEMMA InitOrder == Init => OrderInv
  BY DEF Init, OrderInv, Goroutines

LEMMA NextOrder == TypeInv /\ OrderInv /\ [Next]_vars => OrderInv'
<1> SUFFICES ASSUME TypeInv, OrderInv, [Next]_vars
             PROVE  OrderInv'
  OBVIOUS
<1> USE DEF OrderInv, Goroutines
<1>0. /\ faults \in Nat
      /\ pc \in [Goroutines -> Registering \cup Elsewhere]
  BY RegistrationAssumption DEF TypeInv, TypeOK, WorldTypes, GoroutineTypes
<1>1. ASSUME NEW u \in Registries \cup {NoURL}, AdvertisementMoves(u)
      PROVE  OrderInv'
  BY <1>1 DEF AdvertisementMoves, mode, stopVars
<1>2. ASSUME NEW u \in Registries, RegistryToggles(u) \/ RegistryForgets(u)
      PROVE  OrderInv'
  BY <1>0, <1>2 DEF RegistryToggles, RegistryForgets, mode, stopVars
<1>3. ASSUME NEW p \in Goroutines, Exits(p)
      PROVE  OrderInv'
  BY <1>0, <1>3 DEF Exits, Goes, world, mode, stopVars
<1>4. ASSUME NEW p \in Goroutines, RegisterWithRegistry(p)
      PROVE  OrderInv'
  <2>1. (faults = 0 => up = Registries)'
    BY <1>0, <1>4, RegisterSteps
  <2>2. /\ (~ctxDone => stop = "idle" /\ isRunning)' /\ UNCHANGED stop
        /\ (stop # "idle" => ~isRunning)'
    BY <1>4, RegisterSteps DEF stopVars
  <2>3. CASE p # "starter"
    <3>1. pc["starter"] = "exited" /\ pc'["starter"] = "exited" /\ UNCHANGED registered
      BY <1>4, <2>3, RegisterSteps, AloneUntilExited, EndSteps
    <3> QED
      BY <2>1, <2>2, <3>1
  <2>4. CASE p = "starter"
    <3>1. ~registered /\ stop # "children"
      BY <1>4, <2>4, RegisterSteps DEF Registering
    <3>2. CASE Ends(p)
      BY <1>4, <2>1, <2>2, <2>4, <3>1, <3>2, EndSteps
    <3>3. CASE /\ UNCHANGED registered
               /\ \A q \in Goroutines : q # p => pc'[q] = pc[q]
      BY <1>4, <2>1, <2>2, <2>4, <3>1, <3>3, RegisterSteps, AloneUntilExited
    <3> QED
      BY <1>4, <3>2, <3>3, RegisterSteps
  <2> QED
    BY <2>3, <2>4
<1>5. CASE StarterDiscovers
  BY <1>0, <1>5 DEF StarterDiscovers, Goes, world, mode, stopVars
<1>6. CASE Heartbeat
  BY <1>0, <1>6 DEF Heartbeat, HeartbeatFails, Rediscovers, Assigns, Goes,
    world, mode, stopVars
<1>7. CASE Monitor
  BY <1>0, <1>7 DEF Monitor, MonitorTicks, MonitorDiscovers, MonitorCompares, Goes,
    world, mode, stopVars
<1>8. CASE Signal
  BY <1>8 DEF Signal, world, mode
<1>9. CASE Stop
  BY <1>9 DEF Stop, StopBegins, StopDeletesChild, StopDeletesDevice, StopDeletesNode,
    StopReturns, Deletes, world, mode
<1>10. CASE UNCHANGED vars
  BY <1>10 DEF vars
<1> QED
  BY <1>1, <1>2, <1>3, <1>4, <1>5, <1>6, <1>7, <1>8, <1>9, <1>10 DEF Next

LEMMA RegistrationOrder == Spec => [](TypeInv /\ OrderInv)
  BY InitTypeInv, InitOrder, NextTypeInv, NextOrder, PTL DEF Spec

-----------------------------------------------------------------------------
\* The registry that registryURL names has everything, or somebody owes it.
Owed == holds[registryURL] = Resources \/ \E p \in Goroutines : Owes(p)

\* A goroutine that is not registering moves.
LEMMA OthersOwe ==
  ASSUME Owed, NEW p \in Goroutines, pc[p] \notin Registering, UNCHANGED <<holds, urls, next>>,
         \A q \in Goroutines : q # p => pc'[q] = pc[q]
  PROVE  Owed'
  BY DEF Owed, Owes, urls, Registering

\* What p posts, or fails to post, does not end what another goroutine owes.
LEMMA AnotherOwes ==
  ASSUME TypeInv, OrderInv, NEW p \in Goroutines, RegisterWithRegistry(p),
         NEW q \in Goroutines, q # p, Owes(q), UNCHANGED registryURL, next'[q] = next[q],
         holds[registryURL] \subseteq holds'[registryURL]
  PROVE  Owed'
<1>1. pc[p] \in Registering /\ pc[q] \in Registering
  BY RegisterSteps DEF Owes, Registering
<1>2. p # "starter"
  BY <1>1, AloneUntilExited DEF Registering
<1>3. pc'[q] = pc[q]
  BY <1>2, RegisterSteps, EndSteps
<1> QED
  BY <1>3 DEF Owed, Owes

LEMMA RegisterOwed ==
  ASSUME TypeInv, OrderInv, NEW p \in Goroutines, RegisterWithRegistry(p),
         pc["starter"] # "discover" => Owed, faults = 0, faults' = 0, ~ctxDone
  PROVE  Owed'
<1> USE DEF Registering
<1>0. /\ pc \in [Goroutines -> Registering \cup Elsewhere]
      /\ next \in [Goroutines -> 1..Last + 1]
      /\ holds \in [Registries -> SUBSET Resources] /\ registryURL \in Registries
      /\ registryURL \in up
      /\ isRunning
  BY DEF TypeInv, TypeOK, WorldTypes, NodeTypes, GoroutineTypes, OrderInv
<1>1. pc["starter"] # "discover" /\ Owed
  <2>1. pc[p] \in Registering
    BY RegisterSteps
  <2> QED
    BY <2>1, AloneUntilExited
<1>2. CASE SetsURL(p) \/ SetsCurrent(p)
  BY <1>0, <1>2 DEF SetsURL, SetsCurrent, Goes, Owed, Owes
<1>3. CASE ChecksRunning(p)
  BY <1>0, <1>3 DEF ChecksRunning, Goes, Owed, Owes
<1>4. CASE RegistersNode(p)
  <2>1. Node \in holds'[registryURL'] /\ holds'[registryURL'] \subseteq Resources
    BY <1>0, <1>4, RegistrationAssumption DEF RegistersNode, Posts, urls, Node, Resources
  <2>2. CASE pc[p] = "postAgain" /\ Last = 0
    BY <2>1, <2>2 DEF Owed, Resources, Node
  <2>3. CASE pc[p] = "postNode"
    <3>1. pc'[p] = "again"
      BY <1>0, <1>4, <2>3 DEF RegistersNode, Goes
    <3> QED
      BY <3>1 DEF Owed, Owes
  <2>4. CASE pc[p] = "postAgain" /\ Last # 0
    <3>1. pc'[p] = "res" /\ next'[p] = 1
      BY <1>0, <1>4, <2>4 DEF RegistersNode, Goes
    <3>2. 0..(next'[p] - 1) \subseteq holds'[registryURL']
      BY <2>1, <3>1 DEF Node
    <3> QED
      BY <3>1, <3>2 DEF Owed, Owes
  <2> QED
    BY <1>4, <2>2, <2>3, <2>4 DEF RegistersNode
<1>5. CASE RegisterNodeFails(p)
  BY <1>0, <1>5 DEF RegisterNodeFails, Accepts
<1>6. CASE ReRegisters(p)
  <2>1. /\ pc[p] = "res" /\ AfterResource(p) /\ UNCHANGED registryURL
        /\ holds'[registryURL'] = holds[registryURL] \cup {next[p]}
        /\ next[p] \in 1..Last /\ next[p] \in Resources
    BY <1>0, <1>6 DEF ReRegisters, Posts, urls, TypeInv, Resources
  <2>2. next' \in [Goroutines -> 1..Last + 1] /\ \A q \in Goroutines : q # p => next'[q] = next[q]
    BY <1>0, <2>1, RegistrationAssumption, AfterResourceSteps
  <2>3. CASE holds[registryURL] = Resources
    BY <2>1, <2>3 DEF Owed
  <2>4. ASSUME NEW q \in Goroutines, q # p, Owes(q)
        PROVE  Owed'
    BY <2>1, <2>2, <2>4, AnotherOwes
  <2>5. CASE Owes(p)
    <3>1. 0..next[p] \subseteq holds'[registryURL']
      BY <2>1, <2>5 DEF Owes
    <3>2. CASE next[p] = Last
      BY <1>0, <2>1, <3>1, <3>2 DEF Owed, Resources
    <3>3. CASE next' = [next EXCEPT ![p] = next[p] + 1] /\ UNCHANGED pc
      <4>1. pc'[p] = "res" /\ next'[p] - 1 = next[p]
        BY <1>0, <2>1, <3>3
      <4> QED
        BY <3>1, <4>1 DEF Owed, Owes
    <3> QED
      BY <2>1, <3>2, <3>3, AfterResourceSteps
  <2> QED
    BY <1>1, <2>3, <2>4, <2>5 DEF Owed
<1>7. CASE ReRegisterFails(p)
  <2>1. /\ pc[p] = "res" /\ AfterResource(p) /\ UNCHANGED <<holds, registryURL>>
        /\ next[p] \in 1..Last
        /\ next[p] - 1 \notin holds[registryURL]
    BY <1>0, <1>7 DEF ReRegisterFails, Accepts, urls, TypeInv
  <2>2. \A q \in Goroutines : q # p => next'[q] = next[q]
    BY <1>0, <2>1, RegistrationAssumption, AfterResourceSteps
  <2>3. holds[registryURL] # Resources
    BY <2>1, RegistrationAssumption DEF Resources
  <2>4. ~Owes(p)
    BY <2>1 DEF Owes
  <2>5. PICK q \in Goroutines : q # p /\ Owes(q)
    BY <1>1, <2>3, <2>4 DEF Owed
  <2> QED
    BY <2>1, <2>2, <2>5, AnotherOwes
<1>8. CASE RequestRejected(p)
  BY <1>8 DEF RequestRejected
<1> QED
  BY <1>2, <1>3, <1>4, <1>5, <1>6, <1>7, <1>8 DEF RegisterWithRegistry

LEMMA InitOwed == Init => OwedInv
  BY DEF Init, OwedInv, Goroutines

LEMMA NextOwed == TypeInv /\ OrderInv /\ OwedInv /\ [Next]_vars => OwedInv'
<1> SUFFICES ASSUME TypeInv, OrderInv, OwedInv, [Next]_vars,
                    faults' = 0, ~ctxDone', pc'["starter"] # "discover"
             PROVE  Owed'
  BY DEF OwedInv, Owed
<1> USE DEF Goroutines
<1>0. /\ pc \in [Goroutines -> Registering \cup Elsewhere]
      /\ faults \in Nat
  BY RegistrationAssumption DEF TypeInv, TypeOK, WorldTypes, GoroutineTypes
<1>1. ASSUME NEW u \in Registries \cup {NoURL}, AdvertisementMoves(u)
      PROVE  Owed'
  BY <1>1 DEF AdvertisementMoves, OwedInv, Owed, Owes, urls, stopVars
<1>2. ASSUME NEW u \in Registries, RegistryToggles(u) \/ RegistryForgets(u)
      PROVE  FALSE
  BY <1>0, <1>2 DEF RegistryToggles, RegistryForgets
<1>3. ASSUME NEW p \in Goroutines, Exits(p)
      PROVE  FALSE
  BY <1>3 DEF Exits, Stopping, OrderInv, stopVars
<1>4. ASSUME NEW p \in Goroutines, RegisterWithRegistry(p)
      PROVE  Owed'
  <2>1. faults = 0 /\ ~ctxDone
    BY <1>0, <1>4, RegisterSteps DEF stopVars
  <2> QED
    BY <1>4, <2>1, RegisterOwed DEF OwedInv, Owed
<1>5. CASE StarterDiscovers
  BY <1>0, <1>5 DEF StarterDiscovers, Goes, Owed, Owes, Registering
<1>6. CASE HeartbeatFails \/ Rediscovers
  <2>1. /\ pc["heart"] \notin Registering /\ UNCHANGED <<holds, urls, next>>
        /\ \A q \in Goroutines : q # "heart" => pc'[q] = pc[q]
    BY <1>0, <1>6 DEF HeartbeatFails, Rediscovers, Goes, Registering
  <2>2. Owed
    BY <1>6, <2>1 DEF HeartbeatFails, Rediscovers, OwedInv, Owed, world, stopVars
  <2> QED
    BY <2>1, <2>2, OthersOwe
<1>7. CASE Assigns
  BY <1>0, <1>7 DEF Assigns, Goes, Owed, Owes, Registering
<1>8. CASE Monitor
  <2>1. /\ pc["monitor"] \notin Registering /\ UNCHANGED <<holds, urls, next, world, stopVars>>
        /\ \A q \in Goroutines : q # "monitor" => pc'[q] = pc[q]
    BY <1>0, <1>8
      DEF Monitor, MonitorTicks, MonitorDiscovers, MonitorCompares, Goes, Registering
  <2>2. Owed
    BY <2>1 DEF OwedInv, Owed, world, stopVars
  <2> QED
    BY <2>1, <2>2, OthersOwe
<1>9. CASE Signal
  BY <1>9 DEF Signal
<1>10. CASE Stop
  BY <1>10 DEF Stop, StopBegins, StopDeletesChild, StopDeletesDevice, StopDeletesNode,
    StopReturns, Deletes, OrderInv
<1>11. CASE UNCHANGED vars
  BY <1>11 DEF vars, OwedInv, Owed, Owes
<1> QED
  BY <1>1, <1>2, <1>3, <1>4, <1>5, <1>6, <1>7, <1>8, <1>9, <1>10, <1>11 DEF Next, Heartbeat

(***************************************************************************)
(* Whoever assigns registryURL last posts everything afterwards: as long   *)
(* as no registry has failed, when no goroutine is registering the         *)
(* registry that registryURL names has the node and every resource.        *)
(***************************************************************************)
THEOREM RegistrationQuietMeansComplete == Spec => []QuietMeansComplete
<1>1. Init => CompleteInv
  BY InitTypeInv, InitOrder, InitOwed DEF CompleteInv
<1>2. CompleteInv /\ [Next]_vars => CompleteInv'
  BY NextTypeInv, NextOrder, NextOwed DEF CompleteInv
<1>3. CompleteInv => QuietMeansComplete
  BY DEF CompleteInv, OrderInv, OwedInv, Owes, QuietMeansComplete, Quiet, Registering
<1> QED
  BY <1>1, <1>2, <1>3, PTL DEF Spec

-----------------------------------------------------------------------------
\* A Stop that finds no request under way has everything still to delete.
LEMMA QuietStopBegins ==
  ASSUME NEW n \in 0..MaxChanges
  PROVE  TypeInv /\ OrderInv /\ QuietStop(n) => QuietStopInv(n)
<1> SUFFICES ASSUME TypeInv, OrderInv, QuietStop(n)
             PROVE  QuietStopInv(n)
  OBVIOUS
<1>1. Left = Children \cup {Node, Device}
  BY DEF QuietStop, Left
<1>2. Resources \subseteq Children \cup {Node, Device}
  BY RegistrationAssumption DEF Children, Node, Device, Resources
<1>3. holds[registryURL] \subseteq Resources
  BY DEF TypeInv, TypeOK, WorldTypes, NodeTypes
<1> QED
  BY <1>1, <1>2, <1>3, RegistrationAssumption DEF QuietStopInv, QuietStop, OrderInv

\* A goroutine that takes part in registerWithRegistry finds that isRunning is
\* FALSE, and returns.
LEMMA RegisterQuietStop ==
  ASSUME TypeInv, ~isRunning, pc["starter"] = "exited",
         \A q \in Goroutines : pc[q] \notin Posting,
         NEW p \in Goroutines, RegisterWithRegistry(p)
  PROVE  /\ UNCHANGED <<world, holds, stopVars>>
         /\ \A q \in Goroutines : pc'[q] \notin Posting
         /\ pc'["starter"] = "exited"
         /\ (\A q \in Goroutines : found[q] \in {NoURL, registryURL}) =>
              /\ registryURL' = registryURL
              /\ \A q \in Goroutines : found'[q] \in {NoURL, registryURL}
<1> USE DEF Goroutines, Posting
<1>0. /\ pc \in [Goroutines -> Registering \cup Elsewhere]
      /\ found \in [Goroutines -> Registries \cup {NoURL}]
      /\ NoURL \notin Registries
  BY RegistrationAssumption DEF TypeInv, TypeOK, GoroutineTypes
<1>1. CASE SetsURL(p)
  <2>1. found[p] \in Registries
    BY <1>1 DEF SetsURL, TypeInv
  <2> QED
    BY <1>0, <1>1, <2>1 DEF SetsURL, Goes
<1>2. CASE SetsCurrent(p)
  BY <1>0, <1>2 DEF SetsCurrent, Goes
<1>3. CASE ChecksRunning(p)
  <2>1. p # "starter" /\ Ends(p)
    BY <1>3 DEF ChecksRunning, Ends, Finishes
  <2> QED
    BY <1>3, <2>1, EndSteps DEF ChecksRunning, urls
<1> QED
  BY <1>1, <1>2, <1>3
    DEF RegisterWithRegistry, RegistersNode, RegisterNodeFails, ReRegisters, ReRegisterFails,
        RequestRejected

\* The same for the heartbeat and the monitor outside registerWithRegistry:
\* whatever they find while the world stays as it is, it is no other registry.
LEMMA DiscoveryQuietStop ==
  ASSUME TypeInv, \A q \in Goroutines : pc[q] \notin Posting, Heartbeat \/ Monitor
  PROVE  /\ UNCHANGED <<world, holds, stopVars>>
         /\ \A q \in Goroutines : pc'[q] \notin Posting
         /\ pc'["starter"] = pc["starter"]
         /\ /\ advertised \in {NoURL, registryURL}
            /\ \A q \in Goroutines : found[q] \in {NoURL, registryURL}
            => /\ registryURL' = registryURL
               /\ \A q \in Goroutines : found'[q] \in {NoURL, registryURL}
<1> USE DEF Goroutines, Posting
<1>0. /\ pc \in [Goroutines -> Registering \cup Elsewhere]
      /\ found \in [Goroutines -> Registries \cup {NoURL}]
      /\ NoURL \notin Registries
  BY RegistrationAssumption DEF TypeInv, TypeOK, GoroutineTypes
<1>1. CASE HeartbeatFails \/ MonitorTicks \/ MonitorCompares
  BY <1>0, <1>1 DEF HeartbeatFails, MonitorTicks, MonitorCompares, Goes, urls
<1>2. CASE Rediscovers
  BY <1>0, <1>2 DEF Rediscovers, Discoverable, Goes, urls
<1>3. CASE Assigns
  <2>1. found["heart"] \in Registries
    BY <1>3 DEF Assigns, TypeInv
  <2> QED
    BY <1>0, <1>3, <2>1 DEF Assigns, Goes
<1>4. CASE MonitorDiscovers
  BY <1>0, <1>4 DEF MonitorDiscovers, Discoverable, Goes, urls
<1> QED
  BY <1>1, <1>2, <1>3, <1>4 DEF Heartbeat, Monitor

LEMMA NextQuietStop ==
  ASSUME NEW n \in 0..MaxChanges
  PROVE  TypeInv /\ QuietStopInv(n) /\ [Next]_vars => QuietStopInv(n)'
<1> SUFFICES ASSUME TypeInv, QuietStopInv(n), [Next]_vars
             PROVE  QuietStopInv(n)'
  OBVIOUS
<1> USE DEF QuietStopInv
<1>0. /\ faults \in Nat /\ moves \in Nat /\ n \in Nat
      /\ holds \in [Registries -> SUBSET Resources] /\ registryURL \in Registries
      /\ pc \in [Goroutines -> Registering \cup Elsewhere]
  BY RegistrationAssumption
    DEF TypeInv, TypeOK, WorldTypes, NodeTypes, GoroutineTypes
<1>1. UNCHANGED <<stop, toDelete>> => Left' = Left
  BY DEF Left
<1>2. ASSUME NEW u \in Registries \cup {NoURL}, AdvertisementMoves(u)
      PROVE  QuietStopInv(n)'
  <2>1. /\ faults' + moves' >= n /\ faults' + moves' # n
        /\ UNCHANGED <<pc, stopVars>>
    BY <1>0, <1>2 DEF AdvertisementMoves
  <2> QED
    BY <2>1 DEF stopVars
<1>3. ASSUME NEW u \in Registries, RegistryToggles(u) \/ RegistryForgets(u)
      PROVE  QuietStopInv(n)'
  <2>1. /\ faults' + moves' >= n /\ faults' + moves' # n
        /\ UNCHANGED <<pc, stopVars>>
    BY <1>0, <1>3 DEF RegistryToggles, RegistryForgets
  <2> QED
    BY <2>1 DEF stopVars
<1>4. ASSUME NEW p \in Goroutines, RegisterWithRegistry(p)
      PROVE  QuietStopInv(n)'
  <2>1. /\ UNCHANGED <<world, holds, stopVars>>
        /\ \A q \in Goroutines : pc'[q] \notin Posting
        /\ pc'["starter"] = "exited"
        /\ (\A q \in Goroutines : found[q] \in {NoURL, registryURL}) =>
             /\ registryURL' = registryURL
             /\ \A q \in Goroutines : found'[q] \in {NoURL, registryURL}
    BY <1>4, RegisterQuietStop
  <2> QED
    BY <1>1, <2>1 DEF world, stopVars
<1>5. ASSUME NEW p \in Goroutines, Exits(p)
      PROVE  QuietStopInv(n)'
  <2>1. /\ UNCHANGED <<world, holds, urls, found, stopVars>>
        /\ pc'["starter"] = pc["starter"]
        /\ \A q \in Goroutines : pc'[q] \notin Posting
    BY <1>0, <1>5 DEF Exits, Goes, Posting, Goroutines
  <2> QED
    BY <1>1, <2>1 DEF world, urls, stopVars
<1>6. ~StarterDiscovers
  BY DEF StarterDiscovers
<1>7. CASE Heartbeat \/ Monitor
  <2>1. /\ UNCHANGED <<world, holds, stopVars>>
        /\ \A q \in Goroutines : pc'[q] \notin Posting
        /\ pc'["starter"] = pc["starter"]
        /\ /\ advertised \in {NoURL, registryURL}
           /\ \A q \in Goroutines : found[q] \in {NoURL, registryURL}
           => /\ registryURL' = registryURL
              /\ \A q \in Goroutines : found'[q] \in {NoURL, registryURL}
    BY <1>7, DiscoveryQuietStop
  <2> QED
    BY <1>1, <2>1 DEF world, stopVars
<1>8. ~Signal /\ ~StopBegins
  BY DEF Signal, StopBegins
<1>9. ASSUME NEW r \in Resources, StopDeletesChild(r) \/ StopDeletesDevice \/ StopDeletesNode
      PROVE  QuietStopInv(n)'
  <2>1. /\ UNCHANGED <<world, urls, pc, found, ctxDone, isRunning>>
        /\ stop' # "idle"
    BY <1>9 DEF StopDeletesChild, StopDeletesDevice, StopDeletesNode, Deletes
  <2>2. ASSUME registryURL \in up, holds[registryURL] \subseteq Left
        PROVE  holds'[registryURL] \subseteq Left'
    <3>1. CASE StopDeletesChild(r)
      <4>1. /\ Left = toDelete \cup {Node, Device}
            /\ Left' = (toDelete \ {r}) \cup {Node, Device}
        BY <3>1 DEF StopDeletesChild, Left
      <4>2. holds'[registryURL] = holds[registryURL] \ {r}
        BY <1>0, <2>2, <3>1 DEF StopDeletesChild, Deletes
      <4> QED
        BY <2>2, <4>1, <4>2
    <3>2. CASE StopDeletesDevice
      <4>1. Left = {Node, Device} /\ Left' = {Node}
        BY <3>2 DEF StopDeletesDevice, Left
      <4>2. holds'[registryURL] = holds[registryURL] \ {Device}
        BY <1>0, <2>2, <3>2 DEF StopDeletesDevice, Deletes
      <4> QED
        BY <2>2, <4>1, <4>2
    <3>3. CASE StopDeletesNode
      <4>1. Left = {Node} /\ Left' = {}
        BY <3>3 DEF StopDeletesNode, Left
      <4>2. holds'[registryURL] = holds[registryURL] \ {Node}
        BY <1>0, <2>2, <3>3 DEF StopDeletesNode, Deletes
      <4> QED
        BY <2>2, <4>1, <4>2
    <3> QED
      BY <1>9, <3>1, <3>2, <3>3
  <2> QED
    BY <2>1, <2>2 DEF world, urls
<1>10. CASE StopReturns
  <2>1. Left = {} /\ Left' = {}
    BY <1>10 DEF StopReturns, Left
  <2> QED
    BY <1>10, <2>1 DEF StopReturns, world, urls
<1>11. CASE UNCHANGED vars
  BY <1>1, <1>11 DEF vars
<1>12. Node \in Resources
  BY RegistrationAssumption DEF Node, Resources
<1> QED
  BY <1>2, <1>3, <1>4, <1>5, <1>6, <1>7, <1>8, <1>9, <1>10, <1>11, <1>12
    DEF Next, Stop

(***************************************************************************)
(* After a Stop that found no request under way and no other registry in   *)
(* sight, the registry that registryURL names holds nothing of this node,  *)
(* in every discovery mode, although the heartbeat and the monitor go on   *)
(* and rediscover while Stop deletes the resources.                        *)
(***************************************************************************)
THEOREM RegistrationQuietStop == Spec => QuietStopUnregisters
<1>1. ASSUME NEW n \in 0..MaxChanges
      PROVE  Spec => [](QuietStop(n) =>
                          [](stop \in {"wait", "returned"} /\ faults + moves = n
                               => holds[registryURL] = {}))
  <2>1. TypeInv /\ OrderInv /\ QuietStop(n) => QuietStopInv(n)
    BY QuietStopBegins
  <2>2. TypeInv /\ QuietStopInv(n) /\ [Next]_vars => QuietStopInv(n)'
    BY NextQuietStop
  <2>3. QuietStopInv(n) =>
          (stop \in {"wait", "returned"} /\ faults + moves = n => holds[registryURL] = {})
    BY DEF QuietStopInv, Left
  <2> QED
    BY <2>1, <2>2, <2>3, RegistrationOrder, PTL DEF Spec
<1> QED
  BY <1>1 DEF QuietStopUnregisters
=============================================================================

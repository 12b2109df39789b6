------------------------ MODULE DeviceArrivalProofs -------------------------
(***************************************************************************)
(* Theorems about the arrival of devices, for every set of mDNS services   *)
(* and records and every capacity of the channel.                          *)
(***************************************************************************)
EXTENDS DeviceArrival, NcpOidProofs, FiniteSetTheorems, TLAPS

\* Where the goroutines of the discoverer are.
SenderTypes ==
  /\ browse \in [Services -> {"starting", "up", "failed", "done"}]
  /\ sender \in [Senders -> {"off", "bind", "check", "idle", "offer", "exited"}]

\* The channel is closed when all that the WaitGroup counts have ended.
ClosedWhenDone == closed => AllDone

DrainInv == SenderTypes /\ ClosedWhenDone

-----------------------------------------------------------------------------
LEMMA InitDrain == Init => DrainInv
  BY DEF Init, DiscoveryInit, DrainInv, SenderTypes, ClosedWhenDone, Senders

\* A step of a sender that offers nothing, and does not wake the listener
\* after its end.
LEMMA SenderMoves ==
  ASSUME DrainInv, NEW s \in Senders, NEW to \in {"check", "idle", "exited"}, SenderAt(s, to),
         s = "slp" => sender["slp"] # "exited", UNCHANGED <<browse, closed>>
  PROVE  DrainInv'
<1>1. SenderTypes'
  BY DEF DrainInv, SenderTypes, SenderAt
<1>2. ClosedWhenDone'
  BY DEF DrainInv, SenderTypes, ClosedWhenDone, AllDone, SenderAt, Senders
<1> QED
  BY <1>1, <1>2 DEF DrainInv

LEMMA DiscoveryDrain ==
  ASSUME DrainInv, DiscoverySteps
  PROVE  DrainInv'
<1>0. "slp" \in Senders /\ "slp" \notin Services /\ Services \subseteq Senders
  BY DiscoveryAssumption DEF Senders
<1>1. ASSUME NEW s \in Services,
             ResolverFails(s) \/ BrowseStarts(s) \/ BrowseFails(s) \/ BrowseEnds(s)
      PROVE  DrainInv'
  <2> USE <1>1 DEF ResolverFails, BrowseStarts, BrowseFails, BrowseReturns, BrowseEnds
  <2>1. SenderTypes'
    BY DEF DrainInv, SenderTypes
  <2>2. ClosedWhenDone'
    BY DEF DrainInv, SenderTypes, ClosedWhenDone, AllDone
  <2> QED
    BY <2>1, <2>2 DEF DrainInv
<1>2. ASSUME NEW s \in Services, Resolves(s) \/ DrainEnds(s)
      PROVE  DrainInv'
  BY <1>0, <1>2, SenderMoves DEF Resolves, DrainEnds
<1>3. CASE ListenerBinds \/ ListenerReads \/ ListenerTimesOut \/ ListenerEnds
  BY <1>0, <1>3, SenderMoves DEF ListenerBinds, ListenerReads, ListenerTimesOut, ListenerEnds
<1>4. ASSUME NEW s \in Senders, Sender(s)
      PROVE  DrainInv'
  <2>1. Offered(s) /\ UNCHANGED closed
    BY <1>4 DEF Sender, Sends, Drops, Panics, Offered
  <2>2. Listens(s) \in {"check", "idle"}
    BY DEF Listens
  <2> QED
    BY <2>1, <2>2, SenderMoves DEF Offered
<1>5. ASSUME NEW s \in Senders, NEW r \in Records, HearsNew(s, r)
      PROVE  DrainInv'
  <2>1. SenderTypes'
    BY <1>5 DEF HearsNew, SenderAt, DrainInv, SenderTypes
  <2>2. ClosedWhenDone'
    BY <1>0, <1>5
      DEF HearsNew, CanHear, SenderAt, DrainInv, SenderTypes, ClosedWhenDone, AllDone
  <2> QED
    BY <2>1, <2>2 DEF DrainInv
<1>6. ASSUME NEW s \in Senders, NEW r \in Records, HearsRecent(s, r)
      PROVE  DrainInv'
  <2>1. Listens(s) \in {"check", "idle"}
    BY DEF Listens
  <2> QED
    BY <1>6, <2>1, SenderMoves DEF HearsRecent, CanHear
<1>7. CASE Signal \/ \E ip \in recent : Expires(ip)
  BY <1>7 DEF Signal, Expires, DrainInv, SenderTypes, ClosedWhenDone, AllDone
<1>8. CASE StopCloses
  BY <1>8 DEF StopCloses, DrainInv, SenderTypes, ClosedWhenDone, AllDone
<1> QED
  BY <1>1, <1>2, <1>3, <1>4, <1>5, <1>6, <1>7, <1>8 DEF DiscoverySteps, Browses

LEMMA NextDrain == DrainInv /\ [Next]_vars => DrainInv'
<1> SUFFICES ASSUME DrainInv, [Next]_vars
             PROVE  DrainInv'
  OBVIOUS
<1>1. UNCHANGED <<browse, sender, closed>> => DrainInv'
  BY DEF DrainInv, SenderTypes, ClosedWhenDone, AllDone
<1>2. CASE Handler
  BY <1>1, <1>2
    DEF Handler, Rejects, Receives, HandlerEnds, Known, Unknown, DialFails, DialSucceeds,
        Inserts, Builds, Finishes, AddReturns, discVars
<1>3. CASE StopStarts \/ StopUnlocks
  BY <1>1, <1>3 DEF StopStarts, StopUnlocks, discVars
<1>4. CASE UNCHANGED vars
  BY <1>1, <1>4 DEF vars, discVars
<1> QED
  BY <1>2, <1>3, <1>4, DiscoveryDrain DEF Next

(***************************************************************************)
(* Once Stop of the discoverer has closed the channel, the listener has    *)
(* ended, and whoever of the senders has not is the goroutine that drains  *)
(* the results of a browser that has ended (mdns_discovery.go): only those *)
(* goroutines can make the process panic.                                  *)
(***************************************************************************)
THEOREM ArrivalOnlyDrainsSendLate == Spec => []OnlyDrainsSendLate
<1>1. DrainInv => OnlyDrainsSendLate
  BY DEF DrainInv, ClosedWhenDone, AllDone, OnlyDrainsSendLate, Senders
<1> QED
  BY <1>1, InitDrain, NextDrain, PTL DEF Spec

-----------------------------------------------------------------------------
(***************************************************************************)
(* The tree while devices arrive.                                          *)
(***************************************************************************)
OpsOf(a) == AllOps[shureCtrls[a].index][shureCtrls[a].model]

\* How many calls of setupDeviceNCP for a device in the table are done.
Done(a) == IF handler = "setup" /\ a = Addr(found) THEN built ELSE Len(OpsOf(a))

Complete == {a \in Present : Done(a) = Len(OpsOf(a))}

\* The records on their way, and the handler.
RecordTypes ==
  /\ devices \in Seq(Records)
  /\ DOMAIN hand = Senders
  /\ \A s \in Senders : sender[s] = "offer" => hand[s] \in Records
  /\ handler \in {"check", "dial", "lock", "setup"} => found \in Records

\* g.mu is held across the steps of setupDeviceNCP.
LockInv ==
  /\ handler = "setup" <=> gmu = "handler"
  /\ handler = "setup" => Addr(found) \in Present /\ built \in 0..Len(Ops)

\* Each device in the table has an index of its own.
IndexInv ==
  /\ DOMAIN shureCtrls = Addrs
  /\ \A a \in Present : /\ shureCtrls[a].index \in 1..Cardinality(Present)
                        /\ shureCtrls[a].model \in AnnouncedModels
  /\ \A a, b \in Present : shureCtrls[a].index = shureCtrls[b].index => a = b

\* What an object that is registered, and one that is added, leave behind.
IsRegistered(a, e) ==
  /\ e.oid \in DOMAIN ncpObjects
  /\ ncpObjects[e.oid] = Object(a, e)
  /\ e.class = BlockClass => e.oid \in DOMAIN items

IsAdded(e) == e.parent \in DOMAIN items /\ e.oid \in items[e.parent]

\* Nothing that a call has done is undone, by the same device or another.
CallInv ==
  \A a \in Present : \A n \in 1..Done(a) :
    IF OpsOf(a)[n].op = "register" THEN IsRegistered(a, OpsOf(a)[n].entry)
    ELSE IsAdded(OpsOf(a)[n].entry)

\* Members resolve, to objects of classes that are known.
MemberInv ==
  \A b \in DOMAIN items : \A o \in items[b] :
    o \in DOMAIN ncpObjects /\ ncpObjects[o].class \in classes

ClassInv ==
  /\ BlockClass \in classes
  /\ \A a \in Present : RegisteredClasses(DetectModelFamily(shureCtrls[a].model)) \subseteq classes

\* The root block has the managers and complete devices.
RootInv ==
  /\ RootOID \in DOMAIN items
  /\ items[RootOID] \subseteq {2, 3} \cup {DeviceOID(shureCtrls[a].index) : a \in Complete}

\* The parameters of a device lead to its workers.
ParameterMap(entries) ==
  LET workers == {e \in entries : e.class # BlockClass} IN
  [k \in {<<e.ch, e.class>> : e \in workers} |-> (CHOOSE e \in workers : <<e.ch, e.class>> = k).oid]

RouteInv ==
  /\ DOMAIN parameterOIDs = Addrs
  /\ \A a \in Present : parameterOIDs[a] = ParameterMap(EntriesOf(a))

TableInv == LockInv /\ IndexInv
TreeInv == CallInv /\ MemberInv /\ ClassInv /\ RootInv /\ RouteInv
ArrivalInv == SenderTypes /\ RecordTypes /\ TableInv /\ TreeInv

\* The network has at most as many addresses as there are indices whose
\* identifiers do not meet (NcpOidProofs.tla).
SmallNetwork == Cardinality(Addrs) <= LastIndex

-----------------------------------------------------------------------------
LEMMA PresentFinite ==
  /\ IsFiniteSet(Present) /\ Cardinality(Present) \in Nat /\ Cardinality(Addrs) \in Nat
  /\ Cardinality(Present) <= Cardinality(Addrs)
  /\ \A a \in Addrs : a \notin Present => Cardinality(Present) + 1 <= Cardinality(Addrs)
<1>1. IsFiniteSet(Addrs)
  BY ArrivalAssumption
<1>2. Present \in SUBSET Addrs
  BY DEF Present
<1>3. /\ IsFiniteSet(Present) /\ Cardinality(Present) <= Cardinality(Addrs)
      /\ Cardinality(Present) = Cardinality(Addrs) => Present = Addrs
  BY <1>1, <1>2, FS_Subset
<1>4. Cardinality(Present) \in Nat /\ Cardinality(Addrs) \in Nat
  BY <1>1, <1>3, FS_CardinalityType
<1> QED
  BY <1>3, <1>4

\* The calls made for a device in the table, and its identifiers.
LEMMA PresentPlans ==
  ASSUME SmallNetwork, IndexInv
  PROVE  \A a \in Present :
           /\ shureCtrls[a].index \in 1..LastIndex
           /\ shureCtrls[a].index \in 1..Cardinality(Addrs)
           /\ OpsOf(a) = SetupOps(shureCtrls[a].index, shureCtrls[a].model)
           /\ EntriesOf(a) = Entries(shureCtrls[a].index, shureCtrls[a].model)
           /\ GoodPlan(OpsOf(a), shureCtrls[a].index, shureCtrls[a].model)
<1> SUFFICES ASSUME NEW a \in Present
             PROVE  /\ shureCtrls[a].index \in 1..LastIndex
                    /\ shureCtrls[a].index \in 1..Cardinality(Addrs)
                    /\ OpsOf(a) = SetupOps(shureCtrls[a].index, shureCtrls[a].model)
                    /\ EntriesOf(a) = Entries(shureCtrls[a].index, shureCtrls[a].model)
                    /\ GoodPlan(OpsOf(a), shureCtrls[a].index, shureCtrls[a].model)
  OBVIOUS
<1> DEFINE i == shureCtrls[a].index
           m == shureCtrls[a].model
<1>1. i \in 1..Cardinality(Present) /\ m \in AnnouncedModels
  BY DEF IndexInv
<1>2. i \in 1..Cardinality(Addrs) /\ i \in 1..LastIndex
  BY <1>1, PresentFinite DEF SmallNetwork, LastIndex
<1> HIDE DEF i, m
<1>3. AllOps[i][m] = SetupOps(i, m) /\ AllEntries[i][m] = Entries(i, m)
  BY <1>1, <1>2 DEF AllOps, AllEntries
<1>4. GoodPlan(SetupOps(i, m), i, m)
  BY <1>2, SetupIsGoodPlan
<1> QED
  BY <1>2, <1>3, <1>4 DEF OpsOf, EntriesOf, i, m

\* Devices in the table have no identifier in common.
LEMMA PresentDisjoint ==
  ASSUME SmallNetwork, IndexInv
  PROVE  /\ \A a, b \in Present :
              a # b => OidsOf(shureCtrls[a].index) \cap OidsOf(shureCtrls[b].index) = {}
         /\ \A a \in Present : OidsOf(shureCtrls[a].index) \cap (1..3) = {}
<1>1. ASSUME NEW a \in Present, NEW b \in Present, a # b
      PROVE  OidsOf(shureCtrls[a].index) \cap OidsOf(shureCtrls[b].index) = {}
  <2>1. shureCtrls[a].index # shureCtrls[b].index
    BY <1>1 DEF IndexInv
  <2>2. shureCtrls[a].index \in 1..LastIndex /\ shureCtrls[b].index \in 1..LastIndex
    BY PresentPlans
  <2> QED
    BY <2>1, <2>2, DevicesShareNoOid
<1>2. ASSUME NEW a \in Present
      PROVE  OidsOf(shureCtrls[a].index) \cap (1..3) = {}
  <2>1. shureCtrls[a].index \in 1..LastIndex
    BY PresentPlans
  <2>2. PICK j \in 1..LastIndex : shureCtrls[a].index # j
    BY <2>1 DEF LastIndex
  <2> QED
    BY <2>1, <2>2, DevicesShareNoOid
<1> QED
  BY <1>1, <1>2

(***************************************************************************)
(* The call that comes next leaves alone what earlier calls have left: a   *)
(* registration takes an identifier that none of them registered or added  *)
(* to.                                                                     *)
(***************************************************************************)
LEMMA RegistersFresh ==
  ASSUME SmallNetwork, IndexInv, LockInv, handler = "setup", built < Len(Ops),
         Ops[built + 1].op = "register",
         NEW b \in Present, NEW n \in 1..Done(b)
  PROVE  IF OpsOf(b)[n].op = "register" THEN OpsOf(b)[n].entry.oid # Ops[built + 1].entry.oid
         ELSE OpsOf(b)[n].entry.parent # Ops[built + 1].entry.oid
<1> DEFINE a == Addr(found)
           S == OpsOf(b)
           o == Ops[built + 1].entry.oid
<1>1. a \in Present /\ built \in 0..Len(Ops) /\ Ops = OpsOf(a)
  BY DEF LockInv, Ops, OpsOf
<1>2. /\ GoodPlan(S, shureCtrls[b].index, shureCtrls[b].model)
      /\ GoodPlan(OpsOf(a), shureCtrls[a].index, shureCtrls[a].model)
  BY <1>1, PresentPlans
<1>3. S \in Seq(OpRecords) /\ Len(S) \in Nat
  BY <1>2, LenProperties DEF GoodPlan
<1>4. n \in 1..Len(S) /\ (a = b => n <= built)
  BY <1>1, <1>3 DEF Done
<1>5. o \in OidsOf(shureCtrls[a].index) /\ o # RootOID
  <2>1. Len(Ops) \in Nat
    BY <1>1, <1>2, LenProperties DEF GoodPlan
  <2>2. built + 1 \in 1..Len(Ops)
    BY <1>1, <2>1
  <2>3. o \in OidsOf(shureCtrls[a].index)
    BY <1>1, <1>2, <2>2 DEF GoodPlan
  <2>4. OidsOf(shureCtrls[a].index) \cap (1..3) = {}
    BY <1>1, PresentDisjoint
  <2>5. RootOID \in 1..3
    BY DEF RootOID
  <2> QED
    BY <2>3, <2>4, <2>5
<1>6. ASSUME NEW j \in 1..n, S[j].op = "register"
      PROVE  S[j].entry.oid # o
  <2>1. j \in 1..Len(S)
    BY <1>3, <1>4
  <2>2. CASE a = b
    <3>1. built + 1 \in 1..Len(S) /\ j # built + 1
      BY <1>1, <1>3, <1>4, <2>2
    <3> QED
      BY <1>1, <1>2, <1>6, <2>1, <2>2, <3>1 DEF GoodPlan
  <2>3. CASE a # b
    <3>1. S[j].entry.oid \in OidsOf(shureCtrls[b].index)
      BY <1>2, <2>1 DEF GoodPlan
    <3> QED
      BY <1>1, <1>5, <2>3, <3>1, PresentDisjoint
  <2> QED
    BY <2>2, <2>3
<1>7. CASE S[n].op = "register"
  BY <1>3, <1>4, <1>6, <1>7
<1>8. CASE S[n].op # "register"
  <2>1. S[n].op = "add"
    <3>1. S[n] \in OpRecords
      BY <1>3, <1>4, ElementOfSeq
    <3> QED
      BY <1>8, <3>1 DEF OpRecords
  <2>2. S[n].entry.parent = RootOID \/ BlockBefore(S, n, S[n].entry.parent)
    BY <1>2, <1>4, <2>1 DEF GoodPlan
  <2>3. S[n].entry.parent # o
    <3>1. CASE S[n].entry.parent = RootOID
      BY <1>5, <3>1
    <3>2. CASE BlockBefore(S, n, S[n].entry.parent)
      <4>1. PICK j \in 1..n - 1 : S[j].op = "register" /\ S[j].entry.oid = S[n].entry.parent
        BY <3>2 DEF BlockBefore
      <4>2. j \in 1..n
        BY <1>3, <1>4
      <4> QED
        BY <1>6, <4>1, <4>2
    <3> QED
      BY <2>2, <3>1, <3>2
  <2> QED
    BY <1>8, <2>3
<1> QED
  BY <1>7, <1>8

\* RegisterNCPObject in setupDeviceNCP.
LEMMA RegisterKeepsTree ==
  ASSUME SmallNetwork, TableInv, TreeInv, Builds, Ops[built + 1].op = "register"
  PROVE  TreeInv'
<1>0. PICK a, e, S : a = Addr(found) /\ e = Ops[built + 1].entry /\ S = OpsOf(a)
  OBVIOUS
<1>1. /\ a \in Present /\ built \in 0..Len(Ops) /\ Ops = S /\ built < Len(Ops)
      /\ handler = "setup"
  BY <1>0 DEF TableInv, LockInv, Ops, OpsOf, Builds
<1>2. GoodPlan(S, shureCtrls[a].index, shureCtrls[a].model)
  BY <1>0, <1>1, PresentPlans DEF TableInv
<1>3. Len(S) \in Nat /\ built + 1 \in 1..Len(S)
  BY <1>1, <1>2, LenProperties DEF GoodPlan
<1>4. Registers(a, e)
  BY <1>0 DEF Builds, SetupStep
<1>5. /\ DOMAIN ncpObjects' = DOMAIN ncpObjects \cup {e.oid}
      /\ ncpObjects'[e.oid] = Object(a, e)
      /\ \A o \in DOMAIN ncpObjects : o # e.oid => ncpObjects'[o] = ncpObjects[o]
  BY <1>4 DEF Registers, Put
<1>6. /\ DOMAIN items \subseteq DOMAIN items'
      /\ \A o \in DOMAIN items : o # e.oid => items'[o] = items[o]
      /\ \A o \in DOMAIN items' : items'[o] = {} \/ (o \in DOMAIN items /\ items'[o] = items[o])
      /\ e.class = BlockClass => e.oid \in DOMAIN items'
  <2>1. CASE e.class = BlockClass
    BY <1>4, <2>1 DEF Registers, Put
  <2>2. CASE e.class # BlockClass
    BY <1>4, <2>2 DEF Registers
  <2> QED
    BY <2>1, <2>2
<1>7. UNCHANGED <<classes, parameterOIDs, shureCtrls, found, handler, gmu>> /\ built' = built + 1
  BY <1>4 DEF Registers, Builds
<1>8. /\ Present' = Present /\ (\A b : OpsOf(b)' = OpsOf(b)) /\ (\A b : EntriesOf(b)' = EntriesOf(b))
      /\ \A b : Done(b)' = IF b = a THEN built + 1 ELSE Done(b)
      /\ \A b : b # a => Done(b) = Len(OpsOf(b))
      /\ Done(a) = built
  BY <1>0, <1>1, <1>7 DEF Present, OpsOf, EntriesOf, Done
<1>9. ASSUME NEW b \in Present, NEW n \in 1..Done(b)
      PROVE  IF OpsOf(b)[n].op = "register" THEN IsRegistered(b, OpsOf(b)[n].entry)'
             ELSE IsAdded(OpsOf(b)[n].entry)'
  <2>1. IF OpsOf(b)[n].op = "register" THEN OpsOf(b)[n].entry.oid # e.oid
        ELSE OpsOf(b)[n].entry.parent # e.oid
    BY <1>0, <1>1, RegistersFresh DEF TableInv
  <2>2. IF OpsOf(b)[n].op = "register" THEN IsRegistered(b, OpsOf(b)[n].entry)
        ELSE IsAdded(OpsOf(b)[n].entry)
    BY DEF TreeInv, CallInv
  <2> DEFINE x == OpsOf(b)[n].entry
  <2>0. x' = x
    BY <1>8
  <2>3. CASE OpsOf(b)[n].op = "register"
    BY <1>5, <1>6, <2>0, <2>1, <2>2, <2>3 DEF IsRegistered, Object
  <2>4. CASE OpsOf(b)[n].op # "register"
    BY <1>6, <2>0, <2>1, <2>2, <2>4 DEF IsAdded
  <2> QED
    BY <2>3, <2>4
<1>10. CallInv'
  <2>1. SUFFICES ASSUME NEW b \in Present, NEW n \in 1..Done(b)'
                 PROVE  IF OpsOf(b)[n].op = "register" THEN IsRegistered(b, OpsOf(b)[n].entry)'
                        ELSE IsAdded(OpsOf(b)[n].entry)'
    BY <1>8 DEF CallInv
  <2>2. CASE n \in 1..Done(b)
    BY <1>9, <2>2
  <2>3. CASE n \notin 1..Done(b)
    <3>1. b = a /\ n = built + 1
      BY <1>1, <1>3, <1>8, <2>3
    <3>2. OpsOf(b)[n].op = "register" /\ OpsOf(b)[n].entry = e /\ OpsOf(b)'[n].entry = e
      BY <1>0, <1>1, <1>8, <3>1
    <3>3. IsRegistered(a, e)'
      BY <1>5, <1>6 DEF IsRegistered, Object
    <3> QED
      BY <3>1, <3>2, <3>3
  <2> QED
    BY <2>2, <2>3
<1>11. e.class \in classes /\ e.oid # RootOID
  <2>1. /\ e.class \in RegisteredClasses(DetectModelFamily(shureCtrls[a].model)) \cup {BlockClass}
        /\ e.oid \in OidsOf(shureCtrls[a].index)
    BY <1>0, <1>1, <1>2, <1>3 DEF GoodPlan
  <2>2. e.class \in classes
    BY <1>1, <2>1 DEF TreeInv, ClassInv
  <2>3. OidsOf(shureCtrls[a].index) \cap (1..3) = {}
    BY <1>1, PresentDisjoint DEF TableInv
  <2> QED
    BY <2>1, <2>2, <2>3 DEF RootOID
<1>12. MemberInv'
  <2>1. SUFFICES ASSUME NEW b \in DOMAIN items', NEW o \in items'[b]
                 PROVE  o \in DOMAIN ncpObjects' /\ ncpObjects'[o].class \in classes
    BY <1>7 DEF MemberInv
  <2>2. o \in DOMAIN ncpObjects /\ ncpObjects[o].class \in classes
    BY <1>6 DEF TreeInv, MemberInv
  <2>3. CASE o = e.oid
    BY <1>5, <1>11, <2>3 DEF Object
  <2>4. CASE o # e.oid
    BY <1>5, <2>2, <2>4
  <2> QED
    BY <2>3, <2>4
<1>13. ClassInv'
  BY <1>7, <1>8 DEF TreeInv, ClassInv
<1>14. RootInv'
  <2>1. RootOID \in DOMAIN items' /\ items'[RootOID] = items[RootOID]
    BY <1>6, <1>11 DEF TreeInv, RootInv
  <2>2. ASSUME NEW b \in Complete
        PROVE  b \in Complete'
    <3>1. b \in Present /\ Done(b) = Len(OpsOf(b))
      BY DEF Complete
    <3>2. b # a
      BY <1>0, <1>1, <1>3, <1>8, <3>1
    <3>3. b \in Present' /\ Done(b)' = Len(OpsOf(b))'
      BY <1>8, <3>1, <3>2
    <3> QED
      BY <3>3 DEF Complete
  <2>3. \A b : shureCtrls[b]' = shureCtrls[b]
    BY <1>7
  <2> QED
    BY <2>1, <2>2, <2>3 DEF TreeInv, RootInv
<1>15. RouteInv'
  BY <1>7, <1>8 DEF TreeInv, RouteInv
<1> QED
  BY <1>10, <1>12, <1>13, <1>14, <1>15 DEF TreeInv

\* AddItem in setupDeviceNCP.
LEMMA AddKeepsTree ==
  ASSUME SmallNetwork, TableInv, TreeInv, Builds, Ops[built + 1].op # "register"
  PROVE  TreeInv'
<1>0. PICK a, e, S : a = Addr(found) /\ e = Ops[built + 1].entry /\ S = OpsOf(a)
  OBVIOUS
<1>1. /\ a \in Present /\ built \in 0..Len(Ops) /\ Ops = S /\ built < Len(Ops)
      /\ handler = "setup"
  BY <1>0 DEF TableInv, LockInv, Ops, OpsOf, Builds
<1>2. GoodPlan(S, shureCtrls[a].index, shureCtrls[a].model)
  BY <1>0, <1>1, PresentPlans DEF TableInv
<1>3. S \in Seq(OpRecords) /\ Len(S) \in Nat /\ built + 1 \in 1..Len(S) /\ built \in Nat
  BY <1>1, <1>2, LenProperties DEF GoodPlan
<1>4. Adds(e)
  BY <1>0 DEF Builds, SetupStep
<1>5. S[built + 1].op = "add" /\ S[built + 1].entry = e
  <2>1. S[built + 1] \in OpRecords
    BY <1>3, ElementOfSeq
  <2> QED
    BY <1>0, <1>1, <2>1 DEF OpRecords
<1>6. /\ DOMAIN items' = DOMAIN items
      /\ \A o \in DOMAIN items : o # e.parent => items'[o] = items[o]
      /\ e.parent \in DOMAIN items => items'[e.parent] = items[e.parent] \cup {e.oid}
      /\ ncpObjects' = ncpObjects
  BY <1>4 DEF Adds
<1>7. UNCHANGED <<classes, parameterOIDs, shureCtrls, found, handler, gmu>> /\ built' = built + 1
  BY <1>4 DEF Adds, Builds
<1>8. /\ Present' = Present /\ (\A b : OpsOf(b)' = OpsOf(b)) /\ (\A b : EntriesOf(b)' = EntriesOf(b))
      /\ \A b : Done(b)' = IF b = a THEN built + 1 ELSE Done(b)
      /\ \A b : b # a => Done(b) = Len(OpsOf(b))
      /\ Done(a) = built
  BY <1>0, <1>1, <1>7 DEF Present, OpsOf, EntriesOf, Done
\* What earlier calls for this device have registered.
<1>9. ASSUME NEW j \in 1..(built + 1) - 1, S[j].op = "register"
      PROVE  IsRegistered(a, S[j].entry)
  <2>1. j \in 1..Done(a) /\ OpsOf(a)[j] = S[j]
    BY <1>0, <1>3, <1>8
  <2> QED
    BY <1>1, <1>9, <2>1 DEF TreeInv, CallInv
<1>10. IsRegistered(a, e)
  <2>1. RegisteredBefore(S, built + 1, e)
    BY <1>2, <1>3, <1>5 DEF GoodPlan
  <2> QED
    BY <1>9, <2>1 DEF RegisteredBefore
<1>11. e.parent \in DOMAIN items
  <2>1. CASE built + 1 = Len(S)
    <3>1. e.parent = RootOID
      BY <1>2, <1>3, <1>5, <2>1 DEF GoodPlan
    <3> QED
      BY <3>1 DEF TreeInv, RootInv
  <2>2. CASE built + 1 # Len(S)
    <3>1. BlockBefore(S, built + 1, e.parent)
      BY <1>2, <1>3, <1>5, <2>2 DEF GoodPlan
    <3> QED
      BY <1>9, <3>1 DEF BlockBefore, IsRegistered
  <2> QED
    BY <2>1, <2>2
<1>12. \A o \in DOMAIN items : items[o] \subseteq items'[o]
  BY <1>6, <1>11
<1>13. ASSUME NEW b \in Present, NEW n \in 1..Done(b)
       PROVE  IF OpsOf(b)[n].op = "register" THEN IsRegistered(b, OpsOf(b)[n].entry)'
              ELSE IsAdded(OpsOf(b)[n].entry)'
  <2>1. IF OpsOf(b)[n].op = "register" THEN IsRegistered(b, OpsOf(b)[n].entry)
        ELSE IsAdded(OpsOf(b)[n].entry)
    BY DEF TreeInv, CallInv
  <2>2. OpsOf(b)[n].entry' = OpsOf(b)[n].entry
    BY <1>8
  <2>3. CASE OpsOf(b)[n].op = "register"
    BY <1>6, <2>1, <2>2, <2>3 DEF IsRegistered, Object
  <2>4. CASE OpsOf(b)[n].op # "register"
    BY <1>6, <1>12, <2>1, <2>2, <2>4 DEF IsAdded
  <2> QED
    BY <2>3, <2>4
<1>14. CallInv'
  <2>1. SUFFICES ASSUME NEW b \in Present, NEW n \in 1..Done(b)'
                 PROVE  IF OpsOf(b)[n].op = "register" THEN IsRegistered(b, OpsOf(b)[n].entry)'
                        ELSE IsAdded(OpsOf(b)[n].entry)'
    BY <1>8 DEF CallInv
  <2>2. CASE n \in 1..Done(b)
    BY <1>13, <2>2
  <2>3. CASE n \notin 1..Done(b)
    <3>1. b = a /\ n = built + 1
      BY <1>1, <1>3, <1>8, <2>3
    <3>2. OpsOf(b)[n].op # "register" /\ OpsOf(b)'[n].entry = e
      BY <1>0, <1>1, <1>5, <1>8, <3>1
    <3>3. IsAdded(e)'
      BY <1>6, <1>11 DEF IsAdded
    <3> QED
      BY <3>2, <3>3
  <2> QED
    BY <2>2, <2>3
<1>15. e.class \in classes
  <2>1. e.class \in RegisteredClasses(DetectModelFamily(shureCtrls[a].model)) \cup {BlockClass}
    BY <1>2, <1>3, <1>5 DEF GoodPlan
  <2> QED
    BY <1>1, <2>1 DEF TreeInv, ClassInv
<1>16. MemberInv'
  <2>1. SUFFICES ASSUME NEW b \in DOMAIN items, NEW o \in items'[b]
                 PROVE  o \in DOMAIN ncpObjects /\ ncpObjects[o].class \in classes
    BY <1>6, <1>7 DEF MemberInv
  <2>2. CASE o \in items[b]
    BY <2>2 DEF TreeInv, MemberInv
  <2>3. CASE o \notin items[b]
    <3>1. o = e.oid
      BY <1>6, <2>3
    <3> QED
      BY <1>10, <1>15, <3>1 DEF IsRegistered, Object
  <2> QED
    BY <2>2, <2>3
<1>17. ClassInv'
  BY <1>7, <1>8 DEF TreeInv, ClassInv
<1>18. RootInv'
  <2>1. ASSUME NEW b \in Complete
        PROVE  b \in Complete'
    <3>1. b \in Present /\ Done(b) = Len(OpsOf(b))
      BY DEF Complete
    <3>2. b # a
      BY <1>0, <1>1, <1>3, <1>8, <3>1
    <3>3. b \in Present' /\ Done(b)' = Len(OpsOf(b))'
      BY <1>8, <3>1, <3>2
    <3> QED
      BY <3>3 DEF Complete
  <2>2. \A b : shureCtrls[b]' = shureCtrls[b]
    BY <1>7
  <2>3. RootOID \in DOMAIN items'
    BY <1>6 DEF TreeInv, RootInv
  <2>4. CASE built + 1 # Len(S)
    <3>1. e.parent # RootOID
      BY <1>2, <1>3, <1>5, <2>4 DEF GoodPlan
    <3>2. items'[RootOID] = items[RootOID]
      BY <1>6, <3>1 DEF TreeInv, RootInv
    <3> QED
      BY <2>1, <2>2, <2>3, <3>2 DEF TreeInv, RootInv
  <2>5. CASE built + 1 = Len(S)
    <3>1. e = DeviceEntry(shureCtrls[a].index)
      BY <1>2, <1>5, <2>5 DEF GoodPlan, Op
    <3>2. e.oid = DeviceOID(shureCtrls[a].index) /\ e.parent = RootOID
      BY <3>1 DEF DeviceEntry, Entry
    <3>3. a \in Complete'
      <4>1. a \in Present' /\ Done(a)' = Len(OpsOf(a))'
        BY <1>0, <1>1, <1>8, <2>5
      <4> QED
        BY <4>1 DEF Complete
    <3>4. items'[RootOID] = items[RootOID] \cup {DeviceOID(shureCtrls[a].index)}
      BY <1>6, <1>11, <3>2
    <3> QED
      BY <2>1, <2>2, <2>3, <3>3, <3>4 DEF TreeInv, RootInv
  <2> QED
    BY <2>4, <2>5
<1>19. RouteInv'
  BY <1>7, <1>8 DEF TreeInv, RouteInv
<1> QED
  BY <1>14, <1>16, <1>17, <1>18, <1>19 DEF TreeInv

\* The table, when a device gets its entry.
LEMMA InsertTable ==
  ASSUME SmallNetwork, RecordTypes, TableInv, Inserts
  PROVE  /\ TableInv'
         /\ Addr(found) \in Addrs /\ Present' = Present \cup {Addr(found)}
         /\ Addr(found) \notin Present
         /\ \A b \in Present : shureCtrls'[b] = shureCtrls[b]
         /\ NextIndex \in 1..Cardinality(Addrs) /\ found.model \in AnnouncedModels
         /\ shureCtrls'[Addr(found)] = [index |-> NextIndex, model |-> found.model]
<1>0. PICK a, k, m : a = Addr(found) /\ k = NextIndex /\ m = found.model
  OBVIOUS
<1>1. found \in Records /\ a \in Addrs /\ m \in AnnouncedModels
  BY <1>0, ArrivalAssumption DEF RecordTypes, Inserts, AnnouncedModels
<1>2. a \notin Present
  BY <1>0 DEF Inserts
<1>3. k = Cardinality(Present) + 1 /\ k \in 1..Cardinality(Addrs) /\ k # 0 /\ Cardinality(Present) \in Nat
  BY <1>0, <1>1, <1>2, PresentFinite DEF NextIndex
<1>4. shureCtrls' = [shureCtrls EXCEPT ![a] = [index |-> k, model |-> m]] /\ DOMAIN shureCtrls = Addrs
  BY <1>0 DEF Inserts, TableInv, IndexInv
<1>5. /\ shureCtrls'[a] = [index |-> k, model |-> m]
      /\ \A b \in Addrs : b # a => shureCtrls'[b] = shureCtrls[b]
      /\ DOMAIN shureCtrls' = Addrs
  BY <1>1, <1>4
<1>6. [index |-> k, model |-> m] # NoEntry
  BY <1>3 DEF NoEntry
<1>7. Present' = Present \cup {a}
  BY <1>1, <1>2, <1>5, <1>6 DEF Present
<1>8. Cardinality(Present') = k
  BY <1>2, <1>3, <1>7, PresentFinite, FS_AddElement
<1>9. \A b \in Present : b # a /\ shureCtrls'[b] = shureCtrls[b]
  BY <1>2, <1>5 DEF Present
<1>10. IndexInv'
  <2>1. \A b \in Present : /\ shureCtrls'[b].index \in 1..Cardinality(Present)
                           /\ shureCtrls'[b].model \in AnnouncedModels
    BY <1>9 DEF TableInv, IndexInv
  <2>2. shureCtrls'[a].index = k /\ shureCtrls'[a].model = m
    BY <1>5
  <2>3. \A b \in Present' : shureCtrls'[b].index \in 1..k /\ shureCtrls'[b].model \in AnnouncedModels
    BY <1>1, <1>3, <1>7, <2>1, <2>2
  <2>4. ASSUME NEW b \in Present', NEW c \in Present', shureCtrls'[b].index = shureCtrls'[c].index
        PROVE  b = c
    <3>1. CASE b \in Present /\ c \in Present
      BY <1>9, <2>4, <3>1 DEF TableInv, IndexInv
    <3>2. CASE b = a /\ c \in Present
      BY <1>3, <2>1, <2>2, <2>4, <3>2
    <3>3. CASE b \in Present /\ c = a
      BY <1>3, <2>1, <2>2, <2>4, <3>3
    <3>4. CASE b = a /\ c = a
      BY <3>4
    <3> QED
      BY <1>7, <3>1, <3>2, <3>3, <3>4
  <2> QED
    BY <1>5, <1>8, <2>3, <2>4 DEF IndexInv
<1>11. LockInv'
  <2>1. handler' = "setup" /\ gmu' = "handler" /\ built' = 0 /\ found' = found
    BY DEF Inserts
  <2>2. Addr(found)' = a /\ a \in Present'
    BY <1>0, <1>7, <2>1 DEF Addr
  <2>3. Ops' = SetupOps(k, m)
    <3>1. Ops' = AllOps[k][m]
      BY <1>5, <2>2 DEF Ops
    <3> QED
      BY <1>1, <1>3, <3>1 DEF AllOps
  <2>4. Len(SetupOps(k, m)) \in Nat
    <3>1. k \in 1..LastIndex
      BY <1>3, PresentFinite DEF SmallNetwork, LastIndex
    <3> QED
      BY <3>1, SetupIsGoodPlan, LenProperties DEF GoodPlan
  <2> QED
    BY <2>1, <2>2, <2>3, <2>4 DEF LockInv
<1> QED
  BY <1>0, <1>1, <1>2, <1>3, <1>5, <1>7, <1>9, <1>10, <1>11 DEF TableInv

\* The start of setupDeviceNCP: nothing is in the tree yet.
LEMMA InsertKeepsTree ==
  ASSUME SmallNetwork, RecordTypes, TableInv, TreeInv, Inserts
  PROVE  TreeInv'
<1>0. PICK a, k, m : a = Addr(found) /\ k = NextIndex /\ m = found.model
  OBVIOUS
<1>1. /\ a \in Addrs /\ a \notin Present /\ Present' = Present \cup {a}
      /\ \A b \in Present : shureCtrls'[b] = shureCtrls[b]
      /\ k \in 1..Cardinality(Addrs) /\ m \in AnnouncedModels
      /\ shureCtrls'[a] = [index |-> k, model |-> m]
  BY <1>0, InsertTable
<1>2. /\ UNCHANGED <<ncpObjects, items>>
      /\ classes' = classes \cup RegisteredClasses(DetectModelFamily(m))
      /\ parameterOIDs' = [parameterOIDs EXCEPT ![a] = ParameterMap(AllEntries[k][m])]
  BY <1>0 DEF Inserts, SetupStarts, ParameterMap
<1>3. handler = "lock" /\ handler' = "setup" /\ built' = 0 /\ found' = found /\ Addr(found)' = a
  BY <1>0 DEF Inserts, Addr
<1>4. \A b \in Present : /\ OpsOf(b)' = OpsOf(b) /\ EntriesOf(b)' = EntriesOf(b)
                         /\ Done(b)' = Done(b) /\ b # a
  BY <1>1, <1>3 DEF OpsOf, EntriesOf, Done
<1>5. Done(a)' = 0
  BY <1>3 DEF Done
<1>6. CallInv'
  <2>1. SUFFICES ASSUME NEW b \in Present', NEW n \in 1..Done(b)'
                 PROVE  IF OpsOf(b)'[n].op = "register" THEN IsRegistered(b, OpsOf(b)[n].entry)'
                        ELSE IsAdded(OpsOf(b)[n].entry)'
    BY DEF CallInv
  <2>2. b \in Present
    BY <1>1, <1>5
  <2>3. IF OpsOf(b)[n].op = "register" THEN IsRegistered(b, OpsOf(b)[n].entry)
        ELSE IsAdded(OpsOf(b)[n].entry)
    BY <1>4, <2>2 DEF TreeInv, CallInv
  <2>4. OpsOf(b)' = OpsOf(b)
    BY <1>4, <2>2
  <2> QED
    BY <1>2, <2>3, <2>4 DEF IsRegistered, IsAdded
<1>7. MemberInv'
  BY <1>2 DEF TreeInv, MemberInv
<1>8. ClassInv'
  BY <1>1, <1>2 DEF TreeInv, ClassInv
<1>9. RootInv'
  <2>1. ASSUME NEW b \in Complete
        PROVE  b \in Complete' /\ shureCtrls'[b] = shureCtrls[b]
    <3>1. b \in Present /\ Done(b) = Len(OpsOf(b))
      BY DEF Complete
    <3>2. b \in Present' /\ Done(b)' = Len(OpsOf(b))' /\ shureCtrls'[b] = shureCtrls[b]
      BY <1>1, <1>4, <3>1
    <3> QED
      BY <3>2 DEF Complete
  <2> QED
    BY <1>2, <2>1 DEF TreeInv, RootInv
<1>10. RouteInv'
  <2>1. /\ DOMAIN parameterOIDs' = Addrs
        /\ parameterOIDs'[a] = ParameterMap(AllEntries[k][m])
        /\ \A b \in Addrs : b # a => parameterOIDs'[b] = parameterOIDs[b]
    BY <1>1, <1>2 DEF TreeInv, RouteInv
  <2>2. EntriesOf(a)' = AllEntries[k][m]
    BY <1>1 DEF EntriesOf
  <2>3. \A b \in Present : b \in Addrs
    BY DEF Present
  <2>4. ASSUME NEW b \in Present'
        PROVE  parameterOIDs'[b] = ParameterMap(EntriesOf(b)')
    <3>1. CASE b = a
      BY <2>1, <2>2, <3>1
    <3>2. CASE b # a
      BY <1>1, <1>4, <2>1, <2>3, <3>2 DEF TreeInv, RouteInv
    <3> QED
      BY <3>1, <3>2
  <2> QED
    BY <2>1, <2>4 DEF RouteInv
<1> QED
  BY <1>6, <1>7, <1>8, <1>9, <1>10 DEF TreeInv

\* A step that touches neither the table nor the tree, nor the progress of
\* setupDeviceNCP.
LEMMA TreeFrame ==
  ASSUME TreeInv, UNCHANGED <<treeVars, shureCtrls>>, \A a \in Present : Done(a)' = Done(a)
  PROVE  TreeInv'
<1>1. UNCHANGED <<ncpObjects, items, classes, parameterOIDs, shureCtrls>>
  BY DEF treeVars
<1>2. Present' = Present /\ (\A a : OpsOf(a)' = OpsOf(a)) /\ (\A a : EntriesOf(a)' = EntriesOf(a))
  BY <1>1 DEF Present, OpsOf, EntriesOf
<1>3. CallInv'
  <2>1. SUFFICES ASSUME NEW b \in Present, NEW n \in 1..Done(b)
                 PROVE  IF OpsOf(b)'[n].op = "register" THEN IsRegistered(b, OpsOf(b)[n].entry)'
                        ELSE IsAdded(OpsOf(b)[n].entry)'
    BY <1>2 DEF CallInv
  <2>2. IF OpsOf(b)[n].op = "register" THEN IsRegistered(b, OpsOf(b)[n].entry)
        ELSE IsAdded(OpsOf(b)[n].entry)
    BY DEF TreeInv, CallInv
  <2> QED
    BY <1>1, <1>2, <2>2 DEF IsRegistered, IsAdded
<1>4. MemberInv'
  BY <1>1 DEF TreeInv, MemberInv
<1>5. ClassInv'
  BY <1>1, <1>2 DEF TreeInv, ClassInv
<1>6. RootInv'
  <2>1. ASSUME NEW b \in Complete
        PROVE  b \in Complete'
    <3>1. b \in Present' /\ Done(b)' = Len(OpsOf(b))'
      BY <1>2 DEF Complete
    <3> QED
      BY <3>1 DEF Complete
  <2> QED
    BY <1>1, <2>1 DEF TreeInv, RootInv
<1>7. RouteInv'
  BY <1>1, <1>2 DEF TreeInv, RouteInv
<1> QED
  BY <1>3, <1>4, <1>5, <1>6, <1>7 DEF TreeInv

LEMMA TableFrame ==
  ASSUME IndexInv, UNCHANGED shureCtrls
  PROVE  IndexInv' /\ Present' = Present /\ \A a : OpsOf(a)' = OpsOf(a)
<1>1. Present' = Present /\ \A a : OpsOf(a)' = OpsOf(a)
  BY DEF Present, OpsOf
<1> QED
  BY <1>1 DEF IndexInv

\* The steps of the goroutines of the discoverer.
LEMMA DiscoveryArrival ==
  ASSUME ArrivalInv, DrainInv, DiscoverySteps, UNCHANGED <<treeVars, handlerVars>>
  PROVE  ArrivalInv'
<1>0. UNCHANGED <<gmu, handler, found, shureCtrls, built>>
  BY DEF handlerVars
<1>1. SenderTypes'
  BY DiscoveryDrain DEF DrainInv
<1>2. TableInv'
  <2>1. IndexInv' /\ Present' = Present
    BY <1>0, TableFrame DEF ArrivalInv, TableInv
  <2>2. LockInv'
    BY <1>0, <2>1 DEF ArrivalInv, TableInv, LockInv, Ops, Addr
  <2> QED
    BY <2>1, <2>2 DEF TableInv
<1>3. TreeInv'
  <2>1. \A a : Done(a)' = Done(a)
    BY <1>0 DEF Done, OpsOf, Addr
  <2> QED
    BY <1>0, <2>1, TreeFrame DEF ArrivalInv
<1>4. RecordTypes'
  <2>0. /\ devices \in Seq(Records) /\ DOMAIN hand = Senders /\ DOMAIN sender = Senders
        /\ \A s \in Senders : sender[s] = "offer" => hand[s] \in Records
        /\ "slp" \in Senders /\ Services \subseteq Senders
    <3>1. DOMAIN sender = Senders
      BY DEF ArrivalInv, SenderTypes
    <3> QED
      BY <3>1 DEF ArrivalInv, RecordTypes, Senders
  <2>1. ASSUME UNCHANGED <<devices, hand>>,
               \A s \in Senders : sender'[s] = "offer" => sender[s] = "offer"
        PROVE  RecordTypes'
    BY <1>0, <2>1 DEF ArrivalInv, RecordTypes
  <2>2. ASSUME NEW s \in Services,
               ResolverFails(s) \/ BrowseStarts(s) \/ BrowseFails(s) \/ BrowseEnds(s)
        PROVE  RecordTypes'
    BY <2>1, <2>2 DEF ResolverFails, BrowseStarts, BrowseFails, BrowseReturns, BrowseEnds
  <2>3. ASSUME NEW s \in Senders, NEW to \in {"check", "idle", "exited"}, SenderAt(s, to)
        PROVE  \A t \in Senders : sender'[t] = "offer" => sender[t] = "offer"
    BY <2>0, <2>3 DEF SenderAt
  <2>4. ASSUME NEW s \in Services, Resolves(s) \/ DrainEnds(s)
        PROVE  RecordTypes'
    <3>1. /\ SenderAt(s, "idle") \/ SenderAt(s, "exited")
          /\ UNCHANGED <<devices, hand>>
      BY <2>4 DEF Resolves, DrainEnds
    <3> QED
      BY <2>0, <2>1, <2>3, <3>1
  <2>5. CASE ListenerBinds \/ ListenerReads \/ ListenerTimesOut \/ ListenerEnds
    <3>1. /\ SenderAt("slp", "check") \/ SenderAt("slp", "idle") \/ SenderAt("slp", "exited")
          /\ UNCHANGED <<devices, hand>>
      BY <2>5 DEF ListenerBinds, ListenerReads, ListenerTimesOut, ListenerEnds
    <3> QED
      BY <2>0, <2>1, <2>3, <3>1
  <2>6. ASSUME NEW s \in Senders, Sender(s)
        PROVE  RecordTypes'
    <3>1. /\ sender[s] = "offer" /\ hand' = [hand EXCEPT ![s] = NoRecord]
          /\ SenderAt(s, Listens(s))
          /\ devices' = devices \/ devices' = Append(devices, hand[s])
      BY <2>6 DEF Sender, Sends, Drops, Panics, Offered
    <3>2. sender' = [sender EXCEPT ![s] = Listens(s)] /\ Listens(s) # "offer"
      BY <3>1 DEF SenderAt, Listens
    <3>3. devices' \in Seq(Records)
      BY <2>0, <3>1
    <3>4. DOMAIN hand' = Senders /\ \A t \in Senders : sender'[t] = "offer" => hand'[t] \in Records
      BY <2>0, <3>1, <3>2
    <3> QED
      BY <1>0, <3>3, <3>4 DEF ArrivalInv, RecordTypes
  <2>7. ASSUME NEW s \in Senders, NEW r \in Records, HearsNew(s, r)
        PROVE  RecordTypes'
    <3>1. /\ hand' = [hand EXCEPT ![s] = r] /\ sender' = [sender EXCEPT ![s] = "offer"]
          /\ devices' = devices
      BY <2>7 DEF HearsNew, SenderAt
    <3>2. DOMAIN hand' = Senders /\ \A t \in Senders : sender'[t] = "offer" => hand'[t] \in Records
      BY <2>0, <3>1
    <3> QED
      BY <1>0, <2>0, <3>1, <3>2 DEF ArrivalInv, RecordTypes
  <2>8. ASSUME NEW s \in Senders, NEW r \in Records, HearsRecent(s, r)
        PROVE  RecordTypes'
    <3>1. SenderAt(s, Listens(s)) /\ UNCHANGED <<devices, hand>>
      BY <2>8 DEF HearsRecent
    <3>2. Listens(s) \in {"check", "idle", "exited"}
      BY DEF Listens
    <3> QED
      BY <2>1, <2>3, <3>1, <3>2
  <2>9. CASE Signal \/ (\E ip \in recent : Expires(ip)) \/ StopCloses
    BY <2>1, <2>9 DEF Signal, Expires, StopCloses
  <2> QED
    BY <2>2, <2>4, <2>5, <2>6, <2>7, <2>8, <2>9 DEF DiscoverySteps, Browses
<1> QED
  BY <1>1, <1>2, <1>3, <1>4 DEF ArrivalInv

\* Steps of the handler outside setupDeviceNCP.
LEMMA HandlerFrame ==
  ASSUME ArrivalInv, UNCHANGED <<treeVars, shureCtrls, browse, sender>>,
         handler # "setup", handler' # "setup", gmu' # "handler",
         RecordTypes'
  PROVE  ArrivalInv'
<1>1. SenderTypes'
  BY DEF ArrivalInv, SenderTypes
<1>2. TableInv'
  BY TableFrame DEF ArrivalInv, TableInv, LockInv
<1>3. TreeInv'
  <2>1. \A a \in Present : Done(a)' = Done(a)
    BY TableFrame DEF ArrivalInv, TableInv, Done
  <2> QED
    BY <2>1, TreeFrame DEF ArrivalInv
<1> QED
  BY <1>1, <1>2, <1>3 DEF ArrivalInv

LEMMA HandlerArrival ==
  ASSUME SmallNetwork, ArrivalInv, Handler
  PROVE  ArrivalInv'
<1>0. /\ devices \in Seq(Records) /\ DOMAIN hand = Senders
      /\ \A s \in Senders : sender[s] = "offer" => hand[s] \in Records
      /\ handler \in {"check", "dial", "lock", "setup"} => found \in Records
      /\ handler = "setup" <=> gmu = "handler"
  BY DEF ArrivalInv, RecordTypes, TableInv, LockInv
<1>1. CASE Rejects \/ Receives
  <2>1. /\ devices # <<>> /\ devices' = Tail(devices) /\ handler = "select"
        /\ handler' \in {"select", "check"}
        /\ handler' = "check" => found' = Head(devices)
        /\ UNCHANGED <<hand, sender, browse, gmu, treeVars, shureCtrls>>
    BY <1>1 DEF Rejects, Receives, Turns
  <2>2. Head(devices) \in Records /\ Tail(devices) \in Seq(Records)
    BY <1>0, <2>1
  <2>3. RecordTypes'
    BY <1>0, <2>1, <2>2 DEF RecordTypes
  <2> QED
    BY <1>0, <2>1, <2>3, HandlerFrame
<1>2. CASE HandlerEnds \/ Known \/ Unknown \/ DialFails \/ DialSucceeds
  <2>1. /\ handler \in {"select", "check", "dial"} /\ handler' # "setup" /\ gmu' = gmu
        /\ handler' \in {"dial", "lock"} => found' = found /\ handler \in {"check", "dial"}
        /\ handler' \in {"select", "dial", "lock", "exited"}
        /\ UNCHANGED <<devices, hand, sender, browse, treeVars, shureCtrls>>
    BY <1>2 DEF HandlerEnds, Known, Unknown, DialFails, DialSucceeds, AddReturns, Turns, discVars
  <2>2. RecordTypes'
    BY <1>0, <2>1 DEF RecordTypes
  <2> QED
    BY <1>0, <2>1, <2>2, HandlerFrame
<1>3. CASE Inserts
  <2>1. UNCHANGED <<devices, hand, sender, browse, found>> /\ handler = "lock"
    BY <1>3 DEF Inserts, discVars
  <2>2. RecordTypes' /\ SenderTypes'
    BY <1>0, <2>1 DEF ArrivalInv, SenderTypes, RecordTypes
  <2>3. TableInv' /\ TreeInv'
    BY <1>3, InsertTable, InsertKeepsTree DEF ArrivalInv
  <2> QED
    BY <2>2, <2>3 DEF ArrivalInv
<1>4. CASE Builds
  <2>1. /\ UNCHANGED <<devices, hand, sender, browse, found, handler, gmu, shureCtrls>>
        /\ handler = "setup" /\ built' = built + 1 /\ built < Len(Ops)
    BY <1>4 DEF Builds, discVars
  <2>2. RecordTypes' /\ SenderTypes'
    BY <1>0, <2>1 DEF ArrivalInv, SenderTypes, RecordTypes
  <2>3. TreeInv'
    BY <1>4, RegisterKeepsTree, AddKeepsTree DEF ArrivalInv
  <2>4. IndexInv' /\ Present' = Present
    BY <2>1, TableFrame DEF ArrivalInv, TableInv
  <2>5. Ops' = Ops /\ Addr(found)' = Addr(found)
    BY <2>1 DEF Ops, Addr
  <2>6. Len(Ops) \in Nat
    <3>1. Addr(found) \in Present /\ Ops = OpsOf(Addr(found))
      BY <2>1 DEF ArrivalInv, TableInv, LockInv, Ops, OpsOf
    <3> QED
      BY <3>1, PresentPlans, LenProperties DEF ArrivalInv, TableInv, GoodPlan
  <2>7. LockInv'
    BY <2>1, <2>4, <2>5, <2>6 DEF ArrivalInv, TableInv, LockInv
  <2> QED
    BY <2>2, <2>3, <2>4, <2>7 DEF ArrivalInv, TableInv
<1>5. CASE Finishes
  <2>1. /\ UNCHANGED <<devices, hand, sender, browse, treeVars, shureCtrls>>
        /\ handler = "setup" /\ handler' = "select" /\ gmu' = "free" /\ built = Len(Ops)
    BY <1>5 DEF Finishes, AddReturns, Turns, discVars
  <2>2. RecordTypes' /\ SenderTypes'
    BY <1>0, <2>1 DEF ArrivalInv, SenderTypes, RecordTypes
  <2>3. TableInv' /\ \A a : OpsOf(a)' = OpsOf(a)
    BY <2>1, TableFrame DEF ArrivalInv, TableInv, LockInv
  <2>4. \A a \in Present : Done(a)' = Done(a)
    BY <2>1, <2>3 DEF Done, Ops, OpsOf
  <2>5. TreeInv'
    BY <2>1, <2>4, TreeFrame DEF ArrivalInv
  <2> QED
    BY <2>2, <2>3, <2>5 DEF ArrivalInv
<1> QED
  BY <1>1, <1>2, <1>3, <1>4, <1>5 DEF Handler

LEMMA InitArrival == Init => ArrivalInv
<1> SUFFICES ASSUME Init
             PROVE  ArrivalInv
  OBVIOUS
<1>1. Present = {} /\ handler = "select" /\ gmu = "free"
  BY DEF Init, Present
<1>2. SenderTypes
  BY DEF Init, DiscoveryInit, SenderTypes, Senders
<1>3. RecordTypes
  <2>1. devices = <<>> /\ DOMAIN hand = Senders
    BY DEF Init, DiscoveryInit
  <2>2. \A s \in Senders : sender[s] # "offer"
    BY DEF Init, DiscoveryInit
  <2> QED
    BY <1>1, <2>1, <2>2 DEF RecordTypes
<1>4. TableInv
  BY <1>1 DEF Init, TableInv, LockInv, IndexInv
<1>5. DOMAIN ncpObjects = 1..3 /\ ncpObjects[2].class = 2 /\ ncpObjects[3].class = 3
  BY DEF Init, TreeInit, Own, BlockClass, DeviceManagerClass, ClassManagerClass
<1>6. DOMAIN items = {RootOID} /\ items[RootOID] = {2, 3} /\ classes = {1, 2, 3}
  BY DEF Init, TreeInit, StandardClasses, BlockClass, DeviceManagerClass, ClassManagerClass
<1>7. MemberInv
  BY <1>5, <1>6 DEF MemberInv
<1>8. CallInv /\ ClassInv /\ RootInv
  BY <1>1, <1>6 DEF CallInv, ClassInv, RootInv, BlockClass
<1>9. RouteInv
  BY <1>1 DEF Init, TreeInit, RouteInv
<1> QED
  BY <1>2, <1>3, <1>4, <1>7, <1>8, <1>9 DEF ArrivalInv, TreeInv

LEMMA NextArrival ==
  ASSUME SmallNetwork, ArrivalInv, DrainInv, [Next]_vars
  PROVE  ArrivalInv'
<1>1. CASE DiscoverySteps /\ UNCHANGED <<treeVars, handlerVars>>
  BY <1>1, DiscoveryArrival
<1>2. CASE Handler
  BY <1>2, HandlerArrival
<1>3. CASE StopStarts \/ StopUnlocks \/ UNCHANGED vars
  <2>1. /\ UNCHANGED <<devices, hand, sender, browse, handler, found, treeVars, shureCtrls, built>>
        /\ gmu' = gmu \/ (gmu' # "handler" /\ gmu # "handler")
    BY <1>3 DEF StopStarts, StopUnlocks, discVars, vars, handlerVars
  <2>2. RecordTypes' /\ SenderTypes'
    BY <2>1 DEF ArrivalInv, SenderTypes, RecordTypes
  <2>3. TableInv' /\ \A a : OpsOf(a)' = OpsOf(a)
    BY <2>1, TableFrame DEF ArrivalInv, TableInv, LockInv, Ops, Addr
  <2>4. \A a \in Present : Done(a)' = Done(a)
    BY <2>1, <2>3 DEF Done, Addr
  <2>5. TreeInv'
    BY <2>1, <2>4, TreeFrame DEF ArrivalInv
  <2> QED
    BY <2>2, <2>3, <2>5 DEF ArrivalInv
<1> QED
  BY <1>1, <1>2, <1>3 DEF Next

\* Every entry of a device whose calls are all done is registered and added.
LEMMA CompleteEntries ==
  ASSUME SmallNetwork, ArrivalInv, NEW a \in Present, Done(a) = Len(OpsOf(a)),
         NEW e \in EntriesOf(a)
  PROVE  IsRegistered(a, e) /\ IsAdded(e)
<1>1. PICK S, i, m : S = OpsOf(a) /\ i = shureCtrls[a].index /\ m = shureCtrls[a].model
  OBVIOUS
<1>2. GoodPlan(S, i, m) /\ e \in Entries(i, m)
  BY <1>1, PresentPlans DEF ArrivalInv, TableInv
<1>3. PICK n \in 1..Len(S) : S[n] = Op("add", e)
  BY <1>2 DEF GoodPlan
<1>4. S[n].op = "add" /\ S[n].entry = e
  BY <1>3 DEF Op
<1>5. PICK j \in 1..n - 1 : S[j].op = "register" /\ S[j].entry = e
  BY <1>2, <1>4 DEF GoodPlan, RegisteredBefore
<1>6. j \in 1..Len(S)
  BY <1>2, LenProperties DEF GoodPlan
<1>7. IsAdded(e)
  BY <1>1, <1>4 DEF ArrivalInv, TreeInv, CallInv
<1>8. IsRegistered(a, e)
  BY <1>1, <1>5, <1>6 DEF ArrivalInv, TreeInv, CallInv
<1> QED
  BY <1>7, <1>8

(***************************************************************************)
(* Whatever the models and however many devices, up to the bound on the    *)
(* identifiers, what setupDeviceNCP (gateway.go) has put into the tree is  *)
(* whole whenever a client can see it: members resolve to objects of known *)
(* classes, and a device in the root block has all its objects.            *)
(***************************************************************************)
THEOREM ArrivalClientsSeeWholeDevices ==
  SmallNetwork => (Spec => []ClientsSeeWholeDevices)
<1> SUFFICES ASSUME SmallNetwork
             PROVE  Spec => []ClientsSeeWholeDevices
  OBVIOUS
<1>1. ArrivalInv => ClientsSeeWholeDevices
  <2> SUFFICES ASSUME ArrivalInv
               PROVE  ClientsSeeWholeDevices
    OBVIOUS
  <2>1. \A b \in DOMAIN items : \A o \in items[b] :
          o \in DOMAIN ncpObjects /\ ncpObjects[o].class \in classes
    BY DEF ArrivalInv, TreeInv, MemberInv
  <2>2. ASSUME NEW a \in Addrs, Shown(a), NEW e \in EntriesOf(a)
        PROVE  e.oid \in Members(e.parent)
    <3>1. a \in Present /\ DeviceOID(shureCtrls[a].index) \in items[RootOID]
      BY <2>2 DEF Shown
    <3>2. \A b \in Present : shureCtrls[b].index \in 1..LastIndex
      BY PresentPlans DEF ArrivalInv, TableInv
    <3>3. \A b \in Present : shureCtrls[b].index \in Int /\ 1 <= shureCtrls[b].index
      BY <3>2, IndexBounds
    <3>4. PICK b \in Complete : DeviceOID(shureCtrls[a].index) = DeviceOID(shureCtrls[b].index)
      <4>1. DeviceOID(shureCtrls[a].index) \notin {2, 3}
        BY <3>1, <3>3 DEF DeviceOID
      <4> QED
        BY <3>1, <4>1 DEF ArrivalInv, TreeInv, RootInv
    <3>5. b \in Present /\ Done(b) = Len(OpsOf(b))
      BY DEF Complete
    <3>6. shureCtrls[a].index = shureCtrls[b].index
      BY <3>1, <3>3, <3>4, <3>5 DEF DeviceOID
    <3>7. a = b
      BY <3>1, <3>5, <3>6 DEF ArrivalInv, TableInv, IndexInv
    <3>8. IsRegistered(a, e) /\ IsAdded(e)
      BY <3>1, <3>5, <3>7, CompleteEntries
    <3> QED
      BY <3>8 DEF IsRegistered, IsAdded, Members
  <2> QED
    BY <2>1, <2>2 DEF ClientsSeeWholeDevices
<1>2. ArrivalInv /\ DrainInv /\ [Next]_vars => ArrivalInv'
  BY NextArrival
<1> QED
  BY <1>1, <1>2, InitArrival, InitDrain, NextDrain, PTL DEF Spec

(***************************************************************************)
(* Under the same bound, and whenever g.mu is free, a report that          *)
(* handleShureDevice routes through parameterOIDs reaches the object of    *)
(* that device, channel and parameter.                                     *)
(***************************************************************************)
THEOREM ArrivalReportsReachTheirWorker ==
  SmallNetwork => (Spec => []ReportsReachTheirWorker)
<1> SUFFICES ASSUME SmallNetwork
             PROVE  Spec => []ReportsReachTheirWorker
  OBVIOUS
<1>1. ArrivalInv => ReportsReachTheirWorker
  <2> SUFFICES ASSUME ArrivalInv, gmu = "free", NEW a \in Present,
                      NEW e \in EntriesOf(a), e.class # BlockClass
               PROVE  LET oid == RouteReport(a, DetectModelFamily(shureCtrls[a].model), e.ch, e.class) IN
                      oid \in DOMAIN ncpObjects /\ ncpObjects[oid] = Object(a, e)
    BY DEF ReportsReachTheirWorker
  <2>1. Done(a) = Len(OpsOf(a))
    BY DEF ArrivalInv, TableInv, LockInv, Done
  <2>2. IsRegistered(a, e)
    BY <2>1, CompleteEntries
  <2>3. PICK i, m : /\ i \in 1..LastIndex
                    /\ i = shureCtrls[a].index /\ m = shureCtrls[a].model
                    /\ EntriesOf(a) = Entries(i, m)
    BY PresentPlans DEF ArrivalInv, TableInv
  <2>4. /\ e.ch = 0 => DetectModelFamily(m) = "QLXD"
        /\ \A x \in EntriesOf(a) : x.ch = e.ch /\ x.class = e.class => x = e
    BY <2>3, OneWorkerPerParameter
  <2> DEFINE W == {x \in EntriesOf(a) : x.class # BlockClass}
             k == <<e.ch, e.class>>
  <2>5. parameterOIDs[a] = [j \in {<<x.ch, x.class>> : x \in W} |->
                              (CHOOSE x \in W : <<x.ch, x.class>> = j).oid]
    BY DEF ArrivalInv, TreeInv, RouteInv, ParameterMap
  <2>6. e \in W /\ \A x \in W : <<x.ch, x.class>> = k => x = e
    BY <2>4
  <2> HIDE DEF W
  <2>7. k \in DOMAIN parameterOIDs[a] /\ parameterOIDs[a][k] = (CHOOSE x \in W : <<x.ch, x.class>> = k).oid
    BY <2>5, <2>6
  <2>8. (CHOOSE x \in W : <<x.ch, x.class>> = k) = e
    BY <2>6
  <2>9. parameterOIDs[a][k] = e.oid
    BY <2>7, <2>8
  <2>10. RouteReport(a, DetectModelFamily(m), e.ch, e.class) = e.oid
    <3>1. CASE e.ch # 0
      BY <2>7, <2>9, <3>1 DEF RouteReport
    <3>2. CASE e.ch = 0
      BY <2>4, <2>7, <2>9, <3>2 DEF RouteReport
    <3> QED
      BY <3>1, <3>2
  <2> QED
    BY <2>2, <2>3, <2>10 DEF IsRegistered
<1>2. ArrivalInv /\ DrainInv /\ [Next]_vars => ArrivalInv'
  BY NextArrival
<1> QED
  BY <1>1, <1>2, InitArrival, InitDrain, NextDrain, PTL DEF Spec
=============================================================================

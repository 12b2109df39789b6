--------------------------- MODULE GatewayProofs ----------------------------
(***************************************************************************)
(* Theorems about the gateway's device table, for every finite set of      *)
(* addresses, every set of metered parameters and both NMOS controllers.   *)
(***************************************************************************)
EXTENDS Gateway, FiniteSetTheorems, TLAPS

\* Where addShureController holds g.mu, and where it knows its address.
Holding == {"device", "eager", "flow", "sender", "stuck"}
Adding == {"dial", "lock"} \cup Holding

\* g.mu belongs to the adder that is building a device, or to Stop.
LockInv ==
  /\ \A t \in Adders : adder[t] \in Holding => gmu = t
  /\ main # "starting" => adder["main"] = "idle"
  /\ main = "stopCtrls" => gmu = "main"

\* A controller is new until its adder inserts it, and has a listener then.
NewInv ==
  /\ \A t \in Adders :
       /\ adder[t] \in Adding => adding[t] \in Addrs
       /\ adder[t] = "dial" => ctl[Mine(t)] = "none"
       /\ adder[t] = "lock" => ctl[Mine(t)] # "none" /\ Mine(t) \notin listeners
       /\ adder[t] \in Holding => Mine(t) \in listeners
  /\ \A c \in listeners : ctl[c] # "none"

\* An entry belongs to its address; the reaper stops controllers of entries.
TableInv ==
  /\ \A a \in Present : table[a].ctl \in listeners /\ table[a].ctl[2] = a
  /\ reaper \in {"stop", "wait", "delete"} => victim \in listeners

\* What TypeOK needs to be inductive.
TypeInv ==
  /\ TypeOK
  /\ NewInv
  /\ TableInv
  /\ proc \in {"lookup", "use", "ncp"} => msg.ctl \in Controllers
  /\ proc \in {"use", "ncp"} => info \in listeners

\* Until the signal nobody stops, and the reaper deletes nothing: it waits
\* for ever in Stop of the first controller it finds.
RunningInv ==
  ~ctxDone => /\ main \in {"starting", "running"}
              /\ reaper # "delete"
              /\ reaper # "wait" => \A c \in Controllers : ctl[c] \in {"none", "up"}

\* So every listener belongs to an entry until then, and indexes count up.
KeptInv ==
  ~ctxDone => /\ \A c \in listeners : table[c[2]].ctl = c
              /\ \A a \in Present : table[a].index \in 1..Cardinality(Present)
              /\ \A a, b \in Present : a # b => table[a].index # table[b].index

Resources == {"source", "flow", "sender"}

\* The IS-07 resources of a controller's device are all there.
Complete(c) ==
  /\ sourceIDs[c] = Params
  /\ \A k \in Resources, p \in Params : <<k, c[2], p>> \in registered

\* The resources that ensureIS07Resources has still to register for p.
Missing(t, p) ==
  IF p # param[t] THEN {}
  ELSE IF adder[t] = "flow" THEN {"flow", "sender"}
  ELSE IF adder[t] = "sender" THEN {"sender"} ELSE {}

\* What the adder t has done while it holds g.mu.
Built(t) ==
  /\ adder[t] = "device" => sourceIDs[Mine(t)] = {}
  /\ adder[t] \in {"eager", "flow", "sender"} =>
       /\ sourceIDs[Mine(t)] = Params \ todo[t]
       /\ \A p \in Params \ todo[t] : \A k \in Resources \ Missing(t, p) :
            <<k, adding[t], p>> \in registered

BuildInv == \A t \in Adders : Built(t)

\* Only a device that is being added is incomplete; processMessages has not
\* got hold of it.
CompleteInv ==
  /\ \A c \in listeners : Complete(c) \/ \E t \in Adders : adder[t] \in Holding /\ c = Mine(t)
  /\ proc \in {"use", "ncp"} => Complete(info)

GatewayInv ==
  /\ TypeInv
  /\ LockInv
  /\ RunningInv
  /\ KeptInv
  /\ BuildInv
  /\ CompleteInv
  /\ EventsHaveResources

-----------------------------------------------------------------------------
\* Controllers and names.
LEMMA Names ==
  /\ "main" \in Adders /\ "disc" \in Adders /\ "free" \notin Adders
  /\ \A t \in Adders : t = "main" \/ t = "disc"
  /\ NoCtl \notin Controllers
  /\ \A c \in Controllers : c[1] \in Adders /\ c[2] \in Addrs /\ c = <<c[1], c[2]>>
  /\ \A t \in Adders, a \in Addrs : <<t, a>> \in Controllers /\ <<t, a>>[2] = a
  BY GatewayAssumption DEF Adders, Controllers, NoCtl

\* An entry is told from its absence by its controller.
LEMMA EntryPresent ==
  ASSUME NEW c \in Controllers, NEW i
  PROVE  [ctl |-> c, index |-> i] # NoEntry
  BY Names DEF NoEntry

\* The size of the table: there is an index for a device that is not in it.
LEMMA TableSize ==
  /\ IsFiniteSet(Present) /\ Cardinality(Present) \in Nat
  /\ Cardinality(Addrs) \in Nat /\ Cardinality(Present) <= Cardinality(Addrs)
  /\ \A a \in Addrs \ Present :
       /\ NextIndex \in 1..Cardinality(Addrs)
       /\ Cardinality(Present \cup {a}) = NextIndex
<1>1. IsFiniteSet(Addrs) /\ Present \subseteq Addrs
  BY GatewayAssumption DEF Present
<1>2. /\ IsFiniteSet(Present) /\ Cardinality(Present) <= Cardinality(Addrs)
      /\ Present # Addrs => Cardinality(Present) # Cardinality(Addrs)
  BY <1>1, FS_Subset
<1>3. Cardinality(Present) \in Nat /\ Cardinality(Addrs) \in Nat
  BY <1>1, <1>2, FS_CardinalityType
<1>4. ASSUME NEW a \in Addrs \ Present
      PROVE  /\ NextIndex \in 1..Cardinality(Addrs)
             /\ Cardinality(Present \cup {a}) = NextIndex
  <2>1. Cardinality(Present) < Cardinality(Addrs)
    BY <1>2, <1>3
  <2>2. Cardinality(Present \cup {a}) = Cardinality(Present) + 1
    BY <1>2, FS_AddElement
  <2> QED
    BY <1>3, <2>1, <2>2 DEF NextIndex
<1> QED
  BY <1>1, <1>2, <1>3, <1>4

\* A new gateway.
LEMMA InitTypeInv == Init => TypeInv
<1> SUFFICES ASSUME Init
             PROVE  TypeInv
  OBVIOUS
<1> USE GatewayAssumption, Names DEF Init
<1>1. Present = {}
  BY DEF Present
<1>2. table \in [Addrs -> [ctl : Controllers \cup {NoCtl}, index : 0..Cardinality(Addrs)]]
  BY TableSize DEF NoEntry
<1>3. NoMsg \in [ctl : Controllers \cup {NoCtl}, param : Params \cup {Unmetered}]
  BY DEF NoMsg
<1>4. TypeOK
  <2>1. MainTypes /\ AdderTypes /\ ReaperTypes
    BY DEF MainTypes, AdderTypes, ReaperTypes
  <2>2. TableTypes
    BY <1>2 DEF TableTypes
  <2>3. DeviceTypes
    BY DEF DeviceTypes
  <2>4. ProcTypes
    BY <1>3 DEF ProcTypes
  <2> QED
    BY <2>1, <2>2, <2>3, <2>4 DEF TypeOK
<1>5. NewInv /\ TableInv
  BY <1>1 DEF NewInv, TableInv, Adding, Holding
<1> QED
  BY <1>4, <1>5 DEF TypeInv

\* A step keeps the types of what it does not touch.
LEMMA SameTypes ==
  /\ MainTypes /\ UNCHANGED <<ctxDone, crashed, gmu, main>> => MainTypes'
  /\ AdderTypes /\ UNCHANGED addVars => AdderTypes'
  /\ TableTypes /\ UNCHANGED <<table, age>> => TableTypes'
  /\ DeviceTypes /\ UNCHANGED deviceVars => DeviceTypes'
  /\ ProcTypes /\ UNCHANGED procVars => ProcTypes'
  /\ ReaperTypes /\ UNCHANGED reaperVars => ReaperTypes'
<1>1. MainTypes /\ UNCHANGED <<ctxDone, crashed, gmu, main>> => MainTypes'
  BY DEF MainTypes
<1>2. AdderTypes /\ UNCHANGED addVars => AdderTypes'
  BY DEF AdderTypes, addVars
<1>3. TableTypes /\ UNCHANGED <<table, age>> => TableTypes'
  BY DEF TableTypes
<1>4. DeviceTypes /\ UNCHANGED deviceVars => DeviceTypes'
  BY DEF DeviceTypes, deviceVars
<1>5. ProcTypes /\ UNCHANGED procVars => ProcTypes'
  BY DEF ProcTypes, procVars
<1>6. ReaperTypes /\ UNCHANGED reaperVars => ReaperTypes'
  BY DEF ReaperTypes, reaperVars
<1> QED
  BY <1>1, <1>2, <1>3, <1>4, <1>5, <1>6

\* addShureController returns without having changed the device.
LEMMA ReturnTypeInv ==
  ASSUME TypeInv, NEW t \in Adders, AddDialFails(t) \/ AddLosesRace(t) \/ AddFinishes(t)
                                    \/ \E a \in Addrs : AddKnown(t, a)
  PROVE  TypeInv'
<1> USE GatewayAssumption, Names DEF TypeInv, NewInv, Adding, Holding
<1>1. /\ Returns(t)
      /\ UNCHANGED <<ctxDone, crashed, todo, table, deviceVars, msg, info, reports,
                     broadcast, reaperVars>>
      /\ gmu' \in {gmu, "free"}
      /\ UNCHANGED age \/ \E a \in Addrs : age' = [age EXCEPT ![a] = 0]
  <2>1. CASE AddDialFails(t) \/ AddFinishes(t)
    BY <2>1 DEF AddDialFails, AddFinishes
  <2>2. CASE AddLosesRace(t) \/ \E a \in Addrs : AddKnown(t, a)
    BY <2>2 DEF AddLosesRace, AddKnown, Present
  <2> QED
    BY <2>1, <2>2
<1>2. Present' = Present
  BY <1>1 DEF Present
<1>3. TypeOK'
  <2>1. MainTypes' /\ AdderTypes'
    BY <1>1 DEF TypeOK, MainTypes, AdderTypes, Returns
  <2>2. TableTypes'
    BY <1>1 DEF TypeOK, TableTypes
  <2>3. ProcTypes'
    BY <1>1 DEF TypeOK, ProcTypes, Returns
  <2> QED
    BY <1>1, <2>1, <2>2, <2>3, SameTypes DEF TypeOK
<1>4. NewInv'
  BY <1>1 DEF TypeOK, AdderTypes, Returns, deviceVars, Mine
<1>5. TableInv'
  BY <1>1, <1>2 DEF TableInv, deviceVars, reaperVars
<1> QED
  BY <1>1, <1>3, <1>4, <1>5 DEF Returns, deviceVars

\* The other steps of addShureController.
LEMMA AddTypeInv ==
  ASSUME TypeInv, NEW t \in Adders, AddContinues(t) \/ AddStarts(t)
  PROVE  TypeInv'
<1> USE GatewayAssumption, Names DEF TypeInv, Adding, Holding
<1>1. ASSUME NEW a \in Addrs, AddUnknown(t, a)
      PROVE  TypeInv'
  <2>1. TypeOK'
    <3>1. AdderTypes'
      BY <1>1 DEF AddUnknown, TypeOK, AdderTypes
    <3> QED
      BY <1>1, <3>1, SameTypes DEF AddUnknown, TypeOK
  <2>2. NewInv'
    BY <1>1 DEF AddUnknown, TypeOK, AdderTypes, DeviceTypes, NewInv, Mine, deviceVars
  <2>3. TableInv'
    BY <1>1 DEF AddUnknown, TableInv, Present, deviceVars, reaperVars
  <2> QED
    BY <1>1, <2>1, <2>2, <2>3 DEF AddUnknown, deviceVars, procVars
<1>2. CASE AddDials(t)
  <2>0. Mine(t) \in Controllers
    BY <1>2 DEF AddDials, NewInv, Mine
  <2>1. TypeOK'
    <3>1. AdderTypes' /\ DeviceTypes'
      BY <1>2, <2>0 DEF AddDials, TypeOK, AdderTypes, DeviceTypes
    <3> QED
      BY <1>2, <3>1, SameTypes DEF AddDials, TypeOK
  <2>2. NewInv'
    BY <1>2, <2>0 DEF AddDials, TypeOK, AdderTypes, DeviceTypes, NewInv, Mine
  <2>3. TableInv'
    BY <1>2 DEF AddDials, TableInv, Present, reaperVars
  <2> QED
    BY <1>2, <2>1, <2>2, <2>3 DEF AddDials, procVars
<1>3. CASE AddInserts(t)
  <2> DEFINE a == adding[t]
             e == [ctl |-> Mine(t), index |-> NextIndex]
  <2>0. a \in Addrs \ Present /\ Mine(t) \in Controllers /\ Mine(t)[2] = a
    BY <1>3 DEF AddInserts, Inserts, NewInv, Mine
  <2>1. /\ e # NoEntry
        /\ e \in [ctl : Controllers \cup {NoCtl}, index : 0..Cardinality(Addrs)]
    <3>0. NextIndex \in 1..Cardinality(Addrs) /\ Cardinality(Addrs) \in Nat
      BY <2>0, TableSize
    <3>1. NextIndex \in 0..Cardinality(Addrs)
      BY <3>0
    <3> QED
      BY <2>0, <3>1, EntryPresent
  <2>2. table' = [table EXCEPT ![a] = e]
    BY <1>3 DEF AddInserts, Inserts
  <2> HIDE DEF e
  <2>3. TypeOK'
    <3>1. MainTypes' /\ AdderTypes'
      BY <1>3 DEF AddInserts, Inserts, TypeOK, MainTypes, AdderTypes
    <3>2. TableTypes'
      BY <1>3, <2>0, <2>1, <2>2 DEF AddInserts, Inserts, TypeOK, TableTypes
    <3>3. DeviceTypes'
      BY <1>3, <2>0 DEF AddInserts, Inserts, TypeOK, DeviceTypes
    <3> QED
      BY <1>3, <3>1, <3>2, <3>3, SameTypes DEF AddInserts, Inserts, TypeOK, procVars
  <2>4. NewInv'
    BY <1>3, <2>0 DEF AddInserts, Inserts, TypeOK, AdderTypes, NewInv, Mine
  <2>5. e.ctl = Mine(t)
    BY DEF e
  <2>6. TableInv'
    BY <1>3, <2>0, <2>2, <2>5 DEF AddInserts, Inserts, TypeOK, TableTypes, TableInv, Present,
      reaperVars
  <2> QED
    BY <1>3, <2>3, <2>4, <2>6 DEF AddInserts, Inserts
<1>4. CASE AddRegistersDevice(t) \/ AddRegistersFlow(t) \/ AddRegistersSender(t)
           \/ \E p \in Params : AddRegistersSource(t, p)
  <2>0. adding[t] \in Addrs /\ Mine(t) \in Controllers
    BY <1>4 DEF AddRegistersDevice, AddRegistersFlow, AddRegistersSender, AddRegistersSource,
      NewInv, Mine
  <2>1. TypeOK'
    <3>1. AdderTypes'
      BY <1>4 DEF AddRegistersDevice, AddRegistersFlow, AddRegistersSender,
        AddRegistersSource, TypeOK, AdderTypes
    <3>2. DeviceTypes'
      BY <1>4, <2>0 DEF AddRegistersDevice, AddRegistersFlow, AddRegistersSender,
        AddRegistersSource, TypeOK, AdderTypes, DeviceTypes
    <3> QED
      BY <1>4, <3>1, <3>2, SameTypes DEF AddRegistersDevice, AddRegistersFlow,
        AddRegistersSender, AddRegistersSource, TypeOK
  <2>2. NewInv'
    BY <1>4, <2>0 DEF AddRegistersDevice, AddRegistersFlow, AddRegistersSender,
      AddRegistersSource, TypeOK, AdderTypes, NewInv, Mine
  <2>3. TableInv'
    BY <1>4 DEF AddRegistersDevice, AddRegistersFlow, AddRegistersSender, AddRegistersSource,
      TableInv, Present, reaperVars
  <2> QED
    BY <1>4, <2>1, <2>2, <2>3 DEF AddRegistersDevice, AddRegistersFlow, AddRegistersSender,
      AddRegistersSource, procVars
<1> QED
  BY <1>1, <1>2, <1>3, <1>4, ReturnTypeInv DEF AddContinues, AddStarts

\* processMessages.
LEMMA ProcTypeInv ==
  ASSUME TypeInv, Proc \/ ProcExits
                  \/ \E c \in Controllers, p \in Params \cup {Unmetered} : ProcTakes(c, p)
  PROVE  TypeInv'
<1> USE GatewayAssumption, Names DEF TypeInv
<1>0. NoMsg \in [ctl : Controllers \cup {NoCtl}, param : Params \cup {Unmetered}]
  BY DEF NoMsg
<1>1. UNCHANGED <<ctxDone, crashed, gmu, main, addVars, table, age, deviceVars, reaperVars>>
  BY DEF Proc, ProcLooksUp, ProcBroadcasts, ProcFindsOID, ProcUpdates, ProcExits, ProcTakes
<1>2. Present' = Present /\ NewInv' /\ TableInv'
  BY <1>1 DEF Present, NewInv, TableInv, Mine, addVars, deviceVars, reaperVars
<1>3. ASSUME NEW c \in Controllers, NEW p \in Params \cup {Unmetered}, ProcTakes(c, p)
      PROVE  TypeInv'
  BY <1>1, <1>2, <1>3, SameTypes DEF ProcTakes, TypeOK, ProcTypes
<1>4. CASE ProcLooksUp
  <2>1. msg.ctl[2] \in Addrs
    BY <1>4 DEF ProcLooksUp
  <2>2. CASE msg.ctl[2] \in Present
    BY <1>1, <1>2, <1>4, <2>1, <2>2, SameTypes DEF ProcLooksUp, TypeOK, TableTypes,
      ProcTypes, TableInv, deviceVars
  <2>3. CASE msg.ctl[2] \notin Present
    BY <1>0, <1>1, <1>2, <1>4, <2>1, <2>3, SameTypes DEF ProcLooksUp, TypeOK, TableTypes,
      ProcTypes
  <2> QED
    BY <2>2, <2>3
<1>5. CASE ProcBroadcasts
  BY <1>1, <1>2, <1>5, SameTypes DEF ProcBroadcasts, TypeOK, DeviceTypes, ProcTypes,
    deviceVars
<1>6. CASE ProcFindsOID \/ ProcUpdates
  BY <1>0, <1>1, <1>2, <1>6, SameTypes DEF ProcFindsOID, ProcUpdates, TypeOK, ProcTypes
<1>7. CASE ProcExits
  BY <1>1, <1>2, <1>7, SameTypes DEF ProcExits, TypeOK, ProcTypes
<1> QED
  BY <1>3, <1>4, <1>5, <1>6, <1>7 DEF Proc

\* Time and the reaper.
LEMMA ReaperTypeInv ==
  ASSUME TypeInv, Tick \/ Reaper \/ ReapExits
  PROVE  TypeInv'
<1> USE GatewayAssumption, Names DEF TypeInv
<1>1. CASE Tick
  <2>1. TypeOK'
    <3>1. TableTypes'
      BY <1>1 DEF Tick, TypeOK, TableTypes
    <3> QED
      BY <1>1, <3>1, SameTypes DEF Tick, TypeOK, procVars
  <2>2. NewInv' /\ TableInv'
    BY <1>1 DEF Tick, NewInv, TableInv, Present, Mine, addVars, deviceVars, reaperVars
  <2> QED
    BY <1>1, <2>1, <2>2 DEF Tick, deviceVars
<1>2. CASE ReapScans \/ ReapExits
  <2>1. TypeOK'
    <3>1. ReaperTypes'
      BY <1>2 DEF ReapScans, ReapExits, TypeOK, ReaperTypes, Present
    <3> QED
      BY <1>2, <3>1, SameTypes DEF ReapScans, ReapExits, TypeOK
  <2>2. NewInv' /\ TableInv'
    BY <1>2 DEF ReapScans, ReapExits, NewInv, TableInv, Present, Mine, addVars, deviceVars
  <2> QED
    BY <1>2, <2>1, <2>2 DEF ReapScans, ReapExits, deviceVars, procVars
<1>3. ASSUME NEW a \in Addrs, ReapPicks(a)
      PROVE  TypeInv'
  <2>1. TypeOK'
    <3>1. ReaperTypes'
      BY <1>3 DEF ReapPicks, TypeOK, TableTypes, ReaperTypes
    <3> QED
      BY <1>3, <3>1, SameTypes DEF ReapPicks, TypeOK
  <2>2. NewInv' /\ TableInv'
    BY <1>3 DEF ReapPicks, NewInv, TableInv, Present, Mine, addVars, deviceVars
  <2> QED
    BY <1>3, <2>1, <2>2 DEF ReapPicks, deviceVars, procVars
<1>4. CASE ReapStops
  <2>0. victim \in Controllers
    BY <1>4 DEF ReapStops, TableInv, TypeOK, DeviceTypes
  <2>1. TypeOK'
    <3>1. DeviceTypes' /\ ReaperTypes'
      BY <1>4, <2>0 DEF ReapStops, TypeOK, DeviceTypes, ReaperTypes
    <3> QED
      BY <1>4, <3>1, SameTypes DEF ReapStops, TypeOK
  <2>2. NewInv'
    <3>1. \A c \in Controllers : ctl'[c] = "none" <=> ctl[c] = "none"
      BY <1>4, <2>0 DEF ReapStops, TypeOK, DeviceTypes
    <3>2. \A t \in Adders : adder[t] \in Adding => Mine(t) \in Controllers
      BY DEF NewInv, Mine
    <3> QED
      BY <1>4, <3>1, <3>2 DEF ReapStops, NewInv, TypeOK, DeviceTypes, Mine, addVars, Adding
  <2>3. TableInv'
    BY <1>4 DEF ReapStops, TableInv, Present
  <2> QED
    BY <1>4, <2>1, <2>2, <2>3 DEF ReapStops, procVars
<1>5. CASE ReapDeletes
  <2>0. victim \in Controllers /\ victim[2] \in Addrs
    BY <1>5 DEF ReapDeletes, TableInv, TypeOK, DeviceTypes
  <2>1. NoEntry \in [ctl : Controllers \cup {NoCtl}, index : 0..Cardinality(Addrs)]
    BY TableSize DEF NoEntry
  <2>2. TypeOK'
    <3>1. TableTypes' /\ ReaperTypes'
      BY <1>5, <2>0, <2>1 DEF ReapDeletes, TypeOK, TableTypes, ReaperTypes
    <3> QED
      BY <1>5, <3>1, SameTypes DEF ReapDeletes, TypeOK, procVars
  <2>3. \A a \in Addrs : a \in Present' => a \in Present /\ table'[a] = table[a]
    BY <1>5, <2>0 DEF ReapDeletes, TypeOK, TableTypes, Present
  <2>4. NewInv' /\ TableInv'
    BY <1>5, <2>3 DEF ReapDeletes, NewInv, TableInv, Present, Mine, addVars, deviceVars
  <2> QED
    BY <1>5, <2>2, <2>4 DEF ReapDeletes, deviceVars
<1> QED
  BY <1>1, <1>2, <1>3, <1>4, <1>5 DEF Reaper

\* The signal and the shutdown.
LEMMA StopTypeInv ==
  ASSUME TypeInv,
         Signal \/ GatewayStop \/ DiscoveryExits \/ \E c \in Controllers : LifecycleEnds(c)
  PROVE  TypeInv'
<1> USE GatewayAssumption, Names DEF TypeInv
<1>1. CASE Signal \/ StopBegins \/ StopLocks \/ StopReturns \/ DiscoveryExits
  <2>1. TypeOK'
    <3>1. MainTypes' /\ AdderTypes'
      BY <1>1 DEF Signal, StopBegins, StopLocks, StopReturns, DiscoveryExits, TypeOK,
        MainTypes, AdderTypes, addVars
    <3> QED
      BY <1>1, <3>1, SameTypes DEF Signal, StopBegins, StopLocks, StopReturns,
        DiscoveryExits, TypeOK
  <2>2. NewInv'
    BY <1>1 DEF Signal, StopBegins, StopLocks, StopReturns, DiscoveryExits, NewInv, TypeOK,
      AdderTypes, Mine, Adding, Holding, addVars, deviceVars
  <2>3. TableInv'
    BY <1>1 DEF Signal, StopBegins, StopLocks, StopReturns, DiscoveryExits, TableInv, Present,
      deviceVars, reaperVars
  <2> QED
    BY <1>1, <2>1, <2>2, <2>3 DEF Signal, StopBegins, StopLocks, StopReturns, DiscoveryExits,
      deviceVars, procVars
<1>2. ASSUME NEW a \in Addrs, StopSignals(a)
      PROVE  TypeInv'
  <2>0. table[a].ctl \in Controllers
    BY <1>2 DEF StopSignals, TableInv, TypeOK, DeviceTypes
  <2>1. TypeOK'
    <3>1. MainTypes' /\ DeviceTypes'
      BY <1>2, <2>0 DEF StopSignals, TypeOK, MainTypes, DeviceTypes
    <3> QED
      BY <1>2, <3>1, SameTypes DEF StopSignals, TypeOK
  <2>2. NewInv' /\ TableInv'
    BY <1>2, <2>0 DEF StopSignals, NewInv, TableInv, TypeOK, DeviceTypes, Present, Mine,
      addVars, reaperVars
  <2> QED
    BY <1>2, <2>1, <2>2 DEF StopSignals, procVars
<1>3. ASSUME NEW c \in Controllers, LifecycleEnds(c)
      PROVE  TypeInv'
  <2>1. TypeOK'
    <3>1. MainTypes' /\ DeviceTypes'
      BY <1>3 DEF LifecycleEnds, TypeOK, MainTypes, DeviceTypes
    <3> QED
      BY <1>3, <3>1, SameTypes DEF LifecycleEnds, TypeOK
  <2>2. NewInv' /\ TableInv'
    BY <1>3 DEF LifecycleEnds, NewInv, TableInv, TypeOK, DeviceTypes, Present, Mine, addVars,
      reaperVars
  <2> QED
    BY <1>3, <2>1, <2>2 DEF LifecycleEnds, procVars
<1> QED
  BY <1>1, <1>2, <1>3 DEF GatewayStop

LEMMA NextTypeInv == TypeInv /\ [Next]_vars => TypeInv'
<1> SUFFICES ASSUME TypeInv, [Next]_vars
             PROVE  TypeInv'
  OBVIOUS
<1>1. CASE Next
  BY <1>1, AddTypeInv, ProcTypeInv, ReaperTypeInv, StopTypeInv DEF Next
<1>2. CASE UNCHANGED vars
  <2>1. TypeOK'
    BY <1>2, SameTypes DEF vars, addVars, deviceVars, procVars, reaperVars, TypeInv, TypeOK
  <2>2. NewInv' /\ TableInv'
    BY <1>2 DEF vars, TypeInv, NewInv, TableInv, Present, Mine
  <2> QED
    BY <1>2, <2>1, <2>2 DEF vars, TypeInv
<1> QED
  BY <1>1, <1>2

(***************************************************************************)
(* The table, the adders, processMessages and the reaper only ever hold    *)
(* values of their types: an entry's index stays within the number of      *)
(* addresses, and nobody looks at the map of a controller that is not      *)
(* there.                                                                  *)
(***************************************************************************)
THEOREM GatewayTypeCorrect == Spec => []TypeOK
<1>1. TypeInv => TypeOK
  BY DEF TypeInv
<1> QED
  BY <1>1, InitTypeInv, NextTypeInv, PTL DEF Spec

-----------------------------------------------------------------------------
\* What a step that is not an adder's leaves alone.
LEMMA OtherFrame ==
  ASSUME Proc \/ ProcExits \/ Tick \/ Reaper \/ ReapExits \/ Signal \/ GatewayStop
         \/ (\E c \in Controllers, p \in Params \cup {Unmetered} : ProcTakes(c, p))
         \/ (\E c \in Controllers : LifecycleEnds(c))
  PROVE  UNCHANGED <<addVars, listeners, sourceIDs, registered>>
<1>1. CASE \/ Proc \/ ProcExits
           \/ \E c \in Controllers, p \in Params \cup {Unmetered} : ProcTakes(c, p)
  BY <1>1 DEF Proc, ProcLooksUp, ProcBroadcasts, ProcFindsOID, ProcUpdates, ProcExits,
    ProcTakes, deviceVars
<1>2. CASE Tick \/ Reaper \/ ReapExits
  BY <1>2 DEF Tick, Reaper, ReapScans, ReapPicks, ReapStops, ReapDeletes, ReapExits, deviceVars
<1>3. CASE Signal \/ GatewayStop \/ \E c \in Controllers : LifecycleEnds(c)
  BY <1>3 DEF Signal, GatewayStop, StopBegins, StopLocks, StopSignals, StopReturns,
    LifecycleEnds, deviceVars
<1> QED
  BY <1>1, <1>2, <1>3

\* The lock.
LEMMA NextLockInv ==
  ASSUME TypeInv, LockInv, [Next]_vars
  PROVE  LockInv'
<1> USE Names DEF LockInv, Holding, TypeInv, TypeOK, MainTypes, AdderTypes
<1>1. ASSUME NEW t \in Adders, AddStarts(t)
      PROVE  LockInv'
  BY <1>1 DEF AddStarts, AddKnown, AddUnknown, Returns
<1>2. ASSUME NEW t \in Adders, AddContinues(t)
      PROVE  LockInv'
  <2>1. CASE AddDialFails(t) \/ AddDials(t) \/ AddLosesRace(t)
    BY <1>2, <2>1 DEF AddDialFails, AddDials, AddLosesRace, Returns
  <2>2. CASE AddInserts(t)
    BY <2>2 DEF AddInserts, Inserts
  <2>3. CASE AddFinishes(t)
    BY <2>3 DEF AddFinishes, Returns
  <2>4. CASE AddRegistersDevice(t) \/ AddRegistersFlow(t) \/ AddRegistersSender(t)
             \/ \E p \in Params : AddRegistersSource(t, p)
    BY <2>4 DEF AddRegistersDevice, AddRegistersFlow, AddRegistersSender, AddRegistersSource
  <2> QED
    BY <1>2, <2>1, <2>2, <2>3, <2>4 DEF AddContinues
<1>3. CASE DiscoveryExits
  BY <1>3 DEF DiscoveryExits
<1>4. CASE GatewayStop
  BY <1>4 DEF GatewayStop, StopBegins, StopLocks, StopSignals, StopReturns, addVars
<1>5. CASE \/ Proc \/ ProcExits \/ Tick \/ Reaper \/ ReapExits \/ Signal
           \/ \E c \in Controllers, p \in Params \cup {Unmetered} : ProcTakes(c, p)
           \/ \E c \in Controllers : LifecycleEnds(c)
  <2>1. UNCHANGED <<gmu, main>>
    BY <1>5 DEF Proc, ProcLooksUp, ProcBroadcasts, ProcFindsOID, ProcUpdates, ProcExits,
      ProcTakes, Tick,
      Reaper, ReapScans, ReapPicks, ReapStops, ReapDeletes, ReapExits, Signal, LifecycleEnds
  <2>2. UNCHANGED adder
    BY <1>5, OtherFrame DEF addVars
  <2> QED
    BY <2>1, <2>2
<1>6. CASE UNCHANGED vars
  BY <1>6 DEF vars
<1> QED
  BY <1>1, <1>2, <1>3, <1>4, <1>5, <1>6 DEF Next

\* Before the signal.
LEMMA NextRunning ==
  ASSUME TypeInv, RunningInv, [Next]_vars
  PROVE  RunningInv'
<1> SUFFICES ASSUME ~ctxDone'
             PROVE  /\ main' \in {"starting", "running"}
                    /\ reaper' # "delete"
                    /\ reaper' # "wait" => \A c \in Controllers : ctl'[c] \in {"none", "up"}
  BY DEF RunningInv
<1>1. ~ctxDone
  BY DEF Next, vars, AddStarts, AddKnown, AddUnknown, AddContinues, AddDialFails, AddDials,
    AddLosesRace, AddInserts, Inserts, AddRegistersDevice, AddRegistersSource,
    AddRegistersFlow, AddRegistersSender, AddFinishes, ProcTakes, Proc, ProcLooksUp,
    ProcBroadcasts, ProcFindsOID, ProcUpdates, ProcExits, Tick, Reaper, ReapScans, ReapPicks,
    ReapStops,
    ReapDeletes, ReapExits, DiscoveryExits, Signal, LifecycleEnds, GatewayStop, StopBegins,
    StopLocks, StopSignals, StopReturns
<1>2. /\ main \in {"starting", "running"}
      /\ reaper # "delete"
      /\ reaper # "wait" => \A c \in Controllers : ctl[c] \in {"none", "up"}
  BY <1>1 DEF RunningInv
<1> DEFINE Goal == /\ main' \in {"starting", "running"}
                   /\ reaper' # "delete"
                   /\ reaper' # "wait" => \A c \in Controllers : ctl'[c] \in {"none", "up"}
<1>3. ASSUME NEW t \in Adders, AddStarts(t) \/ AddContinues(t)
      PROVE  Goal
  <2>1. UNCHANGED reaper
    BY <1>3 DEF AddStarts, AddKnown, AddUnknown, AddContinues, AddDialFails, AddDials,
      AddLosesRace, AddInserts, Inserts, AddRegistersDevice, AddRegistersSource,
      AddRegistersFlow, AddRegistersSender, AddFinishes, reaperVars
  <2>2. main' \in {main, "running"}
    BY <1>3 DEF AddStarts, AddKnown, AddUnknown, AddContinues, AddDialFails, AddDials,
      AddLosesRace, AddInserts, Inserts, AddRegistersDevice, AddRegistersSource,
      AddRegistersFlow, AddRegistersSender, AddFinishes, Returns
  <2>3. UNCHANGED ctl \/ ctl' = [ctl EXCEPT ![Mine(t)] = "up"]
    BY <1>3 DEF AddStarts, AddKnown, AddUnknown, AddContinues, AddDialFails, AddDials,
      AddLosesRace, AddInserts, Inserts, AddRegistersDevice, AddRegistersSource,
      AddRegistersFlow, AddRegistersSender, AddFinishes, deviceVars
  <2> QED
    BY <1>2, <2>1, <2>2, <2>3 DEF TypeInv, TypeOK, DeviceTypes
<1>4. CASE ReapStops
  <2>1. ctl[victim] = "up"
    BY <1>2, <1>4 DEF ReapStops, TypeInv, TypeOK, DeviceTypes, TableInv, NewInv
  <2> QED
    BY <1>2, <1>4, <2>1 DEF ReapStops
<1>5. CASE \/ Proc \/ ProcExits \/ Tick \/ ReapScans \/ ReapExits \/ DiscoveryExits
           \/ \E c \in Controllers, p \in Params \cup {Unmetered} : ProcTakes(c, p)
           \/ \E a \in Addrs : ReapPicks(a)
  BY <1>2, <1>5 DEF Proc, ProcLooksUp, ProcBroadcasts, ProcFindsOID, ProcUpdates, ProcExits,
    ProcTakes, Tick,
    ReapScans, ReapPicks, ReapExits, DiscoveryExits, deviceVars, reaperVars
<1>6. CASE ReapDeletes \/ Signal \/ GatewayStop \/ \E c \in Controllers : LifecycleEnds(c)
  BY <1>1, <1>2, <1>6 DEF ReapDeletes, Signal, GatewayStop, StopBegins, StopLocks, StopSignals,
    StopReturns, LifecycleEnds
<1>7. CASE UNCHANGED vars
  BY <1>2, <1>7 DEF vars
<1> QED
  BY <1>3, <1>4, <1>5, <1>6, <1>7 DEF Next, Reaper

\* The table grows until the signal, so that indexes stay apart.
LEMMA NextKept ==
  ASSUME TypeInv, RunningInv, KeptInv, [Next]_vars
  PROVE  KeptInv'
<1> SUFFICES ASSUME ~ctxDone'
             PROVE  KeptInv'
  BY DEF KeptInv
<1> USE DEF KeptInv
<1>1. CASE UNCHANGED <<ctxDone, listeners, table>>
  <2>1. Present' = Present
    BY <1>1 DEF Present
  <2> QED
    BY <1>1, <2>1
<1>2. ASSUME NEW t \in Adders, AddInserts(t)
      PROVE  KeptInv'
  <2> DEFINE a == adding[t]
             e == [ctl |-> Mine(t), index |-> NextIndex]
  <2>1. /\ a \in Addrs \ Present /\ Mine(t) \in Controllers /\ Mine(t)[2] = a
        /\ ~ctxDone
    BY <1>2, Names DEF AddInserts, Inserts, TypeInv, NewInv, Mine, Adding
  <2>2. /\ table' = [table EXCEPT ![a] = e]
        /\ listeners' = listeners \cup {Mine(t)}
    BY <1>2 DEF AddInserts, Inserts
  <2>3. e # NoEntry /\ e.ctl = Mine(t) /\ e.index = NextIndex
    BY <2>1, EntryPresent
  <2> HIDE DEF e, a
  <2>4. Present' = Present \cup {a}
    BY <2>1, <2>2, <2>3 DEF Present, TypeInv, TypeOK, TableTypes
  <2>5. Cardinality(Present') = NextIndex /\ NextIndex = Cardinality(Present) + 1
        /\ Cardinality(Present) \in Nat
    BY <2>1, <2>4, TableSize DEF NextIndex
  <2>6. \A b \in Present : b # a /\ table'[b] = table[b]
    BY <2>1, <2>2 DEF TypeInv, TypeOK, TableTypes, Present
  <2>7. table'[a] = e
    BY <2>1, <2>2 DEF TypeInv, TypeOK, TableTypes
  <2>8. \A c \in listeners' : table'[c[2]].ctl = c
    <3>1. \A c \in listeners : c[2] \in Present
      BY <2>1, Names DEF TypeInv, TypeOK, DeviceTypes, Present, NoEntry
    <3> QED
      BY <2>1, <2>2, <2>3, <2>6, <2>7, <3>1
  <2>9. \A b \in Present' : table'[b].index \in 1..Cardinality(Present')
    BY <2>1, <2>3, <2>4, <2>5, <2>6, <2>7
  <2>10. \A b, d \in Present' : b # d => table'[b].index # table'[d].index
    BY <2>1, <2>3, <2>4, <2>5, <2>6, <2>7
  <2> QED
    BY <2>8, <2>9, <2>10
<1>3. CASE ReapDeletes
  BY <1>3 DEF ReapDeletes, RunningInv
<1>4. ASSUME NEW t \in Adders, AddStarts(t) \/ AddContinues(t)
      PROVE  AddInserts(t) \/ UNCHANGED <<ctxDone, listeners, table>>
  BY <1>4 DEF AddStarts, AddKnown, AddUnknown, AddContinues, AddDialFails, AddDials,
    AddLosesRace, AddRegistersDevice, AddRegistersSource,
    AddRegistersFlow, AddRegistersSender, AddFinishes, deviceVars
<1>5. Proc \/ ProcExits \/ (\E c \in Controllers, p \in Params \cup {Unmetered} : ProcTakes(c, p))
        => UNCHANGED <<ctxDone, listeners, table>>
  BY DEF Proc, ProcLooksUp, ProcBroadcasts, ProcFindsOID, ProcUpdates, ProcExits, ProcTakes,
    deviceVars
<1>6. Tick \/ Reaper \/ ReapExits => ReapDeletes \/ UNCHANGED <<ctxDone, listeners, table>>
  BY DEF Tick, Reaper, ReapScans, ReapPicks, ReapStops, ReapExits, deviceVars
<1>7. DiscoveryExits \/ Signal \/ GatewayStop \/ (\E c \in Controllers : LifecycleEnds(c))
        => UNCHANGED <<ctxDone, listeners, table>>
  BY DEF DiscoveryExits, Signal, GatewayStop, StopBegins, StopLocks, StopSignals, StopReturns,
    LifecycleEnds, deviceVars
<1>8. UNCHANGED vars => UNCHANGED <<ctxDone, listeners, table>>
  BY DEF vars
<1> QED
  BY <1>1, <1>2, <1>3, <1>4, <1>5, <1>6, <1>7, <1>8 DEF Next

-----------------------------------------------------------------------------
\* While t holds g.mu the other adder builds nothing.
LEMMA OneBuilder ==
  ASSUME LockInv, NEW t \in Adders, gmu \in {t, "free"}, NEW u \in Adders, u # t
  PROVE  adder[u] \notin Holding
  BY Names DEF LockInv

\* What an adder does with g.mu: insert the device, then register.
LEMMA BuildSteps ==
  ASSUME TypeInv, LockInv, NEW t \in Adders, Built(t),
         \/ AddInserts(t) \/ AddRegistersDevice(t) \/ AddRegistersFlow(t)
         \/ AddRegistersSender(t) \/ \E p \in Params : AddRegistersSource(t, p)
  PROVE  Built(t)'
<1> USE Names DEF TypeInv, TypeOK, AdderTypes, DeviceTypes, Built
<1>0. adding[t] \in Addrs /\ Mine(t) \in Controllers /\ adding' = adding /\ Mine(t)' = Mine(t)
  BY DEF AddInserts, Inserts, AddRegistersDevice, AddRegistersFlow, AddRegistersSender,
    AddRegistersSource, NewInv, Adding, Holding, Mine
<1>1. CASE AddInserts(t)
  BY <1>0, <1>1 DEF AddInserts, Inserts
<1>2. CASE AddRegistersDevice(t)
  BY <1>0, <1>2 DEF AddRegistersDevice
<1>3. ASSUME NEW p \in Params, AddRegistersSource(t, p)
      PROVE  Built(t)'
  <2>1. adder'[t] = "flow" /\ param'[t] = p /\ todo'[t] = todo[t] \ {p}
    BY <1>3 DEF AddRegistersSource
  <2>2. sourceIDs'[Mine(t)] = Params \ todo'[t]
    BY <1>0, <1>3, <2>1 DEF AddRegistersSource
  <2>3. \A q \in Params \ todo[t] : \A k \in Resources : <<k, adding[t], q>> \in registered
    BY <1>3 DEF AddRegistersSource, Missing
  <2>4. \A q \in Params \ todo'[t] : q = p \/ q \in Params \ todo[t]
    BY <2>1
  <2>5. \A k \in Resources \ Missing(t, p)' : k = "source"
    BY <2>1 DEF Missing, Resources
  <2>6. <<"source", adding[t], p>> \in registered' /\ registered \subseteq registered'
    BY <1>3 DEF AddRegistersSource
  <2> QED
    BY <1>0, <2>1, <2>2, <2>3, <2>4, <2>5, <2>6
<1>4. CASE AddRegistersFlow(t) \/ AddRegistersSender(t)
  <2>1. /\ UNCHANGED <<sourceIDs, todo, param>>
        /\ adder[t] \in {"flow", "sender"} /\ adder'[t] \in {"sender", "eager"}
        /\ registered \subseteq registered'
    BY <1>4 DEF AddRegistersFlow, AddRegistersSender
  <2>2. ASSUME NEW q \in Params, NEW k \in Resources \ Missing(t, q)'
        PROVE  k \in Missing(t, q) => <<k, adding[t], q>> \in registered'
    BY <1>4, <2>2 DEF AddRegistersFlow, AddRegistersSender, Missing, Resources
  <2> QED
    BY <1>0, <2>1, <2>2
<1> QED
  BY <1>1, <1>2, <1>3, <1>4

LEMMA NextBuild ==
  ASSUME TypeInv, LockInv, BuildInv, [Next]_vars
  PROVE  BuildInv'
<1>1. \A t \in Adders : Built(t)
  BY DEF BuildInv
<1>2. CASE UNCHANGED <<addVars, sourceIDs, registered>>
  BY <1>2 DEF BuildInv, Built, addVars, Mine, Missing
<1>3. ASSUME NEW t \in Adders, AddStarts(t) \/ AddContinues(t)
      PROVE  BuildInv'
  <2>1. \/ AddInserts(t) \/ AddRegistersDevice(t) \/ AddRegistersFlow(t)
        \/ AddRegistersSender(t) \/ \E p \in Params : AddRegistersSource(t, p)
        \/ /\ adder'[t] \notin Holding
           /\ UNCHANGED <<sourceIDs, registered>>
    BY <1>3 DEF AddStarts, AddKnown, AddUnknown, AddContinues, AddDialFails, AddDials,
      AddLosesRace, AddFinishes, Returns, Holding, deviceVars, TypeInv, TypeOK, AdderTypes
  <2>2. \A u \in Adders : u # t =>
          adder'[u] = adder[u] /\ adding'[u] = adding[u] /\ todo'[u] = todo[u] /\ param'[u] = param[u]
    BY <1>3 DEF AddStarts, AddKnown, AddUnknown, AddContinues, AddDialFails, AddDials,
      AddLosesRace, AddFinishes, Returns, AddInserts, Inserts, AddRegistersDevice,
      AddRegistersSource, AddRegistersFlow, AddRegistersSender, TypeInv, TypeOK, AdderTypes
  <2>3. CASE adder'[t] \notin Holding /\ UNCHANGED <<sourceIDs, registered>>
    <3> SUFFICES ASSUME NEW u \in Adders
                 PROVE  Built(u)'
      BY DEF BuildInv
    <3>1. CASE u = t
      BY <2>3, <3>1 DEF Built, Holding
    <3>2. CASE u # t
      BY <1>1, <2>2, <2>3, <3>2 DEF Built, Mine, Missing
    <3> QED
      BY <3>1, <3>2
  <2>4. CASE \/ AddInserts(t) \/ AddRegistersDevice(t) \/ AddRegistersFlow(t)
             \/ AddRegistersSender(t) \/ \E p \in Params : AddRegistersSource(t, p)
    <3>1. gmu \in {t, "free"}
      BY <2>4 DEF AddInserts, Inserts, AddRegistersDevice, AddRegistersFlow,
        AddRegistersSender, AddRegistersSource, LockInv, Holding
    <3> SUFFICES ASSUME NEW u \in Adders
                 PROVE  Built(u)'
      BY DEF BuildInv
    <3>2. CASE u = t
      BY <1>1, <2>4, <3>2, BuildSteps
    <3>3. CASE u # t
      <4>1. adder'[u] \notin Holding
        BY <2>2, <3>1, <3>3, OneBuilder
      <4> QED
        BY <4>1 DEF Built, Holding
    <3> QED
      BY <3>2, <3>3
  <2> QED
    BY <2>1, <2>3, <2>4
<1>4. CASE DiscoveryExits
  BY <1>4 DEF DiscoveryExits, BuildInv, Built, deviceVars, Mine, Missing, TypeInv, TypeOK,
    AdderTypes
<1>5. CASE UNCHANGED vars
  BY <1>2, <1>5 DEF vars, addVars
<1> QED
  BY <1>2, <1>3, <1>4, <1>5, OtherFrame DEF Next

\* A complete device stays complete: nothing is unregistered, and only a new
\* controller gets an empty map.
LEMMA StaysComplete ==
  ASSUME TypeInv, [Next]_vars, NEW c \in listeners
  PROVE  /\ registered \subseteq registered'
         /\ sourceIDs[c] \subseteq sourceIDs'[c]
         /\ sourceIDs'[c] \subseteq Params
         /\ Complete(c) => Complete(c)'
<1>1. registered \subseteq registered'
  BY OtherFrame DEF Next, vars, DiscoveryExits, AddStarts, AddKnown, AddUnknown, AddContinues,
    AddDialFails, AddDials, AddLosesRace, AddInserts, Inserts, AddRegistersDevice,
    AddRegistersSource, AddRegistersFlow, AddRegistersSender, AddFinishes, deviceVars
<1>2. sourceIDs[c] \subseteq sourceIDs'[c] /\ sourceIDs'[c] \subseteq Params
  <2>0. c \in Controllers /\ sourceIDs \in [Controllers -> SUBSET Params]
    BY DEF TypeInv, TypeOK, DeviceTypes
  <2>1. CASE UNCHANGED sourceIDs
    BY <2>0, <2>1
  <2>2. ASSUME NEW t \in Adders, AddInserts(t)
        PROVE  sourceIDs'[c] = sourceIDs[c]
    BY <2>0, <2>2 DEF AddInserts, Inserts, TypeInv, NewInv
  <2>3. ASSUME NEW t \in Adders, NEW p \in Params, AddRegistersSource(t, p)
        PROVE  sourceIDs'[c] \in {sourceIDs[c], sourceIDs[c] \cup {p}}
    BY <2>0, <2>3 DEF AddRegistersSource
  <2>4. ASSUME NEW t \in Adders, AddStarts(t) \/ AddContinues(t)
        PROVE  \/ AddInserts(t) \/ UNCHANGED sourceIDs
               \/ \E p \in Params : AddRegistersSource(t, p)
    BY <2>4 DEF AddStarts, AddKnown, AddUnknown, AddContinues, AddDialFails, AddDials,
      AddLosesRace, AddRegistersDevice, AddRegistersFlow, AddRegistersSender, AddFinishes,
      deviceVars
  <2>5. DiscoveryExits \/ UNCHANGED vars => UNCHANGED sourceIDs
    BY DEF DiscoveryExits, vars, deviceVars
  <2> QED
    BY <2>0, <2>1, <2>2, <2>3, <2>4, <2>5, OtherFrame DEF Next
<1> QED
  BY <1>1, <1>2 DEF Complete

\* Only the device being added is incomplete.
LEMMA NextComplete ==
  ASSUME TypeInv, LockInv, BuildInv, CompleteInv, [Next]_vars
  PROVE  CompleteInv'
<1> DEFINE Covered(c) == Complete(c) \/ \E t \in Adders : adder[t] \in Holding /\ c = Mine(t)
<1>1. \A c \in listeners' : Covered(c)'
  <2>1. CASE UNCHANGED <<addVars, listeners>>
    BY <2>1, StaysComplete DEF CompleteInv, addVars, Mine
  <2>2. ASSUME NEW t \in Adders, AddStarts(t) \/ AddContinues(t)
        PROVE  \A c \in listeners' : Covered(c)'
    <3>1. \A u \in Adders : u # t => adder'[u] = adder[u] /\ adding'[u] = adding[u]
      BY <2>2 DEF AddStarts, AddKnown, AddUnknown, AddContinues, AddDialFails, AddDials,
        AddLosesRace, AddFinishes, Returns, AddInserts, Inserts, AddRegistersDevice,
        AddRegistersSource, AddRegistersFlow, AddRegistersSender, TypeInv, TypeOK, AdderTypes
    <3>2. CASE AddInserts(t)
      <4>1. adder'[t] \in Holding /\ Mine(t)' = Mine(t) /\ listeners' = listeners \cup {Mine(t)}
            /\ adder[t] \notin Holding
        BY <3>2 DEF AddInserts, Inserts, Holding, Mine, TypeInv, TypeOK, AdderTypes
      <4> QED
        BY <3>1, <4>1, StaysComplete DEF CompleteInv, Mine
    <3>3. CASE AddRegistersDevice(t) \/ AddRegistersFlow(t) \/ AddRegistersSender(t)
               \/ \E p \in Params : AddRegistersSource(t, p)
      <4>1. adder'[t] \in Holding /\ Mine(t)' = Mine(t) /\ listeners' = listeners
        BY <3>3 DEF AddRegistersDevice, AddRegistersFlow, AddRegistersSender,
          AddRegistersSource, Holding, Mine, TypeInv, TypeOK, AdderTypes
      <4> QED
        BY <3>1, <4>1, StaysComplete DEF CompleteInv, Mine
    <3>4. CASE AddFinishes(t)
      <4>1. Complete(Mine(t))
        <5>1. adder[t] = "eager" /\ todo[t] = {}
          BY <3>4 DEF AddFinishes
        <5>2. sourceIDs[Mine(t)] = Params
          BY <5>1 DEF BuildInv, Built
        <5>3. \A p \in Params, k \in Resources : <<k, adding[t], p>> \in registered
          BY <5>1 DEF BuildInv, Built, Missing
        <5> QED
          BY <5>2, <5>3 DEF Complete, Mine
      <4>2. listeners' = listeners
        BY <3>4 DEF AddFinishes, deviceVars
      <4> QED
        BY <3>1, <4>1, <4>2, StaysComplete DEF CompleteInv, Mine
    <3>5. CASE AddStarts(t) \/ AddDialFails(t) \/ AddDials(t) \/ AddLosesRace(t)
      <4>1. listeners' = listeners /\ adder[t] \notin Holding
        BY <3>5 DEF AddStarts, AddKnown, AddUnknown, AddDialFails, AddDials, AddLosesRace,
          Holding, deviceVars
      <4> QED
        BY <3>1, <4>1, StaysComplete DEF CompleteInv, Mine
    <3> QED
      BY <2>2, <3>2, <3>3, <3>4, <3>5 DEF AddContinues
  <2>3. CASE DiscoveryExits
    <3>1. /\ listeners' = listeners /\ adding' = adding
          /\ \A u \in Adders : adder'[u] \in Holding <=> adder[u] \in Holding
      BY <2>3, Names DEF DiscoveryExits, Holding, deviceVars, TypeInv, TypeOK, AdderTypes
    <3> QED
      BY <3>1, StaysComplete DEF CompleteInv, Mine
  <2>4. CASE UNCHANGED vars
    BY <2>1, <2>4 DEF vars, addVars
  <2> QED
    BY <2>1, <2>2, <2>3, <2>4, OtherFrame DEF Next
<1>2. proc' \in {"use", "ncp"} => Complete(info)'
  <2>1. CASE ProcLooksUp
    <3> SUFFICES ASSUME proc' \in {"use", "ncp"}
                 PROVE  Complete(info)'
      OBVIOUS
    <3>1. /\ gmu = "free" /\ msg.ctl[2] \in Present
          /\ info' = table[msg.ctl[2]].ctl
      BY <2>1 DEF ProcLooksUp
    <3>2. PICK c \in listeners : c = info'
      BY <3>1 DEF TypeInv, TableInv
    <3>3. \A t \in Adders : adder[t] \notin Holding
      BY <3>1, Names DEF LockInv
    <3>4. Complete(c)'
      BY <3>3, StaysComplete DEF CompleteInv
    <3> QED
      BY <3>2, <3>4 DEF Complete
  <2>2. CASE proc \in {"use", "ncp"} /\ info' = info
    <3>1. PICK c \in listeners : c = info
      BY <2>2 DEF TypeInv
    <3>2. Complete(c)'
      BY <2>2, <3>1, StaysComplete DEF CompleteInv
    <3> QED
      BY <2>2, <3>1, <3>2 DEF Complete
  <2>3. \/ ProcLooksUp \/ proc' \notin {"use", "ncp"} \/ (proc \in {"use", "ncp"} /\ info' = info)
    BY DEF Next, vars, AddStarts, AddKnown, AddUnknown, AddContinues, AddDialFails, AddDials,
      AddLosesRace, AddInserts, Inserts, AddRegistersDevice, AddRegistersSource,
      AddRegistersFlow, AddRegistersSender, AddFinishes, Returns, ProcTakes, Proc,
      ProcBroadcasts, ProcFindsOID, ProcUpdates, ProcExits, Tick, Reaper, ReapScans, ReapPicks,
      ReapStops,
      ReapDeletes, ReapExits, DiscoveryExits, Signal, LifecycleEnds, GatewayStop, StopBegins,
      StopLocks, StopSignals, StopReturns, procVars
  <2> QED
    BY <2>1, <2>2, <2>3
<1> QED
  BY <1>1, <1>2 DEF CompleteInv

\* An event is about a device that is complete.
LEMMA NextEvents ==
  ASSUME TypeInv, CompleteInv, EventsHaveResources, [Next]_vars
  PROVE  EventsHaveResources'
<1>1. registered \subseteq registered'
  BY OtherFrame DEF Next, vars, DiscoveryExits, AddStarts, AddKnown, AddUnknown, AddContinues,
    AddDialFails, AddDials, AddLosesRace, AddInserts, Inserts, AddRegistersDevice,
    AddRegistersSource, AddRegistersFlow, AddRegistersSender, AddFinishes, deviceVars
<1>2. CASE ProcBroadcasts
  <2>1. Complete(info)
    BY <1>2 DEF ProcBroadcasts, CompleteInv
  <2>2. \A e \in broadcast' : e = <<info, msg.param>> /\ msg.param \in Params
    BY <1>2, <2>1 DEF ProcBroadcasts, Complete
  <2> QED
    BY <1>1, <2>1, <2>2 DEF EventsHaveResources, Complete, Resources
<1>3. CASE broadcast' \subseteq broadcast
  BY <1>1, <1>3 DEF EventsHaveResources
<1>4. ProcBroadcasts \/ broadcast' \subseteq broadcast
  BY DEF Next, vars, AddStarts, AddKnown, AddUnknown, AddContinues, AddDialFails, AddDials,
    AddLosesRace, AddInserts, Inserts, AddRegistersDevice, AddRegistersSource,
    AddRegistersFlow, AddRegistersSender, AddFinishes, ProcTakes, Proc, ProcLooksUp,
    ProcFindsOID, ProcUpdates, ProcExits, Tick, Reaper, ReapScans, ReapPicks, ReapStops,
    ReapDeletes, ReapExits, DiscoveryExits, Signal, LifecycleEnds, GatewayStop, StopBegins,
    StopLocks, StopSignals, StopReturns, procVars
<1> QED
  BY <1>2, <1>3, <1>4

-----------------------------------------------------------------------------
LEMMA InitGatewayInv == Init => GatewayInv
<1> SUFFICES ASSUME Init
             PROVE  GatewayInv
  OBVIOUS
<1>1. Present = {}
  BY DEF Init, Present
<1>2. LockInv /\ BuildInv
  BY Names DEF Init, LockInv, BuildInv, Built, Holding
<1>3. RunningInv
  BY DEF Init, RunningInv
<1>4. KeptInv /\ CompleteInv /\ EventsHaveResources
  BY <1>1 DEF Init, KeptInv, CompleteInv, EventsHaveResources
<1> QED
  BY <1>2, <1>3, <1>4, InitTypeInv DEF GatewayInv

LEMMA NextGatewayInv == GatewayInv /\ [Next]_vars => GatewayInv'
  BY NextTypeInv, NextLockInv, NextRunning, NextKept, NextBuild, NextComplete, NextEvents
    DEF GatewayInv

LEMMA GatewayInvariant == Spec => []GatewayInv
  BY InitGatewayInv, NextGatewayInv, PTL DEF Spec

(***************************************************************************)
(* Start and handleDiscovery may dial one device at the same time, for any *)
(* number of devices: before the signal only one of the two controllers    *)
(* has a listener, so that no report is handled twice.                     *)
(***************************************************************************)
THEOREM GatewayListensOnce == Spec => []OneListenerPerDevice
<1>1. GatewayInv => OneListenerPerDevice
  BY DEF GatewayInv, KeptInv, OneListenerPerDevice
<1> QED
  BY <1>1, GatewayInvariant, PTL

(***************************************************************************)
(* handleShureDevice may read info.sourceIDs without g.mu: the entry it    *)
(* has looked up has every metered parameter already.                      *)
(***************************************************************************)
THEOREM GatewayHandlerSeesAll == Spec => []HandlerSeesCompleteInfo
<1>1. GatewayInv => HandlerSeesCompleteInfo
  BY DEF GatewayInv, CompleteInv, Complete, HandlerSeesCompleteInfo
<1> QED
  BY <1>1, GatewayInvariant, PTL

(***************************************************************************)
(* No two devices share an index, and with it their object identifiers,    *)
(* before the signal.                                                      *)
(***************************************************************************)
THEOREM GatewayIndexesDiffer == Spec => []DeviceIndexUnique
<1>1. GatewayInv => DeviceIndexUnique
  BY DEF GatewayInv, KeptInv, DeviceIndexUnique
<1> QED
  BY <1>1, GatewayInvariant, PTL

(***************************************************************************)
(* The source, the flow and the sender of an event are registered before   *)
(* the event is broadcast, whatever the adders and the reaper are doing.   *)
(***************************************************************************)
THEOREM GatewayEventsHaveResources == Spec => []EventsHaveResources
<1>1. GatewayInv => EventsHaveResources
  BY DEF GatewayInv
<1> QED
  BY <1>1, GatewayInvariant, PTL
=============================================================================

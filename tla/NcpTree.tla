------------------------------- MODULE NcpTree ------------------------------
(***************************************************************************)
(* The tree of control objects: what setupDeviceNCP                        *)
(* (internal/module/gateway.go) builds for a device, one call of           *)
(* RegisterNCPObject or AddItem at a time, while the NCP server answers    *)
(* clients.                                                                *)
(***************************************************************************)
EXTENDS NcpOids, FiniteSets, SequencesExt

CONSTANT Addrs   \* addresses of devices: keys of shureCtrls

VARIABLES
  ncpObjects,    \* OID -> object; a second registration replaces the first
  items,         \* OID of a block -> OIDs of its members
  classes,       \* keys of ClassManager.Classes
  parameterOIDs  \* parameterOIDs[a]: parameter key -> OID

treeVars == <<ncpObjects, items, classes, parameterOIDs>>

NoMap == [x \in {} |-> 0]

\* The controller's own objects belong to no device.
Own(k) == [addr |-> "node", ch |-> 0, class |-> k]
DeviceManagerClass == 2
ClassManagerClass == 3

\* registerStandardClasses; the base classes have no objects.
StandardClasses == {BlockClass, DeviceManagerClass, ClassManagerClass}

TreeInit ==
  /\ ncpObjects = [o \in 1..3 |-> Own(<<BlockClass, DeviceManagerClass, ClassManagerClass>>[o])]
  /\ items = [b \in {RootOID} |-> {2, 3}]
  /\ classes = StandardClasses
  /\ parameterOIDs = [a \in Addrs |-> NoMap]

-----------------------------------------------------------------------------
(***************************************************************************)
(* What setupDeviceNCP creates for the device of index i, in its order.    *)
(***************************************************************************)
Entry(oid, parent, ch, class) ==
  [oid |-> oid, parent |-> parent, ch |-> ch, class |-> class]

DeviceEntry(i) == Entry(DeviceOID(i), RootOID, 0, BlockClass)

CreateDeviceWorkers(f, i) ==
  LET cfg == DeviceWorkersConfig(f) IN
  [n \in 1..Len(cfg) |-> Entry(DeviceWorkerOID(i, n - 1), DeviceOID(i), 0, cfg[n])]

CreateChannelWorkers(f, i, c) ==
  LET cfg == ChannelWorkersConfig(f) IN
  [n \in 1..Len(cfg) |-> Entry(ChannelWorkerOID(i, c, n - 1), ChannelOID(i, c), c, cfg[n])]

\* A block below the channel and its workers, numbered from base.
SubBlock(i, c, block, base, cfg) ==
  LET oid == SubObjectOID(i, c, block) IN
  <<Entry(oid, ChannelOID(i, c), c, BlockClass)>>
    \o [n \in 1..Len(cfg) |-> Entry(SubObjectOID(i, c, base + n - 1), oid, c, cfg[n])]

ChannelEntries(f, i, c) ==
  <<Entry(ChannelOID(i, c), DeviceOID(i), c, BlockClass)>>
    \o CreateChannelWorkers(f, i, c)
    \o IF f # "QLXD" THEN <<>>
       ELSE SubBlock(i, c, 1, 10, <<GainClass>>)
              \o SubBlock(i, c, 2, 20, BatteryWorkersConfig)
              \o SubBlock(i, c, 3, 30, TransmitterWorkersConfig)

\* One channel after the other; each has as many entries.
AllChannels(f, i, channels) ==
  LET size == Len(ChannelEntries(f, i, 1)) IN
  [n \in 1..channels * size |->
     ChannelEntries(f, i, ((n - 1) \div size) + 1)[((n - 1) % size) + 1]]

\* What comes below the device block.
Below(i, m) ==
  LET f == DetectModelFamily(m) IN
  CreateDeviceWorkers(f, i) \o AllChannels(f, i, MaxChannelsFromModel(m))

Op(op, e) == [op |-> op, entry |-> e]

\* Each object in turn is registered, then added.
Creates(es) ==
  [n \in 1..2 * Len(es) |-> Op(IF n % 2 = 1 THEN "register" ELSE "add", es[(n + 1) \div 2])]

\* Mutant: the device is added to the root block first.
SetupOpsRootFirst(i, m) == Creates(<<DeviceEntry(i)>> \o Below(i, m))

\* Every object is registered, then added to its parent; the device block is
\* added to the root block at the end.
SetupOps(i, m) ==
  <<Op("register", DeviceEntry(i))>> \o Creates(Below(i, m)) \o <<Op("add", DeviceEntry(i))>>

Entries(i, m) == {DeviceEntry(i)} \cup ToSet(Below(i, m))

\* The map f with the value v for the key x.
Put(f, x, v) == [y \in DOMAIN f \cup {x} |-> IF y = x THEN v ELSE f[y]]

Object(a, e) == [addr |-> a, ch |-> e.ch, class |-> e.class]

-----------------------------------------------------------------------------
(***************************************************************************)
(* setupDeviceNCP.  parameterOIDs is only read under g.mu, which the       *)
(* caller holds, so that the whole map is filled in the first step.  The   *)
(* key of a device-level parameter has no channel: 0 here.                 *)
(***************************************************************************)
SetupStarts(a, m, entries) ==
  LET workers == {e \in entries : e.class # BlockClass}
      Key(e) == <<e.ch, e.class>> IN
  /\ classes' = classes \cup RegisteredClasses(DetectModelFamily(m))
  /\ parameterOIDs' =
       [parameterOIDs EXCEPT ![a] =
          [k \in {Key(e) : e \in workers} |-> (CHOOSE e \in workers : Key(e) = k).oid]]
  /\ UNCHANGED <<ncpObjects, items>>

\* RegisterNCPObject
Registers(a, e) ==
  /\ ncpObjects' = Put(ncpObjects, e.oid, Object(a, e))
  /\ items' = IF e.class = BlockClass THEN Put(items, e.oid, {}) ELSE items
  /\ UNCHANGED <<classes, parameterOIDs>>

\* AddItem
Adds(e) ==
  /\ items' = [items EXCEPT ![e.parent] = @ \cup {e.oid}]
  /\ UNCHANGED <<ncpObjects, classes, parameterOIDs>>

SetupStep(a, op) ==
  IF op.op = "register" THEN Registers(a, op.entry) ELSE Adds(op.entry)

-----------------------------------------------------------------------------
(***************************************************************************)
(* handleShureDevice: the object that a report of the parameter k from     *)
(* channel c of the device a sets (0: none).                               *)
(***************************************************************************)
RouteReport(a, f, c, k) ==
  IF c # 0 /\ <<c, k>> \in DOMAIN parameterOIDs[a] THEN parameterOIDs[a][<<c, k>>]
  ELSE IF f = "QLXD" /\ <<0, k>> \in DOMAIN parameterOIDs[a] THEN parameterOIDs[a][<<0, k>>]
  ELSE 0

\* The members of a block that its resolver finds.
Members(b) == items[b] \cap DOMAIN ncpObjects
=============================================================================

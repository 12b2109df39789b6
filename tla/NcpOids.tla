------------------------------- MODULE NcpOids ------------------------------
(***************************************************************************)
(* Models of Shure receivers (internal/infrastructure/shure_commands.go)   *)
(* and the object identifiers of the control objects that stand for a      *)
(* device (setupDeviceNCP in internal/module/gateway.go and                *)
(* internal/infrastructure/ncp_workers.go).                                *)
(***************************************************************************)
EXTENDS Integers, Sequences

(***************************************************************************)
(* A model is what the two functions below see of an instance name: its    *)
(* longest prefix, in upper case, that one of them asks for, whether it    *)
(* has a "+", whether it has "WWB".  "MANUAL" is the name Start gives.     *)
(***************************************************************************)
Models == {"AD4Q", "AD4D", "AD", "ULXD4Q", "ULXD4D", "ULXD4", "ULXD", "QLXD",
           "SLXD4Q+", "SLXD4D+", "SLXD4+", "SLXD+", "SLXD4D", "SLXD4", "SLXD",
           "WWB", "OTHER+", "OTHER", "MANUAL"}

DetectModelFamily(m) ==
  CASE m \in {"AD4Q", "AD4D", "AD"} -> "Axient"
    [] m \in {"ULXD4Q", "ULXD4D", "ULXD4", "ULXD"} -> "ULXD"
    [] m = "QLXD" -> "QLXD"
    [] m \in {"SLXD4Q+", "SLXD4D+", "SLXD4+", "SLXD+", "OTHER+"} -> "SLXDPlus"
    [] m \in {"SLXD4D", "SLXD4", "SLXD"} -> "SLXD"
    [] OTHER -> "Axient"

MaxChannelsFromModel(m) ==
  CASE m \in {"AD4Q", "ULXD4Q", "SLXD4Q+"} -> 4
    [] m \in {"AD4D", "ULXD4D", "SLXD4D+", "SLXD4D"} -> 2
    [] m \in {"ULXD4", "SLXD4+", "SLXD4", "QLXD"} -> 1
    [] OTHER -> IF DetectModelFamily(m) \in {"Axient", "ULXD"} THEN 4 ELSE 2

\* The filter of handleDiscovery.
Accepts(m) ==
  /\ m # "WWB"
  /\ DetectModelFamily(m) = "Axient" => m \in {"AD4Q", "AD4D", "AD"}

-----------------------------------------------------------------------------
(***************************************************************************)
(* Class identifiers, by their last number: [1, 1] is a block, [1, 2, 1,   *)
(* n] a worker.  Within a family a class stands for one Shure parameter.   *)
(***************************************************************************)
BlockClass == 1

ChannelWorkersConfig(f) ==
  IF f = "QLXD" THEN <<12, 13, 14, 40>> ELSE <<10, 11, 12, 13, 14, 15, 16>>

DeviceWorkersConfig(f) == IF f = "QLXD" THEN <<19, 20, 21, 22>> ELSE <<>>

BatteryWorkersConfig == <<23, 24, 25, 26, 27, 28, 29, 30>>
TransmitterWorkersConfig == <<31, 32, 33, 34, 35, 36, 37, 38, 39>>
GainClass == 10

\* The classes setupDeviceNCP registers with the class manager.
CommonClasses == 10..16
QlxdClasses == 19..40
RegisteredClasses(f) == CommonClasses \cup IF f = "QLXD" THEN QlxdClasses ELSE {}

-----------------------------------------------------------------------------
(***************************************************************************)
(* Identifiers.  1, 2 and 3 are the root block and the two managers; i is  *)
(* the device index, c a channel, k counts from 0.                         *)
(***************************************************************************)
RootOID == 1
DeviceOID(i) == 100 + i * 10
ChannelOID(i, c) == DeviceOID(i) + c
DeviceWorkerOID(i, k) == DeviceOID(i) * 100 + k
ChannelWorkerOID(i, c, k) == ChannelOID(i, c) * 100 + k

\* Mutant: the base of the channel's own workers.
SubObjectOIDLow(i, c, k) == ChannelOID(i, c) * 100 + k

SubObjectOID(i, c, k) == ChannelOID(i, c) * 1000 + k

\* Below a channel: the AudioGain, Battery and Transmitter blocks, the gain
\* worker, the battery and the transmitter workers.
SubOffsets == (1..3) \cup {10} \cup (20..27) \cup (30..38)

MaxChannels == 4
ChannelWorkers == 7
DeviceWorkers == 4

\* Every identifier a device of index i may use, whatever its model.
OidsOf(i) ==
  {DeviceOID(i)}
    \cup {ChannelOID(i, c) : c \in 1..MaxChannels}
    \cup {DeviceWorkerOID(i, k) : k \in 0..(DeviceWorkers - 1)}
    \cup {ChannelWorkerOID(i, c, k) : c \in 1..MaxChannels, k \in 0..(ChannelWorkers - 1)}
    \cup {SubObjectOID(i, c, k) : c \in 1..MaxChannels, k \in SubOffsets}
=============================================================================

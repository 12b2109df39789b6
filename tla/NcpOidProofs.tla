---------------------------- MODULE NcpOidProofs ----------------------------
(***************************************************************************)
(* The identifiers of setupDeviceNCP never meet for the first hundred      *)
(* device indices, and meet at the next one; what the list of calls that   *)
(* setupDeviceNCP makes looks like, whatever the model.                    *)
(***************************************************************************)
EXTENDS NcpTree, SequenceTheorems, TLAPS

\* The last device index whose identifiers are all its own.
LastIndex == 100

(***************************************************************************)
(* What an identifier is made of: an object's number x, which is the       *)
(* device's or one of its channels', alone, times 100 or times 1000.  The  *)
(* three kinds lie in ranges that do not overlap.                          *)
(***************************************************************************)
Plain(n, x) == n = x
Worker(n, x) == \E k \in 0..6 : n = x * 100 + k
UnderChannel(n, x) == \E k \in 1..38 : n = x * 1000 + k

InPlainRange(n) == n \in Int /\ 110 <= n /\ n <= 1104
InWorkerRange(n) == n \in Int /\ 11000 <= n /\ n <= 110406
InBelowRange(n) == n \in Int /\ 111001 <= n

\* The bounds of an index, as inequalities.
LEMMA IndexBounds ==
  ASSUME NEW i \in 1..LastIndex
  PROVE  i \in Int /\ 1 <= i /\ i <= 100
<1>1. LastIndex \in Int /\ LastIndex = 100
  BY DEF LastIndex
<1> QED BY <1>1

\* An identifier of device i stands for one of the three kinds, in its range.
LEMMA OidKinds ==
  ASSUME NEW i \in 1..LastIndex, NEW n \in OidsOf(i)
  PROVE  \E d \in 0..MaxChannels :
           \/ Plain(n, DeviceOID(i) + d) /\ InPlainRange(n)
           \/ Worker(n, DeviceOID(i) + d) /\ InWorkerRange(n)
           \/ UnderChannel(n, DeviceOID(i) + d) /\ InBelowRange(n)
<1> i \in Int /\ 1 <= i /\ i <= 100
  BY IndexBounds
<1> USE DEF DeviceOID
<1>1. CASE n = DeviceOID(i)
  <2>1. Plain(n, DeviceOID(i) + 0) /\ InPlainRange(n)
    BY <1>1 DEF Plain, InPlainRange
  <2> QED BY <2>1 DEF MaxChannels
<1>2. CASE \E c \in 1..MaxChannels : n = ChannelOID(i, c)
  <2>1. PICK c \in 1..4 : n = 100 + i * 10 + c
    BY <1>2 DEF ChannelOID, MaxChannels
  <2>2. Plain(n, DeviceOID(i) + c) /\ InPlainRange(n)
    BY <2>1 DEF Plain, InPlainRange
  <2> QED BY <2>2 DEF MaxChannels
<1>3. CASE \E k \in 0..(DeviceWorkers - 1) : n = DeviceWorkerOID(i, k)
  <2>1. PICK k \in 0..3 : n = (100 + i * 10) * 100 + k
    BY <1>3 DEF DeviceWorkers, DeviceWorkerOID
  <2>2. Worker(n, DeviceOID(i) + 0)
    BY <2>1 DEF Worker
  <2>3. InWorkerRange(n)
    BY <2>1 DEF InWorkerRange
  <2> QED BY <2>2, <2>3 DEF MaxChannels
<1>4. CASE \E c \in 1..MaxChannels, k \in 0..(ChannelWorkers - 1) : n = ChannelWorkerOID(i, c, k)
  <2>1. PICK c \in 1..4, k \in 0..6 : n = (100 + i * 10 + c) * 100 + k
    BY <1>4 DEF ChannelWorkers, ChannelWorkerOID, ChannelOID, MaxChannels
  <2>2. Worker(n, DeviceOID(i) + c)
    BY <2>1 DEF Worker
  <2>3. InWorkerRange(n)
    BY <2>1 DEF InWorkerRange
  <2> QED BY <2>2, <2>3 DEF MaxChannels
<1>5. CASE \E c \in 1..MaxChannels, k \in SubOffsets : n = SubObjectOID(i, c, k)
  <2>1. PICK c \in 1..4, k \in SubOffsets : n = (100 + i * 10 + c) * 1000 + k
    BY <1>5 DEF SubObjectOID, ChannelOID, MaxChannels
  <2>2. k \in 1..38
    BY DEF SubOffsets
  <2>3. UnderChannel(n, DeviceOID(i) + c)
    BY <2>1, <2>2 DEF UnderChannel
  <2>4. InBelowRange(n)
    BY <2>1, <2>2 DEF InBelowRange
  <2> QED BY <2>3, <2>4 DEF MaxChannels
<1> QED
  BY <1>1, <1>2, <1>3, <1>4, <1>5 DEF OidsOf

(***************************************************************************)
(* Two devices whose indices differ share no identifier, and none takes    *)
(* one of the root block's or the managers' (setupDeviceNCP at             *)
(* gateway.go:574-711 registers objects by these identifiers, and a later  *)
(* registration of the same one would replace the object).                 *)
(***************************************************************************)
THEOREM DevicesShareNoOid ==
  ASSUME NEW i \in 1..LastIndex, NEW j \in 1..LastIndex, i # j
  PROVE  /\ OidsOf(i) \cap OidsOf(j) = {}
         /\ OidsOf(i) \cap (1..3) = {}
<1>1. ASSUME NEW n \in OidsOf(i) PROVE n \notin 1..3
  BY <1>1, OidKinds DEF InPlainRange, InWorkerRange, InBelowRange
<1>2. ASSUME NEW n \in OidsOf(i), n \in OidsOf(j) PROVE FALSE
  <2>1. PICK d \in 0..MaxChannels :
          \/ Plain(n, DeviceOID(i) + d) /\ InPlainRange(n)
          \/ Worker(n, DeviceOID(i) + d) /\ InWorkerRange(n)
          \/ UnderChannel(n, DeviceOID(i) + d) /\ InBelowRange(n)
    BY <1>2, OidKinds
  <2>2. PICK e \in 0..MaxChannels :
          \/ Plain(n, DeviceOID(j) + e) /\ InPlainRange(n)
          \/ Worker(n, DeviceOID(j) + e) /\ InWorkerRange(n)
          \/ UnderChannel(n, DeviceOID(j) + e) /\ InBelowRange(n)
    BY <1>2, OidKinds
  <2> DEFINE x == DeviceOID(i) + d
             y == DeviceOID(j) + e
  <2>3. x # y /\ x \in Int /\ y \in Int
    BY IndexBounds DEF DeviceOID, MaxChannels
  <2>4. CASE Plain(n, x) /\ InPlainRange(n)
    BY <2>2, <2>3, <2>4 DEF Plain, InPlainRange, InWorkerRange, InBelowRange
  <2> HIDE DEF x, y
  <2>5. CASE Worker(n, x) /\ InWorkerRange(n)
    <3>1. Worker(n, y)
      BY <2>2, <2>5 DEF InPlainRange, InWorkerRange, InBelowRange, y
    <3> QED BY <2>3, <2>5, <3>1 DEF Worker
  <2>6. CASE UnderChannel(n, x) /\ InBelowRange(n)
    <3>1. UnderChannel(n, y)
      BY <2>2, <2>6 DEF InPlainRange, InWorkerRange, InBelowRange, y
    <3> QED BY <2>3, <2>6, <3>1 DEF UnderChannel
  <2> QED BY <2>1, <2>4, <2>5, <2>6 DEF x
<1> QED BY <1>1, <1>2

(***************************************************************************)
(* Within one device the object numbers, the workers and the objects below *)
(* a channel have identifiers of their own: an identifier names one        *)
(* channel and one position.                                               *)
(***************************************************************************)
THEOREM DeviceOidsAreDistinct ==
  ASSUME NEW i \in 1..LastIndex, NEW c \in 1..MaxChannels, NEW d \in 1..MaxChannels,
         NEW p \in SubOffsets, NEW q \in SubOffsets,
         NEW k \in 0..(ChannelWorkers - 1), NEW l \in 0..(ChannelWorkers - 1),
         NEW w \in 0..(DeviceWorkers - 1)
  PROVE  /\ ChannelWorkerOID(i, c, k) = ChannelWorkerOID(i, d, l) => c = d /\ k = l
         /\ SubObjectOID(i, c, p) = SubObjectOID(i, d, q) => c = d /\ p = q
         /\ DeviceWorkerOID(i, w) # ChannelWorkerOID(i, c, k)
         /\ ChannelWorkerOID(i, c, k) # SubObjectOID(i, d, p)
         /\ DeviceWorkerOID(i, w) # SubObjectOID(i, d, p)
<1>1. p \in 1..38 /\ q \in 1..38
  BY DEF SubOffsets
<1>2. c \in 1..4 /\ d \in 1..4 /\ k \in 0..6 /\ l \in 0..6 /\ w \in 0..3
  BY DEF MaxChannels, ChannelWorkers, DeviceWorkers
<1>3. i \in Int /\ 1 <= i /\ i <= 100
  BY IndexBounds
<1> QED
  BY <1>1, <1>2, <1>3 DEF ChannelWorkerOID, SubObjectOID, DeviceWorkerOID, ChannelOID, DeviceOID

(***************************************************************************)
(* The bound is tight: the second device worker of index 101 has the       *)
(* identifier of the gain block of channel 1 of index 1.  The number of    *)
(* devices is not limited anywhere in gateway.go.                          *)
(***************************************************************************)
THEOREM NextIndexCollides ==
  /\ DeviceWorkerOID(LastIndex + 1, 1) = SubObjectOID(1, 1, 1)
  /\ OidsOf(LastIndex + 1) \cap OidsOf(1) # {}
<1>1. DeviceWorkerOID(LastIndex + 1, 1) = 111001 /\ SubObjectOID(1, 1, 1) = 111001
  BY DEF LastIndex, DeviceWorkerOID, SubObjectOID, ChannelOID, DeviceOID
<1>2. DeviceWorkerOID(LastIndex + 1, 1) \in OidsOf(LastIndex + 1)
  BY DEF OidsOf, DeviceWorkers
<1>3. SubObjectOID(1, 1, 1) \in OidsOf(1)
  BY DEF OidsOf, MaxChannels, SubOffsets
<1> QED BY <1>1, <1>2, <1>3

-----------------------------------------------------------------------------
(***************************************************************************)
(* The entries below a device block, by position.                          *)
(***************************************************************************)
EntryRecords == [oid : Int, parent : Int, ch : 0..MaxChannels, class : Int]

\* The r-th entry of channel c of a receiver that is not a QLX-D.
OtherAt(i, c, r) ==
  IF r = 1 THEN Entry(ChannelOID(i, c), DeviceOID(i), c, BlockClass)
  ELSE Entry(ChannelWorkerOID(i, c, r - 2), ChannelOID(i, c), c, r + 8)

\* A model has between one and four channels.
LEMMA ChannelCount == \A m : MaxChannelsFromModel(m) \in 1..MaxChannels
  BY DEF MaxChannelsFromModel, MaxChannels

\* Identifiers are numbers.
LEMMA OidTypes ==
  ASSUME NEW i \in Int, NEW c \in Int, NEW k \in Int
  PROVE  /\ DeviceOID(i) \in Int /\ ChannelOID(i, c) \in Int
         /\ DeviceWorkerOID(i, k) \in Int /\ ChannelWorkerOID(i, c, k) \in Int
         /\ SubObjectOID(i, c, k) \in Int
  BY DEF DeviceOID, ChannelOID, DeviceWorkerOID, ChannelWorkerOID, SubObjectOID

LEMMA OtherChannel ==
  ASSUME NEW f, f # "QLXD", NEW i \in Int, NEW c \in 1..MaxChannels
  PROVE  /\ ChannelEntries(f, i, c) \in Seq(EntryRecords)
         /\ Len(ChannelEntries(f, i, c)) = 8
         /\ \A r \in 1..8 : ChannelEntries(f, i, c)[r] = OtherAt(i, c, r)
<1> DEFINE B == <<Entry(ChannelOID(i, c), DeviceOID(i), c, BlockClass)>>
           W == CreateChannelWorkers(f, i, c)
           cfg == ChannelWorkersConfig(f)
<1>1. Len(cfg) = 7 /\ \A n \in 1..7 : cfg[n] = n + 9
  BY DEF ChannelWorkersConfig
<1>2. \A n \in 1..7 : Entry(ChannelWorkerOID(i, c, n - 1), ChannelOID(i, c), c, n + 9) \in EntryRecords
  <2>1. \A n \in 1..7 : /\ ChannelWorkerOID(i, c, n - 1) \in Int /\ ChannelOID(i, c) \in Int
                        /\ n + 9 \in Int /\ c \in 0..MaxChannels
    BY OidTypes DEF MaxChannels
  <2> QED
    BY <2>1 DEF Entry, EntryRecords
<1>3. W = [n \in 1..7 |-> Entry(ChannelWorkerOID(i, c, n - 1), ChannelOID(i, c), c, n + 9)]
  BY <1>1 DEF CreateChannelWorkers
<1>4. W \in Seq(EntryRecords) /\ Len(W) = 7
  BY <1>2, <1>3
<1>5. B \in Seq(EntryRecords) /\ Len(B) = 1
  <2>1. Entry(ChannelOID(i, c), DeviceOID(i), c, BlockClass) \in EntryRecords
    BY OidTypes DEF Entry, EntryRecords, BlockClass, MaxChannels
  <2> QED
    BY <2>1
<1>6. ChannelEntries(f, i, c) = B \o W
  <2>1. ChannelEntries(f, i, c) = B \o W \o <<>>
    BY DEF ChannelEntries
  <2> HIDE DEF B, W
  <2> QED
    BY <1>4, <1>5, <2>1
<1>7. /\ B \o W \in Seq(EntryRecords)
      /\ Len(B \o W) = Len(B) + Len(W)
      /\ \A r \in 1..Len(B) + Len(W) : (B \o W)[r] = IF r <= Len(B) THEN B[r] ELSE W[r - Len(B)]
  <2> HIDE DEF B, W
  <2> QED
    BY <1>4, <1>5, ConcatProperties
<1>8. ASSUME NEW r \in 1..8
      PROVE  (B \o W)[r] = OtherAt(i, c, r)
  <2>1. CASE r = 1
    BY <1>4, <1>5, <2>1 DEF OtherAt
  <2>2. CASE r # 1
    <3>1. (B \o W)[r] = W[r - 1] /\ r - 1 \in 1..7
      <4>1. r \in 1..Len(B) + Len(W) /\ ~(r <= Len(B)) /\ r - Len(B) = r - 1 /\ r - 1 \in 1..7
        BY <1>4, <1>5, <2>2
      <4> HIDE DEF B, W
      <4> QED
        BY <1>7, <4>1
    <3>2. W[r - 1] = Entry(ChannelWorkerOID(i, c, (r - 1) - 1), ChannelOID(i, c), c, (r - 1) + 9)
      BY <1>3, <3>1
    <3>3. (r - 1) - 1 = r - 2 /\ (r - 1) + 9 = r + 8
      OBVIOUS
    <3> QED
      BY <2>2, <3>1, <3>2, <3>3 DEF OtherAt
  <2> QED
    BY <2>1, <2>2
<1>9. Len(B \o W) = 8
  BY <1>4, <1>5, <1>7
<1> QED
  BY <1>6, <1>7, <1>8, <1>9

\* The n-th position lies in a channel, at a place of its eight.
LEMMA Positions ==
  ASSUME NEW N \in 1..MaxChannels, NEW n \in 1..N * 8
  PROVE  /\ ((n - 1) \div 8) + 1 \in 1..N
         /\ ((n - 1) % 8) + 1 \in 1..8
         /\ n = 8 * (((n - 1) \div 8) + 1 - 1) + (((n - 1) % 8) + 1)
  BY DEF MaxChannels

LEMMA OtherBelow ==
  ASSUME NEW m, DetectModelFamily(m) # "QLXD", NEW i \in Int
  PROVE  /\ Below(i, m) \in Seq(EntryRecords)
         /\ Len(Below(i, m)) = MaxChannelsFromModel(m) * 8
         /\ \A n \in 1..MaxChannelsFromModel(m) * 8 :
              Below(i, m)[n] = OtherAt(i, ((n - 1) \div 8) + 1, ((n - 1) % 8) + 1)
<1> DEFINE f == DetectModelFamily(m)
           N == MaxChannelsFromModel(m)
           A == AllChannels(f, i, N)
           D == CreateDeviceWorkers(f, i)
<1>1. N \in 1..MaxChannels /\ 1 \in 1..MaxChannels
  BY ChannelCount DEF MaxChannels
<1>2. f # "QLXD"
  OBVIOUS
<1> HIDE DEF f, N
<1>3. Len(ChannelEntries(f, i, 1)) = 8
  BY <1>1, <1>2, OtherChannel
<1>4. A = [n \in 1..N * 8 |-> ChannelEntries(f, i, ((n - 1) \div 8) + 1)[((n - 1) % 8) + 1]]
  BY <1>3 DEF AllChannels
<1>5. ASSUME NEW n \in 1..N * 8
      PROVE  /\ A[n] = OtherAt(i, ((n - 1) \div 8) + 1, ((n - 1) % 8) + 1)
             /\ A[n] \in EntryRecords
  <2>1. PICK c \in 1..N, r \in 1..8 : c = ((n - 1) \div 8) + 1 /\ r = ((n - 1) % 8) + 1
    BY <1>1, Positions
  <2>2. A[n] = ChannelEntries(f, i, c)[r]
    BY <1>4, <2>1
  <2>3. c \in 1..MaxChannels
    BY <1>1 DEF MaxChannels
  <2> QED
    BY <1>2, <2>1, <2>2, <2>3, OtherChannel
<1>6. A \in Seq(EntryRecords) /\ Len(A) = N * 8
  <2>1. N * 8 \in Nat
    BY <1>1
  <2> QED
    BY <1>4, <1>5, <2>1
<1>7. D = <<>>
  BY <1>2 DEF CreateDeviceWorkers, DeviceWorkersConfig
<1>8. Below(i, m) = D \o A
  BY DEF Below, f, N
<1> HIDE DEF A, D
<1>9. Below(i, m) = A
  BY <1>6, <1>7, <1>8
<1> QED
  BY <1>5, <1>6, <1>9 DEF N

\* A block below a channel, and its workers.
LEMMA SubBlockEntries ==
  ASSUME NEW i \in Int, NEW block \in Int, NEW base \in Int, NEW cfg \in Seq(Int)
  PROVE  /\ SubBlock(i, 1, block, base, cfg) \in Seq(EntryRecords)
         /\ Len(SubBlock(i, 1, block, base, cfg)) = Len(cfg) + 1
         /\ SubBlock(i, 1, block, base, cfg)[1]
              = Entry(SubObjectOID(i, 1, block), ChannelOID(i, 1), 1, BlockClass)
         /\ \A n \in 2..Len(cfg) + 1 :
              SubBlock(i, 1, block, base, cfg)[n]
                = Entry(SubObjectOID(i, 1, base + n - 2), SubObjectOID(i, 1, block), 1, cfg[n - 1])
<1> DEFINE o == SubObjectOID(i, 1, block)
           b == Entry(o, ChannelOID(i, 1), 1, BlockClass)
           B == <<b>>
           W == [n \in 1..Len(cfg) |-> Entry(SubObjectOID(i, 1, base + n - 1), o, 1, cfg[n])]
<1>1. o \in Int /\ b \in EntryRecords
  <2>1. o \in Int /\ ChannelOID(i, 1) \in Int
    BY DEF SubObjectOID, ChannelOID, DeviceOID
  <2> HIDE DEF o
  <2> QED
    BY <2>1 DEF Entry, EntryRecords, BlockClass, MaxChannels
<1>2. SubBlock(i, 1, block, base, cfg) = B \o W
  BY DEF SubBlock
<1> HIDE DEF o
<1>3. \A n \in 1..Len(cfg) : Entry(SubObjectOID(i, 1, base + n - 1), o, 1, cfg[n]) \in EntryRecords
  <2>1. \A n \in 1..Len(cfg) : SubObjectOID(i, 1, base + n - 1) \in Int /\ cfg[n] \in Int
    BY DEF SubObjectOID, ChannelOID, DeviceOID
  <2> QED
    BY <1>1, <2>1 DEF Entry, EntryRecords, MaxChannels
<1>4. W \in Seq(EntryRecords) /\ Len(W) = Len(cfg)
  BY <1>3
<1>5. B \in Seq(EntryRecords) /\ Len(B) = 1 /\ B[1] = b
  BY <1>1
<1>6. /\ B \o W \in Seq(EntryRecords)
      /\ Len(B \o W) = Len(B) + Len(W)
      /\ \A r \in 1..Len(B) + Len(W) : (B \o W)[r] = IF r <= Len(B) THEN B[r] ELSE W[r - Len(B)]
  <2> HIDE DEF B, W
  <2> QED
    BY <1>4, <1>5, ConcatProperties
<1>7. (B \o W)[1] = b /\ \A n \in 2..Len(cfg) + 1 : (B \o W)[n] = W[n - 1] /\ n - 1 \in 1..Len(cfg)
  <2> HIDE DEF B, W, b
  <2> QED
    BY <1>4, <1>5, <1>6
<1>8. ASSUME NEW n \in 2..Len(cfg) + 1
      PROVE  (B \o W)[n] = Entry(SubObjectOID(i, 1, base + n - 2), o, 1, cfg[n - 1])
  <2>1. W[n - 1] = Entry(SubObjectOID(i, 1, base + (n - 1) - 1), o, 1, cfg[n - 1])
    BY <1>7
  <2>2. base + (n - 1) - 1 = base + n - 2
    OBVIOUS
  <2> QED
    BY <1>7, <2>1, <2>2
<1>9. B \o W \in Seq(EntryRecords) /\ Len(B \o W) = Len(cfg) + 1
  <2> HIDE DEF B, W
  <2> QED
    BY <1>4, <1>5, <1>6
<1>10. (B \o W)[1] = b
  BY <1>7
<1> HIDE DEF B, W
<1> QED
  BY <1>2, <1>8, <1>9, <1>10 DEF o

\* The entries of a QLX-D, by position.
QlxdOid(i, n) ==
  IF n <= 4 THEN DeviceWorkerOID(i, n - 1)
  ELSE IF n = 5 THEN ChannelOID(i, 1)
  ELSE IF n <= 9 THEN ChannelWorkerOID(i, 1, n - 6)
  ELSE SubObjectOID(i, 1, IF n = 10 THEN 1 ELSE IF n = 11 THEN 10
                          ELSE IF n = 12 THEN 2 ELSE IF n <= 20 THEN n + 7
                          ELSE IF n = 21 THEN 3 ELSE n + 8)

\* The position of the parent; 0 is the device block.
QlxdParent(n) ==
  IF n <= 5 THEN 0 ELSE IF n = 11 THEN 10
  ELSE IF n \in 13..20 THEN 12 ELSE IF n \in 22..30 THEN 21 ELSE 5

LEMMA QlxdChannel ==
  ASSUME NEW i \in Int
  PROVE  LET s == ChannelEntries("QLXD", i, 1)
             C == ChannelWorkersConfig("QLXD") IN
         /\ s \in Seq(EntryRecords)
         /\ Len(s) = 26
         /\ s[1] = Entry(ChannelOID(i, 1), DeviceOID(i), 1, BlockClass)
         /\ \A n \in 2..5 : s[n] = Entry(ChannelWorkerOID(i, 1, n - 2), ChannelOID(i, 1), 1, C[n - 1])
         /\ \A n \in 6..7 : s[n] = SubBlock(i, 1, 1, 10, <<GainClass>>)[n - 5]
         /\ \A n \in 8..16 : s[n] = SubBlock(i, 1, 2, 20, BatteryWorkersConfig)[n - 7]
         /\ \A n \in 17..26 : s[n] = SubBlock(i, 1, 3, 30, TransmitterWorkersConfig)[n - 16]
<1> DEFINE C == ChannelWorkersConfig("QLXD")
           b == Entry(ChannelOID(i, 1), DeviceOID(i), 1, BlockClass)
           B == <<b>>
           W == CreateChannelWorkers("QLXD", i, 1)
           S1 == SubBlock(i, 1, 1, 10, <<GainClass>>)
           S2 == SubBlock(i, 1, 2, 20, BatteryWorkersConfig)
           S3 == SubBlock(i, 1, 3, 30, TransmitterWorkersConfig)
<1>1. Len(C) = 4 /\ C \in Seq(Int)
  BY DEF ChannelWorkersConfig
<1>2. B \in Seq(EntryRecords) /\ Len(B) = 1 /\ B[1] = b
  <2>1. b \in EntryRecords
    BY OidTypes DEF Entry, EntryRecords, BlockClass, MaxChannels
  <2> QED
    BY <2>1
<1>3. W = [n \in 1..4 |-> Entry(ChannelWorkerOID(i, 1, n - 1), ChannelOID(i, 1), 1, C[n])]
  BY <1>1 DEF CreateChannelWorkers
<1> HIDE DEF C
<1>4. W \in Seq(EntryRecords) /\ Len(W) = 4
  <2>0. \A n \in 1..4 : C[n] \in Int
    BY DEF C, ChannelWorkersConfig
  <2>1. \A n \in 1..4 : /\ ChannelWorkerOID(i, 1, n - 1) \in Int /\ ChannelOID(i, 1) \in Int
                        /\ C[n] \in Int /\ 1 \in 0..MaxChannels
    BY <2>0 DEF MaxChannels, ChannelWorkerOID, ChannelOID, DeviceOID
  <2>2. \A n \in 1..4 : Entry(ChannelWorkerOID(i, 1, n - 1), ChannelOID(i, 1), 1, C[n]) \in EntryRecords
    BY <2>1 DEF Entry, EntryRecords
  <2> HIDE DEF W
  <2> QED
    BY <1>3, <2>2
<1>5. /\ S1 \in Seq(EntryRecords) /\ Len(S1) = 2
      /\ S2 \in Seq(EntryRecords) /\ Len(S2) = 9
      /\ S3 \in Seq(EntryRecords) /\ Len(S3) = 10
  <2>1. <<GainClass>> \in Seq(Int) /\ Len(<<GainClass>>) = 1
    BY DEF GainClass
  <2>2. BatteryWorkersConfig \in Seq(Int) /\ Len(BatteryWorkersConfig) = 8
    BY DEF BatteryWorkersConfig
  <2>3. TransmitterWorkersConfig \in Seq(Int) /\ Len(TransmitterWorkersConfig) = 9
    BY DEF TransmitterWorkersConfig
  <2> HIDE DEF S1, S2, S3
  <2>4. 1 \in Int /\ 2 \in Int /\ 3 \in Int /\ 10 \in Int /\ 20 \in Int /\ 30 \in Int
    OBVIOUS
  <2>0. \A block, base \in Int, cfg \in Seq(Int) :
          /\ SubBlock(i, 1, block, base, cfg) \in Seq(EntryRecords)
          /\ Len(SubBlock(i, 1, block, base, cfg)) = Len(cfg) + 1
    BY SubBlockEntries
  <2>5. S1 \in Seq(EntryRecords) /\ Len(S1) = Len(<<GainClass>>) + 1
    BY <2>0, <2>1, <2>4 DEF S1
  <2>6. S2 \in Seq(EntryRecords) /\ Len(S2) = Len(BatteryWorkersConfig) + 1
    BY <2>0, <2>2, <2>4 DEF S2
  <2>7. S3 \in Seq(EntryRecords) /\ Len(S3) = Len(TransmitterWorkersConfig) + 1
    BY <2>0, <2>3, <2>4 DEF S3
  <2> QED
    BY <2>1, <2>2, <2>3, <2>5, <2>6, <2>7
<1>6. ChannelEntries("QLXD", i, 1) = (B \o W) \o ((S1 \o S2) \o S3)
  BY DEF ChannelEntries
<1> HIDE DEF B, W, S1, S2, S3, b
<1>7. /\ B \o W \in Seq(EntryRecords) /\ Len(B \o W) = 5
      /\ (B \o W)[1] = b /\ \A n \in 2..5 : (B \o W)[n] = W[n - 1]
  <2>1. /\ B \o W \in Seq(EntryRecords) /\ Len(B \o W) = Len(B) + Len(W)
        /\ \A r \in 1..Len(B) + Len(W) : (B \o W)[r] = IF r <= Len(B) THEN B[r] ELSE W[r - Len(B)]
    BY <1>2, <1>4, ConcatProperties
  <2> QED
    BY <1>2, <1>4, <2>1
<1> DEFINE S12 == S1 \o S2
           S123 == S12 \o S3
           P == B \o W
<1>8. /\ S12 \in Seq(EntryRecords) /\ Len(S12) = 11
      /\ \A n \in 1..2 : S12[n] = S1[n]
      /\ \A n \in 3..11 : S12[n] = S2[n - 2]
  <2>1. /\ S12 \in Seq(EntryRecords) /\ Len(S12) = Len(S1) + Len(S2)
        /\ \A r \in 1..Len(S1) + Len(S2) : S12[r] = IF r <= Len(S1) THEN S1[r] ELSE S2[r - Len(S1)]
    BY <1>5, ConcatProperties
  <2> HIDE DEF S12
  <2> QED
    BY <1>5, <2>1
<1> HIDE DEF S12
<1>9. /\ S123 \in Seq(EntryRecords) /\ Len(S123) = 21
      /\ \A n \in 1..11 : S123[n] = S12[n]
      /\ \A n \in 12..21 : S123[n] = S3[n - 11]
  <2>1. /\ S123 \in Seq(EntryRecords) /\ Len(S123) = Len(S12) + Len(S3)
        /\ \A r \in 1..Len(S12) + Len(S3) : S123[r] = IF r <= Len(S12) THEN S12[r] ELSE S3[r - Len(S12)]
    BY <1>5, <1>8, ConcatProperties
  <2> HIDE DEF S123
  <2> QED
    BY <1>5, <1>8, <2>1
<1> HIDE DEF S123, P
<1> DEFINE s == P \o S123
<1>10. /\ s \in Seq(EntryRecords) /\ Len(s) = 26
       /\ \A n \in 1..5 : s[n] = P[n]
       /\ \A n \in 6..26 : s[n] = S123[n - 5]
  <2>0. P \in Seq(EntryRecords) /\ Len(P) = 5
    BY <1>7 DEF P
  <2>1. /\ s \in Seq(EntryRecords) /\ Len(s) = Len(P) + Len(S123)
        /\ \A r \in 1..Len(P) + Len(S123) : s[r] = IF r <= Len(P) THEN P[r] ELSE S123[r - Len(P)]
    BY <2>0, <1>9, ConcatProperties
  <2> HIDE DEF s
  <2> QED
    BY <2>0, <1>9, <2>1
<1>11. ChannelEntries("QLXD", i, 1) = s
  BY <1>6 DEF P, S123, S12
<1> HIDE DEF s
<1>12. (\A n \in 1..5 : s[n] = P[n]) /\ (\A n \in 6..26 : s[n] = S123[n - 5])
  BY <1>10
<1>13. (\A n \in 1..11 : S123[n] = S12[n]) /\ (\A n \in 12..21 : S123[n] = S3[n - 11])
  BY <1>9
<1>14. (\A n \in 1..2 : S12[n] = S1[n]) /\ (\A n \in 3..11 : S12[n] = S2[n - 2])
  BY <1>8
<1>15. P[1] = b /\ \A n \in 2..5 : P[n] = W[n - 1]
  BY <1>7 DEF P
<1>16. s[1] = b
  BY <1>12, <1>15
<1>17. ASSUME NEW n \in 2..5
       PROVE  s[n] = Entry(ChannelWorkerOID(i, 1, n - 2), ChannelOID(i, 1), 1, C[n - 1])
  <2>1. s[n] = W[n - 1] /\ n - 1 \in 1..4
    BY <1>12, <1>15
  <2>2. W[n - 1] = Entry(ChannelWorkerOID(i, 1, (n - 1) - 1), ChannelOID(i, 1), 1, C[n - 1])
    BY <1>3, <2>1
  <2>3. (n - 1) - 1 = n - 2
    OBVIOUS
  <2> QED
    BY <2>1, <2>2, <2>3
<1>18. ASSUME NEW n \in 6..7
       PROVE  s[n] = S1[n - 5]
  BY <1>12, <1>13, <1>14
<1>19. ASSUME NEW n \in 8..16
       PROVE  s[n] = S2[n - 7]
  <2>1. s[n] = S12[n - 5] /\ n - 5 \in 3..11
    BY <1>12, <1>13
  <2>2. (n - 5) - 2 = n - 7
    OBVIOUS
  <2> QED
    BY <1>14, <2>1, <2>2
<1>20. ASSUME NEW n \in 17..26
       PROVE  s[n] = S3[n - 16]
  <2>1. s[n] = S123[n - 5] /\ n - 5 \in 12..21
    BY <1>12
  <2>2. (n - 5) - 11 = n - 16
    OBVIOUS
  <2> QED
    BY <1>13, <2>1, <2>2
<1>21. s \in Seq(EntryRecords) /\ Len(s) = 26
  BY <1>10
<1> QED
  BY <1>11, <1>16, <1>17, <1>18, <1>19, <1>20, <1>21 DEF C, b, S1, S2, S3

\* Classes, by position: those of the parameters differ from each other.
QlxdClass(n) ==
  IF n <= 4 THEN n + 18 ELSE IF n \in 6..8 THEN n + 6 ELSE IF n = 9 THEN 40
  ELSE IF n = 11 THEN 10 ELSE IF n \in 13..20 THEN n + 10
  ELSE IF n \in 22..30 THEN n + 9 ELSE BlockClass

\* The n-th entry of a QLX-D.
QlxdAt(i, n) ==
  Entry(QlxdOid(i, n),
        IF QlxdParent(n) = 0 THEN DeviceOID(i) ELSE QlxdOid(i, QlxdParent(n)),
        IF n <= 4 THEN 0 ELSE 1,
        QlxdClass(n))

\* The classes that the tables of workers name.
LEMMA QlxdConfigs ==
  /\ Len(DeviceWorkersConfig("QLXD")) = 4
  /\ \A n \in 1..4 : DeviceWorkersConfig("QLXD")[n] = n + 18
  /\ \A n \in 1..3 : ChannelWorkersConfig("QLXD")[n] = n + 11
  /\ ChannelWorkersConfig("QLXD")[4] = 40
  /\ BatteryWorkersConfig \in Seq(Int) /\ Len(BatteryWorkersConfig) = 8
  /\ \A n \in 1..8 : BatteryWorkersConfig[n] = n + 22
  /\ TransmitterWorkersConfig \in Seq(Int) /\ Len(TransmitterWorkersConfig) = 9
  /\ \A n \in 1..9 : TransmitterWorkersConfig[n] = n + 30
<1>1. /\ Len(DeviceWorkersConfig("QLXD")) = 4
      /\ \A n \in 1..4 : DeviceWorkersConfig("QLXD")[n] = n + 18
  BY DEF DeviceWorkersConfig
<1>2. \A n \in 1..3 : ChannelWorkersConfig("QLXD")[n] = n + 11
  BY DEF ChannelWorkersConfig
<1>3. ChannelWorkersConfig("QLXD")[4] = 40
  BY DEF ChannelWorkersConfig
<1>4. /\ BatteryWorkersConfig \in Seq(Int) /\ Len(BatteryWorkersConfig) = 8
      /\ \A n \in 1..8 : BatteryWorkersConfig[n] = n + 22
  BY DEF BatteryWorkersConfig
<1>5. /\ TransmitterWorkersConfig \in Seq(Int) /\ Len(TransmitterWorkersConfig) = 9
      /\ \A n \in 1..9 : TransmitterWorkersConfig[n] = n + 30
  BY DEF TransmitterWorkersConfig
<1> QED
  BY <1>1, <1>2, <1>3, <1>4, <1>5

LEMMA QlxdBelow ==
  ASSUME NEW i \in Int
  PROVE  /\ Below(i, "QLXD") \in Seq(EntryRecords)
         /\ Len(Below(i, "QLXD")) = 30
         /\ \A n \in 1..30 : Below(i, "QLXD")[n] = QlxdAt(i, n)
<1> DEFINE B == Below(i, "QLXD")
           D == CreateDeviceWorkers("QLXD", i)
           C == ChannelEntries("QLXD", i, 1)
           A == AllChannels("QLXD", i, 1)
           T == DeviceWorkersConfig("QLXD")
           S1 == SubBlock(i, 1, 1, 10, <<GainClass>>)
           S2 == SubBlock(i, 1, 2, 20, BatteryWorkersConfig)
           S3 == SubBlock(i, 1, 3, 30, TransmitterWorkersConfig)
<1>1. B = D \o A
  BY DEF Below, DetectModelFamily, MaxChannelsFromModel
<1>2. Len(T) = 4 /\ \A n \in 1..4 : T[n] = n + 18
  BY QlxdConfigs
<1>3. D = [n \in 1..4 |-> Entry(DeviceWorkerOID(i, n - 1), DeviceOID(i), 0, n + 18)]
  <2> HIDE DEF T
  <2>1. D = [n \in 1..4 |-> Entry(DeviceWorkerOID(i, n - 1), DeviceOID(i), 0, T[n])]
    BY <1>2 DEF CreateDeviceWorkers, T
  <2> QED
    BY <1>2, <2>1
<1>4. /\ C \in Seq(EntryRecords) /\ Len(C) = 26
      /\ C[1] = Entry(ChannelOID(i, 1), DeviceOID(i), 1, BlockClass)
      /\ \A n \in 2..5 : C[n] = Entry(ChannelWorkerOID(i, 1, n - 2), ChannelOID(i, 1), 1,
                                      ChannelWorkersConfig("QLXD")[n - 1])
      /\ \A n \in 6..7 : C[n] = S1[n - 5]
      /\ \A n \in 8..16 : C[n] = S2[n - 7]
      /\ \A n \in 17..26 : C[n] = S3[n - 16]
  BY QlxdChannel
<1> HIDE DEF T, D, C, S1, S2, S3
<1>5. \A n \in 1..4 : Entry(DeviceWorkerOID(i, n - 1), DeviceOID(i), 0, n + 18) \in EntryRecords
  <2>1. \A n \in 1..4 : /\ DeviceWorkerOID(i, n - 1) \in Int /\ DeviceOID(i) \in Int
                        /\ 0 \in 0..MaxChannels
    BY DEF DeviceWorkerOID, DeviceOID, MaxChannels
  <2> QED
    BY <2>1 DEF Entry, EntryRecords
<1>6. D \in Seq(EntryRecords) /\ Len(D) = 4
  BY <1>3, <1>5
<1>7. A = C
  <2>1. A = [n \in 1..1 * 26 |-> ChannelEntries("QLXD", i, ((n - 1) \div 26) + 1)[((n - 1) % 26) + 1]]
    BY <1>4 DEF AllChannels, C
  <2>2. 1 * 26 = 26 /\ \A n \in 1..26 : ((n - 1) \div 26) + 1 = 1 /\ ((n - 1) % 26) + 1 = n
    OBVIOUS
  <2>3. A = [n \in 1..26 |-> C[n]]
    BY <2>1, <2>2 DEF C
  <2>4. C = [n \in 1..26 |-> C[n]]
    BY <1>4
  <2> QED
    BY <2>3, <2>4
<1>8. /\ D \o C \in Seq(EntryRecords)
      /\ Len(D \o C) = Len(D) + Len(C)
      /\ \A r \in 1..Len(D) + Len(C) : (D \o C)[r] = IF r <= Len(D) THEN D[r] ELSE C[r - Len(D)]
  BY <1>4, <1>6, ConcatProperties
<1> DEFINE E == D \o C
<1>9. /\ E \in Seq(EntryRecords) /\ Len(E) = 30
      /\ \A n \in 1..4 : E[n] = D[n]
      /\ \A n \in 5..30 : E[n] = C[n - 4]
  <2> HIDE DEF E
  <2>1. /\ E \in Seq(EntryRecords) /\ Len(E) = Len(D) + Len(C)
        /\ \A r \in 1..Len(D) + Len(C) : E[r] = IF r <= Len(D) THEN D[r] ELSE C[r - Len(D)]
    BY <1>8 DEF E
  <2> QED
    BY <1>4, <1>6, <2>1
<1>10. B = E
  BY <1>1, <1>7
<1> HIDE DEF E, B
<1>11. (\A n \in 1..4 : E[n] = D[n]) /\ (\A n \in 5..30 : E[n] = C[n - 4])
  BY <1>9
<1>12. /\ S1[1] = Entry(SubObjectOID(i, 1, 1), ChannelOID(i, 1), 1, BlockClass)
       /\ S2[1] = Entry(SubObjectOID(i, 1, 2), ChannelOID(i, 1), 1, BlockClass)
       /\ S3[1] = Entry(SubObjectOID(i, 1, 3), ChannelOID(i, 1), 1, BlockClass)
       /\ S1[2] = Entry(SubObjectOID(i, 1, 10), SubObjectOID(i, 1, 1), 1, 10)
       /\ \A n \in 2..9 : S2[n] = Entry(SubObjectOID(i, 1, 20 + n - 2), SubObjectOID(i, 1, 2), 1,
                                        BatteryWorkersConfig[n - 1])
       /\ \A n \in 2..10 : S3[n] = Entry(SubObjectOID(i, 1, 30 + n - 2), SubObjectOID(i, 1, 3), 1,
                                         TransmitterWorkersConfig[n - 1])
  <2>0. \A block, base \in Int, cfg \in Seq(Int) :
          /\ SubBlock(i, 1, block, base, cfg)[1]
               = Entry(SubObjectOID(i, 1, block), ChannelOID(i, 1), 1, BlockClass)
          /\ \A n \in 2..Len(cfg) + 1 :
               SubBlock(i, 1, block, base, cfg)[n]
                 = Entry(SubObjectOID(i, 1, base + n - 2), SubObjectOID(i, 1, block), 1, cfg[n - 1])
    BY SubBlockEntries
  <2>1. <<GainClass>> \in Seq(Int) /\ Len(<<GainClass>>) = 1 /\ <<GainClass>>[1] = 10
    BY DEF GainClass
  <2> DEFINE g == <<GainClass>>
             b == BatteryWorkersConfig
             t == TransmitterWorkersConfig
  <2>2. b \in Seq(Int) /\ Len(b) = 8 /\ t \in Seq(Int) /\ Len(t) = 9 /\ g \in Seq(Int) /\ Len(g) = 1 /\ g[1] = 10
    BY <2>1, QlxdConfigs
  <2> HIDE DEF g, b, t
  <2>a. 1 \in Int /\ 2 \in Int /\ 3 \in Int /\ 10 \in Int /\ 20 \in Int /\ 30 \in Int
    OBVIOUS
  <2>3. /\ SubBlock(i, 1, 1, 10, g)[1] = Entry(SubObjectOID(i, 1, 1), ChannelOID(i, 1), 1, BlockClass)
        /\ \A n \in 2..Len(g) + 1 :
               SubBlock(i, 1, 1, 10, g)[n]
                 = Entry(SubObjectOID(i, 1, 10 + n - 2), SubObjectOID(i, 1, 1), 1, g[n - 1])
    BY <2>0, <2>2, <2>a, Zenon
  <2>4. /\ SubBlock(i, 1, 2, 20, b)[1] = Entry(SubObjectOID(i, 1, 2), ChannelOID(i, 1), 1, BlockClass)
        /\ \A n \in 2..Len(b) + 1 :
               SubBlock(i, 1, 2, 20, b)[n]
                 = Entry(SubObjectOID(i, 1, 20 + n - 2), SubObjectOID(i, 1, 2), 1, b[n - 1])
    BY <2>0, <2>2, <2>a, Zenon
  <2>5. /\ SubBlock(i, 1, 3, 30, t)[1] = Entry(SubObjectOID(i, 1, 3), ChannelOID(i, 1), 1, BlockClass)
        /\ \A n \in 2..Len(t) + 1 :
               SubBlock(i, 1, 3, 30, t)[n]
                 = Entry(SubObjectOID(i, 1, 30 + n - 2), SubObjectOID(i, 1, 3), 1, t[n - 1])
    BY <2>0, <2>2, <2>a, Zenon
  <2>6. S1 = SubBlock(i, 1, 1, 10, g) /\ S2 = SubBlock(i, 1, 2, 20, b) /\ S3 = SubBlock(i, 1, 3, 30, t)
    BY DEF S1, S2, S3, g, b, t
  <2>7. S1[2] = Entry(SubObjectOID(i, 1, 10), SubObjectOID(i, 1, 1), 1, 10)
    <3>1. 2 \in 2..Len(g) + 1 /\ 10 + 2 - 2 = 10 /\ 2 - 1 = 1
      BY <2>2
    <3> QED
      BY <2>2, <2>3, <2>6, <3>1
  <2>8. Len(b) + 1 = 9 /\ Len(t) + 1 = 10
    BY <2>2
  <2>9. \A n \in 2..9 : S2[n] = Entry(SubObjectOID(i, 1, 20 + n - 2), SubObjectOID(i, 1, 2), 1, b[n - 1])
    BY <2>4, <2>6, <2>8
  <2>10. \A n \in 2..10 : S3[n] = Entry(SubObjectOID(i, 1, 30 + n - 2), SubObjectOID(i, 1, 3), 1, t[n - 1])
    BY <2>5, <2>6, <2>8
  <2> QED
    BY <2>3, <2>4, <2>5, <2>6, <2>7, <2>9, <2>10 DEF b, t
<1>13. ASSUME NEW n \in 1..4
       PROVE  E[n] = QlxdAt(i, n)
  <2>1. E[n] = Entry(DeviceWorkerOID(i, n - 1), DeviceOID(i), 0, n + 18)
    BY <1>3, <1>11
  <2> QED
    BY <2>1 DEF QlxdAt, QlxdOid, QlxdParent, QlxdClass
<1>14. E[5] = QlxdAt(i, 5)
  <2>1. 5 - 4 = 1 /\ 5 \in 5..30
    OBVIOUS
  <2>2. E[5] = C[1]
    BY <1>11, <2>1
  <2> QED
    BY <1>4, <2>2 DEF QlxdAt, QlxdOid, QlxdParent, QlxdClass
<1>15. ASSUME NEW n \in 6..9
       PROVE  E[n] = QlxdAt(i, n)
  <2>1. E[n] = C[n - 4] /\ n - 4 \in 2..5 /\ (n - 4) - 2 = n - 6 /\ (n - 4) - 1 = n - 5
    BY <1>11
  <2>2. E[n] = Entry(ChannelWorkerOID(i, 1, n - 6), ChannelOID(i, 1), 1, ChannelWorkersConfig("QLXD")[n - 5])
    BY <1>4, <2>1
  <2>3. ChannelWorkersConfig("QLXD")[n - 5] = QlxdClass(n)
    <3>1. CASE n = 9
      BY <3>1, QlxdConfigs DEF QlxdClass, BlockClass
    <3>2. CASE n \in 6..8
      <4>1. n - 5 \in 1..3 /\ (n - 5) + 11 = n + 6
        BY <3>2
      <4>2. ChannelWorkersConfig("QLXD")[n - 5] = (n - 5) + 11
        BY <4>1, QlxdConfigs
      <4>3. QlxdClass(n) = n + 6
        BY <3>2 DEF QlxdClass, BlockClass
      <4> QED
        BY <4>1, <4>2, <4>3
    <3> QED
      BY <3>1, <3>2
  <2>4. QlxdParent(n) = 5 /\ ~(n <= 4)
    BY DEF QlxdParent
  <2>5. QlxdOid(i, n) = ChannelWorkerOID(i, 1, n - 6) /\ QlxdOid(i, 5) = ChannelOID(i, 1)
    BY DEF QlxdOid
  <2> QED
    BY <2>2, <2>3, <2>4, <2>5 DEF QlxdAt
<1>16. \A n \in {10, 12, 21} : E[n] = QlxdAt(i, n)
  <2>1. E[10] = C[6] /\ E[12] = C[8] /\ E[21] = C[17]
    <3>1. 10 - 4 = 6 /\ 12 - 4 = 8 /\ 21 - 4 = 17 /\ 10 \in 5..30 /\ 12 \in 5..30 /\ 21 \in 5..30
      OBVIOUS
    <3> QED
      BY <1>11, <3>1
  <2>2. C[6] = S1[1] /\ C[8] = S2[1] /\ C[17] = S3[1]
    <3>1. 6 - 5 = 1 /\ 8 - 7 = 1 /\ 17 - 16 = 1 /\ 6 \in 6..7 /\ 8 \in 8..16 /\ 17 \in 17..26
      OBVIOUS
    <3> QED
      BY <1>4, <3>1
  <2>4. \A n \in {10, 12, 21} : QlxdParent(n) = 5 /\ ~(n <= 4) /\ QlxdClass(n) = BlockClass
    BY DEF QlxdParent, QlxdClass, BlockClass
  <2>5. /\ QlxdOid(i, 10) = SubObjectOID(i, 1, 1) /\ QlxdOid(i, 12) = SubObjectOID(i, 1, 2)
        /\ QlxdOid(i, 21) = SubObjectOID(i, 1, 3) /\ QlxdOid(i, 5) = ChannelOID(i, 1)
    BY DEF QlxdOid
  <2> QED
    BY <1>12, <2>1, <2>2, <2>4, <2>5 DEF QlxdAt
<1>17. E[11] = QlxdAt(i, 11)
  <2>1. 11 - 4 = 7 /\ 7 - 5 = 2 /\ 11 \in 5..30 /\ 7 \in 6..7
    OBVIOUS
  <2>2. E[11] = S1[2]
    BY <1>4, <1>11, <2>1
  <2>6. QlxdParent(11) = 10 /\ ~(11 <= 4) /\ QlxdClass(11) = 10
    BY DEF QlxdParent, QlxdClass, BlockClass
  <2>7. QlxdOid(i, 10) = SubObjectOID(i, 1, 1) /\ QlxdOid(i, 11) = SubObjectOID(i, 1, 10)
    BY DEF QlxdOid
  <2> QED
    BY <1>12, <2>2, <2>6, <2>7 DEF QlxdAt
<1>18. ASSUME NEW n \in 13..20
       PROVE  E[n] = QlxdAt(i, n)
  <2>1. E[n] = C[n - 4] /\ n - 4 \in 8..16 /\ (n - 4) - 7 = n - 11 /\ n - 11 \in 2..9
    BY <1>11
  <2>2. E[n] = S2[n - 11]
    BY <1>4, <2>1
  <2>3. 20 + (n - 11) - 2 = n + 7 /\ (n - 11) - 1 = n - 12 /\ n - 12 \in 1..8 /\ (n - 12) + 22 = n + 10
    OBVIOUS
  <2>4. S2[n - 11] = Entry(SubObjectOID(i, 1, n + 7), SubObjectOID(i, 1, 2), 1, BatteryWorkersConfig[n - 12])
    BY <1>12, <2>1, <2>3
  <2>5. BatteryWorkersConfig[n - 12] = n + 10
    BY <2>3, QlxdConfigs
  <2>6. QlxdParent(n) = 12 /\ ~(n <= 4) /\ QlxdClass(n) = n + 10
    BY DEF QlxdParent, QlxdClass, BlockClass
  <2>7. QlxdOid(i, 12) = SubObjectOID(i, 1, 2) /\ QlxdOid(i, n) = SubObjectOID(i, 1, n + 7)
    BY DEF QlxdOid
  <2> QED
    BY <2>2, <2>4, <2>5, <2>6, <2>7 DEF QlxdAt
<1>19. ASSUME NEW n \in 22..30
       PROVE  E[n] = QlxdAt(i, n)
  <2>1. E[n] = C[n - 4] /\ n - 4 \in 17..26 /\ (n - 4) - 16 = n - 20 /\ n - 20 \in 2..10
    BY <1>11
  <2>2. E[n] = S3[n - 20]
    BY <1>4, <2>1
  <2>3. 30 + (n - 20) - 2 = n + 8 /\ (n - 20) - 1 = n - 21 /\ n - 21 \in 1..9 /\ (n - 21) + 30 = n + 9
    OBVIOUS
  <2>4. S3[n - 20] = Entry(SubObjectOID(i, 1, n + 8), SubObjectOID(i, 1, 3), 1, TransmitterWorkersConfig[n - 21])
    BY <1>12, <2>1, <2>3
  <2>5. TransmitterWorkersConfig[n - 21] = n + 9
    BY <2>3, QlxdConfigs
  <2>6. QlxdParent(n) = 21 /\ ~(n <= 4) /\ QlxdClass(n) = n + 9
    BY DEF QlxdParent, QlxdClass, BlockClass
  <2>7. QlxdOid(i, 21) = SubObjectOID(i, 1, 3) /\ QlxdOid(i, n) = SubObjectOID(i, 1, n + 8)
    BY DEF QlxdOid
  <2> QED
    BY <2>2, <2>4, <2>5, <2>6, <2>7 DEF QlxdAt
<1>20. \A n \in 1..30 : n \in 1..4 \/ n = 5 \/ n \in 6..9 \/ n \in {10, 12, 21} \/ n = 11
                        \/ n \in 13..20 \/ n \in 22..30
  OBVIOUS
<1>21. \A n \in 1..30 : E[n] = QlxdAt(i, n)
  BY <1>13, <1>14, <1>15, <1>16, <1>17, <1>18, <1>19, <1>20
<1> QED
  BY <1>9, <1>10, <1>21 DEF B

(***************************************************************************)
(* What makes a list of entries below the block of device i safe to be     *)
(* registered and added one by one: identifiers of the device, each for    *)
(* one entry; registered classes; parents that come first; and for a       *)
(* channel, or the device, one worker per parameter.                       *)
(***************************************************************************)
GoodEntry(i, m, e) ==
  /\ e \in EntryRecords
  /\ e.oid \in OidsOf(i) \ {DeviceOID(i)}
  /\ e.class \in RegisteredClasses(DetectModelFamily(m)) \cup {BlockClass}
  /\ e.class # BlockClass /\ e.ch = 0 => DetectModelFamily(m) = "QLXD"

ParentBefore(i, B, n) ==
  \/ B[n].parent = DeviceOID(i)
  \/ \E k \in 1..n - 1 : B[k].oid = B[n].parent /\ B[k].class = BlockClass

WellFormed(i, m, B) ==
  /\ B \in Seq(EntryRecords)
  /\ \A n \in 1..Len(B) : GoodEntry(i, m, B[n]) /\ ParentBefore(i, B, n)
  /\ \A n, k \in 1..Len(B) : B[n].oid = B[k].oid => n = k
  /\ \A n, k \in 1..Len(B) :
       B[n].class # BlockClass /\ B[n].ch = B[k].ch /\ B[n].class = B[k].class => n = k

\* One channel of a receiver that is not a QLX-D.
LEMMA OtherEntries ==
  ASSUME NEW m, DetectModelFamily(m) # "QLXD", NEW i \in 1..LastIndex
  PROVE  \A c \in 1..MaxChannels, r \in 1..8 :
           /\ OtherAt(i, c, r).oid \in OidsOf(i) \ {DeviceOID(i)}
           /\ OtherAt(i, c, r).class \in RegisteredClasses(DetectModelFamily(m)) \cup {BlockClass}
           /\ OtherAt(i, c, r).ch = c
           /\ OtherAt(i, c, r).class = IF r = 1 THEN BlockClass ELSE r + 8
           /\ OtherAt(i, c, r).parent = IF r = 1 THEN DeviceOID(i) ELSE ChannelOID(i, c)
           /\ OtherAt(i, c, r).oid = IF r = 1 THEN ChannelOID(i, c) ELSE ChannelWorkerOID(i, c, r - 2)
<1> SUFFICES ASSUME NEW c \in 1..MaxChannels, NEW r \in 1..8
             PROVE  /\ OtherAt(i, c, r).oid \in OidsOf(i) \ {DeviceOID(i)}
                    /\ OtherAt(i, c, r).class \in RegisteredClasses(DetectModelFamily(m)) \cup {BlockClass}
                    /\ OtherAt(i, c, r).ch = c
                    /\ OtherAt(i, c, r).class = IF r = 1 THEN BlockClass ELSE r + 8
                    /\ OtherAt(i, c, r).parent = IF r = 1 THEN DeviceOID(i) ELSE ChannelOID(i, c)
                    /\ OtherAt(i, c, r).oid = IF r = 1 THEN ChannelOID(i, c) ELSE ChannelWorkerOID(i, c, r - 2)
  OBVIOUS
<1>0. i \in Int /\ 1 <= i /\ i <= 100 /\ c \in 1..4
  BY IndexBounds DEF MaxChannels
<1>1. CASE r = 1
  <2>1. OtherAt(i, c, r) = Entry(ChannelOID(i, c), DeviceOID(i), c, BlockClass)
    BY <1>1 DEF OtherAt
  <2>2. ChannelOID(i, c) # DeviceOID(i)
    BY <1>0 DEF ChannelOID, DeviceOID
  <2>3. ChannelOID(i, c) \in OidsOf(i)
    BY DEF OidsOf
  <2> QED
    BY <1>1, <2>1, <2>2, <2>3 DEF Entry
<1>2. CASE r # 1
  <2>1. OtherAt(i, c, r) = Entry(ChannelWorkerOID(i, c, r - 2), ChannelOID(i, c), c, r + 8)
    BY <1>2 DEF OtherAt
  <2>2. ChannelWorkerOID(i, c, r - 2) # DeviceOID(i)
    BY <1>0, <1>2 DEF ChannelWorkerOID, ChannelOID, DeviceOID
  <2>3. r - 2 \in 0..(ChannelWorkers - 1)
    BY <1>2 DEF ChannelWorkers
  <2>4. ChannelWorkerOID(i, c, r - 2) \in OidsOf(i)
    BY <2>3 DEF OidsOf
  <2>5. r + 8 \in RegisteredClasses(DetectModelFamily(m))
    BY <1>2 DEF RegisteredClasses, CommonClasses
  <2> QED
    BY <1>2, <2>1, <2>2, <2>4, <2>5 DEF Entry
<1> QED
  BY <1>1, <1>2

LEMMA OtherWellFormed ==
  ASSUME NEW m, DetectModelFamily(m) # "QLXD", NEW i \in 1..LastIndex
  PROVE  WellFormed(i, m, Below(i, m))
<1> DEFINE B == Below(i, m)
           N == MaxChannelsFromModel(m)
           C(n) == ((n - 1) \div 8) + 1
           R(n) == ((n - 1) % 8) + 1
<1>0. i \in Int /\ 1 <= i /\ i <= 100
  BY IndexBounds
<1>1. N \in 1..MaxChannels
  BY ChannelCount
<1>2. /\ B \in Seq(EntryRecords) /\ Len(B) = N * 8
      /\ \A n \in 1..N * 8 : B[n] = OtherAt(i, C(n), R(n))
  BY <1>0, OtherBelow
<1> HIDE DEF N
<1>3. \A n \in 1..N * 8 : C(n) \in 1..MaxChannels /\ R(n) \in 1..8 /\ n = 8 * (C(n) - 1) + R(n)
  BY <1>1, Positions DEF MaxChannels
<1> HIDE DEF B, C, R
<1>4. \A n \in 1..N * 8 :
        /\ B[n].oid \in OidsOf(i) \ {DeviceOID(i)}
        /\ B[n].class \in RegisteredClasses(DetectModelFamily(m)) \cup {BlockClass}
        /\ B[n].ch = C(n)
        /\ B[n].class = IF R(n) = 1 THEN BlockClass ELSE R(n) + 8
        /\ B[n].parent = IF R(n) = 1 THEN DeviceOID(i) ELSE ChannelOID(i, C(n))
        /\ B[n].oid = IF R(n) = 1 THEN ChannelOID(i, C(n)) ELSE ChannelWorkerOID(i, C(n), R(n) - 2)
  <2>1. \A c \in 1..MaxChannels, r \in 1..8 :
          /\ OtherAt(i, c, r).oid \in OidsOf(i) \ {DeviceOID(i)}
          /\ OtherAt(i, c, r).class \in RegisteredClasses(DetectModelFamily(m)) \cup {BlockClass}
          /\ OtherAt(i, c, r).ch = c
          /\ OtherAt(i, c, r).class = IF r = 1 THEN BlockClass ELSE r + 8
          /\ OtherAt(i, c, r).parent = IF r = 1 THEN DeviceOID(i) ELSE ChannelOID(i, c)
          /\ OtherAt(i, c, r).oid = IF r = 1 THEN ChannelOID(i, c) ELSE ChannelWorkerOID(i, c, r - 2)
    BY OtherEntries
  <2> SUFFICES ASSUME NEW n \in 1..N * 8
               PROVE  /\ B[n].oid \in OidsOf(i) \ {DeviceOID(i)}
                      /\ B[n].class \in RegisteredClasses(DetectModelFamily(m)) \cup {BlockClass}
                      /\ B[n].ch = C(n)
                      /\ B[n].class = IF R(n) = 1 THEN BlockClass ELSE R(n) + 8
                      /\ B[n].parent = IF R(n) = 1 THEN DeviceOID(i) ELSE ChannelOID(i, C(n))
                      /\ B[n].oid = IF R(n) = 1 THEN ChannelOID(i, C(n))
                                    ELSE ChannelWorkerOID(i, C(n), R(n) - 2)
    OBVIOUS
  <2>2. C(n) \in 1..MaxChannels /\ R(n) \in 1..8 /\ B[n] = OtherAt(i, C(n), R(n))
    BY <1>2, <1>3
  <2>3. PICK c \in 1..MaxChannels, r \in 1..8 : c = C(n) /\ r = R(n)
    BY <2>2
  <2>4. B[n] = OtherAt(i, c, r)
    BY <2>2, <2>3
  <2>5. /\ B[n].oid \in OidsOf(i) \ {DeviceOID(i)}
        /\ B[n].class \in RegisteredClasses(DetectModelFamily(m)) \cup {BlockClass}
        /\ B[n].ch = c
        /\ B[n].class = IF r = 1 THEN BlockClass ELSE r + 8
        /\ B[n].parent = IF r = 1 THEN DeviceOID(i) ELSE ChannelOID(i, c)
        /\ B[n].oid = IF r = 1 THEN ChannelOID(i, c) ELSE ChannelWorkerOID(i, c, r - 2)
    <3>1. /\ OtherAt(i, c, r).oid \in OidsOf(i) \ {DeviceOID(i)}
          /\ OtherAt(i, c, r).class \in RegisteredClasses(DetectModelFamily(m)) \cup {BlockClass}
          /\ OtherAt(i, c, r).ch = c
          /\ OtherAt(i, c, r).class = IF r = 1 THEN BlockClass ELSE r + 8
          /\ OtherAt(i, c, r).parent = IF r = 1 THEN DeviceOID(i) ELSE ChannelOID(i, c)
          /\ OtherAt(i, c, r).oid = IF r = 1 THEN ChannelOID(i, c) ELSE ChannelWorkerOID(i, c, r - 2)
      BY <2>1
    <3> QED
      BY <2>4, <3>1, Zenon
  <2> QED
    BY <2>3, <2>5, Zenon
<1>5. \A n \in 1..N * 8 : B[n] \in EntryRecords
  BY <1>2
<1>6. ASSUME NEW n \in 1..N * 8
      PROVE  GoodEntry(i, m, B[n])
  <2>1. B[n].ch # 0
    BY <1>3, <1>4 DEF MaxChannels
  <2> QED
    BY <1>4, <1>5, <2>1 DEF GoodEntry
<1>7. ASSUME NEW n \in 1..N * 8
      PROVE  ParentBefore(i, B, n)
  <2>1. CASE R(n) = 1
    BY <1>4, <2>1 DEF ParentBefore
  <2>2. CASE R(n) # 1
    <3> DEFINE k == n - R(n) + 1
    <3>1. k \in 1..n - 1 /\ k \in 1..N * 8 /\ k = 8 * (C(n) - 1) + 1
      BY <1>1, <1>3, <2>2 DEF MaxChannels
    <3>2. C(k) = C(n) /\ R(k) = 1
      BY <1>3, <3>1 DEF MaxChannels
    <3>3. B[k].oid = B[n].parent /\ B[k].class = BlockClass
      BY <1>4, <2>2, <3>1, <3>2
    <3> QED
      BY <3>1, <3>3 DEF ParentBefore
  <2> QED
    BY <2>1, <2>2
<1>8. ASSUME NEW n \in 1..N * 8, NEW k \in 1..N * 8, B[n].oid = B[k].oid
      PROVE  n = k
  <2>1. /\ C(n) \in 1..4 /\ C(k) \in 1..4 /\ R(n) \in 1..8 /\ R(k) \in 1..8
        /\ n = 8 * (C(n) - 1) + R(n) /\ k = 8 * (C(k) - 1) + R(k)
    BY <1>3 DEF MaxChannels
  <2>2. /\ B[n].oid = IF R(n) = 1 THEN ChannelOID(i, C(n)) ELSE ChannelWorkerOID(i, C(n), R(n) - 2)
        /\ B[k].oid = IF R(k) = 1 THEN ChannelOID(i, C(k)) ELSE ChannelWorkerOID(i, C(k), R(k) - 2)
    BY <1>4
  <2>3. C(n) = C(k) /\ R(n) = R(k)
    <3> DEFINE x == 100 + i * 10 + C(n)
               y == 100 + i * 10 + C(k)
    <3>1. /\ ChannelOID(i, C(n)) = x /\ ChannelWorkerOID(i, C(n), R(n) - 2) = x * 100 + (R(n) - 2)
          /\ ChannelOID(i, C(k)) = y /\ ChannelWorkerOID(i, C(k), R(k) - 2) = y * 100 + (R(k) - 2)
      BY DEF ChannelWorkerOID, ChannelOID, DeviceOID
    <3>2. x \in 111..1104 /\ y \in 111..1104 /\ (x = y => C(n) = C(k))
      BY <1>0, <2>1
    <3> HIDE DEF x, y
    <3>3. CASE R(n) = 1 /\ R(k) = 1
      <4>1. x = y
        BY <1>8, <2>2, <3>1, <3>3
      <4> QED
        BY <3>2, <3>3, <4>1
    <3>4. CASE R(n) = 1 /\ R(k) # 1
      <4>1. x = y * 100 + (R(k) - 2)
        BY <1>8, <2>2, <3>1, <3>4
      <4>2. y * 100 + (R(k) - 2) >= 11100
        BY <2>1, <3>2, <3>4
      <4> QED
        BY <3>2, <4>1, <4>2
    <3>5. CASE R(n) # 1 /\ R(k) = 1
      <4>1. x * 100 + (R(n) - 2) = y
        BY <1>8, <2>2, <3>1, <3>5
      <4>2. x * 100 + (R(n) - 2) >= 11100
        BY <2>1, <3>2, <3>5
      <4> QED
        BY <3>2, <4>1, <4>2
    <3>6. CASE R(n) # 1 /\ R(k) # 1
      <4>1. x * 100 + (R(n) - 2) = y * 100 + (R(k) - 2)
        BY <1>8, <2>2, <3>1, <3>6
      <4> QED
        BY <2>1, <3>2, <3>6, <4>1
    <3> QED
      BY <3>3, <3>4, <3>5, <3>6
  <2> QED
    BY <2>1, <2>3
<1>9. ASSUME NEW n \in 1..N * 8, NEW k \in 1..N * 8,
             B[n].class # BlockClass, B[n].ch = B[k].ch, B[n].class = B[k].class
      PROVE  n = k
  <2>1. /\ C(n) \in 1..4 /\ C(k) \in 1..4 /\ R(n) \in 1..8 /\ R(k) \in 1..8
        /\ n = 8 * (C(n) - 1) + R(n) /\ k = 8 * (C(k) - 1) + R(k)
    BY <1>3 DEF MaxChannels
  <2>2. C(n) = C(k) /\ R(n) = R(k)
    BY <1>4, <1>9, <2>1 DEF BlockClass
  <2> QED
    BY <2>1, <2>2
<1> QED
  BY <1>2, <1>6, <1>7, <1>8, <1>9 DEF WellFormed, B

\* The entries of a QLX-D.
LEMMA QlxdEntries ==
  ASSUME NEW i \in 1..LastIndex, NEW n \in 1..30
  PROVE  /\ QlxdOid(i, n) \in OidsOf(i) \ {DeviceOID(i)}
         /\ QlxdClass(n) \in RegisteredClasses("QLXD") \cup {BlockClass}
         /\ QlxdParent(n) # 0 => QlxdParent(n) \in 1..n - 1 /\ QlxdClass(QlxdParent(n)) = BlockClass
<1>0. i \in Int /\ 1 <= i /\ i <= 100
  BY IndexBounds
<1>1. QlxdClass(n) \in RegisteredClasses("QLXD") \cup {BlockClass}
  BY DEF QlxdClass, RegisteredClasses, CommonClasses, QlxdClasses, BlockClass
<1>2. QlxdParent(n) # 0 => QlxdParent(n) \in 1..n - 1 /\ QlxdClass(QlxdParent(n)) = BlockClass
  BY DEF QlxdParent, QlxdClass, BlockClass
<1>3. QlxdOid(i, n) \in OidsOf(i)
  <2>1. CASE n <= 4
    <3>1. n - 1 \in 0..(DeviceWorkers - 1)
      BY <2>1 DEF DeviceWorkers
    <3>2. QlxdOid(i, n) = DeviceWorkerOID(i, n - 1)
      BY <2>1 DEF QlxdOid
    <3> QED
      BY <3>1, <3>2 DEF OidsOf
  <2>2. CASE n = 5
    <3>1. QlxdOid(i, n) = ChannelOID(i, 1) /\ 1 \in 1..MaxChannels
      BY <2>2 DEF QlxdOid, MaxChannels
    <3> QED
      BY <3>1 DEF OidsOf
  <2>3. CASE n \in 6..9
    <3>1. n - 6 \in 0..(ChannelWorkers - 1) /\ 1 \in 1..MaxChannels
      BY <2>3 DEF ChannelWorkers, MaxChannels
    <3>2. QlxdOid(i, n) = ChannelWorkerOID(i, 1, n - 6)
      BY <2>3 DEF QlxdOid
    <3> QED
      BY <3>1, <3>2 DEF OidsOf
  <2>4. CASE n > 9
    <3>1. PICK k \in SubOffsets : QlxdOid(i, n) = SubObjectOID(i, 1, k)
      <4> DEFINE k == IF n = 10 THEN 1 ELSE IF n = 11 THEN 10 ELSE IF n = 12 THEN 2
                      ELSE IF n <= 20 THEN n + 7 ELSE IF n = 21 THEN 3 ELSE n + 8
      <4>1. k \in SubOffsets
        BY <2>4 DEF SubOffsets
      <4>2. QlxdOid(i, n) = SubObjectOID(i, 1, k)
        BY <2>4 DEF QlxdOid
      <4> QED
        BY <4>1, <4>2
    <3>2. 1 \in 1..MaxChannels
      BY DEF MaxChannels
    <3> QED
      BY <3>1, <3>2 DEF OidsOf
  <2> QED
    BY <2>1, <2>2, <2>3, <2>4
<1>4. QlxdOid(i, n) # DeviceOID(i)
  BY <1>0
    DEF QlxdOid, DeviceWorkerOID, ChannelWorkerOID, SubObjectOID, ChannelOID, DeviceOID
<1> QED
  BY <1>1, <1>2, <1>3, <1>4

LEMMA QlxdWellFormed ==
  ASSUME NEW i \in 1..LastIndex
  PROVE  WellFormed(i, "QLXD", Below(i, "QLXD"))
<1> DEFINE B == Below(i, "QLXD")
<1>0. i \in Int /\ 1 <= i /\ i <= 100
  BY IndexBounds
<1>1. /\ B \in Seq(EntryRecords) /\ Len(B) = 30
      /\ \A n \in 1..30 : B[n] = QlxdAt(i, n)
  BY <1>0, QlxdBelow
<1> HIDE DEF B
<1>2. \A n \in 1..30 :
        /\ B[n] \in EntryRecords
        /\ B[n].oid = QlxdOid(i, n)
        /\ B[n].parent = IF QlxdParent(n) = 0 THEN DeviceOID(i) ELSE QlxdOid(i, QlxdParent(n))
        /\ B[n].ch = IF n <= 4 THEN 0 ELSE 1
        /\ B[n].class = QlxdClass(n)
  <2>1. ASSUME NEW n \in 1..30
        PROVE  B[n] \in EntryRecords
    <3>1. B \in Seq(EntryRecords) /\ n \in 1..Len(B)
      BY <1>1
    <3> QED
      BY <3>1, ElementOfSeq
  <2>2. ASSUME NEW n \in 1..30
        PROVE  /\ QlxdAt(i, n).oid = QlxdOid(i, n)
               /\ QlxdAt(i, n).parent
                    = IF QlxdParent(n) = 0 THEN DeviceOID(i) ELSE QlxdOid(i, QlxdParent(n))
               /\ QlxdAt(i, n).ch = IF n <= 4 THEN 0 ELSE 1
               /\ QlxdAt(i, n).class = QlxdClass(n)
    BY DEF QlxdAt, Entry
  <2>3. \A n \in 1..30 : B[n] = QlxdAt(i, n)
    BY <1>1
  <2>4. ASSUME NEW n \in 1..30
        PROVE  /\ B[n].oid = QlxdOid(i, n)
               /\ B[n].parent
                    = IF QlxdParent(n) = 0 THEN DeviceOID(i) ELSE QlxdOid(i, QlxdParent(n))
               /\ B[n].ch = IF n <= 4 THEN 0 ELSE 1
               /\ B[n].class = QlxdClass(n)
    <3>1. B[n] = QlxdAt(i, n)
      BY <2>3
    <3> QED
      BY <2>2, <3>1
  <2> QED
    BY <2>1, <2>4
<1>3. DetectModelFamily("QLXD") = "QLXD"
  BY DEF DetectModelFamily
<1>4. ASSUME NEW n \in 1..30
      PROVE  GoodEntry(i, "QLXD", B[n])
  BY <1>2, <1>3, QlxdEntries DEF GoodEntry
<1>5. ASSUME NEW n \in 1..30
      PROVE  ParentBefore(i, B, n)
  <2>1. CASE QlxdParent(n) = 0
    BY <1>2, <2>1 DEF ParentBefore
  <2>2. CASE QlxdParent(n) # 0
    <3>1. PICK k \in 1..n - 1 : k = QlxdParent(n) /\ QlxdClass(k) = BlockClass
      BY <2>2, QlxdEntries
    <3>2. k \in 1..30
      OBVIOUS
    <3>3. B[k].oid = B[n].parent /\ B[k].class = BlockClass
      BY <1>2, <2>2, <3>1, <3>2
    <3> QED
      BY <3>3 DEF ParentBefore
  <2> QED
    BY <2>1, <2>2
<1>6. ASSUME NEW n \in 1..30, NEW k \in 1..30, B[n].oid = B[k].oid
      PROVE  n = k
  <2>1. QlxdOid(i, n) = QlxdOid(i, k)
    BY <1>2, <1>6
  <2> QED
    BY <1>0, <2>1
      DEF QlxdOid, DeviceWorkerOID, ChannelWorkerOID, SubObjectOID, ChannelOID, DeviceOID
<1>7. ASSUME NEW n \in 1..30, NEW k \in 1..30,
             B[n].class # BlockClass, B[n].ch = B[k].ch, B[n].class = B[k].class
      PROVE  n = k
  <2>1. QlxdClass(n) # BlockClass /\ QlxdClass(n) = QlxdClass(k)
    BY <1>2, <1>7
  <2> QED
    BY <2>1 DEF QlxdClass, BlockClass
<1> QED
  BY <1>1, <1>4, <1>5, <1>6, <1>7 DEF WellFormed, B

LEMMA BelowWellFormed ==
  ASSUME NEW m, NEW i \in 1..LastIndex
  PROVE  WellFormed(i, m, Below(i, m))
<1>1. DetectModelFamily(m) = "QLXD" => m = "QLXD"
  BY DEF DetectModelFamily
<1> QED
  BY <1>1, OtherWellFormed, QlxdWellFormed

-----------------------------------------------------------------------------
(***************************************************************************)
(* The calls of setupDeviceNCP.                                            *)
(***************************************************************************)
OpRecords == [op : {"register", "add"}, entry : EntryRecords]

LEMMA SetupAt ==
  ASSUME NEW m, NEW i \in 1..LastIndex
  PROVE  LET S == SetupOps(i, m)
             B == Below(i, m)
             N == Len(B) IN
         /\ S \in Seq(OpRecords)
         /\ Len(S) = 2 * N + 2
         /\ S[1] = Op("register", DeviceEntry(i))
         /\ \A k \in 1..N : S[2 * k] = Op("register", B[k]) /\ S[2 * k + 1] = Op("add", B[k])
         /\ S[2 * N + 2] = Op("add", DeviceEntry(i))
<1> DEFINE B == Below(i, m)
           N == Len(B)
           F == <<Op("register", DeviceEntry(i))>>
           C == Creates(B)
           L == <<Op("add", DeviceEntry(i))>>
<1>0. i \in Int
  BY IndexBounds
<1>1. B \in Seq(EntryRecords)
  BY BelowWellFormed DEF WellFormed
<1> HIDE DEF B
<1>2. N \in Nat /\ \A k \in 1..N : B[k] \in EntryRecords
  BY <1>1, ElementOfSeq, LenProperties
<1> HIDE DEF N
<1>3. DeviceEntry(i) \in EntryRecords
  BY <1>0 DEF DeviceEntry, Entry, EntryRecords, DeviceOID, RootOID, BlockClass, MaxChannels
<1>4. /\ F \in Seq(OpRecords) /\ Len(F) = 1 /\ F[1] = Op("register", DeviceEntry(i))
      /\ L \in Seq(OpRecords) /\ Len(L) = 1 /\ L[1] = Op("add", DeviceEntry(i))
  <2>1. Op("register", DeviceEntry(i)) \in OpRecords /\ Op("add", DeviceEntry(i)) \in OpRecords
    BY <1>3 DEF Op, OpRecords
  <2> QED
    BY <2>1
<1>5. C = [n \in 1..2 * N |-> Op(IF n % 2 = 1 THEN "register" ELSE "add", B[(n + 1) \div 2])]
  BY DEF Creates, N
<1>6. \A n \in 1..2 * N : Op(IF n % 2 = 1 THEN "register" ELSE "add", B[(n + 1) \div 2]) \in OpRecords
  <2> SUFFICES ASSUME NEW n \in 1..2 * N
               PROVE  Op(IF n % 2 = 1 THEN "register" ELSE "add", B[(n + 1) \div 2]) \in OpRecords
    OBVIOUS
  <2>1. (n + 1) \div 2 \in 1..N
    BY <1>2
  <2>2. B[(n + 1) \div 2] \in EntryRecords
    BY <1>2, <2>1
  <2> QED
    BY <2>2 DEF Op, OpRecords
<1>7. C \in Seq(OpRecords) /\ Len(C) = 2 * N
  <2>1. 2 * N \in Nat
    BY <1>2
  <2> HIDE DEF C
  <2> QED
    BY <1>5, <1>6, <2>1
<1>8. ASSUME NEW k \in 1..N
      PROVE  C[2 * k - 1] = Op("register", B[k]) /\ C[2 * k] = Op("add", B[k])
  <2>1. /\ 2 * k - 1 \in 1..2 * N /\ (2 * k - 1) % 2 = 1 /\ ((2 * k - 1) + 1) \div 2 = k
        /\ 2 * k \in 1..2 * N /\ ~((2 * k) % 2 = 1) /\ (2 * k + 1) \div 2 = k
    BY <1>2
  <2>2. C[2 * k - 1] = Op(IF (2 * k - 1) % 2 = 1 THEN "register" ELSE "add", B[((2 * k - 1) + 1) \div 2])
    BY <1>5, <2>1
  <2>3. C[2 * k] = Op(IF (2 * k) % 2 = 1 THEN "register" ELSE "add", B[(2 * k + 1) \div 2])
    BY <1>5, <2>1
  <2> QED
    BY <2>1, <2>2, <2>3
<1>9. SetupOps(i, m) = (F \o C) \o L
  BY DEF SetupOps, B
<1> HIDE DEF F, C, L
<1> DEFINE P == F \o C
<1>10. /\ P \in Seq(OpRecords) /\ Len(P) = 2 * N + 1
       /\ P[1] = F[1] /\ \A n \in 1..2 * N : P[n + 1] = C[n]
  <2>1. /\ P \in Seq(OpRecords) /\ Len(P) = Len(F) + Len(C)
        /\ \A r \in 1..Len(F) + Len(C) : P[r] = IF r <= Len(F) THEN F[r] ELSE C[r - Len(F)]
    BY <1>4, <1>7, ConcatProperties
  <2> HIDE DEF P
  <2>2. Len(P) = 2 * N + 1 /\ P[1] = F[1]
    BY <1>2, <1>4, <1>7, <2>1
  <2>3. ASSUME NEW n \in 1..2 * N
        PROVE  P[n + 1] = C[n]
    <3>1. n + 1 \in 1..Len(F) + Len(C) /\ ~(n + 1 <= Len(F)) /\ (n + 1) - Len(F) = n
      BY <1>2, <1>4, <1>7
    <3> QED
      BY <2>1, <3>1
  <2> QED
    BY <2>1, <2>2, <2>3
<1> HIDE DEF P
<1> DEFINE S == P \o L
<1>11. /\ S \in Seq(OpRecords) /\ Len(S) = 2 * N + 2
       /\ \A n \in 1..2 * N + 1 : S[n] = P[n]
       /\ S[2 * N + 2] = L[1]
  <2>1. /\ S \in Seq(OpRecords) /\ Len(S) = Len(P) + Len(L)
        /\ \A r \in 1..Len(P) + Len(L) : S[r] = IF r <= Len(P) THEN P[r] ELSE L[r - Len(P)]
    BY <1>4, <1>10, ConcatProperties
  <2> HIDE DEF S
  <2>2. Len(S) = 2 * N + 2 /\ \A n \in 1..2 * N + 1 : S[n] = P[n]
    BY <1>2, <1>4, <1>10, <2>1
  <2>3. PICK r \in 1..Len(P) + Len(L) : r = 2 * N + 2 /\ ~(r <= Len(P)) /\ r - Len(P) = 1
    BY <1>2, <1>4, <1>10
  <2>4. S[r] = L[1]
    BY <2>1, <2>3
  <2> QED
    BY <2>1, <2>2, <2>3, <2>4
<1>12. SetupOps(i, m) = S
  BY <1>9 DEF P
<1> HIDE DEF S
<1>13. S[1] = Op("register", DeviceEntry(i)) /\ S[2 * N + 2] = Op("add", DeviceEntry(i))
  BY <1>2, <1>4, <1>10, <1>11
<1>14. ASSUME NEW k \in 1..N
       PROVE  S[2 * k] = Op("register", B[k]) /\ S[2 * k + 1] = Op("add", B[k])
  <2>1. /\ 2 * k \in 1..2 * N + 1 /\ 2 * k + 1 \in 1..2 * N + 1
        /\ 2 * k = (2 * k - 1) + 1 /\ 2 * k - 1 \in 1..2 * N /\ 2 * k \in 1..2 * N
    BY <1>2
  <2>2. S[2 * k] = C[2 * k - 1] /\ S[2 * k + 1] = C[2 * k]
    BY <1>10, <1>11, <2>1
  <2> QED
    BY <1>8, <2>2
<1> QED
  BY <1>11, <1>12, <1>13, <1>14 DEF N, B

(***************************************************************************)
(* What the tree needs of the calls S for the device of index i: every     *)
(* identifier is the device's and stands for one object; an object is      *)
(* registered before it is added, and so is the block it is added to; all  *)
(* the entries are added; the root block gets the device last.             *)
(***************************************************************************)
RegisteredBefore(S, n, e) ==
  \E j \in 1..n - 1 : S[j].op = "register" /\ S[j].entry = e

BlockBefore(S, n, oid) ==
  \E j \in 1..n - 1 : S[j].op = "register" /\ S[j].entry.oid = oid /\ S[j].entry.class = BlockClass

GoodPlan(S, i, m) ==
  /\ S \in Seq(OpRecords)
  /\ \A n \in 1..Len(S) :
       /\ S[n].entry.oid \in OidsOf(i)
       /\ S[n].entry.class \in RegisteredClasses(DetectModelFamily(m)) \cup {BlockClass}
  /\ \A n \in 1..Len(S) : S[n].op = "add" => RegisteredBefore(S, n, S[n].entry)
  /\ \A n \in 1..Len(S) : S[n].op = "add" =>
       IF n = Len(S) THEN S[n].entry.parent = RootOID
       ELSE S[n].entry.parent # RootOID /\ BlockBefore(S, n, S[n].entry.parent)
  /\ \A n, k \in 1..Len(S) :
       S[n].op = "register" /\ S[k].op = "register" /\ S[n].entry.oid = S[k].entry.oid => n = k
  /\ \A e \in Entries(i, m) : \E n \in 1..Len(S) : S[n] = Op("add", e)
  /\ Len(S) >= 1 /\ S[Len(S)] = Op("add", DeviceEntry(i))

\* A position is the first, the last, or one of the two of an entry.
LEMMA CallPositions ==
  ASSUME NEW N \in Nat, NEW n \in 1..2 * N + 2
  PROVE  n = 1 \/ n = 2 * N + 2 \/ \E k \in 1..N : n = 2 * k \/ n = 2 * k + 1
<1>1. CASE n # 1 /\ n # 2 * N + 2
  <2>1. n \div 2 \in 1..N /\ (n = 2 * (n \div 2) \/ n = 2 * (n \div 2) + 1)
    BY <1>1
  <2> QED
    BY <2>1
<1> QED
  BY <1>1

LEMMA SetupIsGoodPlan ==
  ASSUME NEW m, NEW i \in 1..LastIndex
  PROVE  GoodPlan(SetupOps(i, m), i, m)
<1> DEFINE B == Below(i, m)
           N == Len(B)
           S == SetupOps(i, m)
           D == DeviceEntry(i)
           K == RegisteredClasses(DetectModelFamily(m)) \cup {BlockClass}
<1>1. /\ S \in Seq(OpRecords)
      /\ Len(S) = 2 * N + 2
      /\ S[1] = Op("register", D)
      /\ \A k \in 1..N : S[2 * k] = Op("register", B[k]) /\ S[2 * k + 1] = Op("add", B[k])
      /\ S[2 * N + 2] = Op("add", D)
  BY SetupAt
<1>2. WellFormed(i, m, B)
  BY BelowWellFormed
<1> HIDE DEF S, B
<1>3. N \in Nat
  BY <1>2, LenProperties DEF WellFormed
<1>4. i \in Int /\ 1 <= i /\ i <= 100
  BY IndexBounds
<1>5. D.oid = DeviceOID(i) /\ D.parent = RootOID /\ D.class = BlockClass /\ D.oid \in OidsOf(i)
  BY DEF DeviceEntry, Entry, OidsOf
<1>6. RootOID # DeviceOID(i) /\ RootOID \notin OidsOf(i)
  <2>1. OidsOf(i) \cap (1..3) = {}
    <3>1. PICK j \in 1..LastIndex : i # j
      BY <1>4 DEF LastIndex
    <3> QED
      BY <3>1, DevicesShareNoOid
  <2> QED
    BY <1>5, <2>1 DEF RootOID
<1>7. \A k \in 1..N :
        /\ B[k].oid \in OidsOf(i) /\ B[k].oid # DeviceOID(i) /\ B[k].class \in K
        /\ ParentBefore(i, B, k)
  BY <1>2 DEF WellFormed, GoodEntry
<1> HIDE DEF N, D, K
<1>8. \A n \in 1..Len(S) : n = 1 \/ n = Len(S) \/ \E k \in 1..N : n = 2 * k \/ n = 2 * k + 1
  BY <1>1, <1>3, CallPositions
<1>9. \A o, e : Op(o, e).op = o /\ Op(o, e).entry = e
  BY DEF Op
<1>10. S[1].op = "register" /\ S[1].entry = D /\ S[Len(S)].op = "add" /\ S[Len(S)].entry = D
  BY <1>1, <1>9
<1>11. \A k \in 1..N : /\ S[2 * k].op = "register" /\ S[2 * k].entry = B[k]
                       /\ S[2 * k + 1].op = "add" /\ S[2 * k + 1].entry = B[k]
  BY <1>1, <1>9
<1>12. BlockClass \in K
  BY DEF K
<1>13. ASSUME NEW n \in 1..Len(S)
       PROVE  S[n].entry.oid \in OidsOf(i) /\ S[n].entry.class \in K
  BY <1>5, <1>7, <1>8, <1>10, <1>11, <1>12
<1>14. ASSUME NEW n \in 1..Len(S), S[n].op = "add"
       PROVE  RegisteredBefore(S, n, S[n].entry)
  <2>1. CASE n = Len(S)
    <3>1. 1 \in 1..n - 1
      BY <1>1, <1>3, <2>1
    <3> QED
      BY <1>10, <2>1, <3>1 DEF RegisteredBefore
  <2>2. CASE n # Len(S)
    <3>1. PICK k \in 1..N : n = 2 * k + 1
      BY <1>8, <1>10, <1>11, <1>14, <2>2
    <3>2. 2 * k \in 1..n - 1
      BY <1>3, <3>1
    <3> QED
      BY <1>11, <3>1, <3>2 DEF RegisteredBefore
  <2> QED
    BY <2>1, <2>2
<1>15. ASSUME NEW n \in 1..Len(S), S[n].op = "add"
       PROVE  IF n = Len(S) THEN S[n].entry.parent = RootOID
              ELSE S[n].entry.parent # RootOID /\ BlockBefore(S, n, S[n].entry.parent)
  <2>1. CASE n = Len(S)
    BY <1>5, <1>10, <2>1
  <2>2. CASE n # Len(S)
    <3>1. PICK k \in 1..N : n = 2 * k + 1
      BY <1>8, <1>10, <1>11, <1>15, <2>2
    <3>2. S[n].entry = B[k]
      BY <1>11, <3>1
    <3>3. CASE B[k].parent = DeviceOID(i)
      <4>1. 1 \in 1..n - 1
        BY <1>3, <3>1
      <4> QED
        BY <1>5, <1>6, <1>10, <2>2, <3>2, <3>3, <4>1 DEF BlockBefore
    <3>4. CASE B[k].parent # DeviceOID(i)
      <4>1. PICK j \in 1..k - 1 : B[j].oid = B[k].parent /\ B[j].class = BlockClass
        BY <1>7, <3>4 DEF ParentBefore
      <4>2. j \in 1..N /\ 2 * j \in 1..n - 1
        BY <1>3, <3>1
      <4>3. B[k].parent # RootOID
        BY <1>6, <1>7, <4>1, <4>2
      <4>4. BlockBefore(S, n, B[k].parent)
        BY <1>11, <4>1, <4>2 DEF BlockBefore
      <4> QED
        BY <2>2, <3>2, <4>3, <4>4
    <3> QED
      BY <3>3, <3>4
  <2> QED
    BY <2>1, <2>2
<1>16. ASSUME NEW n \in 1..Len(S), NEW k \in 1..Len(S), S[n].op = "register", S[k].op = "register",
              S[n].entry.oid = S[k].entry.oid
       PROVE  n = k
  <2>1. /\ n = 1 \/ \E x \in 1..N : n = 2 * x
        /\ k = 1 \/ \E x \in 1..N : k = 2 * x
    BY <1>8, <1>10, <1>11, <1>16
  <2>2. \A x, y \in 1..N : B[x].oid = B[y].oid => x = y
    BY <1>2 DEF WellFormed, N
  <2>3. CASE n = 1 /\ k = 1
    BY <2>3
  <2>4. CASE n = 1 /\ k # 1
    BY <1>5, <1>7, <1>10, <1>11, <1>16, <2>1, <2>4
  <2>5. CASE n # 1 /\ k = 1
    BY <1>5, <1>7, <1>10, <1>11, <1>16, <2>1, <2>5
  <2>6. CASE n # 1 /\ k # 1
    <3>1. PICK x \in 1..N, y \in 1..N : n = 2 * x /\ k = 2 * y
      BY <2>1, <2>6
    <3>2. B[x].oid = B[y].oid
      BY <1>11, <1>16, <3>1
    <3> QED
      BY <2>2, <3>1, <3>2
  <2> QED
    BY <2>3, <2>4, <2>5, <2>6
<1>17. ASSUME NEW e \in Entries(i, m)
       PROVE  \E n \in 1..Len(S) : S[n] = Op("add", e)
  <2>1. CASE e = D
    <3>1. Len(S) \in 1..Len(S)
      BY <1>1, <1>3
    <3> QED
      BY <1>1, <2>1, <3>1
  <2>2. CASE e # D
    <3>1. PICK k \in 1..N : e = B[k]
      <4>1. e \in ToSet(B)
        BY <2>2 DEF Entries, D, B
      <4> QED
        BY <4>1, <1>2 DEF ToSet, N, WellFormed
    <3>2. 2 * k + 1 \in 1..Len(S)
      BY <1>1, <1>3
    <3> QED
      BY <1>1, <3>1, <3>2
  <2> QED
    BY <2>1, <2>2
<1>18. Len(S) >= 1 /\ S[Len(S)] = Op("add", D)
  BY <1>1, <1>3
<1> QED
  BY <1>1, <1>13, <1>14, <1>15, <1>16, <1>17, <1>18 DEF GoodPlan, S, D, K

\* A device has one worker for a channel and a parameter, and workers of its
\* own, without a channel, only if it is a QLX-D.
LEMMA OneWorkerPerParameter ==
  ASSUME NEW m, NEW i \in 1..LastIndex, NEW e \in Entries(i, m), e.class # BlockClass
  PROVE  /\ e.ch = 0 => DetectModelFamily(m) = "QLXD"
         /\ \A x \in Entries(i, m) : x.ch = e.ch /\ x.class = e.class => x = e
<1> DEFINE B == Below(i, m)
<1>1. WellFormed(i, m, B)
  BY BelowWellFormed
<1>2. DeviceEntry(i).class = BlockClass
  BY DEF DeviceEntry, Entry
<1>3. \A x \in Entries(i, m) : x.class # BlockClass => \E k \in 1..Len(B) : x = B[k]
  BY <1>1, <1>2 DEF Entries, ToSet, WellFormed
<1> HIDE DEF B
<1>4. PICK k \in 1..Len(B) : e = B[k]
  BY <1>3
<1>5. e.ch = 0 => DetectModelFamily(m) = "QLXD"
  BY <1>1, <1>4 DEF WellFormed, GoodEntry
<1>6. ASSUME NEW x \in Entries(i, m), x.ch = e.ch, x.class = e.class
      PROVE  x = e
  <2>1. PICK n \in 1..Len(B) : x = B[n]
    BY <1>3, <1>6
  <2>2. k = n
    BY <1>1, <1>4, <1>6, <2>1 DEF WellFormed
  <2> QED
    BY <1>4, <2>1, <2>2
<1> QED
  BY <1>5, <1>6
=============================================================================

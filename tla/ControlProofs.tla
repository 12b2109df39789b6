--------------------------- MODULE ControlProofs ----------------------------
(***************************************************************************)
(* Theorems about the two control interfaces, NcpServer and Connection,    *)
(* for every set of clients, objects and senders.                          *)
(***************************************************************************)
EXTENDS NcpServer, Connection, TLAPS

\* A goroutine inside SetProperty has a value of its own.
Setting == {"send", "store", "notify", "broadcast"}
JobsHaveValues == \A a \in Writers : pc[a] \in Setting => job[a].value \in Values

\* What NcpTypeOK needs to be inductive.
NcpTypeInv == NcpTypeOK /\ JobsHaveValues

-----------------------------------------------------------------------------
\* Facts about names that every step uses.
LEMMA Names ==
  /\ "gateway" \in Writers /\ "gateway" \notin Clients
  /\ "stop" \notin Writers /\ "stop" \in Actors /\ "free" \notin Writers
  /\ Clients \subseteq Writers /\ Writers \subseteq Actors
  BY NcpServerAssumption DEF Writers, Actors

\* The job of a goroutine that is not setting anything.
LEMMA NoJobType == NoJob \in [oid : Objects, value : Values \cup {NoValue}]
<1>1. (CHOOSE o \in Objects : TRUE) \in Objects
  BY NcpServerAssumption
<1> QED
  BY <1>1 DEF NoJob

\* A new server.
LEMMA InitNcpTypeInv == NcpInit => NcpTypeInv
<1> SUFFICES ASSUME NcpInit
             PROVE  NcpTypeInv
  OBVIOUS
<1> USE NcpServerAssumption, Names DEF NcpInit
<1>1. job \in [Writers -> [oid : Objects, value : Values \cup {NoValue}]]
  BY NoJobType
<1>2. /\ pc \in [Actors -> {"none", "read", "method", "send", "store", "notify",
                            "broadcast", "respond", "unlist", "close", "exited"}]
      /\ JobsHaveValues
      /\ \A a \in Writers : pc[a] = "broadcast" <=> mu = a
  BY DEF JobsHaveValues, Setting
<1>3. /\ value \in [Objects -> Values \cup {NoValue}]
      /\ told \in [Clients -> [Objects -> Values \cup {NoValue}]]
      /\ sent \in [Objects -> SUBSET Values]
      /\ raced \in [Objects -> BOOLEAN]
  OBVIOUS
<1>4. /\ subs \in [Clients -> [Objects -> 0..MaxSubs]]
      /\ nextSubscriptionID \in 1..(MaxSubs + 1)
      /\ writes \in 0..MaxWrites
  OBVIOUS
<1>5. conn \in [Clients -> ConnStates]
  BY DEF ConnStates
<1> QED
  BY <1>1, <1>2, <1>3, <1>4, <1>5 DEF NcpTypeInv, NcpTypeOK

\* The client's end of a connection, and the handler.
LEMMA HandlerTypeInv ==
  ASSUME NcpTypeInv, NEW c \in Clients, Peer(c) \/ Handler(c)
  PROVE  NcpTypeInv'
<1> USE NcpServerAssumption, Names DEF NcpTypeInv, NcpTypeOK, JobsHaveValues, Setting,
      GoesTo, objVars, subVars, lockVars
<1>1. CASE Peer(c)
  BY <1>1 DEF Peer, PeerCloses, PeerVanishes, WriteDeadlinePasses, ConnBecomes, ConnStates
<1>2. CASE Connects(c)
  BY <1>2 DEF Connects, ConnStates
<1>3. CASE Asks(c) \/ InvokesMethod(c) \/ MethodReturns(c)
  BY <1>3 DEF Asks, InvokesMethod, MethodReturns, MayRequest
<1>4. ASSUME NEW o \in Objects, Subscribes(c, o)
      PROVE  NcpTypeInv'
  BY <1>4 DEF Subscribes, MayRequest
<1>5. CASE Responds(c)
  BY <1>5 DEF Responds, ConnStates
<1>6. CASE ReadFails(c)
  BY <1>6 DEF ReadFails
<1>7. CASE Unlists(c)
  BY <1>7 DEF Unlists
<1>8. CASE Exits(c)
  BY <1>8 DEF Exits, ConnStates
<1> QED
  BY <1>1, <1>2, <1>3, <1>4, <1>5, <1>6, <1>7, <1>8 DEF Handler

\* SetProperty.
LEMMA SetTypeInv ==
  ASSUME NcpTypeInv, NEW a \in Writers,
         Sets(a) \/ \E o \in Objects : Starts(a, o)
  PROVE  NcpTypeInv'
<1> USE NcpServerAssumption, Names DEF NcpTypeInv, NcpTypeOK, JobsHaveValues, Setting,
      GoesTo, objVars, subVars, lockVars
<1>1. ASSUME NEW o \in Objects, Starts(a, o)
      PROVE  NcpTypeInv'
  <2>1. /\ writes' \in 0..MaxWrites /\ writes + 1 \in Values
        /\ pc[a] = "read"
    BY <1>1 DEF Starts, Values, MayRequest
  <2>2. job' \in [Writers -> [oid : Objects, value : Values \cup {NoValue}]]
    BY <1>1, <2>1 DEF Starts
  <2> QED
    BY <1>1, <2>1, <2>2 DEF Starts
<1>2. CASE OnSetSends(a)
  BY <1>2 DEF OnSetSends
<1>3. CASE OnSetFails(a)
  BY <1>3, NoJobType DEF OnSetFails, Returned
<1>4. CASE Stores(a)
  BY <1>4 DEF Stores
<1>5. CASE BroadcastStarts(a)
  BY <1>5 DEF BroadcastStarts
<1>6. ASSUME NEW c \in Clients,
             BroadcastSkips(a, c) \/ BroadcastWrites(a, c) \/ BroadcastFails(a, c)
      PROVE  NcpTypeInv'
  <2>1. CASE BroadcastSkips(a, c)
    BY <2>1 DEF BroadcastSkips
  <2>2. CASE BroadcastWrites(a, c)
    BY <2>2 DEF BroadcastWrites
  <2>3. CASE BroadcastFails(a, c)
    BY <2>3 DEF BroadcastFails, Failed, ConnStates
  <2> QED
    BY <1>6, <2>1, <2>2, <2>3
<1>7. CASE BroadcastEnds(a)
  BY <1>7, NoJobType DEF BroadcastEnds, Returned
<1> QED
  BY <1>1, <1>2, <1>3, <1>4, <1>5, <1>6, <1>7 DEF Sets, Broadcasts

\* Every step keeps the types.
LEMMA NextNcpTypeInv == NcpTypeInv /\ [NcpNext]_vars => NcpTypeInv'
<1> SUFFICES ASSUME NcpTypeInv, [NcpNext]_vars
             PROVE  NcpTypeInv'
  OBVIOUS
<1> USE DEF objVars, subVars, lockVars
<1>1. ASSUME NEW o \in Objects, RegisterNCPObject(o)
      PROVE  NcpTypeInv'
  BY <1>1 DEF RegisterNCPObject, NcpTypeInv, NcpTypeOK, JobsHaveValues
<1>2. CASE StopCloses
  BY <1>2, Names DEF StopCloses, NcpTypeInv, NcpTypeOK, JobsHaveValues, Setting, GoesTo,
    ConnStates
<1>3. CASE UNCHANGED vars
  BY <1>3 DEF vars, NcpTypeInv, NcpTypeOK, JobsHaveValues
<1> QED
  BY <1>1, <1>2, <1>3, HandlerTypeInv, SetTypeInv DEF NcpNext

(***************************************************************************)
(* Type correctness of the server: in particular ncpClientsMu is held by   *)
(* the one goroutine that is inside BroadcastNCPNotification.              *)
(***************************************************************************)
THEOREM NcpTypeCorrect == NcpSpec => []NcpTypeOK
<1>1. NcpTypeInv => NcpTypeOK
  BY DEF NcpTypeInv
<1> QED
  BY <1>1, InitNcpTypeInv, NextNcpTypeInv, PTL DEF NcpSpec

-----------------------------------------------------------------------------
(***************************************************************************)
(* A goroutine past OnSet carries a value that the device has accepted     *)
(* (or that no device is asked about: Plain).                              *)
(***************************************************************************)
JobsAccepted ==
  \A a \in Writers :
    (\/ pc[a] \in {"notify", "broadcast"}
     \/ pc[a] = "store" /\ job[a].oid \notin Plain)
      => job[a].value \in sent[job[a].oid]

AcceptedInv == NcpTypeInv /\ JobsAccepted /\ OnlyAcceptedShown

\* What is stored and shown, one value at a time.
LEMMA ShownValues ==
  OnlyAcceptedShown <=>
    \A o \in Objects :
      /\ value[o] \in sent[o] \cup {NoValue}
      /\ \A c \in Clients : told[c][o] \in sent[o] \cup {NoValue}
  BY DEF OnlyAcceptedShown

\* The same after a step.
LEMMA ShownValuesNext ==
  OnlyAcceptedShown' <=>
    \A o \in Objects :
      /\ value'[o] \in sent'[o] \cup {NoValue}
      /\ \A c \in Clients : told'[c][o] \in sent'[o] \cup {NoValue}
  BY DEF OnlyAcceptedShown

\* Every step keeps what is stored and shown within what was accepted.
LEMMA NextAccepted ==
  ASSUME AcceptedInv, [NcpNext]_vars
  PROVE  JobsAccepted' /\ OnlyAcceptedShown'
<1> USE NcpServerAssumption, Names DEF JobsAccepted
<1>types. NcpTypeOK
  BY DEF AcceptedInv, NcpTypeInv
<1>inv. /\ JobsAccepted
        /\ \A o \in Objects :
             /\ value[o] \in sent[o] \cup {NoValue}
             /\ \A c \in Clients : told[c][o] \in sent[o] \cup {NoValue}
  BY ShownValues DEF AcceptedInv
<1>frame. ASSUME UNCHANGED <<value, told, sent>>
          PROVE  OnlyAcceptedShown'
  BY <1>inv, <1>frame, ShownValuesNext
<1>1. ASSUME NEW c \in Clients, Peer(c) \/ Handler(c)
      PROVE  JobsAccepted' /\ OnlyAcceptedShown'
  <2>1. UNCHANGED <<value, told, sent, job>>
    BY <1>1 DEF Peer, PeerCloses, PeerVanishes, WriteDeadlinePasses, ConnBecomes, Handler,
      Connects, Asks, InvokesMethod, MethodReturns, Subscribes, Responds, ReadFails, Unlists,
      Exits, objVars
  <2>2. \A a \in Writers : pc'[a] = pc[a] \/ pc'[a] \notin Setting
    BY <1>1, <1>types DEF Peer, PeerCloses, PeerVanishes, WriteDeadlinePasses, ConnBecomes,
      Handler, Connects, Asks, InvokesMethod, MethodReturns, Subscribes, Responds, ReadFails,
      Unlists, Exits, GoesTo,
      NcpTypeOK, Setting
  <2> QED
    BY <2>1, <2>2, <1>inv, <1>frame DEF Setting
<1>2. ASSUME NEW a \in Writers, NEW o \in Objects, Starts(a, o)
      PROVE  JobsAccepted' /\ OnlyAcceptedShown'
  BY <1>2, <1>inv, <1>frame, <1>types DEF Starts, GoesTo, NcpTypeOK
<1>3. ASSUME NEW a \in Writers, Sets(a)
      PROVE  JobsAccepted' /\ OnlyAcceptedShown'
  <2> USE <1>types, <1>inv DEF NcpTypeOK, GoesTo
  <2>1. CASE OnSetSends(a)
    BY <2>1, ShownValuesNext DEF OnSetSends
  <2>2. CASE OnSetFails(a)
    BY <2>2, <1>frame DEF OnSetFails, Returned, objVars
  <2>3. CASE Stores(a)
    BY <2>3, ShownValuesNext DEF Stores
  <2>4. CASE BroadcastStarts(a)
    BY <2>4, <1>frame DEF BroadcastStarts, objVars
  <2>5. ASSUME NEW c \in Clients,
               BroadcastSkips(a, c) \/ BroadcastWrites(a, c) \/ BroadcastFails(a, c)
        PROVE  JobsAccepted' /\ OnlyAcceptedShown'
    <3>1. CASE BroadcastSkips(a, c) \/ BroadcastFails(a, c)
      BY <3>1, <1>frame DEF BroadcastSkips, BroadcastFails, objVars
    <3>2. CASE BroadcastWrites(a, c)
      <4>1. JobsAccepted'
        BY <3>2 DEF BroadcastWrites, objVars
      <4>2. job[a].oid \in Objects /\ job[a].value \in sent[job[a].oid]
        BY <3>2 DEF BroadcastWrites
      <4>3. OnlyAcceptedShown'
        BY <3>2, <4>2, ShownValuesNext DEF BroadcastWrites, objVars
      <4> QED
        BY <4>1, <4>3
    <3> QED
      BY <2>5, <3>1, <3>2
  <2>6. CASE BroadcastEnds(a)
    BY <2>6, <1>frame DEF BroadcastEnds, Returned, objVars
  <2> QED
    BY <1>3, <2>1, <2>2, <2>3, <2>4, <2>5, <2>6 DEF Sets, Broadcasts
<1>4. ASSUME NEW o \in Objects, RegisterNCPObject(o)
      PROVE  JobsAccepted' /\ OnlyAcceptedShown'
  BY <1>4, <1>inv, <1>frame DEF RegisterNCPObject
<1>5. CASE StopCloses
  BY <1>5, <1>inv, <1>frame, <1>types DEF StopCloses, GoesTo, objVars, NcpTypeOK
<1>6. CASE UNCHANGED vars
  BY <1>6, <1>inv, <1>frame DEF vars, objVars
<1> QED
  BY <1>1, <1>2, <1>3, <1>4, <1>5, <1>6 DEF NcpNext

(***************************************************************************)
(* A value that the device refuses is neither stored nor shown to anybody, *)
(* however many clients and reports set the object at the same time        *)
(* (SetProperty, nca_model.go:795).                                        *)
(***************************************************************************)
THEOREM NcpShowsOnlyAccepted == NcpSpec => []OnlyAcceptedShown
<1>1. NcpInit => AcceptedInv
  <2> SUFFICES ASSUME NcpInit
               PROVE  AcceptedInv
    OBVIOUS
  <2>1. JobsAccepted
    BY Names DEF NcpInit, JobsAccepted
  <2>2. OnlyAcceptedShown
    BY ShownValues DEF NcpInit
  <2> QED
    BY <2>1, <2>2, InitNcpTypeInv DEF AcceptedInv
<1>2. AcceptedInv /\ [NcpNext]_vars => AcceptedInv'
  BY NextNcpTypeInv, NextAccepted DEF AcceptedInv
<1>3. AcceptedInv => OnlyAcceptedShown
  BY DEF AcceptedInv
<1> QED
  BY <1>1, <1>2, <1>3, PTL DEF NcpSpec

-----------------------------------------------------------------------------
(***************************************************************************)
(* A listed client has a handler that has not yet come to its deferred     *)
(* function; a broadcast goes to listed clients, because nobody is listed  *)
(* or unlisted while it holds ncpClientsMu.                                *)
(***************************************************************************)
ListedHaveHandlers ==
  /\ \A c \in ncpClients : pc[c] \notin {"none", "close", "exited"}
  /\ targets \subseteq ncpClients
  /\ mu = "free" => targets = {}

\* Who has been told something had subscribed, and is subscribed while listed.
ToldAreSubscribed ==
  \A c \in Clients, o \in Objects :
    told[c][o] # NoValue => pc[c] # "none" /\ (c \in ncpClients => subs[c][o] # 0)

\* Without a race, whoever is notifying notifies the stored value.
FlightsCarryValue ==
  \A o \in Objects : ~raced[o] => \A a \in InFlight(o) : job[a].value = value[o]

\* A write of o that will still notify c.
WillTell(c, o) ==
  \E a \in InFlight(o) : pc[a] = "notify" \/ c \in targets

\* Without a race, a subscriber knows the stored value or is still to be told.
ToldOrWillBe ==
  \A c \in ncpClients, o \in Objects :
    (/\ ~raced[o]
     /\ told[c][o] # NoValue
     /\ conn[c] \in {"ready", "late"})
      => told[c][o] = value[o] \/ WillTell(c, o)

AgreeInv ==
  /\ NcpTypeInv
  /\ ListedHaveHandlers
  /\ ToldAreSubscribed
  /\ FlightsCarryValue
  /\ ToldOrWillBe

\* A client's end of the connection and its handler leave every write alone.
LEMMA HandlerFrame ==
  ASSUME NcpTypeInv, NEW c \in Clients, Peer(c) \/ Handler(c)
  PROVE  /\ UNCHANGED <<value, told, sent, job, raced, targets, mu>>
         /\ \A a \in Writers : pc'[a] = pc[a] \/ (pc[a] \notin Setting /\ pc'[a] \notin Setting)
         /\ \A a \in Writers : a # c => pc'[a] = pc[a]
         /\ \A o \in Objects : InFlight(o)' = InFlight(o)
<1> USE Names DEF Peer, PeerCloses, PeerVanishes, WriteDeadlinePasses, ConnBecomes,
      Handler, Connects, Asks, InvokesMethod, MethodReturns, Subscribes, MayRequest, Responds,
      ReadFails, Unlists, Exits
<1>1. UNCHANGED <<value, told, sent, job, raced, targets, mu>>
  BY DEF objVars, lockVars
<1>2. /\ \A a \in Writers : pc'[a] = pc[a] \/ (pc[a] \notin Setting /\ pc'[a] \notin Setting)
      /\ \A a \in Writers : a # c => pc'[a] = pc[a]
  BY DEF GoesTo, NcpTypeInv, NcpTypeOK, Setting
<1>3. \A o \in Objects : InFlight(o)' = InFlight(o)
  BY <1>1, <1>2 DEF InFlight, Setting
<1> QED
  BY <1>1, <1>2, <1>3

\* Clients are listed and unlisted by their handlers, outside broadcasts.
LEMMA NextListed ==
  ASSUME NcpTypeInv, ListedHaveHandlers, [NcpNext]_vars
  PROVE  ListedHaveHandlers'
<1> USE Names DEF ListedHaveHandlers, NcpTypeInv, NcpTypeOK, GoesTo, lockVars
<1>1. ASSUME NEW c \in Clients, Handler(c)
      PROVE  ListedHaveHandlers'
  <2>1. CASE Connects(c)
    BY <2>1 DEF Connects
  <2>2. CASE \/ Asks(c) \/ InvokesMethod(c) \/ MethodReturns(c) \/ Responds(c) \/ ReadFails(c)
             \/ \E o \in Objects : Subscribes(c, o)
    BY <2>2 DEF Asks, InvokesMethod, MethodReturns, Subscribes, Responds, ReadFails
  <2>3. CASE Unlists(c)
    BY <2>3 DEF Unlists
  <2>4. CASE Exits(c)
    BY <2>4 DEF Exits
  <2> QED
    BY <1>1, <2>1, <2>2, <2>3, <2>4 DEF Handler
<1>2. ASSUME NEW c \in Clients, Peer(c)
      PROVE  ListedHaveHandlers'
  BY <1>2 DEF Peer, PeerCloses, PeerVanishes, WriteDeadlinePasses, ConnBecomes
<1>3. ASSUME NEW a \in Writers, Sets(a) \/ \E o \in Objects : Starts(a, o)
      PROVE  ListedHaveHandlers'
  <2>1. ncpClients' = ncpClients
    BY <1>3 DEF Sets, Starts, OnSetSends, OnSetFails, Stores, BroadcastStarts, Broadcasts,
      BroadcastSkips, BroadcastWrites, BroadcastFails, BroadcastEnds
  <2>2. \A c \in Writers : pc'[c] = pc[c] \/ pc'[c] \in Setting \cup {"read", "respond"}
    BY <1>3 DEF Sets, Starts, OnSetSends, OnSetFails, Stores, BroadcastStarts, Broadcasts,
      BroadcastSkips, BroadcastWrites, BroadcastFails, BroadcastEnds, Returned, Setting
  <2>3. targets' \subseteq ncpClients /\ (mu' = "free" => targets' = {})
    BY <1>3 DEF Sets, Starts, OnSetSends, OnSetFails, Stores, BroadcastStarts, Broadcasts,
      BroadcastSkips, BroadcastWrites, BroadcastFails, BroadcastEnds
  <2> QED
    BY <2>1, <2>2, <2>3 DEF Setting
<1>4. CASE StopCloses \/ \E o \in Objects : RegisterNCPObject(o)
  BY <1>4 DEF StopCloses, RegisterNCPObject
<1>5. CASE UNCHANGED vars
  BY <1>5 DEF vars
<1> QED
  BY <1>1, <1>2, <1>3, <1>4, <1>5 DEF NcpNext

\* What was told, and the subscriptions.
LEMMA NextSubscribed ==
  ASSUME NcpTypeInv, ListedHaveHandlers, ToldAreSubscribed, [NcpNext]_vars
  PROVE  ToldAreSubscribed'
<1> USE Names DEF ToldAreSubscribed, NcpTypeInv, NcpTypeOK, GoesTo, subVars
<1>1. ASSUME NEW c \in Clients, Handler(c)
      PROVE  ToldAreSubscribed'
  <2>1. CASE Connects(c)
    BY <2>1 DEF Connects
  <2>2. CASE Asks(c) \/ InvokesMethod(c) \/ MethodReturns(c) \/ Responds(c) \/ ReadFails(c)
    BY <2>2 DEF Asks, InvokesMethod, MethodReturns, Responds, ReadFails
  <2>3. ASSUME NEW o \in Objects, Subscribes(c, o)
        PROVE  ToldAreSubscribed'
    BY <2>3 DEF Subscribes
  <2>4. CASE Unlists(c)
    BY <2>4 DEF Unlists
  <2>5. CASE Exits(c)
    BY <2>5 DEF Exits, ListedHaveHandlers
  <2> QED
    BY <1>1, <2>1, <2>2, <2>3, <2>4, <2>5 DEF Handler
<1>2. ASSUME NEW c \in Clients, Peer(c)
      PROVE  ToldAreSubscribed'
  BY <1>2 DEF Peer, PeerCloses, PeerVanishes, WriteDeadlinePasses, ConnBecomes
<1>3. ASSUME NEW a \in Writers, Sets(a) \/ \E o \in Objects : Starts(a, o)
      PROVE  ToldAreSubscribed'
  <2>1. UNCHANGED <<ncpClients, subs>>
    BY <1>3 DEF Sets, Starts, OnSetSends, OnSetFails, Stores, BroadcastStarts, Broadcasts,
      BroadcastSkips, BroadcastWrites, BroadcastFails, BroadcastEnds
  <2>2. \A c \in Writers : pc'[c] = pc[c] \/ pc'[c] # "none"
    BY <1>3 DEF Sets, Starts, OnSetSends, OnSetFails, Stores, BroadcastStarts, Broadcasts,
      BroadcastSkips, BroadcastWrites, BroadcastFails, BroadcastEnds, Returned
  <2>3. ASSUME NEW c \in Clients, BroadcastWrites(a, c)
        PROVE  ToldAreSubscribed'
    BY <2>1, <2>2, <2>3 DEF BroadcastWrites, Subscribed, ListedHaveHandlers
  <2>4. CASE UNCHANGED told
    BY <2>1, <2>2, <2>4
  <2> QED
    BY <1>3, <2>3, <2>4 DEF Sets, Starts, OnSetSends, OnSetFails, Stores, BroadcastStarts,
      Broadcasts, BroadcastSkips, BroadcastFails, BroadcastEnds
<1>4. CASE StopCloses \/ \E o \in Objects : RegisterNCPObject(o)
  BY <1>4 DEF StopCloses, RegisterNCPObject
<1>5. CASE UNCHANGED vars
  BY <1>5 DEF vars
<1> QED
  BY <1>1, <1>2, <1>3, <1>4, <1>5 DEF NcpNext

\* How a goroutine inside SetProperty changes the writes in flight.
LEMMA FlightSteps ==
  ASSUME NcpTypeInv, NEW a \in Writers, NEW o \in Objects
  PROVE  /\ Stores(a) => InFlight(o)' = InFlight(o) \cup (IF job[a].oid = o THEN {a} ELSE {})
         /\ BroadcastStarts(a) => InFlight(o)' = InFlight(o)
         /\ BroadcastEnds(a) => InFlight(o)' = InFlight(o) \ {a}
         /\ OnSetSends(a) \/ OnSetFails(a) \/ (\E p \in Objects : Starts(a, p))
              => InFlight(o)' = InFlight(o)
         /\ \A c \in Clients :
              BroadcastSkips(a, c) \/ BroadcastWrites(a, c) \/ BroadcastFails(a, c)
                => InFlight(o)' = InFlight(o)
<1> USE Names DEF InFlight, NcpTypeInv, NcpTypeOK, GoesTo
<1>1. ASSUME Stores(a)
      PROVE  InFlight(o)' = InFlight(o) \cup (IF job[a].oid = o THEN {a} ELSE {})
  BY <1>1 DEF Stores
<1>2. ASSUME BroadcastStarts(a)
      PROVE  InFlight(o)' = InFlight(o)
  BY <1>2 DEF BroadcastStarts
<1>3. ASSUME BroadcastEnds(a)
      PROVE  InFlight(o)' = InFlight(o) \ {a}
  BY <1>3 DEF BroadcastEnds, Returned
<1>4. ASSUME OnSetSends(a) \/ OnSetFails(a) \/ (\E p \in Objects : Starts(a, p))
      PROVE  InFlight(o)' = InFlight(o)
  BY <1>4 DEF OnSetSends, OnSetFails, Starts, Returned, MayRequest
<1>5. ASSUME NEW c \in Clients,
             BroadcastSkips(a, c) \/ BroadcastWrites(a, c) \/ BroadcastFails(a, c)
      PROVE  InFlight(o)' = InFlight(o)
  BY <1>5 DEF BroadcastSkips, BroadcastWrites, BroadcastFails
<1> QED
  BY <1>1, <1>2, <1>3, <1>4, <1>5

\* A store without a race is the only write in flight.
LEMMA NextFlights ==
  ASSUME NcpTypeInv, FlightsCarryValue, [NcpNext]_vars
  PROVE  FlightsCarryValue'
<1> USE Names DEF FlightsCarryValue, NcpTypeInv, NcpTypeOK
<1>1. ASSUME NEW c \in Clients, Peer(c) \/ Handler(c)
      PROVE  FlightsCarryValue'
  BY <1>1, HandlerFrame
<1>2. ASSUME NEW a \in Writers, Sets(a) \/ \E o \in Objects : Starts(a, o)
      PROVE  FlightsCarryValue'
  <2>1. CASE Stores(a)
    <3> SUFFICES ASSUME NEW o \in Objects, ~raced'[o], NEW b \in InFlight(o)'
                 PROVE  job'[b].value = value'[o]
      OBVIOUS
    <3>1. InFlight(o)' = InFlight(o) \cup (IF job[a].oid = o THEN {a} ELSE {})
      BY <2>1, FlightSteps
    <3>2. CASE job[a].oid = o
      BY <2>1, <3>1, <3>2 DEF Stores
    <3>3. CASE job[a].oid # o
      BY <2>1, <3>1, <3>3 DEF Stores
    <3> QED
      BY <3>2, <3>3
  <2>2. CASE BroadcastStarts(a) \/ Broadcasts(a) \/ OnSetSends(a) \/ OnSetFails(a)
             \/ \E o \in Objects : Starts(a, o)
    <3>1. \A o \in Objects : InFlight(o)' \subseteq InFlight(o)
      BY <2>2, FlightSteps DEF Broadcasts
    <3>2. UNCHANGED <<value, raced>>
      BY <2>2 DEF BroadcastStarts, Broadcasts, OnSetSends, OnSetFails, Starts, objVars,
        BroadcastSkips, BroadcastWrites, BroadcastFails, BroadcastEnds
    <3>3. \A o \in Objects : \A b \in InFlight(o)' : job'[b] = job[b]
      BY <2>2 DEF BroadcastStarts, Broadcasts, OnSetSends, OnSetFails, Starts, InFlight,
        BroadcastSkips, BroadcastWrites, BroadcastFails, BroadcastEnds, GoesTo, Returned
    <3> QED
      BY <3>1, <3>2, <3>3
  <2> QED
    BY <1>2, <2>1, <2>2 DEF Sets
<1>3. CASE StopCloses \/ (\E o \in Objects : RegisterNCPObject(o)) \/ UNCHANGED vars
  BY <1>3 DEF StopCloses, RegisterNCPObject, vars, objVars, InFlight, GoesTo
<1> QED
  BY <1>1, <1>2, <1>3 DEF NcpNext

\* A subscriber drops out, knows the value, or is still to be told.
LEMMA NextTold ==
  ASSUME AgreeInv, [NcpNext]_vars
  PROVE  ToldOrWillBe'
<1> USE Names DEF NcpTypeInv, NcpTypeOK
<1>inv. /\ NcpTypeInv /\ ListedHaveHandlers /\ ToldAreSubscribed
        /\ FlightsCarryValue /\ ToldOrWillBe
  BY DEF AgreeInv
<1> SUFFICES ASSUME NEW c \in ncpClients', NEW o \in Objects,
                    ~raced'[o], told'[c][o] # NoValue, conn'[c] \in {"ready", "late"},
                    told'[c][o] # value'[o]
             PROVE  WillTell(c, o)'
  BY DEF ToldOrWillBe
<1>c. c \in Clients
  BY <1>inv, NextNcpTypeInv
\* If nothing it depends on changed, it was so before.
<1>old. ASSUME c \in ncpClients, raced'[o] = raced[o], told'[c][o] = told[c][o],
               conn[c] \in {"ready", "late"}, value'[o] = value[o]
        PROVE  WillTell(c, o)
  BY <1>inv, <1>old DEF ToldOrWillBe
<1>1. ASSUME NEW d \in Clients, Peer(d) \/ Handler(d)
      PROVE  WillTell(c, o)'
  <2>1. /\ UNCHANGED <<value, told, sent, job, raced, targets, mu>>
        /\ InFlight(o)' = InFlight(o)
        /\ \A a \in Writers : a \in InFlight(o) => pc'[a] = pc[a]
    BY <1>1, <1>inv, HandlerFrame DEF InFlight, Setting
  <2>2. c \in ncpClients
    <3>1. CASE Connects(d)
      BY <3>1, <2>1, <1>inv, <1>c DEF Connects, ToldAreSubscribed
    <3>2. CASE ~Connects(d)
      BY <3>2, <1>1, <1>inv DEF Peer, PeerCloses, PeerVanishes, WriteDeadlinePasses,
        ConnBecomes, Handler, Asks, InvokesMethod, MethodReturns, Subscribes, Responds,
        ReadFails, Unlists, Exits
    <3> QED
      BY <3>1, <3>2
  <2>3. conn[c] \in {"ready", "late"}
    <3>1. CASE Connects(d)
      BY <3>1, <2>1, <1>inv, <1>c DEF Connects, ToldAreSubscribed
    <3>2. CASE ~Connects(d)
      BY <3>2, <1>1, <1>inv, <1>c DEF Peer, PeerCloses, PeerVanishes, WriteDeadlinePasses,
        ConnBecomes, Handler, Asks, InvokesMethod, MethodReturns, Subscribes, Responds,
        ReadFails, Unlists, Exits, Alive
    <3> QED
      BY <3>1, <3>2
  <2>4. WillTell(c, o)
    BY <2>1, <2>2, <2>3, <1>old
  <2> QED
    BY <2>1, <2>4 DEF WillTell, InFlight
<1>2. ASSUME NEW a \in Writers, Sets(a) \/ \E p \in Objects : Starts(a, p)
      PROVE  WillTell(c, o)'
  <2>0. c \in ncpClients
    BY <1>2 DEF Sets, Starts, OnSetSends, OnSetFails, Stores, BroadcastStarts, Broadcasts,
      BroadcastSkips, BroadcastWrites, BroadcastFails, BroadcastEnds
  <2>1. CASE Stores(a)
    <3>1. InFlight(o)' = InFlight(o) \cup (IF job[a].oid = o THEN {a} ELSE {})
      BY <2>1, <1>inv, FlightSteps
    <3>2. CASE job[a].oid = o
      <4>1. a \in InFlight(o)' /\ pc'[a] = "notify"
        BY <2>1, <3>1, <3>2, <1>inv DEF Stores, GoesTo
      <4> QED
        BY <4>1 DEF WillTell
    <3>3. CASE job[a].oid # o
      <4>1. WillTell(c, o)
        BY <2>0, <2>1, <3>3, <1>old, <1>inv DEF Stores
      <4> QED
        BY <2>1, <3>1, <3>3, <4>1, <1>inv DEF WillTell, InFlight, Stores, GoesTo, lockVars
    <3> QED
      BY <3>2, <3>3
  <2>2. CASE OnSetSends(a) \/ OnSetFails(a) \/ \E p \in Objects : Starts(a, p)
    <3>1. InFlight(o)' = InFlight(o)
      BY <2>2, <1>inv, FlightSteps
    <3>2. WillTell(c, o)
      BY <2>0, <2>2, <1>old DEF OnSetSends, OnSetFails, Starts, objVars
    <3>3. targets' = targets /\ \A b \in InFlight(o) : pc'[b] = pc[b]
      BY <2>2, <1>inv DEF OnSetSends, OnSetFails, Starts, lockVars, InFlight, GoesTo, MayRequest
    <3> QED
      BY <3>1, <3>2, <3>3 DEF WillTell
  <2>3. CASE BroadcastStarts(a)
    <3>1. InFlight(o)' = InFlight(o) /\ targets' = ncpClients
      BY <2>3, <1>inv, FlightSteps DEF BroadcastStarts
    <3>2. WillTell(c, o)
      BY <2>0, <2>3, <1>old DEF BroadcastStarts, objVars
    <3> QED
      BY <2>0, <3>1, <3>2 DEF WillTell
  <2>4. ASSUME NEW d \in Clients, BroadcastSkips(a, d)
        PROVE  WillTell(c, o)'
    <3>1. InFlight(o)' = InFlight(o) /\ pc' = pc
      BY <2>4, <1>inv, FlightSteps DEF BroadcastSkips
    <3>2. WillTell(c, o)
      BY <2>0, <2>4, <1>old DEF BroadcastSkips, objVars
    <3>3. PICK b \in InFlight(o) : pc[b] = "notify" \/ c \in targets
      BY <3>2 DEF WillTell
    <3>4. CASE pc[b] = "notify"
      BY <3>1, <3>3, <3>4 DEF WillTell
    <3>5. CASE pc[b] = "broadcast" /\ c \in targets
      <4>1. b = a
        BY <2>4, <3>5, <1>inv DEF BroadcastSkips, InFlight
      <4>2. job[a].oid = o
        BY <3>3, <4>1 DEF InFlight
      <4>3. subs[c][o] # 0
        BY <2>0, <2>4, <1>c, <1>inv DEF ToldAreSubscribed, BroadcastSkips
      <4>4. d # c
        BY <2>4, <4>2, <4>3 DEF BroadcastSkips, Subscribed
      <4> QED
        BY <2>4, <3>1, <3>3, <3>5, <4>4 DEF WillTell, BroadcastSkips
    <3> QED
      BY <3>3, <3>4, <3>5 DEF InFlight
  <2>5. ASSUME NEW d \in Clients, BroadcastWrites(a, d)
        PROVE  WillTell(c, o)'
    <3>1. InFlight(o)' = InFlight(o) /\ pc' = pc
      BY <2>5, <1>inv, FlightSteps DEF BroadcastWrites
    <3>2. CASE d = c /\ job[a].oid = o
      <4>1. told'[c][o] = job[a].value
        BY <2>5, <3>2, <1>inv, <1>c DEF BroadcastWrites
      <4>2. a \in InFlight(o)
        BY <2>5, <3>2 DEF BroadcastWrites, InFlight
      <4>3. value' = value /\ raced' = raced
        BY <2>5 DEF BroadcastWrites, objVars
      <4> QED
        BY <4>1, <4>2, <4>3, <1>inv DEF FlightsCarryValue
    <3>3. CASE ~(d = c /\ job[a].oid = o)
      <4>0. told'[c][o] = told[c][o]
        BY <2>5, <3>3, <1>inv, <1>c DEF BroadcastWrites
      <4>1. WillTell(c, o)
        BY <2>0, <2>5, <4>0, <1>old DEF BroadcastWrites, objVars
      <4>2. PICK b \in InFlight(o) : pc[b] = "notify" \/ c \in targets
        BY <4>1 DEF WillTell
      <4>3. CASE pc[b] = "notify"
        BY <3>1, <4>2, <4>3 DEF WillTell
      <4>4. CASE pc[b] = "broadcast" /\ c \in targets
        <5>1. b = a
          BY <2>5, <4>4, <1>inv DEF BroadcastWrites, InFlight
        <5>2. d # c
          BY <3>3, <4>2, <5>1 DEF InFlight
        <5> QED
          BY <2>5, <3>1, <4>2, <4>4, <5>2 DEF WillTell, BroadcastWrites
      <4> QED
        BY <4>2, <4>3, <4>4 DEF InFlight
    <3> QED
      BY <3>2, <3>3
  <2>6. ASSUME NEW d \in Clients, BroadcastFails(a, d)
        PROVE  WillTell(c, o)'
    <3>1. InFlight(o)' = InFlight(o) /\ pc' = pc
      BY <2>6, <1>inv, FlightSteps DEF BroadcastFails
    <3>2. d # c
      BY <2>6, <1>inv, <1>c DEF BroadcastFails, Failed, ConnStates
    <3>3. WillTell(c, o)
      BY <2>0, <2>6, <3>2, <1>old, <1>inv DEF BroadcastFails, objVars
    <3> QED
      BY <2>6, <3>1, <3>2, <3>3 DEF WillTell, BroadcastFails
  <2>7. CASE BroadcastEnds(a)
    <3>1. WillTell(c, o)
      BY <2>0, <2>7, <1>old DEF BroadcastEnds, objVars
    <3>2. PICK b \in InFlight(o) : pc[b] = "notify"
      BY <2>7, <3>1 DEF WillTell, BroadcastEnds
    <3>3. b # a /\ InFlight(o)' = InFlight(o) \ {a}
      BY <2>7, <3>2, <1>inv, FlightSteps DEF BroadcastEnds
    <3>4. pc'[b] = "notify"
      BY <2>7, <3>2, <3>3, <1>inv DEF BroadcastEnds, GoesTo, InFlight
    <3> QED
      BY <3>2, <3>3, <3>4 DEF WillTell
  <2> QED
    BY <1>2, <2>1, <2>2, <2>3, <2>4, <2>5, <2>6, <2>7 DEF Sets, Broadcasts
<1>3. CASE StopCloses
  <2>1. c \in ncpClients /\ conn'[c] = "closed"
    BY <1>3, <1>c DEF StopCloses
  <2> QED
    BY <2>1
<1>4. CASE (\E p \in Objects : RegisterNCPObject(p)) \/ UNCHANGED vars
  <2>1. UNCHANGED <<value, raced, told, conn, ncpClients, pc, job, targets>>
    BY <1>4 DEF RegisterNCPObject, vars, objVars, lockVars
  <2>2. WillTell(c, o)
    BY <2>1, <1>old
  <2> QED
    BY <2>1, <2>2 DEF WillTell, InFlight
<1> QED
  BY <1>1, <1>2, <1>3, <1>4 DEF NcpNext

(***************************************************************************)
(* Once nobody is writing an object, and unless its last store fell into   *)
(* another write of the object, every subscriber that was told anything    *)
(* and missed nothing was last told the value stored.  So the order in     *)
(* which SetProperty stores and BroadcastNCPNotification runs is the only  *)
(* way for a subscriber to end with an old value.                          *)
(***************************************************************************)
THEOREM NcpSubscribersAgree == NcpSpec => []SettledSubscribersAgree
<1>1. NcpInit => AgreeInv
  BY Names, InitNcpTypeInv DEF NcpInit, AgreeInv, ListedHaveHandlers, ToldAreSubscribed,
    FlightsCarryValue, ToldOrWillBe, InFlight
<1>2. AgreeInv /\ [NcpNext]_vars => AgreeInv'
  BY NextNcpTypeInv, NextListed, NextSubscribed, NextFlights, NextTold DEF AgreeInv
<1>3. AgreeInv => SettledSubscribersAgree
  BY DEF AgreeInv, ToldOrWillBe, WillTell, SettledSubscribersAgree
<1> QED
  BY <1>1, <1>2, <1>3, PTL DEF NcpSpec

-----------------------------------------------------------------------------
(***************************************************************************)
(* What a patch finds: an entry once there is an active one, and never an  *)
(* immediate activation left over from before.                             *)
(***************************************************************************)
StagedEntry == [masterEnable : BOOLEAN, mode : Modes \ {"activate_immediate"},
                params : TransportParams \cup {NoParams, Default}]

StagedInv ==
  /\ stagedConnections \in [SenderIDs -> StagedEntry \cup {Absent}]
  /\ DOMAIN activeConnections = SenderIDs
  /\ \A s \in SenderIDs :
       stagedConnections[s] = Absent => activeConnections[s] = Absent

\* An entry is told from its absence by the mode.
LEMMA EntryIsNotAbsent == Absent.mode = "absent" /\ Absent \notin StagedEntry
  BY DEF Absent, Zero, StagedEntry, Modes

\* What handleConnectionSenderStaged starts from.
LEMMA PatchStartsStaged ==
  ASSUME StagedInv, NEW s \in SenderIDs
  PROVE  GetStaged(s) \in StagedEntry
<1>1. Zero \in StagedEntry
  BY DEF Zero, StagedEntry, Modes
<1> QED
  BY <1>1 DEF GetStaged, StagedInv

\* So only the patch itself can ask for an immediate activation.
LEMMA PatchedMode ==
  ASSUME StagedInv, NEW s \in SenderIDs, NEW p \in Patches
  PROVE  /\ Patched(s, p) \in [masterEnable : BOOLEAN, mode : Modes,
                               params : TransportParams \cup {NoParams, Default}]
         /\ Patched(s, p).mode = "activate_immediate" <=> p.mode = "activate_immediate"
  BY PatchStartsStaged DEF Patched, Patches, StagedEntry, Modes

\* A patch leaves an entry without an immediate activation.
LEMMA PatchStagedInv ==
  ASSUME StagedInv, NEW s \in SenderIDs, NEW p \in Patches, Patch(s, p)
  PROVE  StagedInv'
<1> DEFINE current == Patched(s, p)
           entry == IF current.mode = "activate_immediate"
                    THEN [current EXCEPT !.mode = ""] ELSE current
<1>1. entry \in StagedEntry
  <2>1. current \in [masterEnable : BOOLEAN, mode : Modes,
                     params : TransportParams \cup {NoParams, Default}]
    BY PatchedMode
  <2> HIDE DEF current
  <2> QED
    BY <2>1 DEF StagedEntry, Modes
<1>2. entry # Absent
  BY <1>1, EntryIsNotAbsent
<1>3. /\ stagedConnections' = [stagedConnections EXCEPT ![s] = entry]
      /\ activeConnections' = activeConnections
         \/ activeConnections' = [activeConnections EXCEPT ![s] = current]
  BY DEF Patch
<1> HIDE DEF entry, current
<1> QED
  BY <1>1, <1>2, <1>3 DEF StagedInv

(***************************************************************************)
(* What a sender does changes only by a patch that asks for an immediate   *)
(* activation itself, whatever earlier patches staged: a scheduled mode    *)
(* never turns into an immediate one, and the reset after an activation    *)
(* (handleConnectionSenderStaged) leaves no mode behind.                   *)
(***************************************************************************)
THEOREM ConnectionActivatesOnRequest == ConnectionSpec => OnlyImmediateActivates
<1>1. ConnectionInit => StagedInv
  BY DEF ConnectionInit, StagedInv
<1>2. StagedInv /\ [ConnectionNext]_connectionVars => StagedInv'
  <2>1. StagedInv /\ ConnectionNext => StagedInv'
    BY PatchStagedInv DEF ConnectionNext
  <2>2. StagedInv /\ UNCHANGED connectionVars => StagedInv'
    BY DEF StagedInv, connectionVars
  <2> QED
    BY <2>1, <2>2
<1>3. StagedInv /\ [ConnectionNext]_connectionVars
        => [UNCHANGED activeConnections \/ requested' = "activate_immediate"]_connectionVars
  <2>1. ASSUME StagedInv, NEW s \in SenderIDs, NEW p \in Patches, Patch(s, p)
        PROVE  UNCHANGED activeConnections \/ requested' = "activate_immediate"
    BY <2>1, PatchedMode DEF Patch
  <2> QED
    BY <2>1 DEF ConnectionNext
<1> QED
  BY <1>1, <1>2, <1>3, PTL DEF ConnectionSpec, OnlyImmediateActivates
=============================================================================

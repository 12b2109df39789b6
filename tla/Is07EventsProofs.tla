-------------------------- MODULE Is07EventsProofs --------------------------
(***************************************************************************)
(* Theorems about the IS-07 event transport, for every set of clients and  *)
(* of sources.                                                             *)
(***************************************************************************)
EXTENDS Is07Events, TLAPS

\* A client hears only what it has subscribed to.  What its reader has still
\* to send may be of other sources, but only if it is no client any more; and
\* nobody becomes a client twice.
SubscriptionInv ==
  \A c \in Clients :
    /\ subs[c] \subseteq ever[c]
    /\ reader[c] = "none" => toSend[c] = {}
    /\ c \in clients => \A e \in toSend[c] : e.source \in ever[c]

\* The snapshot of a broadcast was taken of subscribers.
TargetsInv ==
  proc \in {"cache", "event", "close"} => \A c \in targets : event.source \in ever[c]

\* The cache never runs ahead of the events nor behind what is being sent.
CacheInv ==
  /\ \A s \in Sources : lastEvents[s] <= current[s]
  /\ proc = "cache" => event.n = current[event.source]
  /\ proc \in {"event", "close"} => event.n = lastEvents[event.source]
  /\ \A c \in Clients : \A e \in toSend[c] : e.n <= lastEvents[e.source]

HearInv == SubscriptionInv /\ TargetsInv /\ OnlySubscribersHear
NewestInv == CacheInv /\ CacheIsNewest

-----------------------------------------------------------------------------
\* The steps of one connection: its client, its reader goroutine, the ticker.
ConnectionStep(c) ==
  \/ DeadlinePasses(c) \/ TwelveSecondsPass(c) \/ PeerCloses(c) \/ Connect(c)
  \/ ReadsHealth(c) \/ (\E S \in SUBSET Sources : ReadsSubscription(c, S))
  \/ Reader(c) \/ ReaderExits(c) \/ PingWrites(c) \/ WritesCollide(c)

\* The steps of processMessages.
BroadcasterStep ==
  \/ \E s \in Sources : BroadcastToNobody(s) \/ BroadcastStarts(s)
  \/ Broadcast \/ UpdateStarts \/ Update

LEMMA NextCases ==
  ASSUME [Next]_vars
  PROVE  \/ \E c \in Clients : ConnectionStep(c)
         \/ BroadcasterStep
         \/ Check \/ PingStarts \/ CloseAll
         \/ UNCHANGED vars
  BY DEF Next, ConnectionStep, BroadcasterStep

\* Connections only go on from one state to the next.
LEMMA ConnTypes ==
  ASSUME conn \in [Clients -> ConnStates],
         \/ \E c \in Clients : Writes(c) \/ WritesInTime(c)
         \/ \E S : Closes(S)
  PROVE  conn' \in [Clients -> ConnStates]
  BY DEF ConnStates, Writes, WritesInTime, Closes

\* A connection that is closed stays closed unless its client connects.
LEMMA StaysClosed ==
  ASSUME TypeOK, [Next]_vars, NEW c \in Clients, ~Open(c), reader[c] # "none"
  PROVE  ~Open(c)'
<1> USE DEF Open, TypeOK, ClientTypes, Writes, WritesInTime, CanWriteInTime, Closes
<1>1. ASSUME NEW d \in Clients, ConnectionStep(d)
      PROVE  ~Open(c)'
  BY <1>1 DEF ConnectionStep, DeadlinePasses, TwelveSecondsPass, PeerCloses, Connect,
    ReadsHealth, ReadsSubscription, Reader, AnswersHealth, SendsInitial, ReaderExits,
    PingWrites, WritesCollide
<1>2. CASE BroadcasterStep
  BY <1>2 DEF BroadcasterStep, BroadcastToNobody, BroadcastStarts, Snapshot, Broadcast,
    BroadcastCaches, BroadcastSucceeds, BroadcastFails, BroadcastCloses, UpdateStarts, Update,
    UpdateWrites, UpdateEnds, UpdateCloses
<1>3. CASE Check \/ PingStarts \/ CloseAll \/ UNCHANGED vars
  BY <1>3 DEF Check, CheckHeartbeats, CheckCloses, PingStarts, CloseAll, vars
<1> QED
  BY <1>1, <1>2, <1>3, NextCases

LEMMA NoEventType == NoEvent \in Event
<1>1. (CHOOSE s \in Sources : TRUE) \in Sources
  BY Is07Assumption
<1> QED
  BY <1>1, Is07Assumption DEF NoEvent, Event

\* The transport before the first connection.
LEMMA InitTypes == Init => TypeOK
<1> SUFFICES ASSUME Init
             PROVE  TypeOK
  OBVIOUS
<1>1. ClientTypes
  BY Is07Assumption DEF Init, ClientTypes, ConnStates
<1>2. BroadcastTypes
  BY Is07Assumption, NoEventType DEF Init, BroadcastTypes
<1>3. TickerTypes
  BY DEF Init, TickerTypes
<1> QED
  BY <1>1, <1>2, <1>3 DEF TypeOK

\* A step keeps the types of what it does not touch.
LEMMA SameTypes ==
  /\ ClientTypes /\ UNCHANGED <<clients, clientVars, withHealth, quiet, conn, reader, toSend>>
       => ClientTypes'
  /\ BroadcastTypes /\ UNCHANGED <<lastEvents, current, procVars>> => BroadcastTypes'
  /\ TickerTypes /\ UNCHANGED <<tickers, crashed>> => TickerTypes'
<1>1. ClientTypes /\ UNCHANGED <<clients, clientVars, withHealth, quiet, conn, reader, toSend>>
        => ClientTypes'
  BY DEF ClientTypes, clientVars
<1>2. BroadcastTypes /\ UNCHANGED <<lastEvents, current, procVars>> => BroadcastTypes'
  BY DEF BroadcastTypes, procVars
<1>3. TickerTypes /\ UNCHANGED <<tickers, crashed>> => TickerTypes'
  BY DEF TickerTypes, tickers
<1> QED
  BY <1>1, <1>2, <1>3

LEMMA ConnectionTypes ==
  ASSUME TypeOK, NEW c \in Clients, ConnectionStep(c)
  PROVE  TypeOK'
<1> USE DEF TypeOK
<1>1. BroadcastTypes'
  <2>1. UNCHANGED <<lastEvents, current, procVars>>
    BY DEF ConnectionStep, DeadlinePasses, TwelveSecondsPass, PeerCloses, Connect,
      ReadsHealth, ReadsSubscription, Reader, AnswersHealth, SendsInitial, ReaderExits,
      PingWrites, WritesCollide
  <2> QED
    BY <2>1, SameTypes
<1>2. TickerTypes'
  BY DEF ConnectionStep, DeadlinePasses, TwelveSecondsPass, PeerCloses, Connect,
    ReadsHealth, ReadsSubscription, Reader, AnswersHealth, SendsInitial, ReaderExits,
    PingWrites, WritesCollide, tickers, TickerTypes
<1>3. ClientTypes'
  <2>1. CASE DeadlinePasses(c) \/ TwelveSecondsPass(c) \/ PingWrites(c) \/ WritesCollide(c)
             \/ PeerCloses(c)
    <3>1. UNCHANGED <<clients, clientVars, withHealth, reader, toSend>>
      BY <2>1 DEF DeadlinePasses, TwelveSecondsPass, PingWrites, WritesCollide, PeerCloses
    <3>2. conn' \in [Clients -> ConnStates]
      BY <2>1, ConnTypes DEF DeadlinePasses, TwelveSecondsPass, PingWrites, WritesCollide,
        PeerCloses, ClientTypes, ConnStates
    <3>3. quiet' \in [Clients -> BOOLEAN]
      BY <2>1 DEF DeadlinePasses, TwelveSecondsPass, PingWrites, WritesCollide, PeerCloses,
        ClientTypes
    <3> QED
      BY <3>1, <3>2, <3>3 DEF ClientTypes, clientVars
  <2>2. CASE Connect(c)
    BY <2>2 DEF Connect, ClientTypes, clientVars, ConnStates
  <2>3. CASE ReadsHealth(c)
    BY <2>3 DEF ReadsHealth, ClientTypes, clientVars
  <2>4. CASE AnswersHealth(c)
    <3>1. conn' \in [Clients -> ConnStates]
      BY <2>4, ConnTypes DEF AnswersHealth, ClientTypes
    <3> QED
      BY <2>4, <3>1 DEF AnswersHealth, ClientTypes, clientVars
  <2>5. ASSUME NEW S \in SUBSET Sources, ReadsSubscription(c, S)
        PROVE  ClientTypes'
    <3>1. Cached(S) \in SUBSET Event
      BY DEF Cached, Event, BroadcastTypes
    <3> QED
      <4>1. /\ subs' \in [Clients -> SUBSET Sources]
            /\ ever' \in [Clients -> SUBSET Sources]
        <5>1. CASE c \in clients
          <6>1. /\ subs' = [subs EXCEPT ![c] = S]
                /\ ever' = [ever EXCEPT ![c] = ever[c] \cup S]
            BY <2>5, <5>1 DEF ReadsSubscription
          <6>2. ever[c] \cup S \in SUBSET Sources
            BY DEF ClientTypes
          <6> QED
            BY <6>1, <6>2 DEF ClientTypes
        <5>2. CASE c \notin clients
          BY <2>5, <5>2 DEF ReadsSubscription, ClientTypes
        <5> QED
          BY <5>1, <5>2
      <4>2. /\ toSend' \in [Clients -> SUBSET Event]
            /\ reader' \in [Clients -> {"none", "read", "health", "init", "exited"}]
        BY <2>5, <3>1 DEF ReadsSubscription, ClientTypes
      <4> QED
        BY <2>5, <4>1, <4>2 DEF ReadsSubscription, ClientTypes
  <2>6. ASSUME NEW e \in toSend[c], SendsInitial(c, e)
        PROVE  ClientTypes'
    <3>1. conn' \in [Clients -> ConnStates]
      BY <2>6, ConnTypes DEF SendsInitial, ClientTypes
    <3>2. e \in Event
      BY DEF ClientTypes
    <3>3. view' \in [Clients -> [Sources -> 0..MaxEvents]]
      BY <2>6, <3>2 DEF SendsInitial, Receives, ClientTypes, Event
    <3> QED
      BY <2>6, <3>1, <3>3 DEF SendsInitial, ClientTypes
  <2>7. CASE ReaderExits(c)
    <3>1. conn' \in [Clients -> ConnStates]
      BY <2>7, ConnTypes DEF ReaderExits, ClientTypes
    <3> QED
      BY <2>7, <3>1 DEF ReaderExits, ClientTypes, clientVars
  <2> QED
    BY <2>1, <2>2, <2>3, <2>4, <2>5, <2>6, <2>7 DEF ConnectionStep, Reader
<1> QED
  BY <1>1, <1>2, <1>3

LEMMA BroadcasterTypes ==
  ASSUME TypeOK, BroadcasterStep
  PROVE  TypeOK'
<1> USE DEF TypeOK
<1>1. TickerTypes'
  <2>1. UNCHANGED <<tickers, crashed>>
    BY DEF BroadcasterStep, BroadcastToNobody, BroadcastStarts, Snapshot, Broadcast,
      BroadcastCaches, BroadcastSucceeds, BroadcastFails, BroadcastCloses, UpdateStarts,
      Update, UpdateWrites, UpdateEnds, UpdateCloses
  <2> QED
    BY <2>1, SameTypes
<1>2. BroadcastTypes'
  <2>1. ASSUME NEW s \in Sources, BroadcastToNobody(s) \/ BroadcastStarts(s)
        PROVE  BroadcastTypes'
    <3>1. current[s] + 1 \in 0..MaxEvents /\ current' \in [Sources -> 0..MaxEvents]
      BY <2>1, Is07Assumption DEF BroadcastToNobody, BroadcastStarts, Snapshot, BroadcastTypes
    <3>2. CASE BroadcastToNobody(s)
      BY <3>1, <3>2 DEF BroadcastToNobody, BroadcastTypes, procVars
    <3>3. CASE BroadcastStarts(s)
      <4>1. event' \in Event /\ targets' \subseteq Clients /\ targets' # {}
        BY <3>1, <3>3 DEF BroadcastStarts, Snapshot, Event, Subscribers, ClientTypes
      <4> QED
        BY <3>1, <3>3, <4>1 DEF BroadcastStarts, Snapshot, BroadcastTypes
    <3> QED
      BY <2>1, <3>2, <3>3
  <2>2. CASE BroadcastCaches
    BY <2>2 DEF BroadcastCaches, BroadcastTypes, Event
  <2>3. ASSUME NEW c \in Clients, BroadcastSucceeds(c) \/ BroadcastFails(c)
        PROVE  BroadcastTypes'
    BY <2>3, NoEventType DEF BroadcastSucceeds, BroadcastFails, EventGoesOn, BroadcastTypes
  <2>4. CASE BroadcastCloses
    BY <2>4, NoEventType DEF BroadcastCloses, EventGoesOn, BroadcastTypes
  <2>5. CASE UpdateStarts
    BY <2>5 DEF UpdateStarts, BroadcastTypes, ClientTypes
  <2>6. ASSUME NEW c \in Clients, UpdateWrites(c)
        PROVE  BroadcastTypes'
    BY <2>6 DEF UpdateWrites, BroadcastTypes
  <2>7. CASE UpdateEnds \/ UpdateCloses
    BY <2>7 DEF UpdateEnds, UpdateCloses, BroadcastTypes
  <2> QED
    BY <2>1, <2>2, <2>3, <2>4, <2>5, <2>6, <2>7 DEF BroadcasterStep, Broadcast, Update
<1>3. ClientTypes'
  <2>1. UNCHANGED <<subs, ever, quiet, reader, toSend>>
    BY DEF BroadcasterStep, BroadcastToNobody, BroadcastStarts, Snapshot, Broadcast,
      BroadcastCaches, BroadcastSucceeds, BroadcastFails, BroadcastCloses, UpdateStarts,
      Update, UpdateWrites, UpdateEnds, UpdateCloses, clientVars
  <2>2. clients' \subseteq Clients /\ withHealth' \subseteq Clients
    BY DEF BroadcasterStep, BroadcastToNobody, BroadcastStarts, Snapshot, Broadcast,
      BroadcastCaches, BroadcastSucceeds, BroadcastFails, BroadcastCloses, UpdateStarts,
      Update, UpdateWrites, UpdateEnds, UpdateCloses, ClientTypes
  <2>3. conn' \in [Clients -> ConnStates]
    <3>1. \/ UNCHANGED conn \/ (\E S : Closes(S))
          \/ \E c \in Clients : Writes(c) \/ WritesInTime(c)
      BY DEF BroadcasterStep, BroadcastToNobody, BroadcastStarts, Snapshot, Broadcast,
        BroadcastCaches, BroadcastSucceeds, BroadcastFails, BroadcastCloses, UpdateStarts,
        Update, UpdateWrites, UpdateEnds, UpdateCloses
    <3> QED
      BY <3>1, ConnTypes DEF ClientTypes
  <2>4. view' \in [Clients -> [Sources -> 0..MaxEvents]]
    <3>1. ASSUME NEW c \in Clients, BroadcastSucceeds(c)
          PROVE  view' \in [Clients -> [Sources -> 0..MaxEvents]]
      BY <3>1 DEF BroadcastSucceeds, Receives, ClientTypes, BroadcastTypes, Event
    <3>2. (\E c \in Clients : BroadcastSucceeds(c)) \/ UNCHANGED view
      BY DEF BroadcasterStep, BroadcastToNobody, BroadcastStarts, Snapshot, Broadcast,
        BroadcastCaches, BroadcastFails, BroadcastCloses, UpdateStarts, Update, UpdateWrites,
        UpdateEnds, UpdateCloses, clientVars
    <3> QED
      BY <3>1, <3>2 DEF ClientTypes
  <2> QED
    BY <2>1, <2>2, <2>3, <2>4 DEF ClientTypes
<1> QED
  BY <1>1, <1>2, <1>3

LEMMA NextTypes == TypeOK /\ [Next]_vars => TypeOK'
<1> SUFFICES ASSUME TypeOK, [Next]_vars
             PROVE  TypeOK'
  OBVIOUS
<1>1. CASE Check \/ PingStarts \/ CloseAll
  <2>1. UNCHANGED <<lastEvents, current, procVars, clientVars, quiet, reader, toSend, crashed>>
    BY <1>1 DEF Check, CheckHeartbeats, CheckCloses, PingStarts, CloseAll
  <2>2. conn' \in [Clients -> ConnStates]
    BY <1>1, ConnTypes DEF Check, CheckHeartbeats, CheckCloses, PingStarts, CloseAll, TypeOK,
      ClientTypes
  <2>3. /\ clients' \subseteq clients /\ withHealth' \subseteq withHealth
        /\ expired' \subseteq Clients /\ pings' \subseteq Clients
    BY <1>1 DEF Check, CheckHeartbeats, CheckCloses, PingStarts, CloseAll, Expired, tickers,
      TypeOK, ClientTypes, TickerTypes
  <2>4. ClientTypes' /\ TickerTypes'
    BY <2>1, <2>2, <2>3 DEF TypeOK, ClientTypes, TickerTypes, clientVars
  <2> QED
    BY <2>1, <2>4, SameTypes DEF TypeOK
<1>2. CASE UNCHANGED vars
  BY <1>2, SameTypes DEF vars, TypeOK, clientVars, procVars, tickers
<1> QED
  BY <1>1, <1>2, ConnectionTypes, BroadcasterTypes, NextCases

(***************************************************************************)
(* The maps of the transport hold values of their types, and BroadcastEvent*)
(* has a connection to write to until it returns.                          *)
(***************************************************************************)
THEOREM Is07TypeCorrect == Spec => []TypeOK
  BY InitTypes, NextTypes, PTL DEF Spec

-----------------------------------------------------------------------------
\* Who leaves the maps, and who closes.
LEMMA NextLeftBehind ==
  ASSUME TypeOK, NothingLeftBehind, [Next]_vars
  PROVE  NothingLeftBehind'
<1> SUFFICES ASSUME NEW c \in Clients, reader'[c] = "exited"
             PROVE  c \notin clients' /\ c \notin withHealth' /\ ~Open(c)'
  BY DEF NothingLeftBehind
<1>1. CASE reader[c] = "exited"
  <2>0. c \notin clients /\ c \notin withHealth /\ ~Open(c)
    BY <1>1 DEF NothingLeftBehind
  <2>1. ~Open(c)'
    BY <1>1, <2>0, StaysClosed
  <2>2. c \notin clients' /\ c \notin withHealth'
    <3>1. ASSUME NEW d \in Clients, ConnectionStep(d)
          PROVE  c \notin clients' /\ c \notin withHealth'
      BY <1>1, <2>0, <3>1 DEF ConnectionStep, DeadlinePasses, TwelveSecondsPass, PeerCloses,
        Connect, ReadsHealth, ReadsSubscription, Reader, AnswersHealth, SendsInitial,
        ReaderExits, PingWrites, WritesCollide
    <3>2. CASE BroadcasterStep
      BY <2>0, <3>2 DEF BroadcasterStep, BroadcastToNobody, BroadcastStarts, Snapshot,
        Broadcast, BroadcastCaches, BroadcastSucceeds, BroadcastFails, BroadcastCloses,
        UpdateStarts, Update, UpdateWrites, UpdateEnds, UpdateCloses
    <3>3. CASE Check \/ PingStarts \/ CloseAll \/ UNCHANGED vars
      BY <2>0, <3>3 DEF Check, CheckHeartbeats, CheckCloses, PingStarts, CloseAll, vars
    <3> QED
      BY <3>1, <3>2, <3>3, NextCases
  <2> QED
    BY <2>1, <2>2
<1>2. CASE reader[c] # "exited"
  <2>1. ReaderExits(c)
    <3>1. ASSUME NEW d \in Clients, ConnectionStep(d)
          PROVE  ReaderExits(c)
      BY <1>2, <3>1 DEF ConnectionStep, DeadlinePasses, TwelveSecondsPass, PeerCloses,
        Connect, ReadsHealth, ReadsSubscription, Reader, AnswersHealth, SendsInitial,
        ReaderExits, PingWrites, WritesCollide, TypeOK, ClientTypes
    <3>2. CASE BroadcasterStep
      BY <1>2, <3>2 DEF BroadcasterStep, BroadcastToNobody, BroadcastStarts, Snapshot,
        Broadcast, BroadcastCaches, BroadcastSucceeds, BroadcastFails, BroadcastCloses,
        UpdateStarts, Update, UpdateWrites, UpdateEnds, UpdateCloses
    <3>3. CASE Check \/ PingStarts \/ CloseAll \/ UNCHANGED vars
      BY <1>2, <3>3 DEF Check, CheckHeartbeats, CheckCloses, PingStarts, CloseAll, vars
    <3> QED
      BY <3>1, <3>2, <3>3, NextCases
  <2> QED
    BY <2>1 DEF ReaderExits, Closes, Open
<1> QED
  BY <1>1, <1>2

(***************************************************************************)
(* When a reader goroutine has ended, neither c.clients nor                *)
(* clientLastHealth knows the connection and it is closed, in whatever     *)
(* order the five places that remove connections and the two that add them *)
(* were run.                                                               *)
(***************************************************************************)
THEOREM Is07NothingLeftBehind == Spec => []NothingLeftBehind
<1>1. Init => TypeOK /\ NothingLeftBehind
  BY InitTypes DEF Init, NothingLeftBehind
<1>2. TypeOK /\ NothingLeftBehind /\ [Next]_vars => TypeOK' /\ NothingLeftBehind'
  BY NextTypes, NextLeftBehind
<1> QED
  BY <1>1, <1>2, PTL DEF Spec

-----------------------------------------------------------------------------
\* What a connection, the tickers and the update leave to BroadcastEvent.
LEMMA ConnectionFrame ==
  ASSUME NEW c \in Clients, ConnectionStep(c)
  PROVE  UNCHANGED <<lastEvents, current, proc, event, targets, failed>>
  BY DEF ConnectionStep, DeadlinePasses, TwelveSecondsPass, PeerCloses, Connect, ReadsHealth,
    ReadsSubscription, Reader, AnswersHealth, SendsInitial, ReaderExits, PingWrites,
    WritesCollide, procVars

LEMMA BroadcasterFrame ==
  ASSUME BroadcasterStep
  PROVE  /\ UNCHANGED <<subs, ever, reader, toSend>>
         /\ clients' \subseteq clients
         /\ UNCHANGED view \/ \E c \in Clients : BroadcastSucceeds(c)
<1>1. UNCHANGED <<subs, ever, reader, toSend>> /\ clients' \subseteq clients
  BY DEF BroadcasterStep, BroadcastToNobody, BroadcastStarts, Snapshot, Broadcast,
    BroadcastCaches, BroadcastSucceeds, BroadcastFails, BroadcastCloses, UpdateStarts, Update,
    UpdateWrites, UpdateEnds, UpdateCloses, clientVars
<1>2. UNCHANGED view \/ \E c \in Clients : BroadcastSucceeds(c)
  BY DEF BroadcasterStep, BroadcastToNobody, BroadcastStarts, Snapshot, Broadcast,
    BroadcastCaches, BroadcastFails, BroadcastCloses, UpdateStarts, Update, UpdateWrites,
    UpdateEnds, UpdateCloses, clientVars
<1> QED
  BY <1>1, <1>2

LEMMA TickerFrame ==
  ASSUME Check \/ PingStarts \/ CloseAll \/ UNCHANGED vars
  PROVE  /\ UNCHANGED <<subs, ever, reader, toSend, view, lastEvents, current, proc, event,
                        targets>>
         /\ clients' \subseteq clients
  BY DEF Check, CheckHeartbeats, CheckCloses, PingStarts, CloseAll, vars, clientVars, procVars

\* What a connection does with its own subscriptions and initial states.
LEMMA ConnectionKinds ==
  ASSUME TypeOK, NEW c \in Clients, ConnectionStep(c)
  PROVE  \/ Connect(c)
         \/ \E S \in SUBSET Sources : ReadsSubscription(c, S)
         \/ \E e \in toSend[c] : SendsInitial(c, e)
         \/ /\ UNCHANGED <<subs, ever, toSend, view>>
            /\ clients' \subseteq clients
            /\ \A d \in Clients : reader'[d] = "none" => reader[d] = "none"
  BY DEF ConnectionStep, DeadlinePasses, TwelveSecondsPass, PeerCloses, ReadsHealth, Reader,
    AnswersHealth, ReaderExits, PingWrites, WritesCollide, clientVars, TypeOK, ClientTypes

\* Subscriptions are remembered, and a snapshot is of subscribers.
LEMMA NextHear ==
  ASSUME TypeOK, HearInv, [Next]_vars
  PROVE  HearInv'
<1>inv. SubscriptionInv /\ TargetsInv /\ OnlySubscribersHear
  BY DEF HearInv
<1> USE DEF TypeOK, ClientTypes, SubscriptionInv
<1>1. ASSUME NEW c \in Clients, ConnectionStep(c)
      PROVE  HearInv'
  <2>1. CASE Connect(c)
    BY <1>inv, <1>1, <2>1, ConnectionFrame DEF Connect, clientVars, HearInv, TargetsInv,
      OnlySubscribersHear
  <2>2. ASSUME NEW S \in SUBSET Sources, ReadsSubscription(c, S)
        PROVE  HearInv'
    <3>1. \A d \in Clients : ever[d] \subseteq ever'[d]
      BY <2>2 DEF ReadsSubscription
    <3>2. \A e \in Cached(S) : e.source \in S
      BY DEF Cached
    <3>3. SubscriptionInv'
      <4> SUFFICES ASSUME NEW d \in Clients
                   PROVE  /\ subs'[d] \subseteq ever'[d]
                          /\ reader'[d] = "none" => toSend'[d] = {}
                          /\ d \in clients' => \A e \in toSend'[d] : e.source \in ever'[d]
        OBVIOUS
      <4>1. CASE d = c
        BY <1>inv, <2>2, <3>2, <4>1 DEF ReadsSubscription
      <4>2. CASE d # c
        BY <1>inv, <2>2, <4>2 DEF ReadsSubscription
      <4> QED
        BY <4>1, <4>2
    <3>4. TargetsInv' /\ OnlySubscribersHear'
      BY <1>inv, <1>1, <2>2, <3>1, ConnectionFrame DEF ReadsSubscription, TargetsInv,
        OnlySubscribersHear, BroadcastTypes
    <3> QED
      BY <3>3, <3>4 DEF HearInv
  <2>3. ASSUME NEW e \in toSend[c], SendsInitial(c, e)
        PROVE  HearInv'
    <3>1. SubscriptionInv' /\ TargetsInv'
      BY <1>inv, <1>1, <2>3, ConnectionFrame DEF SendsInitial, TargetsInv
    <3>2. OnlySubscribersHear'
      <4>1. CASE c \in clients /\ Receives(c, e)
        <5>1. e.source \in ever[c]
          BY <1>inv, <4>1
        <5> QED
          BY <1>inv, <2>3, <4>1, <5>1 DEF SendsInitial, Receives, OnlySubscribersHear
      <4>2. CASE UNCHANGED view
        BY <1>inv, <2>3, <4>2 DEF SendsInitial, OnlySubscribersHear
      <4> QED
        BY <2>3, <4>1, <4>2 DEF SendsInitial
    <3> QED
      BY <3>1, <3>2 DEF HearInv
  <2>4. CASE /\ UNCHANGED <<subs, ever, toSend, view>>
             /\ clients' \subseteq clients
             /\ \A d \in Clients : reader'[d] = "none" => reader[d] = "none"
    BY <1>inv, <1>1, <2>4, ConnectionFrame DEF HearInv, TargetsInv, OnlySubscribersHear
  <2> QED
    BY <1>1, <2>1, <2>2, <2>3, <2>4, ConnectionKinds
<1>2. CASE BroadcasterStep
  <2>1. SubscriptionInv'
    BY <1>inv, <1>2, BroadcasterFrame
  <2>2. TargetsInv'
    <3>1. ASSUME NEW s \in Sources, BroadcastStarts(s)
          PROVE  TargetsInv'
      BY <1>inv, <3>1 DEF BroadcastStarts, Snapshot, Subscribers, TargetsInv, clientVars
    <3>2. ASSUME proc' \in {"cache", "event", "close"}, ~\E s \in Sources : BroadcastStarts(s)
          PROVE  \/ targets' = {}
                 \/ /\ proc \in {"cache", "event", "close"}
                    /\ event' = event /\ targets' \subseteq targets
      BY <1>2, <3>2 DEF BroadcasterStep, BroadcastToNobody, Broadcast, BroadcastCaches,
        BroadcastSucceeds, BroadcastFails, BroadcastCloses, EventGoesOn, UpdateStarts, Update,
        UpdateWrites, UpdateEnds, UpdateCloses, procVars
    <3> QED
      BY <1>inv, <1>2, <3>1, <3>2, BroadcasterFrame DEF TargetsInv
  <2>3. OnlySubscribersHear'
    <3>1. ASSUME NEW c \in Clients, BroadcastSucceeds(c)
          PROVE  OnlySubscribersHear'
      <4>1. event.source \in ever[c]
        BY <1>inv, <3>1 DEF BroadcastSucceeds, TargetsInv
      <4> QED
        BY <1>inv, <3>1, <4>1 DEF BroadcastSucceeds, Receives, OnlySubscribersHear
    <3>2. CASE UNCHANGED view
      BY <1>inv, <1>2, <3>2, BroadcasterFrame DEF OnlySubscribersHear
    <3> QED
      BY <1>2, <3>1, <3>2, BroadcasterFrame
  <2> QED
    BY <2>1, <2>2, <2>3 DEF HearInv
<1>3. CASE Check \/ PingStarts \/ CloseAll \/ UNCHANGED vars
  BY <1>inv, <1>3, TickerFrame DEF HearInv, TargetsInv, OnlySubscribersHear
<1> QED
  BY <1>1, <1>2, <1>3, NextCases

(***************************************************************************)
(* No client ever receives an event of a source it has not subscribed to,  *)
(* although BroadcastEvent writes to a snapshot and the reader sends the   *)
(* initial states after it has released c.mu.                              *)
(***************************************************************************)
THEOREM Is07OnlySubscribersHear == Spec => []OnlySubscribersHear
<1>1. Init => TypeOK /\ HearInv
  BY InitTypes, Is07Assumption DEF Init, HearInv, SubscriptionInv, TargetsInv,
    OnlySubscribersHear
<1>2. TypeOK /\ HearInv /\ [Next]_vars => TypeOK' /\ HearInv'
  BY NextTypes, NextHear
<1>3. HearInv => OnlySubscribersHear
  BY DEF HearInv
<1> QED
  BY <1>1, <1>2, <1>3, PTL DEF Spec

-----------------------------------------------------------------------------
\* The cache only moves forward.
LEMMA CacheGrows ==
  ASSUME TypeOK, CacheInv, BroadcastCaches
  PROVE  \A s \in Sources : lastEvents[s] <= lastEvents'[s] /\ lastEvents'[s] <= current[s]
  BY DEF TypeOK, BroadcastTypes, CacheInv, BroadcastCaches, Event

\* What is sent was cached first.
LEMMA NextNewest ==
  ASSUME TypeOK, NewestInv, [Next]_vars
  PROVE  NewestInv'
<1>inv. CacheInv /\ CacheIsNewest /\ TypeOK'
  BY NextTypes DEF NewestInv
<1> USE Is07Assumption DEF TypeOK, BroadcastTypes
<1>1. ASSUME NEW c \in Clients, ConnectionStep(c)
      PROVE  NewestInv'
  <2>f. UNCHANGED <<lastEvents, current, proc, event>>
    BY <1>1, ConnectionFrame
  <2>1. CASE Connect(c)
    BY <1>inv, <2>f, <2>1 DEF Connect, clientVars, NewestInv, CacheInv, CacheIsNewest
  <2>2. ASSUME NEW S \in SUBSET Sources, ReadsSubscription(c, S)
        PROVE  NewestInv'
    <3>1. \A e \in Cached(S) : e.n = lastEvents[e.source] /\ e.source \in Sources
      BY DEF Cached
    <3>2. \A d \in Clients : \A e \in toSend'[d] : e.n <= lastEvents[e.source]
      BY <1>inv, <2>2, <3>1 DEF ReadsSubscription, CacheInv, ClientTypes
    <3> QED
      BY <1>inv, <2>f, <2>2, <3>2 DEF ReadsSubscription, NewestInv, CacheInv, CacheIsNewest
  <2>3. ASSUME NEW e \in toSend[c], SendsInitial(c, e)
        PROVE  NewestInv'
    <3>1. \A d \in Clients : toSend'[d] \subseteq toSend[d]
      BY <2>3 DEF SendsInitial, ClientTypes
    <3>2. CacheIsNewest'
      <4>1. CASE Receives(c, e)
        <5>1. e.n <= lastEvents[e.source]
          BY <1>inv DEF CacheInv
        <5> QED
          BY <1>inv, <2>f, <4>1, <5>1 DEF Receives, CacheIsNewest, ClientTypes
      <4>2. CASE UNCHANGED view
        BY <1>inv, <2>f, <4>2 DEF CacheIsNewest
      <4> QED
        BY <2>3, <4>1, <4>2 DEF SendsInitial
    <3> QED
      BY <1>inv, <2>f, <3>1, <3>2 DEF NewestInv, CacheInv
  <2>4. CASE UNCHANGED <<toSend, view>>
    BY <1>inv, <2>f, <2>4 DEF NewestInv, CacheInv, CacheIsNewest
  <2> QED
    BY <1>1, <2>1, <2>2, <2>3, <2>4, ConnectionKinds
<1>2. CASE BroadcasterStep
  <2>f. toSend' = toSend
    BY <1>2, BroadcasterFrame
  <2>1. ASSUME NEW s \in Sources, BroadcastToNobody(s) \/ BroadcastStarts(s)
        PROVE  NewestInv'
    <3>1. /\ lastEvents' = lastEvents /\ view' = view
          /\ current' = [current EXCEPT ![s] = @ + 1]
          /\ proc' \in {"idle", "cache"}
          /\ proc' = "cache" => event' = [source |-> s, n |-> current[s] + 1]
      BY <2>1 DEF BroadcastToNobody, BroadcastStarts, Snapshot, clientVars, procVars
    <3>2. \A t \in Sources : lastEvents[t] <= current'[t]
      BY <1>inv, <3>1 DEF CacheInv
    <3> QED
      BY <1>inv, <2>f, <3>1, <3>2 DEF NewestInv, CacheInv, CacheIsNewest
  <2>2. CASE BroadcastCaches
    <3>1. /\ UNCHANGED <<current, event, view>> /\ proc' = "event"
          /\ lastEvents'[event.source] = event.n
      BY <2>2 DEF BroadcastCaches, clientVars, Event
    <3>2. \A s \in Sources : lastEvents[s] <= lastEvents'[s] /\ lastEvents'[s] <= current[s]
      BY <1>inv, <2>2, CacheGrows
    <3>3. \A d \in Clients : \A e \in toSend[d] : e.n <= lastEvents'[e.source]
      <4> SUFFICES ASSUME NEW d \in Clients, NEW e \in toSend[d]
                   PROVE  e.n <= lastEvents'[e.source]
        OBVIOUS
      <4>1. e.source \in Sources /\ e.n \in 0..MaxEvents /\ e.n <= lastEvents[e.source]
        BY <1>inv DEF CacheInv, ClientTypes, Event
      <4> QED
        BY <1>inv, <3>2, <4>1
    <3>4. CacheIsNewest'
      BY <1>inv, <3>1, <3>2 DEF CacheIsNewest, ClientTypes
    <3> QED
      BY <2>f, <3>1, <3>2, <3>3, <3>4 DEF NewestInv, CacheInv
  <2>3. ASSUME NEW c \in Clients, BroadcastSucceeds(c)
        PROVE  NewestInv'
    <3>1. /\ UNCHANGED <<lastEvents, current>>
          /\ proc' = "idle" \/ (proc' = "event" /\ event' = event)
      BY <2>3 DEF BroadcastSucceeds, EventGoesOn
    <3>2. event.n = lastEvents[event.source]
      BY <1>inv, <2>3 DEF BroadcastSucceeds, CacheInv
    <3>3. CacheIsNewest'
      BY <1>inv, <2>3, <3>1, <3>2 DEF BroadcastSucceeds, Receives, CacheIsNewest, ClientTypes,
        Event
    <3> QED
      BY <1>inv, <2>f, <2>3, <3>1, <3>2, <3>3 DEF NewestInv, CacheInv
  <2>4. CASE \/ BroadcastCloses \/ UpdateStarts \/ Update
             \/ \E c \in Clients : BroadcastFails(c)
    <3>1. /\ UNCHANGED <<lastEvents, current, view>>
          /\ proc' # "cache"
          /\ proc' \in {"event", "close"} => proc \in {"event", "close"} /\ event' = event
      BY <2>4 DEF BroadcastCloses, EventGoesOn, UpdateStarts, Update, UpdateWrites, UpdateEnds,
        UpdateCloses, BroadcastFails, clientVars
    <3> QED
      BY <1>inv, <2>f, <3>1 DEF NewestInv, CacheInv, CacheIsNewest
  <2> QED
    BY <1>2, <2>1, <2>2, <2>3, <2>4 DEF BroadcasterStep, Broadcast
<1>3. CASE Check \/ PingStarts \/ CloseAll \/ UNCHANGED vars
  BY <1>inv, <1>3, TickerFrame DEF NewestInv, CacheInv, CacheIsNewest
<1> QED
  BY <1>1, <1>2, <1>3, NextCases

(***************************************************************************)
(* No client knows an event newer than the cached one: BroadcastEvent      *)
(* caches before it writes, and the events of a source come in order.      *)
(***************************************************************************)
THEOREM Is07CacheIsNewest == Spec => []CacheIsNewest
<1>1. Init => TypeOK /\ NewestInv
  BY InitTypes, Is07Assumption DEF Init, NewestInv, CacheInv, CacheIsNewest
<1>2. TypeOK /\ NewestInv /\ [Next]_vars => TypeOK' /\ NewestInv'
  BY NextTypes, NextNewest
<1>3. NewestInv => CacheIsNewest
  BY DEF NewestInv
<1> QED
  BY <1>1, <1>2, <1>3, PTL DEF Spec
=============================================================================

----------------------------- MODULE NcpServer ------------------------------
(***************************************************************************)
(* The IS-12 control protocol server of nmosController                     *)
(* (internal/infrastructure/nmos_controller.go: handleNCP,                 *)
(* dispatchNCPCommand, handleSubscriptions, BroadcastNCPNotification) and  *)
(* the control objects behind it (internal/nca/nca_model.go, wrapped by    *)
(* ncp_objects.go).                                                        *)
(*                                                                         *)
(* The goroutines that change an object are the handler of each client     *)
(* (Set) and processMessages (a report of a Shure device): both call       *)
(* SetProperty, which asks OnSet to send the value to the device, stores   *)
(* it and broadcasts a notification, without a lock around the three.      *)
(* ncpClientsMu is held for the whole broadcast; ncpSubMu and ncpMu are    *)
(* never held by a goroutine that waits, so what they protect is one step. *)
(* An object is known by its OID and has one property that can be set (the *)
(* value of a worker, the label of any object).  Commands that only read   *)
(* (Get, the Find methods) are the requests of Asks.  Time is abstract.    *)
(*                                                                         *)
(* SendCommand writes to the device's connection without a deadline, so a  *)
(* device that does not read may keep its caller for ever: OnSetSends,     *)
(* OnSetFails and MethodReturns have no fairness.                          *)
(***************************************************************************)
EXTENDS Integers, FiniteSets

CONSTANTS
  Clients,   \* NCP connections; each connects once
  Objects,   \* OIDs
  Plain,     \* those without an OnSet: read-only workers, labels
  MaxWrites, \* bound: Sets and reports; each brings a value of its own
  MaxSubs    \* bound: subscription identifiers given out

ASSUME NcpServerAssumption ==
  /\ Objects # {}   \* the root block is always there
  /\ Plain \subseteq Objects
  /\ MaxWrites \in Nat
  /\ MaxSubs \in Nat
  /\ Clients \cap {"gateway", "stop", "free"} = {}

VARIABLES
  ncpObjects,  \* registered objects
  value,       \* value[o]: Worker.Value
  ncpClients,  \* the connections a broadcast goes to
  subs,        \* subs[c][o]: identifier in ncpSubscriptions (0: none)
  nextSubscriptionID,
  mu,          \* who holds ncpClientsMu
  targets,     \* connections the holder has still to deal with
  conn,        \* conn[c]: see ConnStates
  pc,          \* pc[a]: where the goroutine a is
  job,         \* job[a]: the object and value it is setting
  writes,      \* how many Sets and reports there were
  sent,        \* history: sent[o], values accepted by OnSet (Plain: by Set)
  told,        \* history: told[c][o], the last notification c received
  raced        \* history: raced[o], the last store fell into another's write

Values == 1..MaxWrites
NoValue == 0   \* the value of a new object

objVars == <<ncpObjects, value, writes, sent, raced>>
subVars == <<subs, nextSubscriptionID>>
lockVars == <<mu, targets>>
vars == <<objVars, ncpClients, subVars, lockVars, conn, pc, job, told>>

Writers == Clients \cup {"gateway"}
Actors == Writers \cup {"stop"}

(***************************************************************************)
(* "ready"   a write succeeds                                              *)
(* "late"    the write deadline has passed: a write fails                  *)
(* "broken"  a write has failed: so does every further one                 *)
(* "gone"    the client is gone without closing the connection: a write    *)
(*           waits for its deadline and fails                              *)
(* "closed"  not connected yet, or closed by either side                   *)
(***************************************************************************)
ConnStates == {"ready", "late", "broken", "gone", "closed"}

NoJob == [oid |-> CHOOSE o \in Objects : TRUE, value |-> NoValue]

NcpTypeOK ==
  /\ ncpObjects \subseteq Objects
  /\ value \in [Objects -> Values \cup {NoValue}]
  /\ ncpClients \subseteq Clients
  /\ subs \in [Clients -> [Objects -> 0..MaxSubs]]
  /\ nextSubscriptionID \in 1..(MaxSubs + 1)
  /\ mu \in Writers \cup {"free"}
  /\ \A a \in Writers : pc[a] = "broadcast" <=> mu = a
  /\ targets \subseteq Clients
  /\ conn \in [Clients -> ConnStates]
  /\ pc \in [Actors -> {"none", "read", "method", "send", "store", "notify",
                        "broadcast", "respond", "unlist", "close", "exited"}]
  /\ job \in [Writers -> [oid : Objects, value : Values \cup {NoValue}]]
  /\ writes \in 0..MaxWrites
  /\ sent \in [Objects -> SUBSET Values]
  /\ told \in [Clients -> [Objects -> Values \cup {NoValue}]]
  /\ raced \in [Objects -> BOOLEAN]

NcpInit ==
  /\ ncpObjects = {}
  /\ value = [o \in Objects |-> NoValue]
  /\ ncpClients = {}
  /\ subs = [c \in Clients |-> [o \in Objects |-> 0]]
  /\ nextSubscriptionID = 1
  /\ mu = "free"
  /\ targets = {}
  /\ conn = [c \in Clients |-> "closed"]
  /\ pc = [a \in Actors |-> IF a = "gateway" THEN "read" ELSE "none"]
  /\ job = [a \in Writers |-> NoJob]
  /\ writes = 0
  /\ sent = [o \in Objects |-> {}]
  /\ told = [c \in Clients |-> [o \in Objects |-> NoValue]]
  /\ raced = [o \in Objects |-> FALSE]

Open(c) == conn[c] # "closed"
Alive(c) == conn[c] \in {"ready", "late", "broken"}

GoesTo(a, l) == pc' = [pc EXCEPT ![a] = l]

-----------------------------------------------------------------------------
(***************************************************************************)
(* The connection (external) and the client at its other end.              *)
(***************************************************************************)
ConnBecomes(c, s) ==
  /\ conn' = [conn EXCEPT ![c] = s]
  /\ UNCHANGED <<objVars, ncpClients, subVars, lockVars, pc, job, told>>

PeerCloses(c) == Alive(c) /\ ConnBecomes(c, "closed")

PeerVanishes(c) == Alive(c) /\ ConnBecomes(c, "gone")

\* Thirty seconds since the deadline was set.
WriteDeadlinePasses(c) == conn[c] = "ready" /\ ConnBecomes(c, "late")

\* What a failed write leaves behind.
Failed(s) == IF s = "late" THEN "broken" ELSE s

-----------------------------------------------------------------------------
(***************************************************************************)
(* handleNCP: connecting, reading a message, answering it.                 *)
(***************************************************************************)
Connects(c) ==
  /\ pc[c] = "none"
  /\ mu = "free"
  /\ conn' = [conn EXCEPT ![c] = "ready"]
  /\ ncpClients' = ncpClients \cup {c}
  /\ GoesTo(c, "read")
  /\ UNCHANGED <<objVars, subVars, lockVars, job, told>>

MayRequest(c) == pc[c] = "read" /\ Alive(c)

\* A command that changes nothing here, or is refused: the object is unknown
\* (404), the arguments are wrong (400), the property is read-only (500).  The
\* sequence methods are refused too: no property is a []interface{}.
Asks(c) ==
  /\ MayRequest(c)
  /\ GoesTo(c, "respond")
  /\ UNCHANGED <<objVars, ncpClients, subVars, lockVars, conn, job, told>>

\* A method of the gain worker: its OnMethod calls SendCommand.
InvokesMethod(c) ==
  /\ MayRequest(c)
  /\ GoesTo(c, "method")
  /\ UNCHANGED <<objVars, ncpClients, subVars, lockVars, conn, job, told>>

MethodReturns(c) ==
  /\ pc[c] = "method"
  /\ GoesTo(c, "respond")
  /\ UNCHANGED <<objVars, ncpClients, subVars, lockVars, conn, job, told>>

\* handleSubscriptions for one OID: a new identifier, even when c has one.
Subscribes(c, o) ==
  /\ MayRequest(c)
  /\ o \in ncpObjects
  /\ nextSubscriptionID <= MaxSubs
  /\ subs' = [subs EXCEPT ![c][o] = nextSubscriptionID]
  /\ nextSubscriptionID' = nextSubscriptionID + 1
  /\ GoesTo(c, "respond")
  /\ UNCHANGED <<objVars, ncpClients, lockVars, conn, job, told>>

\* SetWriteDeadline, WriteJSON.  The break after a failed write leaves the
\* switch, not the loop.
Responds(c) ==
  /\ pc[c] = "respond"
  /\ conn' = [conn EXCEPT ![c] = IF @ = "late" THEN "ready" ELSE @]
  /\ GoesTo(c, "read")
  /\ UNCHANGED <<objVars, ncpClients, subVars, lockVars, job, told>>

\* ReadMessage fails: the connection is closed, or nothing came for a minute.
ReadFails(c) ==
  /\ pc[c] = "read"
  /\ GoesTo(c, "unlist")
  /\ UNCHANGED <<objVars, ncpClients, subVars, lockVars, conn, job, told>>

\* The deferred function.
Unlists(c) ==
  /\ pc[c] = "unlist"
  /\ mu = "free"
  /\ ncpClients' = ncpClients \ {c}
  /\ GoesTo(c, "close")
  /\ UNCHANGED <<objVars, subVars, lockVars, conn, job, told>>

\* Mutant: the subscriptions stay.
ExitsSubscribed(c) ==
  /\ pc[c] = "close"
  /\ conn' = [conn EXCEPT ![c] = "closed"]
  /\ GoesTo(c, "exited")
  /\ UNCHANGED <<objVars, ncpClients, subVars, lockVars, job, told>>

Exits(c) ==
  /\ pc[c] = "close"
  /\ subs' = [subs EXCEPT ![c] = [o \in Objects |-> 0]]
  /\ conn' = [conn EXCEPT ![c] = "closed"]
  /\ GoesTo(c, "exited")
  /\ UNCHANGED <<objVars, ncpClients, nextSubscriptionID, lockVars, job, told>>

-----------------------------------------------------------------------------
(***************************************************************************)
(* SetProperty, called by a client's handler or, for a report, by          *)
(* handleShureDevice.                                                      *)
(***************************************************************************)
InFlight(o) ==
  {a \in Writers : pc[a] \in {"notify", "broadcast"} /\ job[a].oid = o}

Starts(a, o) ==
  /\ IF a = "gateway" THEN pc[a] = "read" ELSE MayRequest(a)
  /\ o \in ncpObjects
  /\ writes < MaxWrites
  /\ writes' = writes + 1
  /\ job' = [job EXCEPT ![a] = [oid |-> o, value |-> writes + 1]]
  /\ GoesTo(a, IF o \in Plain THEN "store" ELSE "send")
  /\ UNCHANGED <<ncpObjects, value, sent, raced, ncpClients, subVars, lockVars, conn, told>>

OnSetSends(a) ==
  /\ pc[a] = "send"
  /\ sent' = [sent EXCEPT ![job[a].oid] = @ \cup {job[a].value}]
  /\ GoesTo(a, "store")
  /\ UNCHANGED <<ncpObjects, value, writes, raced, ncpClients, subVars, lockVars, conn, job,
                 told>>

\* After SetProperty the handler answers; processMessages goes on.
Returned(a) == IF a = "gateway" THEN "read" ELSE "respond"

\* Mutant: the error is ignored.
OnSetFailsUnnoticed(a) ==
  /\ pc[a] = "send"
  /\ GoesTo(a, "store")
  /\ UNCHANGED <<objVars, ncpClients, subVars, lockVars, conn, job, told>>

\* SendCommand returns an error, and so does SetProperty.
OnSetFails(a) ==
  /\ pc[a] = "send"
  /\ job' = [job EXCEPT ![a] = NoJob]
  /\ GoesTo(a, Returned(a))
  /\ UNCHANGED <<objVars, ncpClients, subVars, lockVars, conn, told>>

Stores(a) ==
  LET o == job[a].oid IN
  /\ pc[a] = "store"
  /\ value' = [value EXCEPT ![o] = job[a].value]
  /\ sent' = [sent EXCEPT ![o] = @ \cup IF o \in Plain THEN {job[a].value} ELSE {}]
  /\ raced' = [raced EXCEPT ![o] = InFlight(o) # {}]
  /\ GoesTo(a, "notify")
  /\ UNCHANGED <<ncpObjects, writes, ncpClients, subVars, lockVars, conn, job, told>>

\* Mutant: the client that sets the value is not notified.
BroadcastStartsForOthers(a) ==
  /\ pc[a] = "notify"
  /\ mu = "free"
  /\ mu' = a
  /\ targets' = ncpClients \ {a}
  /\ GoesTo(a, "broadcast")
  /\ UNCHANGED <<objVars, ncpClients, subVars, conn, job, told>>

\* Mutant: ncpClientsMu is not taken.
BroadcastStartsUnlocked(a) ==
  /\ pc[a] = "notify"
  /\ mu' = a
  /\ targets' = ncpClients
  /\ GoesTo(a, "broadcast")
  /\ UNCHANGED <<objVars, ncpClients, subVars, conn, job, told>>

\* BroadcastNCPNotification
BroadcastStarts(a) ==
  /\ pc[a] = "notify"
  /\ mu = "free"
  /\ mu' = a
  /\ targets' = ncpClients
  /\ GoesTo(a, "broadcast")
  /\ UNCHANGED <<objVars, ncpClients, subVars, conn, job, told>>

Subscribed(a, c) == subs[c][job[a].oid] # 0

BroadcastSkips(a, c) ==
  /\ pc[a] = "broadcast"
  /\ c \in targets
  /\ ~Subscribed(a, c)
  /\ targets' = targets \ {c}
  /\ UNCHANGED <<objVars, ncpClients, subVars, mu, conn, pc, job, told>>

BroadcastWrites(a, c) ==
  /\ pc[a] = "broadcast"
  /\ c \in targets
  /\ Subscribed(a, c)
  /\ conn[c] = "ready"
  /\ told' = [told EXCEPT ![c][job[a].oid] = job[a].value]
  /\ targets' = targets \ {c}
  /\ UNCHANGED <<objVars, ncpClients, subVars, mu, conn, pc, job>>

\* Mutant: no write deadline, so a write to a client that is gone waits.
BroadcastFailsInTime(a, c) ==
  /\ pc[a] = "broadcast"
  /\ c \in targets
  /\ Subscribed(a, c)
  /\ conn[c] \notin {"ready", "gone"}
  /\ conn' = [conn EXCEPT ![c] = Failed(@)]
  /\ targets' = targets \ {c}
  /\ UNCHANGED <<objVars, ncpClients, subVars, mu, pc, job, told>>

\* The failure is logged; the client stays.
BroadcastFails(a, c) ==
  /\ pc[a] = "broadcast"
  /\ c \in targets
  /\ Subscribed(a, c)
  /\ conn[c] # "ready"
  /\ conn' = [conn EXCEPT ![c] = Failed(@)]
  /\ targets' = targets \ {c}
  /\ UNCHANGED <<objVars, ncpClients, subVars, mu, pc, job, told>>

BroadcastEnds(a) ==
  /\ pc[a] = "broadcast"
  /\ targets = {}
  /\ mu' = "free"
  /\ job' = [job EXCEPT ![a] = NoJob]
  /\ GoesTo(a, Returned(a))
  /\ UNCHANGED <<objVars, ncpClients, subVars, targets, conn, told>>

-----------------------------------------------------------------------------
(***************************************************************************)
(* RegisterNCPObject, called by setupDeviceNCP, and the NCP half of        *)
(* closeAllWebsocketConnections, called by Stop.                           *)
(***************************************************************************)
RegisterNCPObject(o) ==
  /\ o \notin ncpObjects
  /\ ncpObjects' = ncpObjects \cup {o}
  /\ UNCHANGED <<value, writes, sent, raced, ncpClients, subVars, lockVars, conn, pc, job,
                 told>>

StopCloses ==
  /\ pc["stop"] = "none"
  /\ mu = "free"
  /\ conn' = [c \in Clients |-> IF c \in ncpClients THEN "closed" ELSE conn[c]]
  /\ GoesTo("stop", "exited")
  /\ UNCHANGED <<objVars, ncpClients, subVars, lockVars, job, told>>

-----------------------------------------------------------------------------
Broadcasts(a) ==
  \/ \E c \in Clients : BroadcastSkips(a, c) \/ BroadcastWrites(a, c) \/ BroadcastFails(a, c)
  \/ BroadcastEnds(a)

Sets(a) == OnSetSends(a) \/ OnSetFails(a) \/ Stores(a) \/ BroadcastStarts(a) \/ Broadcasts(a)

Peer(c) == PeerCloses(c) \/ PeerVanishes(c) \/ WriteDeadlinePasses(c)

Handler(c) ==
  \/ Connects(c) \/ Asks(c) \/ InvokesMethod(c) \/ MethodReturns(c)
  \/ \E o \in Objects : Subscribes(c, o)
  \/ Responds(c) \/ ReadFails(c) \/ Unlists(c) \/ Exits(c)

NcpNext ==
  \/ \E c \in Clients : Peer(c) \/ Handler(c)
  \/ \E a \in Writers : Sets(a) \/ \E o \in Objects : Starts(a, o)
  \/ \E o \in Objects : RegisterNCPObject(o)
  \/ StopCloses

NcpSpec == NcpInit /\ [][NcpNext]_vars

(***************************************************************************)
(* Goroutines run.  sync.Mutex does not starve a waiter: strong fairness.  *)
(* The write and the read deadline of a client that is gone pass, and a    *)
(* read of a closed connection returns.  Nothing is assumed of SendCommand *)
(* (OnSetSends, OnSetFails, MethodReturns).                                *)
(***************************************************************************)
NcpFairness ==
  /\ \A a \in Writers :
       /\ WF_vars(Stores(a))
       /\ SF_vars(BroadcastStarts(a))
       /\ WF_vars(Broadcasts(a))
  /\ \A c \in Clients :
       /\ WF_vars(Responds(c))
       /\ WF_vars(~Alive(c) /\ ReadFails(c))
       /\ SF_vars(Unlists(c))
       /\ WF_vars(Exits(c))

-----------------------------------------------------------------------------
(***************************************************************************)
(* What a client believes.  SetProperty stores and notifies without a      *)
(* lock, so two writes of one object may notify in the other order and     *)
(* leave every subscriber with the older value.  That is the only way:     *)
(* once nobody is writing an object, unless its last store fell between    *)
(* the store and the end of the broadcast of another write, the last       *)
(* notification of every subscriber that was told anything, and missed     *)
(* nothing, is the value stored.                                           *)
(***************************************************************************)
SettledSubscribersAgree ==
  \A c \in ncpClients, o \in Objects :
    (/\ InFlight(o) = {}
     /\ ~raced[o]
     /\ told[c][o] # NoValue
     /\ conn[c] \in {"ready", "late"})
      => told[c][o] = value[o]

(***************************************************************************)
(* A value the device refused (OnSet failed) is neither stored nor shown   *)
(* to anybody, whichever goroutine set it.                                 *)
(***************************************************************************)
OnlyAcceptedShown ==
  \A o \in Objects :
    {value[o]} \cup {told[c][o] : c \in Clients} \subseteq sent[o] \cup {NoValue}

(***************************************************************************)
(* Once the device has taken its value, or needs none, a Set or a report   *)
(* is over some time: the goroutines that are stuck in SendCommand hold no *)
(* lock that it needs, and the broadcast, which holds ncpClientsMu while   *)
(* it waits for the slowest subscriber, is bounded by the write deadline.  *)
(***************************************************************************)
WritesEnd ==
  \A a \in Writers : (pc[a] \in {"store", "notify", "broadcast"})
                       ~> (pc[a] \in {"read", "respond"})

(***************************************************************************)
(* The handler of a client that is gone, whether the connection was closed *)
(* or not, ends and leaves nothing behind: its read deadline passes,       *)
(* whatever is waiting to be written to it, and its deferred function      *)
(* empties the three tables that know the client.  Assumed of the device:  *)
(* this handler's own SendCommand calls return; those of the others may    *)
(* not.                                                                    *)
(***************************************************************************)
SendCommandReturns(a) == []<>(pc[a] \notin {"send", "method"})
GoneClientLeaves ==
  \A c \in Clients :
    SendCommandReturns(c) =>
      ((pc[c] # "none" /\ ~Alive(c))
         ~> (/\ pc[c] = "exited"
             /\ c \notin ncpClients
             /\ ~Open(c)
             /\ \A o \in Objects : subs[c][o] = 0))
=============================================================================

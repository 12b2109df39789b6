------------------------------ MODULE Discovery -----------------------------
(***************************************************************************)
(* ShureDiscoverer (internal/infrastructure/mdns_discovery.go).  Each mDNS *)
(* service has a browsing goroutine, which the WaitGroup counts, and a     *)
(* goroutine that drains its results, which nothing counts; the listener   *)
(* of Shure's own protocol is counted.  All of them offer what they hear   *)
(* to the channel devices through sendDevice.  zeroconf and the network    *)
(* are external; time is abstract.                                         *)
(***************************************************************************)
EXTENDS Integers, Sequences

CONSTANTS
  Services,     \* mDNS service types
  MdnsRecords,  \* what may be heard through mDNS: [ip, port, model]
  SlpRecords,   \* and through Shure's protocol
  ChannelSize   \* capacity of devices (20)

ASSUME DiscoveryAssumption ==
  /\ ChannelSize \in Nat \ {0}
  /\ "slp" \notin Services

VARIABLES
  devices,   \* the channel
  closed,    \* it is closed
  recent,    \* addresses with a lastSent less than 30 seconds ago
  browse,    \* browse[s]: the browsing goroutine
  sender,    \* sender[s]: a draining goroutine, or the listener
  hand,      \* hand[s]: the record it is offering
  stop,      \* Stop
  ctxDone,   \* the context is done
  crashed    \* somebody sent to the closed channel

discVars == <<devices, closed, recent, browse, sender, hand, stop, ctxDone, crashed>>

Records == MdnsRecords \cup SlpRecords
Senders == Services \cup {"slp"}
NoRecord == [ip |-> 0, port |-> 0, model |-> "OTHER"]

DiscoveryInit ==
  /\ devices = <<>>
  /\ closed = FALSE
  /\ recent = {}
  /\ browse = [s \in Services |-> "starting"]
  /\ sender = [s \in Senders |-> IF s = "slp" THEN "bind" ELSE "off"]
  /\ hand = [s \in Senders |-> NoRecord]
  /\ stop = "no"
  /\ ctxDone = FALSE
  /\ crashed = FALSE

SenderAt(s, l) == sender' = [sender EXCEPT ![s] = l]

-----------------------------------------------------------------------------
(***************************************************************************)
(* browseMDNS                                                              *)
(***************************************************************************)
\* NewResolver, and the goroutine that drains the results.
Resolves(s) ==
  /\ browse[s] = "starting" /\ sender[s] = "off"
  /\ SenderAt(s, "idle")
  /\ UNCHANGED <<devices, closed, recent, browse, hand, stop, ctxDone, crashed>>

ResolverFails(s) ==
  /\ browse[s] = "starting" /\ sender[s] = "off"
  /\ browse' = [browse EXCEPT ![s] = "failed"]
  /\ UNCHANGED <<devices, closed, recent, sender, hand, stop, ctxDone, crashed>>

\* Browse returns; results may have come before.
BrowseReturns(s, l) ==
  /\ browse[s] = "starting" /\ sender[s] # "off"
  /\ browse' = [browse EXCEPT ![s] = l]
  /\ UNCHANGED <<devices, closed, recent, sender, hand, stop, ctxDone, crashed>>

BrowseStarts(s) == BrowseReturns(s, "up")
BrowseFails(s) == BrowseReturns(s, "failed")

BrowseEnds(s) ==
  /\ browse[s] = "up"
  /\ ctxDone
  /\ browse' = [browse EXCEPT ![s] = "done"]
  /\ UNCHANGED <<devices, closed, recent, sender, hand, stop, ctxDone, crashed>>

\* zeroconf closes the results some time after the context is done or Browse
\* has failed; results may be waiting in the channel until then.
DrainEnds(s) ==
  /\ sender[s] = "idle"
  /\ ctxDone \/ browse[s] = "failed"
  /\ SenderAt(s, "exited")
  /\ UNCHANGED <<devices, closed, recent, browse, hand, stop, ctxDone, crashed>>

-----------------------------------------------------------------------------
(***************************************************************************)
(* listenShureDiscovery: the context is looked at between two reads.       *)
(***************************************************************************)
ListenerBinds ==
  /\ sender["slp"] = "bind"
  /\ \/ SenderAt("slp", "check")
     \/ SenderAt("slp", "exited")   \* neither address can be bound
  /\ UNCHANGED <<devices, closed, recent, browse, hand, stop, ctxDone, crashed>>

ListenerReads ==
  /\ sender["slp"] = "check"
  /\ ~ctxDone
  /\ SenderAt("slp", "idle")
  /\ UNCHANGED <<devices, closed, recent, browse, hand, stop, ctxDone, crashed>>

ListenerTimesOut ==
  /\ sender["slp"] = "idle"
  /\ SenderAt("slp", "check")
  /\ UNCHANGED <<devices, closed, recent, browse, hand, stop, ctxDone, crashed>>

ListenerEnds ==
  /\ sender["slp"] = "check"
  /\ ctxDone
  /\ SenderAt("slp", "exited")
  /\ UNCHANGED <<devices, closed, recent, browse, hand, stop, ctxDone, crashed>>

-----------------------------------------------------------------------------
(***************************************************************************)
(* sendDevice: the section under d.mu, then the select.                    *)
(***************************************************************************)
Listens(s) == IF s = "slp" THEN "check" ELSE "idle"

CanHear(s, r) ==
  /\ sender[s] = "idle"
  /\ r \in IF s = "slp" THEN SlpRecords ELSE MdnsRecords

HearsNew(s, r) ==
  /\ CanHear(s, r)
  /\ r.ip \notin recent
  /\ recent' = recent \cup {r.ip}
  /\ hand' = [hand EXCEPT ![s] = r]
  /\ SenderAt(s, "offer")
  /\ UNCHANGED <<devices, closed, browse, stop, ctxDone, crashed>>

HearsRecent(s, r) ==
  /\ CanHear(s, r)
  /\ r.ip \in recent
  /\ SenderAt(s, Listens(s))
  /\ UNCHANGED <<devices, closed, recent, browse, hand, stop, ctxDone, crashed>>

\* Thirty seconds since the address was sent.
Expires(ip) ==
  /\ ip \in recent
  /\ recent' = recent \ {ip}
  /\ UNCHANGED <<devices, closed, browse, sender, hand, stop, ctxDone, crashed>>

Offered(s) ==
  /\ sender[s] = "offer"
  /\ hand' = [hand EXCEPT ![s] = NoRecord]
  /\ SenderAt(s, Listens(s))
  /\ UNCHANGED <<closed, recent, browse, stop, ctxDone>>

Sends(s) ==
  /\ Offered(s)
  /\ ~closed
  /\ Len(devices) < ChannelSize
  /\ devices' = Append(devices, hand[s])
  /\ UNCHANGED crashed

\* Mutant: a plain send, without the other two cases.
DropsNever(s) == FALSE /\ UNCHANGED discVars

\* The context is done, or nothing can go on: the record is dropped, and its
\* address stays in lastSent.
Drops(s) ==
  /\ Offered(s)
  /\ ctxDone \/ Len(devices) = ChannelSize
  /\ UNCHANGED <<devices, crashed>>

\* A send to a closed channel can always go on: the select may choose it.
Panics(s) ==
  /\ Offered(s)
  /\ closed
  /\ crashed' = TRUE
  /\ UNCHANGED devices

-----------------------------------------------------------------------------
(***************************************************************************)
(* The context, and Stop, called with g.mu held (StopStarts is the         *)
(* caller's).                                                              *)
(***************************************************************************)
Signal ==
  /\ ~ctxDone
  /\ ctxDone' = TRUE
  /\ UNCHANGED <<devices, closed, recent, browse, sender, hand, stop, crashed>>

\* Mutant: the listener is not counted.
AllBrowsersDone == \A s \in Services : browse[s] \in {"failed", "done"}

\* What the WaitGroup counts.
AllDone ==
  /\ \A s \in Services : browse[s] \in {"failed", "done"}
  /\ sender["slp"] = "exited"

StopCloses ==
  /\ stop = "wait"
  /\ AllDone
  /\ closed' = TRUE
  /\ stop' = "returned"
  /\ UNCHANGED <<devices, recent, browse, sender, hand, ctxDone, crashed>>

Browses(s) ==
  Resolves(s) \/ ResolverFails(s) \/ BrowseStarts(s) \/ BrowseFails(s) \/ BrowseEnds(s)

Sender(s) == Sends(s) \/ Drops(s) \/ Panics(s)

DiscoverySteps ==
  \/ \E s \in Services : Browses(s) \/ DrainEnds(s)
  \/ ListenerBinds \/ ListenerReads \/ ListenerTimesOut \/ ListenerEnds
  \/ \E s \in Senders : Sender(s) \/ \E r \in Records : HearsNew(s, r) \/ HearsRecent(s, r)
  \/ \E ip \in recent : Expires(ip)
  \/ Signal
  \/ StopCloses
=============================================================================

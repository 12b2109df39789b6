---------------------------- MODULE Is07Events ------------------------------
(***************************************************************************)
(* The IS-07 event transport of nmosController                             *)
(* (internal/infrastructure/nmos_controller.go): the websocket handler     *)
(* with one reader goroutine per connection, BroadcastEvent and            *)
(* broadcastUpdate called by processMessages, and the two tickers          *)
(* checkIS07Heartbeats and pingIS07Clients.  They share clients,           *)
(* clientLastHealth and lastEvents under c.mu, and release c.mu between    *)
(* reading these maps and writing to the connections.                      *)
(*                                                                         *)
(* Time is abstract: an action lets the write deadline of a connection or  *)
(* the twelve seconds of a client pass.  A websocket.Conn (external) fails *)
(* every write after a first failed one, and panics when two goroutines    *)
(* write at once.  A resource update and a health response are messages    *)
(* without content here.                                                   *)
(***************************************************************************)
EXTENDS Integers, FiniteSets

CONSTANTS
  Clients,   \* websocket connections; each connects once
  Sources,   \* IS-07 sources
  MaxEvents  \* bound: how many events each source has

ASSUME Is07Assumption ==
  /\ Sources # {}
  /\ MaxEvents \in Nat

VARIABLES
  clients,     \* connections in c.clients
  subs,        \* subs[c]: sources c is subscribed to
  withHealth,  \* connections in c.clientLastHealth
  quiet,       \* quiet[c]: connected, and no health for twelve seconds
  lastEvents,  \* lastEvents[s]: the cached event (0: none)
  current,     \* current[s]: the newest event passed to BroadcastEvent
  conn,        \* conn[c]: see ConnStates
  reader,      \* reader[c]: the reader goroutine of handleWebsocket
  toSend,      \* toSend[c]: initial states it has still to send
  proc,        \* processMessages: in BroadcastEvent or in broadcastUpdate
  event,       \* the event being broadcast
  targets,     \* connections it has still to write to
  failed,      \* connections it could not write to and has still to close
  expired,     \* connections checkIS07Heartbeats has removed and has to close
  pings,       \* connections pingIS07Clients has still to write to
  view,        \* view[c][s]: newest event of s received by c, as it arrived
  ever,        \* history: ever[c], sources c has ever been subscribed to
  crashed      \* two goroutines wrote to one connection at once

vars == <<clients, subs, withHealth, quiet, lastEvents, current, conn,
          reader, toSend, proc, event, targets, failed, expired, pings, view, ever,
          crashed>>

procVars == <<proc, event, targets, failed>>
tickers == <<expired, pings>>
clientVars == <<subs, view, ever>>

(***************************************************************************)
(* "ready"   a write succeeds                                              *)
(* "late"    the write deadline has passed: the next write fails           *)
(* "broken"  a write has failed: every further one fails                   *)
(* "closed"  not connected yet, or closed by either side                   *)
(***************************************************************************)
ConnStates == {"ready", "late", "broken", "closed"}

Event == [source : Sources, n : 0..MaxEvents]

ClientTypes ==
  /\ clients \subseteq Clients
  /\ subs \in [Clients -> SUBSET Sources]
  /\ withHealth \subseteq Clients
  /\ quiet \in [Clients -> BOOLEAN]
  /\ conn \in [Clients -> ConnStates]
  /\ reader \in [Clients -> {"none", "read", "health", "init", "exited"}]
  /\ toSend \in [Clients -> SUBSET Event]
  /\ view \in [Clients -> [Sources -> 0..MaxEvents]]
  /\ ever \in [Clients -> SUBSET Sources]

BroadcastTypes ==
  /\ lastEvents \in [Sources -> 0..MaxEvents]
  /\ current \in [Sources -> 0..MaxEvents]
  /\ proc \in {"idle", "cache", "event", "close", "update", "updateClose"}
  /\ event \in Event
  /\ targets \subseteq Clients
  /\ proc \in {"cache", "event"} => targets # {}
  /\ failed \subseteq Clients

TickerTypes ==
  /\ expired \subseteq Clients
  /\ pings \subseteq Clients
  /\ crashed \in BOOLEAN

TypeOK == ClientTypes /\ BroadcastTypes /\ TickerTypes

NoEvent == [source |-> CHOOSE s \in Sources : TRUE, n |-> 0]

Init ==
  /\ clients = {}
  /\ subs = [c \in Clients |-> {}]
  /\ withHealth = {}
  /\ quiet = [c \in Clients |-> FALSE]
  /\ lastEvents = [s \in Sources |-> 0]
  /\ current = [s \in Sources |-> 0]
  /\ conn = [c \in Clients |-> "closed"]
  /\ reader = [c \in Clients |-> "none"]
  /\ toSend = [c \in Clients |-> {}]
  /\ proc = "idle"
  /\ event = NoEvent
  /\ targets = {}
  /\ failed = {}
  /\ expired = {}
  /\ pings = {}
  /\ view = [c \in Clients |-> [s \in Sources |-> 0]]
  /\ ever = [c \in Clients |-> {}]
  /\ crashed = FALSE

-----------------------------------------------------------------------------
(***************************************************************************)
(* The connection (external) and the client at its other end.              *)
(***************************************************************************)
Open(c) == conn[c] # "closed"
CanWrite(c) == conn[c] = "ready"
CanWriteInTime(c) == conn[c] \in {"ready", "late"}

\* What a write does to the connection; a failure is final.
Writes(c) ==
  conn' = [conn EXCEPT ![c] = IF @ = "late" THEN "broken" ELSE @]

\* The write follows SetWriteDeadline.
WritesInTime(c) ==
  conn' = [conn EXCEPT ![c] = IF CanWriteInTime(c) THEN "ready" ELSE @]

\* Close on the connections of S
Closes(S) == conn' = [c \in Clients |-> IF c \in S THEN "closed" ELSE conn[c]]

Receives(c, e) == view' = [view EXCEPT ![c][e.source] = e.n]

DeadlinePasses(c) ==
  /\ conn[c] = "ready"
  /\ conn' = [conn EXCEPT ![c] = "late"]
  /\ UNCHANGED <<clients, clientVars, withHealth, quiet, lastEvents, current,
                 reader, toSend, procVars, tickers, crashed>>

TwelveSecondsPass(c) ==
  /\ Open(c)
  /\ ~quiet[c]
  /\ quiet' = [quiet EXCEPT ![c] = TRUE]
  /\ UNCHANGED <<clients, clientVars, withHealth, lastEvents, current, conn,
                 reader, toSend, procVars, tickers, crashed>>

PeerCloses(c) ==
  /\ Open(c)
  /\ Closes({c})
  /\ UNCHANGED <<clients, clientVars, withHealth, quiet, lastEvents, current,
                 reader, toSend, procVars, tickers, crashed>>

-----------------------------------------------------------------------------
(***************************************************************************)
(* handleWebsocket.                                                        *)
(***************************************************************************)
Connect(c) ==
  /\ reader[c] = "none"
  /\ conn' = [conn EXCEPT ![c] = "ready"]
  /\ clients' = clients \cup {c}
  /\ reader' = [reader EXCEPT ![c] = "read"]
  /\ UNCHANGED <<clientVars, withHealth, quiet, lastEvents, current, toSend,
                 procVars, tickers, crashed>>

\* case "health": clientLastHealth is set whether or not c is still a client
ReadsHealth(c) ==
  /\ reader[c] = "read"
  /\ Open(c)
  /\ withHealth' = withHealth \cup {c}
  /\ quiet' = [quiet EXCEPT ![c] = FALSE]
  /\ reader' = [reader EXCEPT ![c] = "health"]
  /\ UNCHANGED <<clients, clientVars, lastEvents, current, conn, toSend,
                 procVars, tickers, crashed>>

\* The health response, written under c.mu.RLock if c is still a client.
AnswersHealth(c) ==
  /\ reader[c] = "health"
  /\ reader' = [reader EXCEPT ![c] = "read"]
  /\ IF c \in clients THEN Writes(c) ELSE UNCHANGED conn
  /\ UNCHANGED <<clients, clientVars, withHealth, quiet, lastEvents, current,
                 toSend, procVars, tickers, crashed>>

Cached(S) == {[source |-> s, n |-> lastEvents[s]] : s \in {t \in S : lastEvents[t] > 0}}

\* case "subscription": the critical section
ReadsSubscription(c, S) ==
  /\ reader[c] = "read"
  /\ Open(c)
  /\ toSend' = [toSend EXCEPT ![c] = Cached(S)]
  /\ reader' = [reader EXCEPT ![c] = IF Cached(S) = {} THEN "read" ELSE "init"]
  /\ IF c \in clients
     THEN /\ subs' = [subs EXCEPT ![c] = S]
          /\ ever' = [ever EXCEPT ![c] = @ \cup S]
     ELSE UNCHANGED <<subs, ever>>
  /\ UNCHANGED <<clients, withHealth, quiet, lastEvents, current, conn,
                 procVars, tickers, view, crashed>>

\* Send initial states: one write each, c.mu released in between
SendsInitial(c, e) ==
  /\ reader[c] = "init"
  /\ e \in toSend[c]
  /\ toSend' = [toSend EXCEPT ![c] = @ \ {e}]
  /\ reader' = [reader EXCEPT ![c] = IF toSend'[c] = {} THEN "read" ELSE "init"]
  /\ IF c \in clients THEN Writes(c) ELSE UNCHANGED conn
  /\ IF c \in clients /\ CanWrite(c) THEN Receives(c, e) ELSE UNCHANGED view
  /\ UNCHANGED <<clients, subs, ever, withHealth, quiet, lastEvents, current,
                 procVars, tickers, crashed>>

\* Mutant: the cleanup forgets clientLastHealth.
ReaderExitsWithHealth(c) ==
  /\ reader[c] = "read"
  /\ reader' = [reader EXCEPT ![c] = "exited"]
  /\ clients' = clients \ {c}
  /\ Closes({c})
  /\ UNCHANGED <<clientVars, withHealth, quiet, lastEvents, current, toSend,
                 procVars, tickers, crashed>>

\* ReadMessage fails, or its deadline passes: the deferred cleanup
ReaderExits(c) ==
  /\ reader[c] = "read"
  /\ reader' = [reader EXCEPT ![c] = "exited"]
  /\ clients' = clients \ {c}
  /\ withHealth' = withHealth \ {c}
  /\ quiet' = [quiet EXCEPT ![c] = FALSE]
  /\ Closes({c})
  /\ UNCHANGED <<clientVars, lastEvents, current, toSend, procVars,
                 tickers, crashed>>

-----------------------------------------------------------------------------
(***************************************************************************)
(* processMessages: BroadcastEvent and broadcastUpdate.                    *)
(***************************************************************************)
\* Mutant: a client without subscriptions gets every event.
SubscribersOrSilent(s) == {c \in clients : subs[c] = {} \/ s \in subs[c]}

Subscribers(s) == {c \in clients : s \in subs[c]}

\* No subscriber: BroadcastEvent returns before it updates the cache.
BroadcastToNobody(s) ==
  /\ proc = "idle"
  /\ current[s] < MaxEvents
  /\ current' = [current EXCEPT ![s] = @ + 1]
  /\ Subscribers(s) = {}
  /\ UNCHANGED <<clients, clientVars, withHealth, quiet, lastEvents, conn,
                 reader, toSend, procVars, tickers, crashed>>

\* What BroadcastStarts does whoever the subscribers are.
Snapshot(s, next) ==
  /\ proc = "idle"
  /\ current[s] < MaxEvents
  /\ current' = [current EXCEPT ![s] = @ + 1]
  /\ targets' = Subscribers(s)
  /\ event' = [source |-> s, n |-> current[s] + 1]
  /\ proc' = next
  /\ UNCHANGED <<clients, clientVars, withHealth, quiet, lastEvents, conn,
                 reader, toSend, failed, tickers, crashed>>

\* Mutant: no early return.
BroadcastStartsAnyway(s) == Snapshot(s, "cache")

\* Mutant: the cache is not updated.
BroadcastStartsUncached(s) == Subscribers(s) # {} /\ Snapshot(s, "event")

BroadcastStarts(s) == Subscribers(s) # {} /\ Snapshot(s, "cache")

BroadcastCaches ==
  /\ proc = "cache"
  /\ lastEvents' = [lastEvents EXCEPT ![event.source] = event.n]
  /\ proc' = "event"
  /\ UNCHANGED <<clients, clientVars, withHealth, quiet, current, conn,
                 reader, toSend, event, targets, failed, tickers, crashed>>

\* What follows the last write to a connection.
EventGoesOn ==
  /\ proc' = IF targets' = {} THEN "idle" ELSE "event"
  /\ event' = IF targets' = {} THEN NoEvent ELSE event

BroadcastSucceeds(c) ==
  /\ proc = "event"
  /\ c \in targets
  /\ CanWrite(c)
  /\ targets' = targets \ {c}
  /\ Receives(c, event)
  /\ EventGoesOn
  /\ UNCHANGED <<clients, subs, ever, withHealth, quiet, lastEvents, current,
                 conn, reader, toSend, failed, tickers, crashed>>

\* A client that cannot be written to leaves clients, not clientLastHealth.
BroadcastFails(c) ==
  /\ proc = "event"
  /\ c \in targets
  /\ ~CanWrite(c)
  /\ targets' = targets \ {c}
  /\ Writes(c)
  /\ clients' = clients \ {c}
  /\ failed' = {c}
  /\ proc' = "close"
  /\ UNCHANGED <<clientVars, withHealth, quiet, lastEvents, current, reader,
                 toSend, event, tickers, crashed>>

\* Mutant: the failed connection is not closed.
BroadcastForgets ==
  /\ proc = "close"
  /\ failed' = {}
  /\ targets' = targets
  /\ EventGoesOn
  /\ UNCHANGED <<clients, clientVars, withHealth, quiet, lastEvents, current,
                 conn, reader, toSend, tickers, crashed>>

\* client.Close(), after c.mu has been released
BroadcastCloses ==
  /\ proc = "close"
  /\ Closes(failed)
  /\ failed' = {}
  /\ targets' = targets
  /\ EventGoesOn
  /\ UNCHANGED <<clients, clientVars, withHealth, quiet, lastEvents, current,
                 reader, toSend, tickers, crashed>>

UpdateStarts ==
  /\ proc = "idle"
  /\ clients # {}
  /\ targets' = clients
  /\ proc' = "update"
  /\ UNCHANGED <<clients, clientVars, withHealth, quiet, lastEvents, current,
                 conn, reader, toSend, event, failed, tickers, crashed>>

UpdateWrites(c) ==
  /\ proc = "update"
  /\ c \in targets
  /\ targets' = targets \ {c}
  /\ failed' = IF CanWriteInTime(c) THEN failed ELSE failed \cup {c}
  /\ WritesInTime(c)
  /\ UNCHANGED <<clients, clientVars, withHealth, quiet, lastEvents, current,
                 reader, toSend, proc, event, tickers, crashed>>

\* Every write succeeded, or the failed ones are removed under c.mu.
UpdateEnds ==
  /\ proc = "update"
  /\ targets = {}
  /\ clients' = clients \ failed
  /\ withHealth' = withHealth \ failed
  /\ proc' = IF failed = {} THEN "idle" ELSE "updateClose"
  /\ UNCHANGED <<clientVars, quiet, lastEvents, current, conn, reader, toSend,
                 event, targets, failed, tickers, crashed>>

UpdateCloses ==
  /\ proc = "updateClose"
  /\ Closes(failed)
  /\ failed' = {}
  /\ proc' = "idle"
  /\ UNCHANGED <<clients, clientVars, withHealth, quiet, lastEvents, current,
                 reader, toSend, event, targets, tickers, crashed>>

-----------------------------------------------------------------------------
\* checkIS07Heartbeats: clients that never sent health have no entry
Expired == {c \in withHealth : quiet[c]}

CheckHeartbeats ==
  /\ expired = {}
  /\ Expired # {}
  /\ expired' = Expired
  /\ clients' = clients \ Expired
  /\ withHealth' = withHealth \ Expired
  /\ UNCHANGED <<clientVars, quiet, lastEvents, current, conn, reader, toSend,
                 procVars, pings, crashed>>

\* Mutant: the expired connections are not closed.
CheckForgets ==
  /\ expired # {}
  /\ expired' = {}
  /\ UNCHANGED <<clients, clientVars, withHealth, quiet, lastEvents, current,
                 conn, reader, toSend, procVars, pings, crashed>>

\* conn.Close(), after c.mu has been released
CheckCloses ==
  /\ expired # {}
  /\ Closes(expired)
  /\ expired' = {}
  /\ UNCHANGED <<clients, clientVars, withHealth, quiet, lastEvents, current,
                 reader, toSend, procVars, pings, crashed>>

\* pingIS07Clients
PingStarts ==
  /\ pings = {}
  /\ clients # {}
  /\ pings' = clients
  /\ UNCHANGED <<clients, clientVars, withHealth, quiet, lastEvents, current,
                 conn, reader, toSend, procVars, expired, crashed>>

PingWrites(c) ==
  /\ c \in pings
  /\ pings' = pings \ {c}
  /\ WritesInTime(c)
  /\ UNCHANGED <<clients, clientVars, withHealth, quiet, lastEvents, current,
                 reader, toSend, procVars, expired, crashed>>

\* closeAllWebsocketConnections, called by Stop
CloseAll ==
  /\ clients # {}
  /\ Closes(clients)
  /\ UNCHANGED <<clients, clientVars, withHealth, quiet, lastEvents, current,
                 reader, toSend, procVars, tickers, crashed>>

(***************************************************************************)
(* Who may be inside a write to c.  The reader holds c.mu for reading      *)
(* while it writes, which excludes neither of the others.                  *)
(***************************************************************************)
Writers(c) ==
  {w \in {"reader", "proc", "ping"} :
     \/ w = "reader" /\ reader[c] \in {"health", "init"} /\ c \in clients
     \/ w = "proc" /\ proc \in {"event", "update"} /\ c \in targets
     \/ w = "ping" /\ c \in pings}

WritesCollide(c) ==
  /\ Open(c)
  /\ Cardinality(Writers(c)) > 1
  /\ crashed' = TRUE
  /\ UNCHANGED <<clients, clientVars, withHealth, quiet, lastEvents, current,
                 conn, reader, toSend, procVars, tickers>>

-----------------------------------------------------------------------------
Reader(c) ==
  \/ AnswersHealth(c)
  \/ \E e \in toSend[c] : SendsInitial(c, e)
  \/ ~Open(c) /\ ReaderExits(c)

Broadcast ==
  \/ BroadcastCaches
  \/ \E c \in Clients : BroadcastSucceeds(c) \/ BroadcastFails(c)
  \/ BroadcastCloses

Update ==
  \/ \E c \in Clients : UpdateWrites(c)
  \/ UpdateEnds
  \/ UpdateCloses

Check == CheckHeartbeats \/ CheckCloses

Next ==
  /\ ~crashed
  /\ \/ \E c \in Clients :
          \/ DeadlinePasses(c)
          \/ TwelveSecondsPass(c)
          \/ PeerCloses(c)
          \/ Connect(c)
          \/ ReadsHealth(c)
          \/ \E S \in SUBSET Sources : ReadsSubscription(c, S)
          \/ Reader(c)
          \/ ReaderExits(c)
          \/ PingWrites(c)
          \/ WritesCollide(c)
     \/ \E s \in Sources : BroadcastToNobody(s) \/ BroadcastStarts(s)
     \/ Broadcast
     \/ UpdateStarts
     \/ Update
     \/ Check
     \/ PingStarts
     \/ CloseAll

Spec == Init /\ [][Next]_vars

(***************************************************************************)
(* Runnable goroutines run and the two-second ticker ticks.  Nothing is    *)
(* assumed of the clients, of time or of the devices.                      *)
(***************************************************************************)
ReaderStep(c) == ~crashed /\ Reader(c)
BroadcastStep == ~crashed /\ Broadcast
UpdateStep == ~crashed /\ Update
CheckStep == ~crashed /\ Check

FairSpec ==
  /\ Spec
  /\ \A c \in Clients : WF_vars(ReaderStep(c))
  /\ WF_vars(BroadcastStep)
  /\ WF_vars(UpdateStep)
  /\ WF_vars(CheckStep)

-----------------------------------------------------------------------------
(***************************************************************************)
(* No client knows an event newer than the cache: the cache is updated     *)
(* before the writes, so a client that subscribes later, or asks the REST  *)
(* endpoint, is not told less than one that was there before.              *)
(***************************************************************************)
CacheIsNewest ==
  \A c \in Clients : \A s \in Sources : view[c][s] <= lastEvents[s]

(***************************************************************************)
(* Events and initial states of a source reach only clients that have      *)
(* subscribed to it, whatever was removed or resubscribed between the      *)
(* snapshot and the write.                                                 *)
(***************************************************************************)
OnlySubscribersHear ==
  \A c \in Clients : \A s \in Sources : view[c][s] > 0 => s \in ever[c]

(***************************************************************************)
(* When the reader goroutine of a connection is gone, neither map knows    *)
(* the connection any more and it is closed, whichever of the five places  *)
(* that remove connections was first.                                      *)
(***************************************************************************)
NothingLeftBehind ==
  \A c \in Clients :
    reader[c] = "exited" => c \notin clients /\ c \notin withHealth /\ ~Open(c)

(***************************************************************************)
(* Every place that removes a connection from clients releases c.mu before *)
(* it closes the connection.  Whatever happens in between, the connection  *)
(* is closed in the end and its reader goroutine ends, as it does when the *)
(* client closes: no reader waits for ever for a client that no broadcast  *)
(* knows.                                                                  *)
(***************************************************************************)
RemovedReaderExits ==
  \A c \in Clients :
    (reader[c] # "none" /\ (c \notin clients \/ ~Open(c)))
      ~> (reader[c] = "exited" \/ crashed)

(***************************************************************************)
(* A client that has sent health and then stops is disconnected, even when *)
(* a broadcast removes it from clients first and leaves its entry in       *)
(* clientLastHealth.                                                       *)
(***************************************************************************)
SilentClientExpires ==
  \A c \in Clients :
    (c \in withHealth /\ quiet[c]) ~> (~Open(c) \/ ~quiet[c] \/ crashed)
=============================================================================

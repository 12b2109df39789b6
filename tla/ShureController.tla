-------------------------- MODULE ShureController ---------------------------
(***************************************************************************)
(* One shureController (internal/infrastructure/shure_controller_impl.go): *)
(* the TCP connection to a Shure receiver, the reader goroutine that turns *)
(* what the device sends into events, the lifecycle goroutine that waits   *)
(* for the gateway's context, and the two callers of Stop: the gateway's   *)
(* reaper and Gateway.Stop.  isRunning and done are shared by all of them  *)
(* without a lock, so each access is a step of its own.                    *)
(***************************************************************************)
EXTENDS Integers, Sequences, SequencesExt

CONSTANTS
  EventCap,  \* capacity of the events channel (100 in the code)
  MaxLines   \* bound: how many lines the device sends

ASSUME ControllerAssumption ==
  /\ EventCap \in Nat \ {0}
  /\ MaxLines \in Nat

VARIABLES
  ctxDone,    \* the context passed to Start is done
  isRunning,
  doneClosed, \* the channel done has been closed
  conn,       \* "none", "up", or "down" (closed by either side)
  lines,      \* how many lines the device has sent
  wire,       \* lines sent and not yet read
  reader,     \* goroutine running readEvents
  hand,       \* <<report>> while the reader offers it to the events channel
  events,     \* contents of the events channel
  lifecycle,  \* goroutine that waits for ctx and calls signalDone
  stopper,    \* stopper[c]: where the Stop called by c is
  parsed,     \* history: reports in the order in which they were read
  heard,      \* history: reports received by listenToShureEvents
  crashed     \* done has been closed twice

vars == <<ctxDone, isRunning, doneClosed, conn, lines, wire, reader, hand,
          events, lifecycle, stopper, parsed, heard, crashed>>

Callers == {"reaper", "gateway"}

\* The n-th line of the device; report says whether ParseTPCIResponse yields one.
Line == [n : 1..MaxLines, report : BOOLEAN]

TypeOK ==
  /\ ctxDone \in BOOLEAN
  /\ isRunning \in BOOLEAN
  /\ doneClosed \in BOOLEAN
  /\ conn \in {"none", "up", "down"}
  /\ lines \in 0..MaxLines
  /\ wire \in Seq(Line)
  /\ reader \in {"none", "top", "read", "offer", "exited"}
  /\ hand \in Seq(Line)
  /\ Len(hand) = (IF reader = "offer" THEN 1 ELSE 0)
  /\ events \in Seq(Line)
  /\ Len(events) <= EventCap
  /\ lifecycle \in {"none", "wait", "clear", "close", "exited"}
  /\ stopper \in [Callers -> {"idle", "check", "clear", "close", "conn", "wait", "returned"}]
  /\ parsed \in Seq(Line)
  /\ heard \in Seq(Line)
  /\ crashed \in BOOLEAN

\* NewShureController
Init ==
  /\ ctxDone = FALSE
  /\ isRunning = FALSE
  /\ doneClosed = FALSE
  /\ conn = "none"
  /\ lines = 0
  /\ wire = <<>>
  /\ reader = "none"
  /\ hand = <<>>
  /\ events = <<>>
  /\ lifecycle = "none"
  /\ stopper = [c \in Callers |-> "idle"]
  /\ parsed = <<>>
  /\ heard = <<>>
  /\ crashed = FALSE

-----------------------------------------------------------------------------
(***************************************************************************)
(* Start: dials, and starts both goroutines.  When the dial fails nothing  *)
(* changes and addShureController drops the controller.                    *)
(***************************************************************************)
Start ==
  /\ conn = "none"
  /\ conn' = "up"
  /\ isRunning' = TRUE
  /\ reader' = "top"
  /\ lifecycle' = "wait"
  /\ UNCHANGED <<ctxDone, doneClosed, lines, wire, hand, events, stopper,
                 parsed, heard, crashed>>

\* SIGINT or SIGTERM
Cancel ==
  /\ ~ctxDone
  /\ ctxDone' = TRUE
  /\ UNCHANGED <<isRunning, doneClosed, conn, lines, wire, reader, hand,
                 events, lifecycle, stopper, parsed, heard, crashed>>

-----------------------------------------------------------------------------
\* The device sends a line, or goes away.
DeviceSends ==
  /\ conn = "up"
  /\ lines < MaxLines
  /\ lines' = lines + 1
  /\ \E r \in BOOLEAN : wire' = Append(wire, [n |-> lines + 1, report |-> r])
  /\ UNCHANGED <<ctxDone, isRunning, doneClosed, conn, reader, hand, events,
                 lifecycle, stopper, parsed, heard, crashed>>

DeviceCloses ==
  /\ conn = "up"
  /\ conn' = "down"
  /\ UNCHANGED <<ctxDone, isRunning, doneClosed, lines, wire, reader, hand,
                 events, lifecycle, stopper, parsed, heard, crashed>>

-----------------------------------------------------------------------------
(***************************************************************************)
(* readEvents                                                              *)
(***************************************************************************)
Stopping == ctxDone \/ doneClosed

\* The first select: default is taken only when neither channel is ready.
ReaderTop ==
  /\ reader = "top"
  /\ reader' = IF Stopping THEN "exited" ELSE "read"
  /\ UNCHANGED <<ctxDone, isRunning, doneClosed, conn, lines, wire, hand,
                 events, lifecycle, stopper, parsed, heard, crashed>>

\* ReadString returns a line: bytes already buffered survive a close.
ReaderReads ==
  /\ reader = "read"
  /\ wire # <<>>
  /\ wire' = Tail(wire)
  /\ IF Head(wire).report
     THEN /\ reader' = "offer"
          /\ hand' = <<Head(wire)>>
          /\ parsed' = Append(parsed, Head(wire))
     ELSE /\ reader' = "top"
          /\ UNCHANGED <<hand, parsed>>
  /\ UNCHANGED <<ctxDone, isRunning, doneClosed, conn, lines, events,
                 lifecycle, stopper, heard, crashed>>

\* ReadString fails: the goroutine ends, and nobody is told.
ReaderFails ==
  /\ reader = "read"
  /\ conn = "down"
  /\ reader' = "exited"
  /\ UNCHANGED <<ctxDone, isRunning, doneClosed, conn, lines, wire, hand,
                 events, lifecycle, stopper, parsed, heard, crashed>>

\* Mutant: a channel with one place too many.
ReaderOffersOverfull ==
  /\ reader = "offer"
  /\ Len(events) <= EventCap
  /\ events' = events \o hand
  /\ hand' = <<>>
  /\ reader' = "top"
  /\ UNCHANGED <<ctxDone, isRunning, doneClosed, conn, lines, wire,
                 lifecycle, stopper, parsed, heard, crashed>>

\* Mutant: a default case drops the report that does not fit.
ReaderOffersOrDrops ==
  /\ reader = "offer"
  /\ events' = IF Len(events) < EventCap THEN events \o hand ELSE events
  /\ hand' = <<>>
  /\ reader' = "top"
  /\ UNCHANGED <<ctxDone, isRunning, doneClosed, conn, lines, wire,
                 lifecycle, stopper, parsed, heard, crashed>>

\* case c.events <- event
ReaderOffers ==
  /\ reader = "offer"
  /\ Len(events) < EventCap
  /\ events' = events \o hand
  /\ hand' = <<>>
  /\ reader' = "top"
  /\ UNCHANGED <<ctxDone, isRunning, doneClosed, conn, lines, wire,
                 lifecycle, stopper, parsed, heard, crashed>>

\* case <-ctx.Done() and case <-c.done: the report in hand is dropped
ReaderAborts ==
  /\ reader = "offer"
  /\ Stopping
  /\ reader' = "exited"
  /\ hand' = <<>>
  /\ UNCHANGED <<ctxDone, isRunning, doneClosed, conn, lines, wire, events,
                 lifecycle, stopper, parsed, heard, crashed>>

Reader == ReaderTop \/ ReaderReads \/ ReaderFails \/ ReaderOffers \/ ReaderAborts

\* listenToShureEvents takes the next event; Send is MessageBus's business.
ListenerHears ==
  /\ events # <<>>
  /\ heard' = Append(heard, Head(events))
  /\ events' = Tail(events)
  /\ UNCHANGED <<ctxDone, isRunning, doneClosed, conn, lines, wire, reader,
                 hand, lifecycle, stopper, parsed, crashed>>

-----------------------------------------------------------------------------
(***************************************************************************)
(* The lifecycle goroutine of Start, and signalDone.                       *)
(***************************************************************************)
\* Mutant: sync.Once around the close.
CloseDoneOnce ==
  /\ crashed' = FALSE
  /\ doneClosed' = TRUE

\* The first close wakes the receivers.  The second panics: the deferred calls
\* of the goroutine run (wg.Done, for the lifecycle goroutine) and the process
\* ends; the model ends it in one step.
CloseDone ==
  /\ crashed' = doneClosed
  /\ doneClosed' = TRUE

LifecycleWakes ==
  /\ lifecycle = "wait"
  /\ ctxDone
  /\ lifecycle' = "clear"
  /\ UNCHANGED <<ctxDone, isRunning, doneClosed, conn, lines, wire, reader,
                 hand, events, stopper, parsed, heard, crashed>>

LifecycleClears ==
  /\ lifecycle = "clear"
  /\ isRunning' = FALSE
  /\ lifecycle' = "close"
  /\ UNCHANGED <<ctxDone, doneClosed, conn, lines, wire, reader, hand,
                 events, stopper, parsed, heard, crashed>>

LifecycleCloses ==
  /\ lifecycle = "close"
  /\ CloseDone
  /\ lifecycle' = "exited"
  /\ UNCHANGED <<ctxDone, isRunning, conn, lines, wire, reader, hand,
                 events, stopper, parsed, heard>>

Lifecycle == LifecycleWakes \/ LifecycleClears \/ LifecycleCloses

-----------------------------------------------------------------------------
(***************************************************************************)
(* Stop.  The reaper calls it for a device not seen for two minutes,       *)
(* Gateway.Stop when the context is done.                                  *)
(***************************************************************************)
StopMoves(c, from, to) ==
  /\ stopper[c] = from
  /\ stopper' = [stopper EXCEPT ![c] = to]
  /\ UNCHANGED <<ctxDone, lines, wire, reader, hand, events, lifecycle,
                 parsed, heard>>

StopCalled(c) ==
  /\ conn # "none"
  /\ c = "gateway" => ctxDone
  /\ StopMoves(c, "idle", "check")
  /\ UNCHANGED <<isRunning, doneClosed, conn, crashed>>

\* if !c.isRunning { return nil }
StopSkips(c) ==
  /\ ~isRunning
  /\ StopMoves(c, "check", "returned")
  /\ UNCHANGED <<isRunning, doneClosed, conn, crashed>>

StopProceeds(c) ==
  /\ isRunning
  /\ StopMoves(c, "check", "clear")
  /\ UNCHANGED <<isRunning, doneClosed, conn, crashed>>

StopClears(c) ==
  /\ StopMoves(c, "clear", "close")
  /\ isRunning' = FALSE
  /\ UNCHANGED <<doneClosed, conn, crashed>>

StopCloses(c) ==
  /\ StopMoves(c, "close", "conn")
  /\ CloseDone
  /\ UNCHANGED <<isRunning, conn>>

\* Mutant: Stop relies on done alone to end the reader.
StopLeavesConn(c) ==
  /\ StopMoves(c, "conn", "wait")
  /\ UNCHANGED <<isRunning, doneClosed, conn, crashed>>

\* c.conn.SetReadDeadline and c.conn.Close
StopClosesConn(c) ==
  /\ StopMoves(c, "conn", "wait")
  /\ conn' = "down"
  /\ UNCHANGED <<isRunning, doneClosed, crashed>>

Stop(c) ==
  \/ StopSkips(c)
  \/ StopProceeds(c)
  \/ StopClears(c)
  \/ StopCloses(c)
  \/ StopClosesConn(c)

(***************************************************************************)
(* c.wg.Wait() returns in these states.  Invariant JoinUnreachable says    *)
(* that there are none while the process lives, so the rest of Stop        *)
(* (close(c.events), return nil) has no action.  The one moment left out:  *)
(* when the lifecycle goroutine's close panics, its deferred wg.Done may   *)
(* let Wait return before the runtime ends the process; the reader has     *)
(* exited by then, so a close of events there meets no send.               *)
(***************************************************************************)
Joined(c) ==
  /\ stopper[c] = "wait"
  /\ reader = "exited"
  /\ lifecycle = "exited"
  /\ ~crashed

-----------------------------------------------------------------------------
Next ==
  /\ ~crashed
  /\ \/ Start
     \/ Cancel
     \/ DeviceSends
     \/ DeviceCloses
     \/ Reader
     \/ ListenerHears
     \/ Lifecycle
     \/ \E c \in Callers : StopCalled(c) \/ Stop(c)

Spec == Init /\ [][Next]_vars

(***************************************************************************)
(* Every runnable goroutine of the process runs.  Nothing is assumed of    *)
(* the device, of the operator's signal or of the listener.                *)
(***************************************************************************)
ReaderStep == ~crashed /\ Reader
LifecycleStep == ~crashed /\ Lifecycle
StopStep(c) == ~crashed /\ Stop(c)

FairSpec ==
  /\ Spec
  /\ WF_vars(ReaderStep)
  /\ WF_vars(LifecycleStep)
  /\ \A c \in Callers : WF_vars(StopStep(c))

-----------------------------------------------------------------------------
(***************************************************************************)
(* While the reader runs, every report read from the device has been heard *)
(* by the listener or waits for it, once and in the order of the wire; and *)
(* whatever stops the reader, the listener has heard a prefix of them.     *)
(***************************************************************************)
ReportsInOrder ==
  /\ reader # "exited" => parsed = heard \o (events \o hand)
  /\ IsPrefix(heard, parsed)

(***************************************************************************)
(* A Stop that has signalled done never sees both goroutines gone:         *)
(* whichever of Stop and the lifecycle goroutine closes done second        *)
(* panics.  A process that goes on never gets to close(c.events), and the  *)
(* reader can never send on a closed channel.                              *)
(***************************************************************************)
JoinUnreachable == \A c \in Callers : ~Joined(c)

(***************************************************************************)
(* "Force unblock any read operations": once Stop has closed the           *)
(* connection the reader goroutine ends, whatever it was doing and whether *)
(* or not the listener still takes events.                                 *)
(***************************************************************************)
StopEndsReader ==
  \A c \in Callers : stopper[c] = "wait" ~> (reader = "exited" \/ crashed)
=============================================================================

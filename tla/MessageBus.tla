---------------------------- MODULE MessageBus -----------------------------
(***************************************************************************)
(* InMemoryMessageBus (internal/infrastructure/message_bus.go) with the    *)
(* goroutines of the gateway that use it: one listenToShureEvents per      *)
(* device calls Send, processMessages receives, and Gateway.Stop calls     *)
(* Close once the gateway's context is done.                               *)
(*                                                                         *)
(* Go channels are modelled exactly as far as the properties need: a       *)
(* buffered channel is a sequence, the senders parked on a full channel    *)
(* queue up in sendq (a receive hands the freed slot to the oldest one),   *)
(* cancelling a context wakes every goroutine parked on it, and a select   *)
(* with several ready cases takes any of them.                             *)
(***************************************************************************)
EXTENDS Integers, Sequences, SequencesExt

CONSTANTS
  Senders,  \* the listenToShureEvents goroutines
  Cap,      \* capacity of sendChan and of receiveChan (100 in the code)
  MaxCalls  \* bound: how often each sender calls Send

ASSUME BusAssumption ==
  /\ Cap \in Nat \ {0}
  /\ MaxCalls \in Nat

VARIABLES
  calls,        \* calls[s]: how many times s has called Send
  sendq,        \* senders parked in Send's select, oldest first
  sendChan,     \* contents of sendChan
  receiveChan,  \* contents of receiveChan
  fwd,          \* forwarding goroutine: which select it is in
  inHand,       \* <<msg>> while the forwarder holds a message, else <<>>
  stop,         \* progress of the shutdown: see StopStates
  consumer,     \* processMessages
  accepted,     \* history: messages whose Send returned nil
  delivered,    \* history: messages received by processMessages
  crashed       \* a send on a closed channel has panicked

vars == <<calls, sendq, sendChan, receiveChan, fwd, inHand, stop, consumer,
          accepted, delivered, crashed>>

\* The seq-th message that src passes to Send.
Msg == [src : Senders, seq : 1..MaxCalls]

(***************************************************************************)
(* "run"          the gateway's context is alive                           *)
(* "signalled"    it is done, Close has not been called                    *)
(* "waitFwd"      Close has cancelled the bus's context                    *)
(* "closeSend"    the forwarder has exited, both channels are still open   *)
(* "closeReceive" sendChan is closed                                       *)
(* "closed"       receiveChan is closed too, Close has returned            *)
(***************************************************************************)
StopStates ==
  {"run", "signalled", "waitFwd", "closeSend", "closeReceive", "closed"}

GatewayCtxDone == stop # "run"
CtxDone == stop \notin {"run", "signalled"}
SendClosed == stop \in {"closeReceive", "closed"}
ReceiveClosed == stop = "closed"

\* The message of the current call of a parked sender.
MsgOf(s) == [src |-> s, seq |-> calls[s]]

Parked(s) == \E i \in DOMAIN sendq : sendq[i] = s

TypeOK ==
  /\ calls \in [Senders -> 0..MaxCalls]
  /\ sendq \in Seq(Senders)
  /\ sendChan \in Seq(Msg)
  /\ Len(sendChan) <= Cap
  /\ receiveChan \in Seq(Msg)
  /\ Len(receiveChan) <= Cap
  /\ fwd \in {"select", "deliver", "exited"}
  /\ inHand \in Seq(Msg)
  /\ Len(inHand) = (IF fwd = "deliver" THEN 1 ELSE 0)
  /\ stop \in StopStates
  /\ consumer \in {"receive", "handle", "exited"}
  /\ accepted \in Seq(Msg)
  /\ delivered \in Seq(Msg)
  /\ crashed \in BOOLEAN

Init ==
  /\ calls = [s \in Senders |-> 0]
  /\ sendq = <<>>
  /\ sendChan = <<>>
  /\ receiveChan = <<>>
  /\ fwd = "select"
  /\ inHand = <<>>
  /\ stop = "run"
  /\ consumer = "receive"
  /\ accepted = <<>>
  /\ delivered = <<>>
  /\ crashed = FALSE

-----------------------------------------------------------------------------
(***************************************************************************)
(* Send: one call takes one of the ready cases of its select, or parks.    *)
(***************************************************************************)
StartCall(s) ==
  /\ ~Parked(s)
  /\ calls[s] < MaxCalls
  /\ calls' = [calls EXCEPT ![s] = @ + 1]

\* Mutant: a channel with one place too many.
SendAcceptOverfull(s) ==
  /\ StartCall(s)
  /\ ~SendClosed
  /\ Len(sendChan) <= Cap
  /\ sendChan' = Append(sendChan, [src |-> s, seq |-> calls[s] + 1])
  /\ accepted' = Append(accepted, [src |-> s, seq |-> calls[s] + 1])
  /\ UNCHANGED <<sendq, receiveChan, fwd, inHand, stop, consumer, delivered, crashed>>

\* case mb.sendChan <- msg
SendAccept(s) ==
  /\ StartCall(s)
  /\ ~SendClosed
  /\ Len(sendChan) < Cap
  /\ sendChan' = Append(sendChan, [src |-> s, seq |-> calls[s] + 1])
  /\ accepted' = Append(accepted, [src |-> s, seq |-> calls[s] + 1])
  /\ UNCHANGED <<sendq, receiveChan, fwd, inHand, stop, consumer, delivered, crashed>>

\* case <-mb.ctx.Done(): the error is logged by the caller, the message is gone
SendCanceled(s) ==
  /\ StartCall(s)
  /\ CtxDone
  /\ UNCHANGED <<sendq, sendChan, receiveChan, fwd, inHand, stop, consumer,
                 accepted, delivered, crashed>>

\* The send case of a select on a closed channel is ready, and panics.
SendPanic(s) ==
  /\ StartCall(s)
  /\ SendClosed
  /\ crashed' = TRUE
  /\ UNCHANGED <<sendq, sendChan, receiveChan, fwd, inHand, stop, consumer,
                 accepted, delivered>>

\* No case is ready.
SendPark(s) ==
  /\ StartCall(s)
  /\ ~CtxDone
  /\ Len(sendChan) = Cap
  /\ sendq' = Append(sendq, s)
  /\ UNCHANGED <<sendChan, receiveChan, fwd, inHand, stop, consumer,
                 accepted, delivered, crashed>>

Send(s) == SendAccept(s) \/ SendCanceled(s) \/ SendPanic(s) \/ SendPark(s)

-----------------------------------------------------------------------------
(***************************************************************************)
(* The forwarding goroutine of NewInMemoryMessageBus.                      *)
(***************************************************************************)
\* case msg := <-mb.sendChan, with no sender parked.
ForwardTake ==
  /\ fwd = "select"
  /\ sendChan # <<>>
  /\ sendq = <<>>
  /\ inHand' = <<Head(sendChan)>>
  /\ fwd' = "deliver"
  /\ sendChan' = Tail(sendChan)
  /\ UNCHANGED <<calls, sendq, receiveChan, stop, consumer, accepted,
                 delivered, crashed>>

\* The same case when senders are parked: the oldest gets the freed slot.
ForwardTakeAndWake ==
  /\ fwd = "select"
  /\ sendChan # <<>>
  /\ sendq # <<>>
  /\ inHand' = <<Head(sendChan)>>
  /\ fwd' = "deliver"
  /\ sendChan' = Append(Tail(sendChan), MsgOf(Head(sendq)))
  /\ accepted' = Append(accepted, MsgOf(Head(sendq)))
  /\ sendq' = Tail(sendq)
  /\ UNCHANGED <<calls, receiveChan, stop, consumer, delivered, crashed>>

\* Mutant: a default case in the inner select drops what does not fit.
ForwardDeliverOrDrop ==
  /\ fwd = "deliver"
  /\ receiveChan' = IF Len(receiveChan) < Cap THEN receiveChan \o inHand ELSE receiveChan
  /\ inHand' = <<>>
  /\ fwd' = "select"
  /\ UNCHANGED <<calls, sendq, sendChan, stop, consumer, accepted, delivered, crashed>>

\* Mutant: a default case in the inner select ends the forwarder.
ForwardDeliverOrExit ==
  /\ fwd = "deliver"
  /\ receiveChan' = IF Len(receiveChan) < Cap THEN receiveChan \o inHand ELSE receiveChan
  /\ inHand' = <<>>
  /\ fwd' = IF Len(receiveChan) < Cap THEN "select" ELSE "exited"
  /\ UNCHANGED <<calls, sendq, sendChan, stop, consumer, accepted, delivered, crashed>>

\* case mb.receiveChan <- msg
ForwardDeliver ==
  /\ fwd = "deliver"
  /\ Len(receiveChan) < Cap
  /\ receiveChan' = receiveChan \o inHand
  /\ inHand' = <<>>
  /\ fwd' = "select"
  /\ UNCHANGED <<calls, sendq, sendChan, stop, consumer, accepted, delivered, crashed>>

\* Mutant: the inner select has no ctx.Done() case.
ForwardExitWhenIdle ==
  /\ fwd = "select"
  /\ CtxDone
  /\ fwd' = "exited"
  /\ inHand' = <<>>
  /\ UNCHANGED <<calls, sendq, sendChan, receiveChan, stop, consumer,
                 accepted, delivered, crashed>>

\* case <-mb.ctx.Done() of either select: a message in hand is dropped
ForwardExit ==
  /\ fwd \in {"select", "deliver"}
  /\ CtxDone
  /\ fwd' = "exited"
  /\ inHand' = <<>>
  /\ UNCHANGED <<calls, sendq, sendChan, receiveChan, stop, consumer,
                 accepted, delivered, crashed>>

Forward == ForwardTake \/ ForwardTakeAndWake \/ ForwardDeliver \/ ForwardExit

-----------------------------------------------------------------------------
(***************************************************************************)
(* processMessages (internal/module/gateway.go).                           *)
(***************************************************************************)
ConsumerReceive ==
  /\ consumer = "receive"
  /\ receiveChan # <<>>
  /\ delivered' = Append(delivered, Head(receiveChan))
  /\ receiveChan' = Tail(receiveChan)
  /\ consumer' = "handle"
  /\ UNCHANGED <<calls, sendq, sendChan, fwd, inHand, stop, accepted, crashed>>

\* The handler returns.  It takes g.mu, so nothing says that it ever does.
ConsumerHandled ==
  /\ consumer = "handle"
  /\ consumer' = "receive"
  /\ UNCHANGED <<calls, sendq, sendChan, receiveChan, fwd, inHand, stop,
                 accepted, delivered, crashed>>

\* ctx.Done(), or receiveChan closed and drained
ConsumerExit ==
  /\ consumer = "receive"
  /\ GatewayCtxDone \/ (ReceiveClosed /\ receiveChan = <<>>)
  /\ consumer' = "exited"
  /\ UNCHANGED <<calls, sendq, sendChan, receiveChan, fwd, inHand, stop,
                 accepted, delivered, crashed>>

-----------------------------------------------------------------------------
(***************************************************************************)
(* main waits for its context to be done and calls Gateway.Stop, whose     *)
(* first call is Close.                                                    *)
(***************************************************************************)
Shutdown(from, to) ==
  /\ stop = from
  /\ stop' = to
  /\ UNCHANGED <<calls, sendChan, receiveChan, fwd, inHand, consumer,
                 accepted, delivered, crashed>>

Signal == Shutdown("run", "signalled") /\ UNCHANGED sendq

\* Mutant: Send does not watch the context.
CloseCancelWakesNobody == Shutdown("signalled", "waitFwd") /\ UNCHANGED sendq

\* mb.cancel(): every parked Send returns context.Canceled
CloseCancel == Shutdown("signalled", "waitFwd") /\ sendq' = <<>>

\* mb.wg.Wait()
CloseWait == fwd = "exited" /\ Shutdown("waitFwd", "closeSend") /\ UNCHANGED sendq

\* close(mb.sendChan)
CloseSendChan == Shutdown("closeSend", "closeReceive") /\ UNCHANGED sendq

\* close(mb.receiveChan)
CloseReceiveChan == Shutdown("closeReceive", "closed") /\ UNCHANGED sendq

Close == CloseCancel \/ CloseWait \/ CloseSendChan \/ CloseReceiveChan

-----------------------------------------------------------------------------
Next ==
  /\ ~crashed
  /\ \/ \E s \in Senders : Send(s)
     \/ Forward
     \/ ConsumerReceive
     \/ ConsumerHandled
     \/ ConsumerExit
     \/ Signal
     \/ Close

Spec == Init /\ [][Next]_vars

(***************************************************************************)
(* The Go scheduler runs every runnable goroutine, so the forwarder and    *)
(* Close take the steps they can take, and so does the receiver.  Nothing  *)
(* is assumed of the handler: it waits for g.mu.                           *)
(***************************************************************************)
ForwardStep == ~crashed /\ Forward
CloseStep == ~crashed /\ Close
ReceiveStep == ~crashed /\ ConsumerReceive

FairSpec ==
  /\ Spec
  /\ WF_vars(ForwardStep)
  /\ WF_vars(CloseStep)
  /\ WF_vars(ReceiveStep)

\* The handler always returns: a hypothesis of two properties.
HandlerReturns == []<>(consumer # "handle")

-----------------------------------------------------------------------------
\* Everything inside the bus, oldest first.
InTransit == receiveChan \o (inHand \o sendChan)

(***************************************************************************)
(* As long as the forwarder runs, every message whose Send returned nil    *)
(* has been received or is still inside the bus, once, and in the order of *)
(* the Sends: no loss, no duplicate, no overtaking between the two         *)
(* channels and the forwarder's hand.                                      *)
(***************************************************************************)
NoLossWhileForwarding == fwd # "exited" => accepted = delivered \o InTransit

(***************************************************************************)
(* Through the shutdown too: what processMessages receives is a prefix of  *)
(* what Send accepted.  Close loses a tail, never a message from the       *)
(* middle.                                                                 *)
(***************************************************************************)
DeliveredIsPrefix == IsPrefix(delivered, accepted)

(***************************************************************************)
(* A sender is parked only while sendChan is full and the context alive.   *)
(* Close therefore never closes sendChan under a parked sender, which Go   *)
(* would answer with a panic.                                              *)
(***************************************************************************)
ParkedOnlyWhenFull == sendq # <<>> => Len(sendChan) = Cap /\ ~CtxDone

(***************************************************************************)
(* Gateway.Stop's comment: closing the bus first unblocks the listeners    *)
(* even though processMessages is stuck in its handler.                    *)
(***************************************************************************)
CloseReturns == stop = "signalled" ~> (stop = "closed" \/ crashed)

(***************************************************************************)
(* No Send blocks for ever while the handler keeps returning.              *)
(***************************************************************************)
SendersReleased ==
  HandlerReturns => \A s \in Senders : Parked(s) ~> ~Parked(s)

(***************************************************************************)
(* A message whose Send returned nil is received, unless the gateway is    *)
(* shut down first, as long as the handler keeps returning.                *)
(***************************************************************************)
AcceptedIsDelivered ==
  HandlerReturns =>
    \A s \in Senders : \A n \in 1..MaxCalls :
      LET m == [src |-> s, seq |-> n]
      IN  (\E i \in DOMAIN accepted : accepted[i] = m)
            ~> ((\E i \in DOMAIN delivered : delivered[i] = m) \/ GatewayCtxDone)

-----------------------------------------------------------------------------
(***************************************************************************)
(* The bus as one bounded queue.  When the forwarder has gone, what is     *)
(* left in sendChan is out of reach.                                       *)
(***************************************************************************)
Fifo == INSTANCE BoundedFifo WITH
  Capacity <- 2 * Cap + 1,
  queue <- IF fwd = "exited" THEN receiveChan ELSE InTransit,
  got <- delivered,
  phase <- IF fwd = "exited" THEN "draining" ELSE "open"

(***************************************************************************)
(* The bus implements a bounded FIFO queue of 2*Cap + 1 places whose       *)
(* shutdown keeps a prefix.                                                *)
(***************************************************************************)
ImplementsFifo == Fifo!Spec
=============================================================================

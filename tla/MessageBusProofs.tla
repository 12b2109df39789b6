-------------------------- MODULE MessageBusProofs --------------------------
(***************************************************************************)
(* Theorems about MessageBus, for every set of senders, every capacity and *)
(* every number of calls.                                                  *)
(***************************************************************************)
EXTENDS MessageBus, SequenceTheorems, TLAPS

(***************************************************************************)
(* A parked sender is inside a call of Send, so it has a message.          *)
(***************************************************************************)
ParkedHaveCalled == \A i \in DOMAIN sendq : calls[sendq[i]] >= 1

\* What TypeOK needs to be inductive.
TypeInv == TypeOK /\ ParkedHaveCalled

\* NewInMemoryMessageBus makes well-typed, empty channels.
LEMMA InitTypeInv == Init => TypeInv
<1> SUFFICES ASSUME Init
             PROVE  TypeInv
  OBVIOUS
<1>1. calls \in [Senders -> 0..MaxCalls]
  BY BusAssumption DEF Init
<1>2. /\ sendq \in Seq(Senders)
      /\ sendChan \in Seq(Msg) /\ receiveChan \in Seq(Msg)
      /\ inHand \in Seq(Msg)
      /\ accepted \in Seq(Msg) /\ delivered \in Seq(Msg)
  BY EmptySeq DEF Init
<1>3. /\ Len(sendChan) <= Cap /\ Len(receiveChan) <= Cap
      /\ Len(inHand) = (IF fwd = "deliver" THEN 1 ELSE 0)
      /\ ParkedHaveCalled
  BY BusAssumption DEF Init, ParkedHaveCalled
<1>4. /\ fwd \in {"select", "deliver", "exited"}
      /\ stop \in StopStates
      /\ consumer \in {"receive", "handle", "exited"}
      /\ crashed \in BOOLEAN
  BY DEF Init, StopStates
<1> QED
  BY <1>1, <1>2, <1>3, <1>4 DEF TypeInv, TypeOK

\* Every step of the bus and of its users keeps the types.
LEMMA NextTypeInv == TypeInv /\ [Next]_vars => TypeInv'
<1> SUFFICES ASSUME TypeInv, [Next]_vars
             PROVE  TypeInv'
  OBVIOUS
<1> USE BusAssumption DEF TypeInv, TypeOK, ParkedHaveCalled
<1>1. ASSUME NEW s \in Senders, SendAccept(s)
      PROVE  TypeInv'
  <2>1. [src |-> s, seq |-> calls[s] + 1] \in Msg
    BY <1>1 DEF SendAccept, StartCall, Msg
  <2> QED
    BY <1>1, <2>1 DEF SendAccept, StartCall
<1>2. ASSUME NEW s \in Senders, SendCanceled(s)
      PROVE  TypeInv'
  BY <1>2 DEF SendCanceled, StartCall
<1>3. ASSUME NEW s \in Senders, SendPanic(s)
      PROVE  TypeInv'
  BY <1>3 DEF SendPanic, StartCall
<1>4. ASSUME NEW s \in Senders, SendPark(s)
      PROVE  TypeInv'
  BY <1>4 DEF SendPark, StartCall
<1>5. CASE ForwardTake
  BY <1>5 DEF ForwardTake
<1>6. CASE ForwardTakeAndWake
  <2>1. Head(sendq) \in Senders /\ calls[Head(sendq)] >= 1
    BY <1>6 DEF ForwardTakeAndWake
  <2>2. MsgOf(Head(sendq)) \in Msg
    BY <2>1 DEF MsgOf, Msg
  <2> QED
    BY <1>6, <2>2 DEF ForwardTakeAndWake
<1>7. CASE ForwardDeliver
  <2>1. /\ receiveChan \o inHand \in Seq(Msg)
        /\ Len(receiveChan \o inHand) = Len(receiveChan) + 1
    BY <1>7, ConcatProperties DEF ForwardDeliver
  <2>2. <<>> \in Seq(Msg) /\ Len(<<>>) = 0
    BY EmptySeq
  <2> QED
    BY <1>7, <2>1, <2>2 DEF ForwardDeliver
<1>8. CASE ForwardExit
  BY <1>8 DEF ForwardExit
<1>9. CASE ConsumerReceive
  BY <1>9 DEF ConsumerReceive
<1>10. CASE ConsumerHandled
  BY <1>10 DEF ConsumerHandled
<1>11. CASE ConsumerExit
  BY <1>11 DEF ConsumerExit
<1>12. CASE Signal \/ Close
  <2>1. stop' \in StopStates
    BY <1>12 DEF Signal, Close, CloseCancel, CloseWait, CloseSendChan,
                 CloseReceiveChan, Shutdown, StopStates
  <2>2. sendq' = sendq \/ sendq' = <<>>
    BY <1>12 DEF Signal, Close, CloseCancel, CloseWait, CloseSendChan,
                 CloseReceiveChan
  <2>3. UNCHANGED <<calls, sendChan, receiveChan, fwd, inHand, consumer,
                    accepted, delivered, crashed>>
    BY <1>12 DEF Signal, Close, CloseCancel, CloseWait, CloseSendChan,
                 CloseReceiveChan, Shutdown
  <2>4. sendq' \in Seq(Senders) /\ ParkedHaveCalled'
    <3>1. CASE sendq' = sendq
      BY <2>3, <3>1
    <3>2. CASE sendq' = <<>>
      <4>1. DOMAIN sendq' = {}
        BY <3>2
      <4> QED
        BY <3>2, <4>1, EmptySeq
    <3> QED
      BY <2>2, <3>1, <3>2
  <2> QED
    BY <2>1, <2>3, <2>4
<1>13. CASE UNCHANGED vars
  BY <1>13 DEF vars
<1> QED
  BY <1>1, <1>2, <1>3, <1>4, <1>5, <1>6, <1>7, <1>8, <1>9, <1>10, <1>11,
     <1>12, <1>13
  DEF Next, Send, Forward

(***************************************************************************)
(* Type correctness of the bus: in particular neither channel ever holds   *)
(* more than Cap messages, and the forwarder holds a message exactly while *)
(* it is in its inner select.                                              *)
(***************************************************************************)
THEOREM BusTypeCorrect == Spec => []TypeOK
<1>1. TypeInv => TypeOK
  BY DEF TypeInv
<1> QED
  BY <1>1, InitTypeInv, NextTypeInv, PTL DEF Spec

-----------------------------------------------------------------------------
(***************************************************************************)
(* Moving the boundary between two concatenated sequences.                 *)
(***************************************************************************)
LEMMA MoveHead ==
  ASSUME NEW S, NEW s \in Seq(S), NEW t \in Seq(S), t # <<>>
  PROVE  Append(s, Head(t)) \o Tail(t) = s \o t
<1>1. Head(t) \in S /\ Tail(t) \in Seq(S) /\ Len(Tail(t)) = Len(t) - 1
  BY HeadTailProperties
<1>2. /\ Append(s, Head(t)) \o Tail(t) \in Seq(S)
      /\ s \o t \in Seq(S)
  BY <1>1, AppendProperties, ConcatProperties
<1> QED
  BY <1>1, <1>2, SeqEqual

\* A channel is its first message followed by the others.
LEMMA HeadTailConcat ==
  ASSUME NEW S, NEW t \in Seq(S), t # <<>>
  PROVE  <<Head(t)>> \o Tail(t) = t
  OBVIOUS

\* Concatenation of messages is associative, for the two channels and the hand.
LEMMA MsgAssociative == \A a, b, c \in Seq(Msg) : (a \o b) \o c = a \o (b \o c)
  BY ConcatAssociative

\* What the receiver has is a prefix of what it has and can still get.
LEMMA PrefixOfConcat ==
  ASSUME NEW S, NEW s \in Seq(S), NEW t \in Seq(S)
  PROVE  IsPrefix(s, s \o t)
  BY DEF IsPrefix
-----------------------------------------------------------------------------
\* What is in the bus, and how many messages that is.
LEMMA TransitTypes ==
  ASSUME TypeInv
  PROVE  /\ sendChan \in Seq(Msg) /\ receiveChan \in Seq(Msg) /\ inHand \in Seq(Msg)
         /\ inHand \o sendChan \in Seq(Msg) /\ InTransit \in Seq(Msg)
         /\ Len(InTransit) = Len(receiveChan) + (Len(inHand) + Len(sendChan))
         /\ Len(receiveChan) <= Cap /\ Len(sendChan) <= Cap
         /\ Len(inHand) = (IF fwd = "deliver" THEN 1 ELSE 0)
<1>1. /\ sendChan \in Seq(Msg) /\ receiveChan \in Seq(Msg) /\ inHand \in Seq(Msg)
      /\ Len(receiveChan) <= Cap /\ Len(sendChan) <= Cap
      /\ Len(inHand) = (IF fwd = "deliver" THEN 1 ELSE 0)
  BY DEF TypeInv, TypeOK
<1>2. /\ inHand \o sendChan \in Seq(Msg)
      /\ Len(inHand \o sendChan) = Len(inHand) + Len(sendChan)
  BY <1>1, ConcatProperties
<1> DEFINE x == inHand \o sendChan
<1>3. receiveChan \o x \in Seq(Msg) /\ Len(receiveChan \o x) = Len(receiveChan) + Len(x)
  <2> HIDE DEF x
  <2>1. x \in Seq(Msg)
    BY <1>2 DEF x
  <2> QED
    BY <2>1, <1>1, ConcatProperties
<1> QED
  BY <1>1, <1>2, <1>3 DEF InTransit

\* With a free place in sendChan, or an empty hand, the bus has a free place.
LEMMA TransitCapacity ==
  ASSUME TypeInv, Len(sendChan) < Cap \/ fwd # "deliver"
  PROVE  Len(InTransit) < 2 * Cap + 1
<1> DEFINE r == Len(receiveChan)
           h == Len(inHand)
           c == Len(sendChan)
<1>1. r \in Nat /\ c \in Nat /\ h \in {0, 1} /\ (fwd # "deliver" => h = 0)
  BY TransitTypes
<1>2. r <= Cap /\ c <= Cap /\ Cap \in Nat /\ (c < Cap \/ fwd # "deliver")
  BY TransitTypes, BusAssumption
<1>3. Len(InTransit) = r + (h + c)
  BY TransitTypes
<1> HIDE DEF r, h, c
<1> QED
  BY <1>1, <1>2, <1>3

\* A Send that is accepted puts its message behind everything in the bus.
LEMMA SendAcceptPuts ==
  ASSUME TypeInv, NEW s \in Senders, SendAccept(s)
  PROVE  /\ [src |-> s, seq |-> calls[s] + 1] \in Msg
         /\ InTransit' = Append(InTransit, [src |-> s, seq |-> calls[s] + 1])
<1> DEFINE m == [src |-> s, seq |-> calls[s] + 1]
<1>1. m \in Msg
  BY BusAssumption DEF SendAccept, StartCall, Msg, TypeInv, TypeOK
<1>2. InTransit' = receiveChan \o (inHand \o Append(sendChan, m))
  BY DEF SendAccept, InTransit
<1> HIDE DEF m
<1>3. \A a, b \in Seq(Msg) : a \o Append(b, m) = Append(a \o b, m)
  BY <1>1
<1>4. InTransit' = Append(InTransit, m)
  BY <1>2, <1>3, TransitTypes, Zenon DEF InTransit
<1> QED
  BY <1>1, <1>4 DEF m

\* So does the Send of a parked sender when the forwarder takes a message.
LEMMA TakeAndWakePuts ==
  ASSUME TypeInv, ForwardTakeAndWake
  PROVE  /\ MsgOf(Head(sendq)) \in Msg
         /\ InTransit' = Append(InTransit, MsgOf(Head(sendq)))
<1> DEFINE m == MsgOf(Head(sendq))
           h == <<Head(sendChan)>>
           u == Tail(sendChan)
<1>1. m \in Msg
  <2>1. Head(sendq) \in Senders /\ calls[Head(sendq)] \in 1..MaxCalls
    BY BusAssumption DEF ForwardTakeAndWake, TypeInv, TypeOK, ParkedHaveCalled
  <2> QED
    BY <2>1 DEF MsgOf, Msg
<1>2. h \in Seq(Msg) /\ u \in Seq(Msg) /\ h \o u = sendChan
  BY TransitTypes, HeadTailProperties, HeadTailConcat DEF ForwardTakeAndWake
<1>3. inHand \o sendChan = sendChan
  BY DEF ForwardTakeAndWake, TypeInv, TypeOK
<1>4. InTransit' = receiveChan \o (h \o Append(u, m))
  BY DEF ForwardTakeAndWake, InTransit
<1> HIDE DEF m, h, u
<1>5. \A a, b \in Seq(Msg) : a \o Append(b, m) = Append(a \o b, m)
  BY <1>1
<1>6. h \o Append(u, m) = Append(sendChan, m)
  BY <1>2, <1>5, Zenon
<1>7. receiveChan \in Seq(Msg) /\ sendChan \in Seq(Msg)
  BY TransitTypes
<1>8. receiveChan \o Append(sendChan, m) = Append(receiveChan \o sendChan, m)
  BY <1>5, <1>7, Zenon
<1>9. InTransit' = Append(InTransit, m)
  BY <1>3, <1>4, <1>6, <1>8, Zenon DEF InTransit
<1> QED
  BY <1>1, <1>9 DEF m

\* Moving a message from one channel to the hand or on changes nothing.
LEMMA ForwardingIsInvisible ==
  ASSUME TypeInv, ForwardTake \/ ForwardDeliver
  PROVE  InTransit' = InTransit
<1>1. CASE ForwardTake
  <2>1. inHand \o sendChan = sendChan
    BY <1>1 DEF ForwardTake, TypeInv, TypeOK
  <2>2. <<Head(sendChan)>> \o Tail(sendChan) = sendChan
    BY <1>1, TransitTypes, HeadTailConcat DEF ForwardTake
  <2>3. InTransit' = receiveChan \o (<<Head(sendChan)>> \o Tail(sendChan))
    BY <1>1 DEF ForwardTake, InTransit
  <2> QED
    BY <2>1, <2>2, <2>3, Zenon DEF InTransit
<1>2. CASE ForwardDeliver
  <2>1. InTransit' = (receiveChan \o inHand) \o (<<>> \o sendChan)
    BY <1>2 DEF ForwardDeliver, InTransit
  <2>2. <<>> \o sendChan = sendChan
    BY TransitTypes, ConcatEmptySeq
  <2>3. (receiveChan \o inHand) \o sendChan = InTransit
    BY TransitTypes, ConcatAssociative DEF InTransit
  <2> QED
    BY <2>1, <2>2, <2>3, Zenon
<1> QED
  BY <1>1, <1>2

\* A receive takes the oldest message of the bus.
LEMMA ReceiveGets ==
  ASSUME TypeInv, ConsumerReceive
  PROVE  /\ InTransit # <<>>
         /\ Head(InTransit) = Head(receiveChan)
         /\ InTransit' = Tail(InTransit)
<1> DEFINE x == inHand \o sendChan
<1>1. receiveChan # <<>> /\ InTransit' = Tail(receiveChan) \o x
  BY DEF ConsumerReceive, InTransit
<1>2. receiveChan \in Seq(Msg) /\ x \in Seq(Msg) /\ InTransit = receiveChan \o x
  BY TransitTypes DEF InTransit
<1> HIDE DEF x
<1>3. /\ receiveChan \o x # <<>>
      /\ Head(receiveChan \o x) = Head(receiveChan)
      /\ Tail(receiveChan \o x) = Tail(receiveChan) \o x
  BY <1>1, <1>2
<1> QED
  BY <1>1, <1>2, <1>3, Zenon

\* The forwarder's exit keeps what is in receiveChan, a prefix of the bus.
LEMMA ExitKeepsPrefix ==
  ASSUME TypeInv
  PROVE  \E k \in 0..Len(InTransit) : receiveChan = SubSeq(InTransit, 1, k)
<1> DEFINE x == inHand \o sendChan
<1>1. receiveChan \in Seq(Msg) /\ x \in Seq(Msg) /\ InTransit = receiveChan \o x
  BY TransitTypes DEF InTransit
<1> HIDE DEF x
<1>2. /\ Len(receiveChan) \in 0..Len(receiveChan \o x)
      /\ SubSeq(receiveChan \o x, 1, Len(receiveChan)) = receiveChan
  BY <1>1, ConcatProperties, SubSeqProperties
<1> QED
  BY <1>1, <1>2, Zenon

-----------------------------------------------------------------------------
(***************************************************************************)
(* When the forwarder has exited, what the receiver has and can still get  *)
(* is a prefix of what was accepted.                                       *)
(***************************************************************************)
Drainable ==
  fwd = "exited" =>
    \E rest \in Seq(Msg) : accepted = (delivered \o receiveChan) \o rest

\* The forwarder leaves its loop only for the cancelled context.
ExitsWhenCancelled == fwd = "exited" => CtxDone

(***************************************************************************)
(* The inductive invariant.  DeliveredIsPrefix alone is not inductive: it  *)
(* does not say that the next message in receiveChan is the next accepted  *)
(* one; the two forms of the equation, before and after the forwarder's    *)
(* exit, do.                                                               *)
(***************************************************************************)
BusInv ==
  /\ TypeInv
  /\ ParkedOnlyWhenFull
  /\ NoLossWhileForwarding
  /\ Drainable
  /\ ExitsWhenCancelled

\* A new bus satisfies the inductive invariant.
LEMMA InitBusInv == Init => BusInv
<1> SUFFICES ASSUME Init
             PROVE  BusInv
  OBVIOUS
<1>1. TypeInv
  BY InitTypeInv
<1>2. accepted = delivered \o InTransit
  BY DEF Init, InTransit
<1> QED
  BY <1>1, <1>2 DEF Init, BusInv, ParkedOnlyWhenFull, NoLossWhileForwarding,
                    Drainable, ExitsWhenCancelled

\* What every step leaves alone of the forwarder's exit.
LEMMA NextExits ==
  ASSUME BusInv, [Next]_vars
  PROVE  ExitsWhenCancelled' /\ ParkedOnlyWhenFull'
<1> USE BusAssumption DEF BusInv, ExitsWhenCancelled, ParkedOnlyWhenFull, CtxDone
<1>1. ASSUME NEW s \in Senders, Send(s)
      PROVE  ExitsWhenCancelled' /\ ParkedOnlyWhenFull'
  <2>1. CASE SendAccept(s)
    BY <2>1 DEF SendAccept, TypeInv, TypeOK
  <2>2. CASE SendCanceled(s) \/ SendPanic(s)
    BY <2>2 DEF SendCanceled, SendPanic
  <2>3. CASE SendPark(s)
    BY <2>3 DEF SendPark
  <2> QED
    BY <1>1, <2>1, <2>2, <2>3 DEF Send
<1>2. CASE ForwardTake
  BY <1>2 DEF ForwardTake
<1>3. CASE ForwardTakeAndWake
  <2>1. Len(sendChan) = Cap /\ ~CtxDone
    BY <1>3 DEF ForwardTakeAndWake
  <2>2. Len(Append(Tail(sendChan), MsgOf(Head(sendq)))) = Cap
    BY <1>3, <2>1 DEF ForwardTakeAndWake, TypeInv, TypeOK
  <2> QED
    BY <1>3, <2>1, <2>2 DEF ForwardTakeAndWake
<1>4. CASE ForwardDeliver \/ ForwardExit
  BY <1>4 DEF ForwardDeliver, ForwardExit
<1>5. CASE ConsumerReceive \/ ConsumerHandled \/ ConsumerExit
  BY <1>5 DEF ConsumerReceive, ConsumerHandled, ConsumerExit
<1>6. CASE Signal \/ Close
  BY <1>6 DEF Signal, Close, CloseCancel, CloseWait, CloseSendChan,
              CloseReceiveChan, Shutdown
<1>7. CASE UNCHANGED vars
  BY <1>7 DEF vars
<1> QED
  BY <1>1, <1>2, <1>3, <1>4, <1>5, <1>6, <1>7 DEF Next, Forward

(***************************************************************************)
(* The equation accepted = delivered \o InTransit is kept by every step    *)
(* after which the forwarder still runs.                                   *)
(***************************************************************************)
LEMMA NextNoLoss ==
  ASSUME BusInv, [Next]_vars
  PROVE  NoLossWhileForwarding'
<1> SUFFICES ASSUME fwd' # "exited"
             PROVE  accepted' = delivered' \o InTransit'
  BY DEF NoLossWhileForwarding
<1>types. TypeInv /\ InTransit \in Seq(Msg) /\ delivered \in Seq(Msg)
  BY TransitTypes DEF BusInv, TypeInv, TypeOK
<1>append. \A s, t \in Seq(Msg) : \A e \in Msg : Append(s \o t, e) = s \o Append(t, e)
  OBVIOUS
<1>1. ASSUME fwd # "exited"
      PROVE  accepted = delivered \o InTransit
  BY <1>1 DEF BusInv, NoLossWhileForwarding
<1>2. ASSUME NEW s \in Senders, SendAccept(s)
      PROVE  accepted' = delivered' \o InTransit'
  <2>1. /\ accepted' = Append(accepted, [src |-> s, seq |-> calls[s] + 1])
        /\ delivered' = delivered /\ fwd # "exited"
    BY <1>2 DEF SendAccept
  <2> QED
    BY <1>1, <1>2, <2>1, <1>types, <1>append, SendAcceptPuts, Zenon
<1>3. CASE ForwardTakeAndWake
  <2>1. /\ accepted' = Append(accepted, MsgOf(Head(sendq)))
        /\ delivered' = delivered /\ fwd # "exited"
    BY <1>3 DEF ForwardTakeAndWake
  <2> QED
    BY <1>1, <1>3, <2>1, <1>types, <1>append, TakeAndWakePuts, Zenon
<1>4. CASE ForwardTake \/ ForwardDeliver
  <2>1. accepted' = accepted /\ delivered' = delivered /\ fwd # "exited"
    BY <1>4 DEF ForwardTake, ForwardDeliver
  <2> QED
    BY <1>1, <1>4, <2>1, <1>types, ForwardingIsInvisible, Zenon
<1>5. CASE ForwardExit
  BY <1>5 DEF ForwardExit
<1>6. CASE ConsumerReceive
  <2>1. /\ accepted' = accepted /\ fwd # "exited"
        /\ delivered' = Append(delivered, Head(receiveChan))
    BY <1>6 DEF ConsumerReceive
  <2>2. delivered' = Append(delivered, Head(InTransit)) /\ InTransit' = Tail(InTransit)
    BY <1>6, <2>1, <1>types, ReceiveGets
  <2>3. Append(delivered, Head(InTransit)) \o Tail(InTransit) = delivered \o InTransit
    BY <1>6, <1>types, ReceiveGets, MoveHead
  <2> QED
    BY <1>1, <2>1, <2>2, <2>3, Zenon
<1>7. CASE \/ \E s \in Senders : SendCanceled(s) \/ SendPanic(s) \/ SendPark(s)
           \/ ConsumerHandled \/ ConsumerExit \/ Signal \/ Close
           \/ UNCHANGED vars
  <2>1. UNCHANGED <<accepted, delivered, receiveChan, inHand, sendChan, fwd>>
    BY <1>7 DEF SendCanceled, SendPanic, SendPark, ConsumerHandled, ConsumerExit,
      Signal, Close, CloseCancel, CloseWait, CloseSendChan, CloseReceiveChan,
      Shutdown, vars
  <2> QED
    BY <1>1, <2>1 DEF InTransit
<1> QED
  BY <1>2, <1>3, <1>4, <1>5, <1>6, <1>7 DEF Next, Send, Forward

(***************************************************************************)
(* After the exit the receiver's share stays a prefix of what is accepted. *)
(***************************************************************************)
LEMMA NextDrainable ==
  ASSUME BusInv, [Next]_vars
  PROVE  Drainable'
<1> SUFFICES ASSUME fwd' = "exited"
             PROVE  \E rest \in Seq(Msg) :
                      accepted' = (delivered' \o receiveChan') \o rest
  BY DEF Drainable
<1>types. /\ sendChan \in Seq(Msg) /\ receiveChan \in Seq(Msg)
          /\ inHand \in Seq(Msg) /\ accepted \in Seq(Msg)
          /\ delivered \in Seq(Msg)
          /\ calls \in [Senders -> 0..MaxCalls]
  BY DEF BusInv, TypeInv, TypeOK
<1>concat. delivered \o receiveChan \in Seq(Msg) /\ inHand \o sendChan \in Seq(Msg)
  BY <1>types, ConcatProperties
<1>1. CASE fwd # "exited"
  <2>1. ForwardExit
    BY <1>1 DEF Next, vars, Send, SendAccept, SendCanceled, SendPanic, SendPark,
      Forward, ForwardTake, ForwardTakeAndWake, ForwardDeliver, ConsumerReceive,
      ConsumerHandled, ConsumerExit, Signal, Close, CloseCancel, CloseWait,
      CloseSendChan, CloseReceiveChan, Shutdown
  <2> DEFINE x == inHand \o sendChan
  <2>2. /\ accepted' = accepted /\ delivered' = delivered
        /\ receiveChan' = receiveChan
    BY <2>1 DEF ForwardExit
  <2>3. accepted = delivered \o (receiveChan \o x)
    BY <1>1 DEF BusInv, NoLossWhileForwarding, InTransit
  <2>4. x \in Seq(Msg)
    BY <1>concat
  <2> HIDE DEF x
  <2>5. (delivered \o receiveChan) \o x = delivered \o (receiveChan \o x)
    <3>1. delivered \in Seq(Msg) /\ receiveChan \in Seq(Msg)
      BY <1>types
    <3> QED
      BY <2>4, <3>1, MsgAssociative, Zenon
  <2> QED
    BY <2>2, <2>3, <2>4, <2>5, Zenon
<1>2. CASE fwd = "exited"
  <2>1. PICK rest \in Seq(Msg) : accepted = (delivered \o receiveChan) \o rest
    BY <1>2 DEF BusInv, Drainable
  <2>2. ASSUME NEW s \in Senders, SendAccept(s)
        PROVE  \E r \in Seq(Msg) : accepted' = (delivered' \o receiveChan') \o r
    <3> DEFINE m == [src |-> s, seq |-> calls[s] + 1]
               z == delivered \o receiveChan
    <3>1. m \in Msg
      BY <2>2, <1>types, BusAssumption DEF SendAccept, StartCall, Msg
    <3>2. accepted' = Append(z \o rest, m) /\ delivered' \o receiveChan' = z
      BY <2>1, <2>2 DEF SendAccept
    <3>3. z \in Seq(Msg)
      BY <1>concat
    <3> HIDE DEF m, z
    <3>4. Append(z \o rest, m) = z \o Append(rest, m) /\ Append(rest, m) \in Seq(Msg)
      BY <3>1, <3>3
    <3> QED
      BY <3>2, <3>4, Zenon
  <2>3. CASE ConsumerReceive
    <3>1. /\ accepted' = accepted
          /\ delivered' \o receiveChan' = Append(delivered, Head(receiveChan)) \o Tail(receiveChan)
      BY <2>3 DEF ConsumerReceive
    <3>2. delivered' \o receiveChan' = delivered \o receiveChan
      BY <2>3, <3>1, <1>types, MoveHead DEF ConsumerReceive
    <3> QED
      BY <2>1, <3>1, <3>2, Zenon
  <2>4. CASE UNCHANGED <<accepted, delivered, receiveChan>>
    BY <2>1, <2>4
  <2> QED
    BY <1>2, <2>2, <2>3, <2>4 DEF Next, vars, Send, SendCanceled, SendPanic,
      SendPark, Forward, ForwardTake, ForwardTakeAndWake, ForwardDeliver,
      ForwardExit, ConsumerHandled, ConsumerExit, Signal, Close, CloseCancel,
      CloseWait, CloseSendChan, CloseReceiveChan, Shutdown
<1> QED
  BY <1>1, <1>2

\* Every step keeps the inductive invariant.
LEMMA NextBusInv == BusInv /\ [Next]_vars => BusInv'
<1> SUFFICES ASSUME BusInv, [Next]_vars
             PROVE  BusInv'
  OBVIOUS
<1>1. TypeInv'
  BY NextTypeInv DEF BusInv
<1> QED
  BY <1>1, NextExits, NextNoLoss, NextDrainable DEF BusInv

\* The invariant gives the prefix property.
LEMMA BusInvPrefix == BusInv => DeliveredIsPrefix
<1> SUFFICES ASSUME BusInv
             PROVE  DeliveredIsPrefix
  OBVIOUS
<1>types. /\ delivered \in Seq(Msg) /\ receiveChan \in Seq(Msg)
          /\ inHand \in Seq(Msg) /\ sendChan \in Seq(Msg)
  BY DEF BusInv, TypeInv, TypeOK
<1>1. ASSUME NEW t \in Seq(Msg), accepted = delivered \o t
      PROVE  DeliveredIsPrefix
  BY <1>1, <1>types, PrefixOfConcat DEF DeliveredIsPrefix
<1>2. CASE fwd # "exited"
  <2>1. InTransit \in Seq(Msg)
    BY <1>types, ConcatProperties DEF InTransit
  <2> QED
    BY <1>1, <1>2, <2>1 DEF BusInv, NoLossWhileForwarding
<1>3. CASE fwd = "exited"
  <2>1. PICK rest \in Seq(Msg) : accepted = (delivered \o receiveChan) \o rest
    BY <1>3 DEF BusInv, Drainable
  <2>2. (delivered \o receiveChan) \o rest = delivered \o (receiveChan \o rest)
    BY <1>types, MsgAssociative, Zenon
  <2>3. receiveChan \o rest \in Seq(Msg)
    BY <1>types, ConcatProperties
  <2>4. accepted = delivered \o (receiveChan \o rest)
    BY <2>1, <2>2, Zenon
  <2> QED
    BY <1>1, <2>3, <2>4
<1> QED
  BY <1>2, <1>3

(***************************************************************************)
(* While the forwarding goroutine runs, the bus loses, duplicates and      *)
(* reorders nothing.                                                       *)
(***************************************************************************)
THEOREM BusLosesNothing == Spec => []NoLossWhileForwarding
<1>1. BusInv => NoLossWhileForwarding
  BY DEF BusInv
<1> QED
  BY <1>1, InitBusInv, NextBusInv, PTL DEF Spec

(***************************************************************************)
(* Whatever the moment of Close, processMessages receives a prefix of what *)
(* Send accepted.                                                          *)
(***************************************************************************)
THEOREM BusDeliversPrefix == Spec => []DeliveredIsPrefix
  BY InitBusInv, NextBusInv, BusInvPrefix, PTL DEF Spec

(***************************************************************************)
(* close(sendChan) never runs under a parked sender.                       *)
(***************************************************************************)
THEOREM BusParksOnlyWhenFull == Spec => []ParkedOnlyWhenFull
<1>1. BusInv => ParkedOnlyWhenFull
  BY DEF BusInv
<1> QED
  BY <1>1, InitBusInv, NextBusInv, PTL DEF Spec

-----------------------------------------------------------------------------
(***************************************************************************)
(* The bus implements the bounded queue: a successful Send is a Put, a     *)
(* receive a Get, the forwarder's exit a Shut that keeps what is in        *)
(* receiveChan, and everything else is invisible.  The capacity is what    *)
(* the two channels and the forwarder's hand hold together.                *)
(***************************************************************************)
\* Every step of the bus is a step of the queue, or leaves it alone.
LEMMA StepRefinesFifo ==
  ASSUME TypeInv, [Next]_vars
  PROVE  [Fifo!Next]_(Fifo!vars)
<1> USE DEF Fifo!Next, Fifo!vars
<1>1. CASE UNCHANGED <<fwd, delivered, receiveChan, InTransit>>
  BY <1>1
<1>2. ASSUME NEW s \in Senders, SendAccept(s)
      PROVE  [Fifo!Next]_(Fifo!vars)
  <2>1. CASE fwd = "exited"
    BY <1>2, <2>1 DEF SendAccept
  <2>2. CASE fwd # "exited"
    <3>1. Len(InTransit) < 2 * Cap + 1
      <4>1. Len(sendChan) < Cap
        BY <1>2 DEF SendAccept
      <4> QED
        BY <4>1, TransitCapacity
    <3>2. \E m \in Msg : InTransit' = Append(InTransit, m)
      BY <1>2, SendAcceptPuts
    <3>3. fwd' = fwd /\ delivered' = delivered
      BY <1>2 DEF SendAccept
    <3> QED
      BY <2>2, <3>1, <3>2, <3>3 DEF Fifo!Put
  <2> QED
    BY <2>1, <2>2
<1>3. CASE ForwardTakeAndWake
  <2>1. Len(InTransit) < 2 * Cap + 1
    <3>1. fwd # "deliver"
      BY <1>3 DEF ForwardTakeAndWake
    <3> QED
      BY <3>1, TransitCapacity
  <2>2. \E m \in Msg : InTransit' = Append(InTransit, m)
    BY <1>3, TakeAndWakePuts
  <2>3. fwd # "exited" /\ fwd' # "exited" /\ delivered' = delivered
    BY <1>3 DEF ForwardTakeAndWake
  <2> QED
    BY <2>1, <2>2, <2>3 DEF Fifo!Put
<1>4. CASE ForwardTake \/ ForwardDeliver
  <2>1. fwd # "exited" /\ fwd' # "exited" /\ delivered' = delivered
    BY <1>4 DEF ForwardTake, ForwardDeliver
  <2> QED
    BY <1>4, <2>1, ForwardingIsInvisible
<1>5. CASE ForwardExit
  <2>1. /\ fwd # "exited" /\ fwd' = "exited" /\ delivered' = delivered
        /\ receiveChan' = receiveChan
    BY <1>5 DEF ForwardExit
  <2> QED
    BY <2>1, ExitKeepsPrefix DEF Fifo!Shut
<1>6. CASE ConsumerReceive
  <2>1. /\ receiveChan # <<>> /\ receiveChan' = Tail(receiveChan)
        /\ delivered' = Append(delivered, Head(receiveChan)) /\ fwd' = fwd
    BY <1>6 DEF ConsumerReceive
  <2> QED
    BY <1>6, <2>1, ReceiveGets DEF Fifo!Get
<1>7. CASE \/ \E s \in Senders : SendCanceled(s) \/ SendPanic(s) \/ SendPark(s)
           \/ ConsumerHandled \/ ConsumerExit \/ Signal \/ Close
           \/ UNCHANGED vars
  <2>1. UNCHANGED <<fwd, delivered, receiveChan, inHand, sendChan>>
    BY <1>7 DEF SendCanceled, SendPanic, SendPark, ConsumerHandled, ConsumerExit,
      Signal, Close, CloseCancel, CloseWait, CloseSendChan, CloseReceiveChan,
      Shutdown, vars
  <2> QED
    BY <1>1, <2>1 DEF InTransit
<1> QED
  BY <1>2, <1>3, <1>4, <1>5, <1>6, <1>7 DEF Next, Send, Forward

(***************************************************************************)
(* InMemoryMessageBus implements one bounded first-in first-out queue of   *)
(* 2*Cap + 1 places, whatever the senders, the capacity and the moment of  *)
(* Close.                                                                  *)
(***************************************************************************)
THEOREM BusImplementsFifo == Spec => ImplementsFifo
<1>1. Init => Fifo!Init
  BY DEF Init, Fifo!Init, InTransit
<1> QED
  BY <1>1, InitTypeInv, NextTypeInv, StepRefinesFifo, PTL
  DEF Spec, ImplementsFifo, Fifo!Spec
=============================================================================

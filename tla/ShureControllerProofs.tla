----------------------- MODULE ShureControllerProofs ------------------------
(***************************************************************************)
(* Theorems about ShureController, for every capacity of the events        *)
(* channel and every number of lines.                                      *)
(***************************************************************************)
EXTENDS ShureController, SequenceTheorems, TLAPS

(***************************************************************************)
(* Before Start there is no reader, so that Start begins with an empty     *)
(* hand.                                                                   *)
(***************************************************************************)
StartIsFirst == conn = "none" => reader = "none"

\* What TypeOK needs to be inductive.
TypeInv == TypeOK /\ StartIsFirst

(***************************************************************************)
(* Until the panic done has one closer: a Stop that is past its close, or  *)
(* the lifecycle goroutine, never both.                                    *)
(***************************************************************************)
PastClose(c) == stopper[c] \in {"conn", "wait"}

OneCloser ==
  ~crashed =>
    /\ lifecycle = "exited" => doneClosed
    /\ \A c \in Callers : PastClose(c) => doneClosed /\ lifecycle # "exited"

(***************************************************************************)
(* While the reader runs nothing is missing; afterwards what the listener  *)
(* has, and can still get from the channel, is the first part of what was  *)
(* read from the device.                                                   *)
(***************************************************************************)
NothingMissing == reader # "exited" => parsed = heard \o (events \o hand)

Drainable == \E rest \in Seq(Line) : parsed = (heard \o events) \o rest

ControllerInv == TypeInv /\ OneCloser /\ NothingMissing /\ Drainable

-----------------------------------------------------------------------------
\* A new controller.
LEMMA InitTypeInv == Init => TypeInv
<1> SUFFICES ASSUME Init
             PROVE  TypeInv
  OBVIOUS
<1>1. /\ wire \in Seq(Line) /\ hand \in Seq(Line) /\ events \in Seq(Line)
      /\ parsed \in Seq(Line) /\ heard \in Seq(Line)
  BY EmptySeq DEF Init
<1>2. Len(hand) = (IF reader = "offer" THEN 1 ELSE 0) /\ Len(events) <= EventCap
  BY ControllerAssumption DEF Init
<1>3. lines \in 0..MaxLines
  BY ControllerAssumption DEF Init
<1> QED
  BY <1>1, <1>2, <1>3 DEF Init, TypeInv, TypeOK, StartIsFirst

\* Start, the signal and the device.
LEMMA OutsideTypeInv ==
  ASSUME TypeInv, Start \/ Cancel \/ DeviceSends \/ DeviceCloses
  PROVE  TypeInv'
<1> USE ControllerAssumption DEF TypeInv, TypeOK, StartIsFirst
<1>1. CASE Start
  BY <1>1 DEF Start
<1>2. CASE Cancel
  BY <1>2 DEF Cancel
<1>3. CASE DeviceSends
  <2>1. PICK r \in BOOLEAN : wire' = Append(wire, [n |-> lines + 1, report |-> r])
    BY <1>3 DEF DeviceSends
  <2>2. [n |-> lines + 1, report |-> r] \in Line
    BY <1>3 DEF DeviceSends, Line
  <2>3. wire' \in Seq(Line)
    BY <2>1, <2>2, AppendProperties
  <2> QED
    BY <1>3, <2>3 DEF DeviceSends
<1>4. CASE DeviceCloses
  BY <1>4 DEF DeviceCloses
<1> QED
  BY <1>1, <1>2, <1>3, <1>4

\* The reader goroutine and its listener.
LEMMA ReaderTypeInv ==
  ASSUME TypeInv, Reader \/ ListenerHears
  PROVE  TypeInv'
<1> USE ControllerAssumption DEF TypeInv, TypeOK, StartIsFirst
<1>e. <<>> \in Seq(Line) /\ Len(<<>>) = 0
  BY EmptySeq
<1>1. CASE ReaderTop
  BY <1>1 DEF ReaderTop
<1>2. CASE ReaderReads
  <2>1. Head(wire) \in Line /\ Tail(wire) \in Seq(Line)
    BY <1>2, HeadTailProperties DEF ReaderReads
  <2>2. <<Head(wire)>> \in Seq(Line) /\ Len(<<Head(wire)>>) = 1
    BY <2>1
  <2>3. Append(parsed, Head(wire)) \in Seq(Line)
    BY <2>1, AppendProperties
  <2>4. wire' \in Seq(Line) /\ parsed' \in Seq(Line)
    BY <1>2, <2>1, <2>3 DEF ReaderReads
  <2>5. hand' \in Seq(Line) /\ Len(hand') = (IF reader' = "offer" THEN 1 ELSE 0)
    BY <1>2, <2>2 DEF ReaderReads
  <2> QED
    BY <1>2, <2>4, <2>5 DEF ReaderReads
<1>3. CASE ReaderFails
  BY <1>3 DEF ReaderFails
<1>4. CASE ReaderOffers
  <2>1. events \o hand \in Seq(Line) /\ Len(events \o hand) = Len(events) + Len(hand)
    BY ConcatProperties
  <2> QED
    BY <1>4, <2>1, <1>e DEF ReaderOffers
<1>5. CASE ReaderAborts
  BY <1>5, <1>e DEF ReaderAborts
<1>6. CASE ListenerHears
  <2>1. /\ Head(events) \in Line /\ Tail(events) \in Seq(Line)
        /\ Len(Tail(events)) = Len(events) - 1
    BY <1>6, HeadTailProperties DEF ListenerHears
  <2>2. Append(heard, Head(events)) \in Seq(Line)
    BY <2>1, AppendProperties
  <2> QED
    BY <1>6, <2>1, <2>2 DEF ListenerHears
<1> QED
  BY <1>1, <1>2, <1>3, <1>4, <1>5, <1>6 DEF Reader

\* The lifecycle goroutine and Stop.
LEMMA ShutdownTypeInv ==
  ASSUME TypeInv, Lifecycle \/ \E c \in Callers : StopCalled(c) \/ Stop(c)
  PROVE  TypeInv'
<1> USE DEF TypeInv, TypeOK, StartIsFirst
<1>1. CASE Lifecycle
  BY <1>1 DEF Lifecycle, LifecycleWakes, LifecycleClears, LifecycleCloses, CloseDone
<1>2. ASSUME NEW c \in Callers, StopCalled(c) \/ Stop(c)
      PROVE  TypeInv'
  <2> USE DEF StopMoves
  <2>1. CASE StopCalled(c)
    BY <2>1 DEF StopCalled
  <2>2. CASE StopSkips(c) \/ StopProceeds(c)
    BY <2>2 DEF StopSkips, StopProceeds
  <2>3. CASE StopClears(c)
    BY <2>3 DEF StopClears
  <2>4. CASE StopCloses(c)
    BY <2>4 DEF StopCloses, CloseDone
  <2>5. CASE StopClosesConn(c)
    BY <2>5 DEF StopClosesConn
  <2> QED
    BY <1>2, <2>1, <2>2, <2>3, <2>4, <2>5 DEF Stop
<1> QED
  BY <1>1, <1>2

\* Every step keeps the types.
LEMMA NextTypeInv == TypeInv /\ [Next]_vars => TypeInv'
<1> SUFFICES ASSUME TypeInv, [Next]_vars
             PROVE  TypeInv'
  OBVIOUS
<1>1. CASE UNCHANGED vars
  BY <1>1 DEF vars, TypeInv, TypeOK, StartIsFirst
<1> QED
  BY <1>1, OutsideTypeInv, ReaderTypeInv, ShutdownTypeInv DEF Next

(***************************************************************************)
(* Type correctness: in particular the events channel never holds more     *)
(* than EventCap reports, and the reader holds one exactly while it offers *)
(* it.                                                                     *)
(***************************************************************************)
THEOREM ControllerTypeCorrect == Spec => []TypeOK
<1>1. TypeInv => TypeOK
  BY DEF TypeInv
<1> QED
  BY <1>1, InitTypeInv, NextTypeInv, PTL DEF Spec

-----------------------------------------------------------------------------
\* Only the two closes of done, and what follows them, concern its closer.
LEMMA NextOneCloser ==
  ASSUME TypeInv, OneCloser, [Next]_vars
  PROVE  OneCloser'
<1> USE DEF OneCloser, PastClose
<1>1. ASSUME ~crashed, Lifecycle
      PROVE  OneCloser'
  <2>1. CASE LifecycleCloses
    BY <1>1, <2>1 DEF LifecycleCloses, CloseDone
  <2>2. CASE LifecycleWakes \/ LifecycleClears
    BY <2>2 DEF LifecycleWakes, LifecycleClears
  <2> QED
    BY <1>1, <2>1, <2>2 DEF Lifecycle
<1>2. ASSUME NEW c \in Callers, ~crashed, StopCalled(c) \/ Stop(c)
      PROVE  OneCloser'
  <2> USE DEF StopMoves, TypeInv, TypeOK
  <2>1. CASE StopCalled(c)
    BY <2>1 DEF StopCalled
  <2>2. CASE StopSkips(c) \/ StopProceeds(c)
    BY <2>2 DEF StopSkips, StopProceeds
  <2>3. CASE StopClears(c)
    BY <2>3 DEF StopClears
  <2>4. CASE StopCloses(c)
    BY <1>2, <2>4 DEF StopCloses, CloseDone
  <2>5. CASE StopClosesConn(c)
    BY <1>2, <2>5 DEF StopClosesConn
  <2> QED
    BY <1>2, <2>1, <2>2, <2>3, <2>4, <2>5 DEF Stop
<1>3. CASE Start
  BY <1>3 DEF Start
<1>4. CASE Cancel \/ DeviceSends \/ DeviceCloses \/ Reader \/ ListenerHears
  BY <1>4 DEF Cancel, DeviceSends, DeviceCloses, Reader, ReaderTop, ReaderReads,
    ReaderFails, ReaderOffers, ReaderAborts, ListenerHears
<1>5. CASE UNCHANGED vars
  BY <1>5 DEF vars
<1> QED
  BY <1>1, <1>2, <1>3, <1>4, <1>5 DEF Next

-----------------------------------------------------------------------------
\* Concatenation of reports is associative.
LEMMA LineAssociative == \A a, b, c \in Seq(Line) : (a \o b) \o c = a \o (b \o c)
  BY ConcatAssociative

\* The listener takes the head of the channel.
LEMMA TakeHead ==
  ASSUME NEW s \in Seq(Line), NEW t \in Seq(Line), t # <<>>
  PROVE  Append(s, Head(t)) \o Tail(t) = s \o t
<1>1. Head(t) \in Line /\ Tail(t) \in Seq(Line) /\ Len(Tail(t)) = Len(t) - 1
  BY HeadTailProperties
<1>2. /\ Append(s, Head(t)) \o Tail(t) \in Seq(Line)
      /\ s \o t \in Seq(Line)
  BY <1>1, AppendProperties, ConcatProperties
<1> QED
  BY <1>1, <1>2, SeqEqual

\* A sequence is a prefix of its extensions.
LEMMA PrefixOfExtension ==
  ASSUME NEW s \in Seq(Line), NEW t \in Seq(Line)
  PROVE  IsPrefix(s, s \o t)
  BY DEF IsPrefix

\* Steps that touch neither the histories nor the channel, and do not start a
\* reader that had ended.
LEMMA QuietSteps ==
  ASSUME NothingMissing, Drainable, UNCHANGED <<parsed, heard, events, hand>>,
         reader = "exited" => reader' = "exited"
  PROVE  NothingMissing' /\ Drainable'
  BY DEF NothingMissing, Drainable

\* What the reader and the listener do to the reports on their way.
LEMMA NextReports ==
  ASSUME TypeInv, NothingMissing, Drainable, [Next]_vars
  PROVE  NothingMissing' /\ Drainable'
<1>types. /\ wire \in Seq(Line) /\ hand \in Seq(Line) /\ events \in Seq(Line)
          /\ parsed \in Seq(Line) /\ heard \in Seq(Line)
          /\ Len(hand) = (IF reader = "offer" THEN 1 ELSE 0)
  BY DEF TypeInv, TypeOK
<1>concat. heard \o events \in Seq(Line) /\ events \o hand \in Seq(Line)
  BY <1>types, ConcatProperties
<1>1. CASE ReaderReads
  <2>1. CASE Head(wire).report
    <3>1. Head(wire) \in Line
      BY <1>1, <1>types, HeadTailProperties DEF ReaderReads
    <3> DEFINE l == Head(wire)
               z == heard \o events
    <3>2. /\ reader = "read" /\ parsed' = Append(parsed, l) /\ hand' = <<l>>
          /\ heard' = heard /\ events' = events
      BY <1>1, <2>1 DEF ReaderReads
    <3>3. hand = <<>>
      BY <3>2, <1>types, EmptySeq
    <3>4. parsed = z
      BY <3>2, <3>3, <1>types DEF NothingMissing
    <3>5. z \in Seq(Line) /\ l \in Line
      BY <1>concat, <3>1
    <3>6. <<l>> \in Seq(Line)
      BY <3>5
    <3>7. heard \o (events \o <<l>>) = z \o <<l>>
      BY <1>types, <3>6, LineAssociative
    <3> HIDE DEF l, z
    <3>8. Append(z, l) = z \o <<l>>
      BY <3>5
    <3>9. NothingMissing'
      BY <3>2, <3>4, <3>7, <3>8 DEF NothingMissing
    <3>10. parsed' = z \o <<l>> /\ heard' \o events' = z
      BY <3>2, <3>4, <3>8 DEF z
    <3>11. Drainable'
      BY <3>6, <3>10 DEF Drainable
    <3> QED
      BY <3>9, <3>11
  <2>2. CASE ~Head(wire).report
    BY <1>1, <2>2, QuietSteps DEF ReaderReads
  <2> QED
    BY <2>1, <2>2
<1>2. CASE ReaderOffers
  <2>1. /\ reader = "offer" /\ reader' = "top" /\ events' = events \o hand
        /\ hand' = <<>> /\ heard' = heard /\ parsed' = parsed
    BY <1>2 DEF ReaderOffers
  <2> DEFINE z == events \o hand
  <2>2. z \in Seq(Line) /\ events' = z /\ parsed = heard \o z
    BY <1>concat, <2>1 DEF NothingMissing
  <2> HIDE DEF z
  <2>3. heard \o z \in Seq(Line) /\ <<>> \in Seq(Line)
    BY <1>types, <2>2, ConcatProperties, EmptySeq
  <2>4. z \o <<>> = z /\ (heard \o z) \o <<>> = heard \o z
    BY <2>2, <2>3, ConcatEmptySeq
  <2>5. NothingMissing'
    BY <2>1, <2>2, <2>4 DEF NothingMissing
  <2>6. parsed' = (heard' \o events') \o <<>>
    BY <2>1, <2>2, <2>4
  <2> QED
    BY <2>3, <2>5, <2>6 DEF Drainable
<1>3. CASE ReaderAborts
  BY <1>3 DEF ReaderAborts, NothingMissing, Drainable
<1>4. CASE ListenerHears
  <2>1. /\ events # <<>> /\ heard' = Append(heard, Head(events))
        /\ events' = Tail(events) /\ UNCHANGED <<reader, hand, parsed>>
    BY <1>4 DEF ListenerHears
  <2>2. heard' \o events' = heard \o events
    BY <2>1, <1>types, TakeHead
  <2>3. heard' \in Seq(Line) /\ events' \in Seq(Line)
    BY <2>1, <1>types, HeadTailProperties, AppendProperties
  <2>4. heard' \o (events' \o hand) = heard \o (events \o hand)
    <3>1. heard' \o (events' \o hand) = (heard' \o events') \o hand
      BY <2>3, <1>types, LineAssociative, Zenon
    <3>2. heard \o (events \o hand) = (heard \o events) \o hand
      BY <1>types, LineAssociative, Zenon
    <3> QED
      BY <2>2, <3>1, <3>2, Zenon
  <2>5. NothingMissing'
    BY <2>1, <2>4 DEF NothingMissing
  <2>6. Drainable'
    BY <2>1, <2>2 DEF Drainable
  <2> QED
    BY <2>5, <2>6
<1>5. CASE ReaderTop \/ ReaderFails
  BY <1>5, QuietSteps DEF ReaderTop, ReaderFails
<1>6. CASE Start
  BY <1>6, QuietSteps DEF Start, TypeInv, StartIsFirst
<1>7. CASE Cancel \/ DeviceSends \/ DeviceCloses \/ Lifecycle
  BY <1>7, QuietSteps DEF Cancel, DeviceSends, DeviceCloses, Lifecycle, LifecycleWakes,
    LifecycleClears, LifecycleCloses
<1>8. ASSUME NEW c \in Callers, StopCalled(c) \/ Stop(c)
      PROVE  NothingMissing' /\ Drainable'
  BY <1>8, QuietSteps DEF StopCalled, Stop, StopSkips, StopProceeds, StopClears,
    StopCloses, StopClosesConn, StopMoves
<1>9. CASE UNCHANGED vars
  BY <1>9, QuietSteps DEF vars
<1> QED
  BY <1>1, <1>2, <1>3, <1>4, <1>5, <1>6, <1>7, <1>8, <1>9 DEF Next, Reader

-----------------------------------------------------------------------------
\* A new controller satisfies the invariant.
LEMMA InitControllerInv == Init => ControllerInv
<1> SUFFICES ASSUME Init
             PROVE  ControllerInv
  OBVIOUS
<1>1. TypeInv
  BY InitTypeInv
<1>2. OneCloser
  BY DEF Init, OneCloser, PastClose
<1>3. <<>> \in Seq(Line) /\ <<>> \o <<>> = <<>>
  BY EmptySeq, ConcatEmptySeq
<1>4. /\ parsed = <<>> /\ heard = <<>> /\ events = <<>> /\ hand = <<>>
  BY DEF Init
<1>5. NothingMissing
  BY <1>3, <1>4 DEF NothingMissing
<1>6. parsed = (heard \o events) \o <<>>
  BY <1>3, <1>4
<1> QED
  BY <1>1, <1>2, <1>3, <1>5, <1>6 DEF ControllerInv, Drainable

\* Every step keeps the invariant.
LEMMA NextControllerInv == ControllerInv /\ [Next]_vars => ControllerInv'
  BY NextTypeInv, NextOneCloser, NextReports DEF ControllerInv

\* The invariant gives the order of the reports.
LEMMA ControllerInvOrder == ControllerInv => ReportsInOrder
<1> SUFFICES ASSUME ControllerInv
             PROVE  ReportsInOrder
  OBVIOUS
<1>1. heard \in Seq(Line) /\ events \in Seq(Line)
  BY DEF ControllerInv, TypeInv, TypeOK
<1>2. PICK rest \in Seq(Line) : parsed = (heard \o events) \o rest
  BY DEF ControllerInv, Drainable
<1>3. parsed = heard \o (events \o rest)
  BY <1>1, <1>2, LineAssociative, Zenon
<1>4. events \o rest \in Seq(Line)
  BY <1>1, ConcatProperties
<1>5. IsPrefix(heard, parsed)
  BY <1>1, <1>3, <1>4, PrefixOfExtension
<1> QED
  BY <1>5 DEF ControllerInv, NothingMissing, ReportsInOrder

(***************************************************************************)
(* Reports reach listenToShureEvents once and in the order of the wire,    *)
(* for every capacity of the channel and wherever a shutdown, a lost       *)
(* connection or a full channel interrupts readEvents.                     *)
(***************************************************************************)
THEOREM ControllerKeepsOrder == Spec => []ReportsInOrder
  BY InitControllerInv, NextControllerInv, ControllerInvOrder, PTL DEF Spec

(***************************************************************************)
(* No Stop gets past wg.Wait() (shure_controller_impl.go:101): the reaper  *)
(* cannot remove a device before the shutdown, and a process that goes on  *)
(* never executes close(c.events).                                         *)
(***************************************************************************)
THEOREM ControllerNeverJoins == Spec => []JoinUnreachable
<1>1. ControllerInv => JoinUnreachable
  BY DEF ControllerInv, OneCloser, PastClose, JoinUnreachable, Joined
<1> QED
  BY <1>1, InitControllerInv, NextControllerInv, PTL DEF Spec
=============================================================================

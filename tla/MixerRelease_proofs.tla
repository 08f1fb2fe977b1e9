------------------------- MODULE MixerRelease_proofs ------------------------
(***************************************************************************)
(* What the mixer releases and when, and what becomes of it at the sink.   *)
(***************************************************************************)
EXTENDS MixerScheduler, MixerDelivery, SequenceTheorems, TLAPS

-----------------------------------------------------------------------------
(***************************************************************************)
(* What MixerScheduler keeps for every set of topics, every tape and every *)
(* sequence of edits: what is released, and then when.                     *)
(***************************************************************************)

(* int(..) of a non-negative product is a natural number.                  *)
LEMMA DivNat == ASSUME NEW n \in Nat, NEW d \in Nat \ {0}
                PROVE  n \div d \in Nat
  OBVIOUS

LEMMA MulNat == ASSUME NEW n \in Nat, NEW m \in Nat PROVE n * m \in Nat
  OBVIOUS

(* A frontier step is a natural number.                                    *)
LEMMA FrontierStepType ==
  ASSUME NEW speed \in Speeds, NEW real \in Nat
  PROVE  FrontierStep(speed, real) \in Nat
  <1>1. speed * real \in Nat  BY MulNat, DialAssumption
  <1> QED  BY <1>1, DivNat, DialAssumption DEF FrontierStep

(* An edge step is a natural number.                                       *)
LEMMA EdgeStepType ==
  ASSUME NEW rate \in Rates, NEW delta \in Nat
  PROVE  EdgeStep(rate, delta) \in Nat
  <1>1. rate * delta \in Nat  BY MulNat, DialAssumption
  <1> QED  BY <1>1, DivNat, DialAssumption DEF EdgeStep
-----------------------------------------------------------------------------
LEMMA LagsAreTimes == Lags \subseteq Int
  BY DialAssumption

LEMMA NoTimeIsNone == NoTime \notin Int /\ Horizon \in Int
  BY DialAssumption

LEMMA OrderTypes ==
    /\ Len(TopicOrder) \in Nat
    /\ \A i \in 1..Len(TopicOrder) : TopicOrder[i] \in Topics
  BY TopicsAssumption

LEMMA TapeTypes ==
  ASSUME NEW t \in Topics
  PROVE  /\ Len(Tape[t]) \in Nat
         /\ \A p \in 1..Len(Tape[t]) : Tape[t][p] \in Int
  BY TapeAssumption

LEMMA ClockTypes == SinkTimes \subseteq Nat /\ SleepTimes \subseteq Nat
  BY DialAssumption

(* The edge of a topic stays an event time, whatever its dial.             *)
LEMMA NextEdgeType ==
  ASSUME NEW edge \in TimeOrNone, NEW dial \in Dials, NEW delta \in Nat,
         NEW front \in Int
  PROVE  NextEdge(edge, dial, delta, front) \in Int
  <1>1. EdgeStep(dial.rate, delta) \in Int  BY EdgeStepType DEF Dials
  <1>2. dial.lag \in Int  BY LagsAreTimes DEF Dials
  <1> QED  BY <1>1, <1>2 DEF NextEdge, Least, Greatest, TimeOrNone

(* What the loop knows of its place in the tick: the frontier is set once  *)
(* a tick computes, a popped event is in hand only while the loop stands   *)
(* at its topic, and a meter answer under way is about a topic.            *)
LoopShape ==
    /\ pc \in {"edges", "release", "stamp"} => frontier # NoTime
    /\ pc = "stamp" => /\ at <= Len(TopicOrder)
                       /\ popped[TopicOrder[at]] > 0
    /\ poll.phase # "idle" => poll.topic \in Topics

TypeInv == TypeOK /\ LoopShape

USE DEF control, schedule, loop, history, vars

LEMMA TypeInit == Init => TypeInv
  BY DialAssumption, TopicsAssumption, TapeAssumption
  DEF Init, TypeInv, TypeOK, LoopShape, Transport, Dials, Poll, NoPoll, Neutral, TimeOrNone, Event

LEMMA ProduceType ==
  ASSUME NEW e \in Event, arrived \in [Topics -> Seq(Int)], Produce(e)
  PROVE  arrived' \in [Topics -> Seq(Int)]
  <1>1. e.topic \in Topics /\ TimeOf(e) \in Int
    BY TapeTypes DEF Event, TimeOf
  <1> QED  BY <1>1 DEF Produce

LEMMA MeterType ==
  ASSUME TypeInv, Meter
  PROVE  poll' \in Poll /\ (poll'.phase # "idle" => poll'.topic \in Topics)
  <1> DEFINE Goal == poll' \in Poll
                     /\ (poll'.phase # "idle" => poll'.topic \in Topics)
  <1> USE DEF TypeInv, TypeOK, LoopShape
  <1>1. ASSUME NEW t \in PolledTopics, MeterBacklog(t) PROVE Goal
    <2>1. t \in Topics /\ Backlog(t) \in Int
      <3>1. t \in Topics  BY TopicsAssumption
      <3> QED  BY <3>1, TapeTypes DEF Backlog
    <2> QED  BY <1>1, <2>1 DEF MeterBacklog, NoPoll, Poll, TimeOrNone
  <1>2. CASE MeterEdge
    <2>1. deliveryEdges[poll.topic] \in TimeOrNone  BY <1>2 DEF MeterEdge
    <2> QED  BY <1>2, <2>1 DEF MeterEdge, Poll
  <1>3. CASE MeterLag
    <2>1. poll.edge \in TimeOrNone  BY DEF Poll
    <2>2. DeliveryLag(frontier, poll.edge) \in TimeOrNone
      BY <2>1 DEF DeliveryLag, TimeOrNone
    <2> QED  BY <1>3, <2>2 DEF MeterLag, Poll
  <1>4. CASE MeterAnswered
    BY <1>4 DEF MeterAnswered, NoPoll, Poll, TimeOrNone
  <1> QED  BY <1>1, <1>2, <1>3, <1>4 DEF Meter

LEMMA TypeStep == TypeInv /\ [Next]_vars => TypeInv'
<1> SUFFICES ASSUME TypeInv, [Next]_vars PROVE TypeInv'
  OBVIOUS
<1> USE DEF TypeInv, TypeOK, LoopShape
<1>1. CASE Finish  BY <1>1 DEF Finish
<1>2. CASE PausedTick  BY <1>2 DEF PausedTick, ReadClock
<1>3. CASE FirstTick
  <2>1. PICK t \in Topics : Backlog(t) > 0 /\ frontier' = HeadTime(t)
    BY <1>3 DEF FirstTick
  <2>2. frontier' \in Int  BY <2>1, TapeTypes DEF HeadTime, Backlog
  <2> QED  BY <1>3, <2>2, NoTimeIsNone, OrderTypes
           DEF FirstTick, ReadClock, TimeOrNone
<1>4. CASE PlayingTick
  <2>1. FrontierStep(transport.speed, elapsed) \in Nat
    BY FrontierStepType DEF Transport
  <2>2. frontier' \in Int
    BY <1>4, <2>1, NoTimeIsNone DEF PlayingTick, TimeOrNone, Least
  <2> QED  BY <1>4, <2>1, <2>2, NoTimeIsNone, OrderTypes
           DEF PlayingTick, ReadClock, TimeOrNone
<1>5. ASSUME NEW t \in Topics, InitEdge(t) PROVE TypeInv'
  <2>1. dials[t].lag \in Int  BY LagsAreTimes DEF Dials
  <2>2. frontier \in Int  BY <1>5 DEF InitEdge, InEdgeLoop, TimeOrNone
  <2>3. frontier - dials[t].lag \in TimeOrNone  BY <2>1, <2>2 DEF TimeOrNone
  <2> QED  BY <1>5, <2>3, OrderTypes DEF InitEdge, InEdgeLoop
<1>6. ASSUME NEW t \in Topics, HoldEdge(t) PROVE TypeInv'
  BY <1>6, OrderTypes DEF HoldEdge, InEdgeLoop
<1>7. ASSUME NEW t \in Topics, AdvanceEdge(t) PROVE TypeInv'
  <2>1. NextEdge(edges[t], dials[t], deltaFrontier, frontier) \in TimeOrNone
    BY <1>7, NextEdgeType DEF AdvanceEdge, InEdgeLoop, TimeOrNone
  <2> QED  BY <1>7, <2>1, OrderTypes DEF AdvanceEdge, InEdgeLoop
<1>8. CASE EdgesDone  BY <1>8, OrderTypes DEF EdgesDone
<1>9. ASSUME NEW t \in Topics, PopHead(t) PROVE TypeInv'
  <2>1. popped[t] \in Nat /\ Len(Tape[t]) \in Nat /\ popped[t] < Len(Tape[t])
    BY <1>9, TapeTypes DEF PopHead, Eligible, Backlog
  <2>2. /\ popped' \in [Topics -> Nat]
        /\ \A u \in Topics : popped'[u] <= Len(Tape[u])
        /\ popped'[t] > 0
    <3>1. popped \in [Topics -> Nat] /\ popped' = [popped EXCEPT ![t] = @ + 1]
      BY <1>9 DEF PopHead
    <3> QED  BY <2>1, <3>1
  <2>3. /\ pc' = "stamp" /\ pc = "release"
        /\ t = TopicOrder[at] /\ at <= Len(TopicOrder)
    BY <1>9 DEF PopHead
  <2>4. UNCHANGED <<transport, dials, originSet, puts, frontier, edges,
                    deliveryEdges, at, deltaFrontier, released, elapsed,
                    arrived, poll, tickDial, sinceTick>>
    BY <1>9 DEF PopHead
  <2>5. TypeOK'  BY <2>2, <2>3, <2>4
  <2>6. LoopShape'  BY <2>2, <2>3, <2>4
  <2> QED  BY <2>5, <2>6
<1>10. ASSUME NEW t \in Topics, RecordRelease(t) PROVE TypeInv'
  <2>1. Tape[t][popped[t]] \in TimeOrNone
    BY <1>10, TapeTypes DEF RecordRelease, TimeOrNone
  <2>2. [topic |-> t, pos |-> popped[t]] \in Event
    BY <1>10, TapeTypes DEF RecordRelease, Event
  <2>3. /\ deliveryEdges' \in [Topics -> TimeOrNone]
        /\ released' \in Seq(Event)
    BY <1>10, <2>1, <2>2 DEF RecordRelease
  <2>4. pc' = "release"  BY <1>10 DEF RecordRelease
  <2>5. UNCHANGED <<transport, dials, originSet, puts, frontier, edges,
                    popped, at, deltaFrontier, elapsed, arrived, poll,
                    tickDial, sinceTick>>
    BY <1>10 DEF RecordRelease
  <2>6. TypeOK'  BY <2>3, <2>4, <2>5
  <2>7. LoopShape'  BY <1>10, <2>4, <2>5 DEF RecordRelease
  <2> QED  BY <2>6, <2>7
<1>11. CASE NextTopic  BY <1>11, OrderTypes DEF NextTopic
<1>12. CASE ReleaseDone  BY <1>12, OrderTypes DEF ReleaseDone
<1>13. CASE SinkEvent
  <2>1. /\ Head(released) \in Event
        /\ Tail(released) \in Seq(Event)
    BY <1>13 DEF SinkEvent
  <2>2. arrived' \in [Topics -> Seq(Int)]
    BY <1>13, <2>1, ProduceType DEF SinkEvent
  <2> QED  BY <1>13, <2>1, <2>2, ClockTypes DEF SinkEvent, Pass
<1>14. CASE SinkDone  BY <1>14 DEF SinkDone
<1>15. CASE Sleep  BY <1>15, ClockTypes DEF Sleep, Pass
<1>16. CASE Stop
  <2>1. ASSUME NEW how, NEW end \in {"failed", "cancelled"}, Abandon(how, end)
        PROVE  TypeInv'
    <3>1. Head(released) \in Event  BY <2>1 DEF Abandon
    <3>2. arrived' \in [Topics -> Seq(Int)]
      BY <2>1, <3>1, ProduceType DEF Abandon
    <3> QED  BY <2>1, <3>2 DEF Abandon
  <2>2. CASE CancelInSleep  BY <2>2 DEF CancelInSleep
  <2> QED  BY <1>16, <2>1, <2>2 DEF Stop, SinkRaises, CancelInSink
<1>17. ASSUME NEW body \in Transport, PutTransport(body) PROVE TypeInv'
  BY <1>17, DialAssumption DEF PutTransport, Transport
<1>18. ASSUME NEW t \in Topics, NEW body \in Dials, PutTopic(t, body)
       PROVE TypeInv'
  BY <1>18, DialAssumption DEF PutTopic
<1>19. CASE Meter
  <2>1. poll' \in Poll /\ (poll'.phase # "idle" => poll'.topic \in Topics)
    BY <1>19, MeterType
  <2>2. UNCHANGED <<control, schedule, loop, arrived, history>>
    BY <1>19 DEF Meter, MeterBacklog, MeterEdge, MeterLag, MeterAnswered
  <2> QED  BY <2>1, <2>2
<1>20. CASE Ended  BY <1>20 DEF Ended
<1>21. CASE UNCHANGED vars  BY <1>21
<1> QED
  BY <1>1, <1>2, <1>3, <1>4, <1>5, <1>6, <1>7, <1>8, <1>9, <1>10, <1>11,
     <1>12, <1>13, <1>14, <1>15, <1>16, <1>17, <1>18, <1>19, <1>20, <1>21
  DEF Next, LoopStep, Advance, Handler

(* Every variable keeps the type the code's annotations give it.           *)
THEOREM TypeCorrect == Spec => []TypeOK
<1>1. Spec => []TypeInv  BY TypeInit, TypeStep, PTL DEF Spec
<1>2. TypeInv => TypeOK  BY DEF TypeInv
<1> QED  BY <1>1, <1>2, PTL
-----------------------------------------------------------------------------
(* Every event popleft has taken is accounted for: it is in its topic's    *)
(* log, in hand, or in the released list, whose entries for one topic are  *)
(* in tape order and all beyond the log.                                   *)
LogIsPrefix ==
    \A t \in Topics :
      /\ Len(arrived[t]) <= popped[t]
      /\ \A p \in 1..Len(arrived[t]) : arrived[t][p] = Tape[t][p]

ReleasedIsNew ==
    /\ pc \notin {"release", "stamp", "sink"} => released = << >>
    /\ pc = "stamp" =>
         Len(arrived[TopicOrder[at]]) < popped[TopicOrder[at]]
    /\ \A i \in DOMAIN released :
         /\ Len(arrived[released[i].topic]) < released[i].pos
         /\ released[i].pos <= popped[released[i].topic]
         /\ ~InHand(released[i].topic, released[i].pos)

ReleasedInOrder ==
    \A i, j \in DOMAIN released :
      i < j /\ released[i].topic = released[j].topic =>
        released[i].pos < released[j].pos

Accounted ==
    pc \notin {"failed", "cancelled"} =>
      \A t \in Topics : \A p \in (Len(arrived[t]) + 1)..popped[t] :
        \/ InHand(t, p)
        \/ \E i \in DOMAIN released : released[i] = [topic |-> t, pos |-> p]

Ledger == LogIsPrefix /\ ReleasedIsNew /\ ReleasedInOrder /\ Accounted

(* A step that touches neither the buffers nor the logs nor the list.      *)
LEMMA LedgerFrame ==
  ASSUME TypeInv, TypeInv', Ledger, UNCHANGED <<arrived, released, popped>>,
         pc # "stamp", pc' # "stamp",
         pc' \notin {"release", "sink"} => released = << >>,
         pc \in {"failed", "cancelled"} => pc' \in {"failed", "cancelled"}
  PROVE  Ledger'
  BY DEF Ledger, LogIsPrefix, ReleasedIsNew, ReleasedInOrder, Accounted, InHand

(* The entries of the list, and of its tail.                               *)
LEMMA ReleasedTypes ==
  ASSUME TypeInv
  PROVE  \A i \in DOMAIN released : /\ i \in Nat /\ i >= 1
                                    /\ released[i].topic \in Topics
                                    /\ released[i].pos \in Nat
  <1>1. released \in Seq(Event)  BY DEF TypeInv, TypeOK
  <1>2. ASSUME NEW i \in DOMAIN released
        PROVE  i \in Nat /\ i >= 1 /\ released[i] \in Event
    BY <1>1
  <1> QED  BY <1>2 DEF Event

LEMMA TailEntries ==
  ASSUME NEW S, NEW s \in Seq(S), s # << >>
  PROVE  /\ \A i \in DOMAIN Tail(s) : /\ i + 1 \in DOMAIN s
                                      /\ i + 1 > 1
                                      /\ Tail(s)[i] = s[i + 1]
         /\ \A i \in DOMAIN s : i # 1 => /\ i - 1 \in DOMAIN Tail(s)
                                         /\ Tail(s)[i - 1] = s[i]
  OBVIOUS

LEMMA AppendEntries ==
  ASSUME NEW S, NEW s \in Seq(S), NEW x \in S
  PROVE  /\ Append(s, x) \in Seq(S)
         /\ Len(Append(s, x)) = Len(s) + 1 /\ Len(s) \in Nat
         /\ Append(s, x)[Len(s) + 1] = x
         /\ \A i \in 1..Len(s) : Append(s, x)[i] = s[i]
  OBVIOUS

(* popleft: the new event is in hand and beyond everything released.       *)
LEMMA LedgerPop ==
  ASSUME TypeInv, Ledger, NEW t \in Topics, PopHead(t)
  PROVE  Ledger'
<1>1. /\ UNCHANGED <<arrived, released, at>>
      /\ pc = "release" /\ pc' = "stamp" /\ t = TopicOrder[at]
  BY DEF PopHead
<1>2. /\ popped'[t] = popped[t] + 1
      /\ \A u \in Topics \ {t} : popped'[u] = popped[u]
  BY DEF PopHead, TypeInv, TypeOK
<1>3. \A u \in Topics : Len(arrived[u]) \in Nat /\ popped[u] \in Nat
  BY DEF TypeInv, TypeOK
<1>4. \A u \in Topics : popped[u] <= popped'[u]
  BY <1>2, <1>3
<1>5. LogIsPrefix'
  BY <1>1, <1>2, <1>3 DEF Ledger, LogIsPrefix
<1>6. ReleasedIsNew'
  <2>1. Len(arrived'[TopicOrder[at']]) < popped'[TopicOrder[at']]
    BY <1>1, <1>2, <1>3 DEF Ledger, LogIsPrefix
  <2>2. ASSUME NEW i \in DOMAIN released
        PROVE  /\ Len(arrived[released[i].topic]) < released[i].pos
               /\ released[i].pos <= popped'[released[i].topic]
               /\ ~(released[i].topic = t /\ released[i].pos = popped'[t])
    <3>1. /\ Len(arrived[released[i].topic]) < released[i].pos
          /\ released[i].pos <= popped[released[i].topic]
      BY DEF Ledger, ReleasedIsNew
    <3>2. released[i].topic \in Topics /\ released[i].pos \in Nat
      BY ReleasedTypes
    <3> QED  BY <1>2, <1>3, <1>4, <3>1, <3>2
  <2>3. \A i \in DOMAIN released :
          ~InHand(released[i].topic, released[i].pos)'
    BY <1>1, <2>2 DEF InHand
  <2> QED  BY <1>1, <2>1, <2>2, <2>3 DEF ReleasedIsNew
<1>7. ReleasedInOrder'
  BY <1>1 DEF Ledger, ReleasedInOrder
<1>8. Accounted'
  <2> SUFFICES ASSUME NEW u \in Topics,
                      NEW p \in (Len(arrived[u]) + 1)..popped'[u]
               PROVE  \/ u = t /\ p = popped'[t]
                      \/ \E i \in DOMAIN released :
                           released[i] = [topic |-> u, pos |-> p]
    BY <1>1 DEF Accounted, InHand
  <2>1. (u = t /\ p = popped'[t]) \/ p \in (Len(arrived[u]) + 1)..popped[u]
    BY <1>2, <1>3
  <2>2. ~InHand(u, p)  BY <1>1 DEF InHand
  <2> QED  BY <1>1, <2>1, <2>2 DEF Ledger, Accounted
<1> QED  BY <1>5, <1>6, <1>7, <1>8 DEF Ledger

(* append: the event in hand becomes the last entry of the list.           *)
LEMMA LedgerRecord ==
  ASSUME TypeInv, Ledger, NEW t \in Topics, RecordRelease(t)
  PROVE  Ledger'
<1> DEFINE new == [topic |-> t, pos |-> popped[t]]
           n == Len(released)
<1>1. /\ released' = Append(released, new)
      /\ UNCHANGED <<arrived, popped, at>>
      /\ pc = "stamp" /\ pc' = "release" /\ t = TopicOrder[at]
  BY DEF RecordRelease
<1>2. \A u \in Topics : Len(arrived[u]) \in Nat /\ popped[u] \in Nat
  BY DEF TypeInv, TypeOK
<1>3. released \in Seq(Event) /\ new \in Event
  <2>1. popped[t] \in 1..Len(Tape[t])
    BY <1>1, <1>2, TapeTypes DEF TypeInv, TypeOK, LoopShape
  <2> QED  BY <2>1, TapeTypes DEF Event, TypeInv, TypeOK
<1>4. /\ n \in Nat
      /\ DOMAIN released' = 1..(n + 1) /\ DOMAIN released = 1..n
      /\ released'[n + 1] = new
      /\ \A i \in 1..n : released'[i] = released[i]
  <2> HIDE DEF new
  <2> QED  BY <1>1, <1>3, AppendEntries
<1>5. \A i \in 1..n : released[i].topic \in Topics /\ released[i].pos \in Nat
  BY <1>4, ReleasedTypes
<1>6. \A i \in 1..n : /\ Len(arrived[released[i].topic]) < released[i].pos
                      /\ released[i].pos <= popped[released[i].topic]
                      /\ released[i].topic = t => released[i].pos < popped[t]
  <2> TAKE i \in 1..n
  <2>1. /\ Len(arrived[released[i].topic]) < released[i].pos
        /\ released[i].pos <= popped[released[i].topic]
        /\ ~InHand(released[i].topic, released[i].pos)
    BY <1>4 DEF Ledger, ReleasedIsNew
  <2> QED  BY <1>1, <1>2, <1>5, <2>1 DEF InHand
<1>7. Len(arrived[t]) < popped[t]
  BY <1>1 DEF Ledger, ReleasedIsNew
<1>8. LogIsPrefix'  BY <1>1 DEF Ledger, LogIsPrefix
<1>9. ReleasedIsNew'
  <2>1. ASSUME NEW i \in 1..(n + 1)
        PROVE  /\ Len(arrived[released'[i].topic]) < released'[i].pos
               /\ released'[i].pos <= popped[released'[i].topic]
    <3>1. CASE i = n + 1  BY <1>2, <1>4, <1>7, <3>1
    <3>2. CASE i \in 1..n  BY <1>4, <1>6, <3>2
    <3> QED  BY <1>4, <3>1, <3>2
  <2> QED  BY <1>1, <1>4, <2>1 DEF ReleasedIsNew, InHand
<1>10. ReleasedInOrder'
  <2> SUFFICES ASSUME NEW i \in 1..(n + 1), NEW j \in 1..(n + 1), i < j,
                      released'[i].topic = released'[j].topic
               PROVE  released'[i].pos < released'[j].pos
    BY <1>4 DEF ReleasedInOrder
  <2>1. i \in 1..n /\ released'[i] = released[i]  BY <1>4
  <2>2. CASE j \in 1..n
    BY <1>4, <2>1, <2>2 DEF Ledger, ReleasedInOrder
  <2>3. CASE j = n + 1
    <3>1. released'[j] = new  BY <1>4, <2>3
    <3> QED  BY <1>6, <2>1, <3>1
  <2> QED  BY <1>4, <2>2, <2>3
<1>11. Accounted'
  <2> SUFFICES ASSUME NEW u \in Topics,
                      NEW p \in (Len(arrived[u]) + 1)..popped[u]
               PROVE  \E i \in 1..(n + 1) :
                        released'[i] = [topic |-> u, pos |-> p]
    <3>1. /\ arrived' = arrived /\ popped' = popped
          /\ DOMAIN released' = 1..(n + 1)
      BY <1>1, <1>4
    <3> QED  BY <3>1 DEF Accounted
  <2>1. CASE InHand(u, p)
    <3>1. released'[n + 1] = [topic |-> u, pos |-> p] /\ n + 1 \in 1..(n + 1)
      BY <1>1, <1>4, <2>1 DEF InHand
    <3> QED  BY <3>1
  <2>2. CASE ~InHand(u, p)
    <3>1. PICK i \in 1..n : released[i] = [topic |-> u, pos |-> p]
      BY <1>1, <1>4, <2>2 DEF Ledger, Accounted
    <3>2. i \in 1..(n + 1) /\ released'[i] = released[i]  BY <1>4
    <3> QED  BY <3>1, <3>2
  <2> QED  BY <2>1, <2>2
<1> QED  BY <1>8, <1>9, <1>10, <1>11 DEF Ledger

(* The head of the released list is the next event of its topic's log.     *)
LEMMA HeadIsNext ==
  ASSUME TypeInv, Ledger, pc = "sink", released # << >>
  PROVE  LET e == Head(released)
         IN  /\ e \in Event
             /\ e.pos = Len(arrived[e.topic]) + 1
             /\ e.pos <= popped[e.topic]
<1> USE DEF TypeInv, TypeOK
<1> DEFINE e == Head(released)
           n == Len(arrived[e.topic]) + 1
<1>1. /\ e = released[1] /\ 1 \in DOMAIN released /\ e \in Event
      /\ \A i \in DOMAIN released : i \in Nat /\ i >= 1
  OBVIOUS
<1>2. /\ e.topic \in Topics /\ e.pos \in Nat /\ n \in Nat
      /\ popped[e.topic] \in Nat
  BY <1>1 DEF Event
<1>3. n <= e.pos /\ e.pos <= popped[e.topic]
  BY <1>1, <1>2 DEF Ledger, ReleasedIsNew
<1>4. PICK i \in DOMAIN released : released[i] = [topic |-> e.topic, pos |-> n]
  <2>1. n \in (Len(arrived[e.topic]) + 1)..popped[e.topic]
    BY <1>2, <1>3
  <2>2. ~InHand(e.topic, n)  BY DEF InHand
  <2> QED  BY <1>2, <2>1, <2>2 DEF Ledger, Accounted
<1>5. ASSUME 1 < i PROVE e.pos < n
  <2>1. released[i].topic = released[1].topic /\ released[i].pos = n
    BY <1>1, <1>4
  <2>2. released[1].pos < released[i].pos
    BY <1>1, <1>5, <2>1 DEF Ledger, ReleasedInOrder
  <2> QED  BY <1>1, <2>1, <2>2
<1>6. e.pos = n  BY <1>1, <1>2, <1>3, <1>4, <1>5
<1> QED  BY <1>1, <1>3, <1>6

(* The sink produces the head of the list and drops it.                    *)
LEMMA LedgerSink ==
  ASSUME TypeInv, TypeInv', Ledger, pc = "sink", released # << >>,
         Produce(Head(released)), UNCHANGED <<popped, at>>,
         \/ pc' = "sink" /\ released' = Tail(released)
         \/ pc' \in {"failed", "cancelled"} /\ released' = << >>
  PROVE  Ledger'
<1> DEFINE e == Head(released)
<1>1. /\ e = released[1] /\ 1 \in DOMAIN released
      /\ e \in Event /\ e.topic \in Topics /\ e.pos \in Nat
  <2>1. released \in Seq(Event) /\ released # << >>  BY DEF TypeInv, TypeOK
  <2>2. e = released[1] /\ 1 \in DOMAIN released /\ e \in Event  BY <2>1
  <2> QED  BY <2>2 DEF Event
<1>2. e.pos = Len(arrived[e.topic]) + 1 /\ e.pos <= popped[e.topic]
  BY HeadIsNext
<1>3. \A t \in Topics : /\ arrived[t] \in Seq(Int)
                        /\ Len(arrived[t]) \in Nat
                        /\ popped[t] \in Nat
  BY DEF TypeInv, TypeOK
<1>4. /\ arrived'[e.topic] = Append(arrived[e.topic], Tape[e.topic][e.pos])
      /\ \A u \in Topics \ {e.topic} : arrived'[u] = arrived[u]
  BY <1>1 DEF TypeInv, TypeOK, Produce, TimeOf
<1>5. Tape[e.topic][e.pos] \in Int
  BY <1>1, TapeTypes DEF Event
<1>6. /\ Len(arrived'[e.topic]) = e.pos
      /\ arrived'[e.topic][e.pos] = Tape[e.topic][e.pos]
      /\ \A p \in 1..Len(arrived[e.topic]) :
           arrived'[e.topic][p] = arrived[e.topic][p]
  BY <1>1, <1>2, <1>3, <1>4, <1>5, AppendEntries
<1>7. LogIsPrefix'
  <2> SUFFICES ASSUME NEW t \in Topics
               PROVE  /\ Len(arrived'[t]) <= popped[t]
                      /\ \A p \in 1..Len(arrived'[t]) :
                           arrived'[t][p] = Tape[t][p]
    BY DEF LogIsPrefix
  <2>1. CASE t = e.topic
    <3>1. ASSUME NEW p \in 1..e.pos PROVE arrived'[t][p] = Tape[t][p]
      <4>1. p = e.pos \/ p \in 1..Len(arrived[t])
        BY <1>1, <1>2, <1>3, <2>1
      <4> QED  BY <1>6, <2>1, <4>1 DEF Ledger, LogIsPrefix
    <3> QED  BY <1>2, <1>6, <2>1, <3>1
  <2>2. CASE t # e.topic
    BY <1>4, <2>2 DEF Ledger, LogIsPrefix
  <2> QED  BY <2>1, <2>2
<1>8. CASE pc' \in {"failed", "cancelled"} /\ released' = << >>
  BY <1>7, <1>8 DEF Ledger, ReleasedIsNew, ReleasedInOrder, Accounted
<1>9. CASE pc' = "sink" /\ released' = Tail(released)
  <2>1. /\ \A i \in DOMAIN released' : /\ i + 1 \in DOMAIN released
                                       /\ i + 1 > 1
                                       /\ released'[i] = released[i + 1]
        /\ \A i \in DOMAIN released :
             i # 1 => i - 1 \in DOMAIN released' /\ released'[i - 1] = released[i]
    BY <1>9, TailEntries DEF TypeInv, TypeOK
  <2>2. \A i \in DOMAIN released : /\ i \in Nat /\ i >= 1
                                   /\ released[i].topic \in Topics
                                   /\ released[i].pos \in Nat
    BY ReleasedTypes
  <2>3. ReleasedInOrder'
    <3> SUFFICES ASSUME NEW i \in DOMAIN released', NEW j \in DOMAIN released',
                        i < j, released'[i].topic = released'[j].topic
                 PROVE  released'[i].pos < released'[j].pos
      BY DEF ReleasedInOrder
    <3>1. i \in Int /\ j \in Int
      BY DEF TypeInv, TypeOK
    <3>2. i + 1 < j + 1  BY <3>1
    <3>3. /\ i + 1 \in DOMAIN released /\ released'[i] = released[i + 1]
          /\ j + 1 \in DOMAIN released /\ released'[j] = released[j + 1]
      BY <2>1
    <3>4. released[i + 1].pos < released[j + 1].pos
      BY <3>2, <3>3 DEF Ledger, ReleasedInOrder
    <3> QED  BY <3>3, <3>4
  <2>4. ASSUME NEW i \in DOMAIN released, i > 1
        PROVE  /\ Len(arrived'[released[i].topic]) < released[i].pos
               /\ released[i].pos <= popped[released[i].topic]
    <3>1. CASE released[i].topic = e.topic
      <4>1. released[1].pos < released[i].pos
        BY <1>1, <2>4, <3>1 DEF Ledger, ReleasedInOrder
      <4> QED  BY <1>1, <1>6, <3>1, <4>1 DEF Ledger, ReleasedIsNew
    <3>2. CASE released[i].topic # e.topic
      BY <1>4, <2>2, <3>2 DEF Ledger, ReleasedIsNew
    <3> QED  BY <3>1, <3>2
  <2>5. ReleasedIsNew'
    <3>1. ASSUME NEW i \in DOMAIN released'
          PROVE  /\ Len(arrived'[released'[i].topic]) < released'[i].pos
                 /\ released'[i].pos <= popped[released'[i].topic]
      <4>1. i + 1 \in DOMAIN released /\ i + 1 > 1
            /\ released'[i] = released[i + 1]
        BY <2>1
      <4> QED  BY <2>4, <4>1
    <3> QED  BY <1>9, <3>1 DEF ReleasedIsNew, InHand
  <2>6. Accounted'
    <3> SUFFICES ASSUME NEW t \in Topics,
                        NEW p \in (Len(arrived'[t]) + 1)..popped[t]
                 PROVE  \E i \in DOMAIN released' :
                          released'[i] = [topic |-> t, pos |-> p]
      BY DEF Accounted
    <3>1. p \in (Len(arrived[t]) + 1)..popped[t] /\ ~(t = e.topic /\ p = e.pos)
      <4>1. CASE t = e.topic  BY <1>1, <1>2, <1>3, <1>6, <4>1
      <4>2. CASE t # e.topic  BY <1>4, <4>2
      <4> QED  BY <4>1, <4>2
    <3>2. PICK i \in DOMAIN released : released[i] = [topic |-> t, pos |-> p]
      BY <3>1 DEF Ledger, Accounted, InHand
    <3>3. i # 1  BY <1>1, <3>1, <3>2
    <3> QED  BY <2>1, <3>2, <3>3
  <2> QED  BY <1>7, <2>3, <2>5, <2>6 DEF Ledger
<1> QED  BY <1>8, <1>9

LEMMA LedgerInit == Init => Ledger
  BY DEF Init, Ledger, LogIsPrefix, ReleasedIsNew, ReleasedInOrder, Accounted

LEMMA LedgerStep == TypeInv /\ TypeInv' /\ Ledger /\ [Next]_vars => Ledger'
<1> SUFFICES ASSUME TypeInv, TypeInv', Ledger, [Next]_vars PROVE Ledger'
  OBVIOUS
<1>1. CASE Finish \/ PausedTick \/ FirstTick \/ PlayingTick
  <2>1. UNCHANGED <<arrived, released, popped>> /\ pc = "top"
        /\ pc' \in {"done", "sleep", "edges"}
    BY <1>1 DEF Finish, PausedTick, FirstTick, PlayingTick, ReadClock
  <2> QED  BY <2>1, LedgerFrame DEF Ledger, ReleasedIsNew
<1>2. ASSUME NEW t \in Topics, InitEdge(t) \/ HoldEdge(t) \/ AdvanceEdge(t)
      PROVE  Ledger'
  <2>1. UNCHANGED <<arrived, released, popped>> /\ pc = "edges" /\ pc' = "edges"
    BY <1>2 DEF InitEdge, HoldEdge, AdvanceEdge, InEdgeLoop
  <2> QED  BY <2>1, LedgerFrame DEF Ledger, ReleasedIsNew
<1>3. CASE EdgesDone \/ NextTopic \/ ReleaseDone
  <2>1. UNCHANGED <<arrived, released, popped>> /\ pc \in {"edges", "release"}
        /\ pc' \in {"release", "sink"}
    BY <1>3 DEF EdgesDone, NextTopic, ReleaseDone
  <2> QED  BY <2>1, LedgerFrame
<1>4. ASSUME NEW t \in Topics, PopHead(t) PROVE Ledger'
  BY <1>4, LedgerPop
<1>5. ASSUME NEW t \in Topics, RecordRelease(t) PROVE Ledger'
  BY <1>5, LedgerRecord
<1>6. CASE SinkEvent
  BY <1>6, LedgerSink DEF SinkEvent
<1>7. CASE SinkDone \/ Sleep \/ CancelInSleep
  <2>1. UNCHANGED <<arrived, released, popped>> /\ pc \in {"sink", "sleep"}
        /\ pc' \in {"sleep", "top", "cancelled"} /\ released = << >>
    BY <1>7 DEF SinkDone, Sleep, CancelInSleep, Ledger, ReleasedIsNew
  <2> QED  BY <2>1, LedgerFrame
<1>8. ASSUME NEW how, NEW end \in {"failed", "cancelled"}, Abandon(how, end)
      PROVE  Ledger'
  <2>1. CASE Produce(Head(released))
    BY <1>8, <2>1, LedgerSink DEF Abandon
  <2>2. CASE UNCHANGED arrived
    BY <1>8, <2>2
    DEF Abandon, Ledger, LogIsPrefix, ReleasedIsNew, ReleasedInOrder, Accounted
  <2> QED  BY <1>8, <2>1, <2>2 DEF Abandon
<1>9. CASE Handler \/ Ended \/ UNCHANGED vars
  <2>1. UNCHANGED <<arrived, released, popped, pc, at>>
    BY <1>9 DEF Handler, PutTransport, PutTopic, Meter, MeterBacklog, MeterEdge,
                MeterLag, MeterAnswered, Ended
  <2> QED  BY <2>1
           DEF Ledger, LogIsPrefix, ReleasedIsNew, ReleasedInOrder, Accounted,
               InHand
<1> QED
  BY <1>1, <1>2, <1>3, <1>4, <1>5, <1>6, <1>7, <1>8, <1>9
  DEF Next, LoopStep, Advance, Stop, SinkRaises, CancelInSink

LEMMA LedgerAlways == Spec => [](TypeInv /\ Ledger)
<1>1. Init => TypeInv /\ Ledger  BY TypeInit, LedgerInit
<1>2. TypeInv /\ Ledger /\ [Next]_vars => (TypeInv /\ Ledger)'
  BY TypeStep, LedgerStep
<1> QED  BY <1>1, <1>2, PTL DEF Spec

(* No event is lost between its buffer and its topic's log while the task  *)
(* runs, however the edits, the pauses and the slow ticks fall.            *)
THEOREM ReleasedIsConserved == Spec => []NothingStranded
<1>1. TypeInv /\ Ledger => NothingStranded
  <2> SUFFICES ASSUME TypeInv, Ledger, pc \notin {"failed", "cancelled"},
                      NEW t \in Topics
               PROVE  /\ \A p \in (Len(arrived[t]) + 1)..popped[t] :
                           \/ InHand(t, p)
                           \/ \E i \in DOMAIN released :
                                released[i] = [topic |-> t, pos |-> p]
                      /\ pc \in {"top", "sleep", "done"} =>
                           Len(arrived[t]) = popped[t]
    BY DEF NothingStranded
  <2>1. \A p \in (Len(arrived[t]) + 1)..popped[t] :
          \/ InHand(t, p)
          \/ \E i \in DOMAIN released : released[i] = [topic |-> t, pos |-> p]
    BY DEF Ledger, Accounted
  <2>2. ASSUME pc \in {"top", "sleep", "done"}
        PROVE  Len(arrived[t]) = popped[t]
    <3>1. /\ Len(arrived[t]) \in Nat /\ popped[t] \in Nat
          /\ Len(arrived[t]) <= popped[t]
      BY DEF TypeInv, TypeOK, Ledger, LogIsPrefix
    <3>2. released = << >>  BY <2>2 DEF Ledger, ReleasedIsNew
    <3>3. popped[t] \notin (Len(arrived[t]) + 1)..popped[t]
      BY <2>1, <2>2, <3>2 DEF InHand
    <3> QED  BY <3>1, <3>3
  <2> QED  BY <2>1, <2>2
<1> QED  BY <1>1, LedgerAlways, PTL

(* The two together: the state is well typed and nothing is stranded.      *)
THEOREM SchedulerIsSound == Spec => []SchedulerInv
BY TypeCorrect, ReleasedIsConserved, PTL DEF SchedulerInv

(* The scheduler implements TopicStreams: what it produces to each topic   *)
(* is that topic's tape, in order, each event once, up to where it stops.  *)
THEOREM SchedulerImplementsStreams == Spec => ImplementsStreams
<1>1. Init => Streams!StreamsInit
  BY DEF Init, Streams!StreamsInit
<1>2. ASSUME TypeInv, Ledger, pc = "sink", released # << >>,
             Produce(Head(released))
      PROVE  Streams!StreamsNext
  <2> DEFINE e == Head(released)
  <2>1. /\ e \in Event /\ e.pos = Len(arrived[e.topic]) + 1
    BY <1>2, HeadIsNext
  <2>2. /\ e.topic \in Topics /\ e.pos \in 1..Len(Tape[e.topic])
    BY <2>1, TapeTypes DEF Event
  <2>3. Len(arrived[e.topic]) < Len(Tape[e.topic])
    BY <2>1, <2>2, TapeTypes DEF TypeInv, TypeOK
  <2>4. arrived' = [arrived EXCEPT ![e.topic] =
                      Append(@, Tape[e.topic][Len(@) + 1])]
    BY <1>2, <2>1 DEF Produce, TimeOf
  <2>5. Streams!Arrive(e.topic)
    BY <2>3, <2>4 DEF Streams!Arrive
  <2> QED  BY <2>2, <2>5 DEF Streams!StreamsNext
<1>3. TypeInv /\ Ledger /\ [Next]_vars => [Streams!StreamsNext]_arrived
  <2> SUFFICES ASSUME TypeInv, Ledger, [Next]_vars, arrived' # arrived
               PROVE  Streams!StreamsNext
    OBVIOUS
  <2>1. CASE SinkEvent  BY <1>2, <2>1 DEF SinkEvent
  <2>2. CASE Stop
    BY <1>2, <2>2
    DEF Stop, SinkRaises, CancelInSink, CancelInSleep, Abandon
  <2>3. CASE Advance
    BY <2>3 DEF Advance, PausedTick, FirstTick, PlayingTick, InitEdge, HoldEdge,
                AdvanceEdge, InEdgeLoop, EdgesDone, PopHead, RecordRelease,
                NextTopic, ReleaseDone
  <2>4. CASE Finish \/ SinkDone \/ Sleep \/ Handler \/ Ended \/ UNCHANGED vars
    BY <2>4 DEF Finish, SinkDone, Sleep, Handler, PutTransport, PutTopic, Meter,
                MeterBacklog, MeterEdge, MeterLag, MeterAnswered, Ended
  <2> QED  BY <2>1, <2>2, <2>3, <2>4 DEF Next, LoopStep
<1> QED
  BY <1>1, <1>3, LedgerAlways, PTL DEF Spec, ImplementsStreams, Streams!StreamsSpec

-----------------------------------------------------------------------------
(* When MixerScheduler releases: how the frontier, the edges and the       *)
(* delivery edges hang together, for every sequence of edits.              *)

(* The edges hang below the frontier; they are set together, in the order  *)
(* of control.topics, by the first tick that plays.                        *)
FirstEdges == pc = "edges" /\ deltaFrontier = NoTime

EdgesBelowFrontier ==
    /\ frontier # NoTime => frontier <= Horizon
    /\ frontier = NoTime => \A t \in Topics : edges[t] = NoTime
    /\ \A t \in Topics : edges[t] # NoTime => edges[t] <= frontier
    /\ FirstEdges => \A i \in 1..Len(TopicOrder) :
                       i < at <=> edges[TopicOrder[i]] # NoTime
    /\ frontier # NoTime /\ ~FirstEdges =>
         \A t \in Topics : edges[t] # NoTime

(* The last event popped lies at or before the edge, and the delivery edge *)
(* is its time, or (while it is in hand) that of the one before it.        *)
Stamped(t) == IF pc = "stamp" /\ t = TopicOrder[at]
                THEN popped[t] - 1 ELSE popped[t]

DeliveredBelowEdges ==
    \A t \in Topics :
      /\ popped[t] > 0 => edges[t] # NoTime /\ Tape[t][popped[t]] <= edges[t]
      /\ deliveryEdges[t] = IF Stamped(t) = 0 THEN NoTime
                                              ELSE Tape[t][Stamped(t)]

(* A head can be eligible only because this tick moved its edge, and then  *)
(* the edge is under the ceiling of the dial this tick read.               *)
UnderCeiling(t) ==
    /\ tickDial[t] # NoTime
    /\ edges[t] <= frontier - tickDial[t].lag
    /\ tickDial[t].mute => deltaFrontier = NoTime

EligibleUnderCeiling ==
    /\ pc = "edges" => \A i \in 1..Len(TopicOrder) :
         Eligible(TopicOrder[i]) => i < at /\ UnderCeiling(TopicOrder[i])
    /\ pc \in {"release", "stamp"} =>
         /\ \A t \in Topics : Eligible(t) => UnderCeiling(t)
         /\ \A i \in 1..Len(TopicOrder) : i < at => ~Eligible(TopicOrder[i])
    /\ pc \notin {"edges", "release", "stamp"} =>
         \A t \in Topics : ~Eligible(t)

(* The delivery edge a meter holds is not ahead of the frontier it reads   *)
(* next.                                                                   *)
MeterBehindFrontier ==
    /\ poll.phase = "edge" /\ poll.edge # NoTime =>
         frontier # NoTime /\ poll.edge <= frontier
    /\ poll.phase = "answered" /\ poll.lag # NoTime => poll.lag >= 0

ClockInStep == elapsed = sinceTick

Timing ==
    /\ EdgesBelowFrontier
    /\ DeliveredBelowEdges
    /\ EligibleUnderCeiling
    /\ MeterBehindFrontier
    /\ ClockInStep
-----------------------------------------------------------------------------
USE DEF control, schedule, loop, history, vars

LEMMA LagsAreNat == ASSUME NEW dial \in Dials PROVE dial.lag \in Nat
  <1>1. Lags \subseteq Nat  BY DialAssumption
  <1> QED  BY <1>1 DEF Dials

LEMMA NoDialIsNone == NoTime \notin Dials
  BY DialAssumption DEF Dials

(* The recurrence of an edge that is set: it never falls, and it rises     *)
(* only to at most the ceiling.                                            *)
LEMMA NextEdgeBounds ==
  ASSUME NEW edge \in Int, NEW dial \in Dials, NEW delta \in Nat,
         NEW front \in Int
  PROVE  LET stepped == NextEdge(edge, dial, delta, front)
         IN  /\ stepped \in Int /\ stepped >= edge
             /\ stepped = edge \/ stepped <= front - dial.lag
             /\ edge <= front => stepped <= front
  <1>1. EdgeStep(dial.rate, delta) \in Nat  BY EdgeStepType DEF Dials
  <1>2. dial.lag \in Nat  BY LagsAreNat
  <1> QED  BY <1>1, <1>2, NoTimeIsNone DEF NextEdge, Least, Greatest

(* The loops over control.topics visit every topic, and each once.         *)
LEMMA EveryTopicHasAPlace ==
    /\ \A t \in Topics : \E i \in 1..Len(TopicOrder) : TopicOrder[i] = t
    /\ \A i, j \in 1..Len(TopicOrder) : TopicOrder[i] = TopicOrder[j] => i = j
  BY TopicsAssumption

(* The steps of the edge loop, seen from outside.                          *)
EdgeLoopStep(t) == InitEdge(t) \/ HoldEdge(t) \/ AdvanceEdge(t)

LEMMA EdgeLoopFacts ==
  ASSUME TypeInv, NEW t \in Topics, EdgeLoopStep(t)
  PROVE  /\ at \in 1..Len(TopicOrder) /\ t = TopicOrder[at] /\ at' = at + 1
         /\ pc = "edges" /\ pc' = "edges" /\ frontier \in Int
         /\ UNCHANGED <<frontier, deltaFrontier, popped, deliveryEdges, poll,
                        elapsed, sinceTick>>
         /\ edges \in [Topics -> TimeOrNone]
         /\ tickDial' = [tickDial EXCEPT ![t] = dials[t]]
         /\ dials[t] \in Dials
         /\ \A u \in Topics \ {t} : edges'[u] = edges[u]
  BY OrderTypes, NoTimeIsNone
  DEF TypeInv, TypeOK, LoopShape, EdgeLoopStep, InitEdge, HoldEdge,
      AdvanceEdge, InEdgeLoop, TimeOrNone

LEMMA EdgesStep ==
  ASSUME TypeInv, TypeInv', EdgesBelowFrontier, [Next]_vars
  PROVE  EdgesBelowFrontier'
<1> USE DEF EdgesBelowFrontier, FirstEdges
<1>1. CASE FirstTick
  <2>1. /\ frontier = NoTime /\ UNCHANGED edges /\ pc' = "edges"
        /\ at' = 1 /\ deltaFrontier' = NoTime
    BY <1>1 DEF FirstTick
  <2>2. PICK t \in Topics : Backlog(t) > 0 /\ frontier' = HeadTime(t)
    BY <1>1 DEF FirstTick
  <2>3. frontier' <= Horizon
    <3>1. popped[t] + 1 \in DOMAIN Tape[t]
      <4>1. /\ Len(Tape[t]) \in Nat /\ popped[t] \in Nat
            /\ Len(Tape[t]) - popped[t] > 0
        BY <2>2, TapeTypes DEF Backlog, TypeInv, TypeOK
      <4>2. popped[t] + 1 \in 1..Len(Tape[t])  BY <4>1
      <4> QED  BY <4>2, TapeAssumption
    <3> QED  BY <2>2, <3>1, TapeAssumption DEF HeadTime
  <2>4. frontier' # NoTime  BY <2>1 DEF TypeInv, LoopShape
  <2>5. \A i \in 1..Len(TopicOrder) : ~(i < 1)  BY OrderTypes
  <2> QED  BY <2>1, <2>3, <2>4, <2>5, OrderTypes
<1>2. CASE PlayingTick
  <2>1. /\ frontier \in Int /\ UNCHANGED edges /\ pc = "top" /\ pc' = "edges"
        /\ deltaFrontier' = FrontierStep(transport.speed, elapsed)
        /\ frontier' = Least(frontier + deltaFrontier', Horizon)
    BY <1>2 DEF PlayingTick, ReadClock, TypeInv, TypeOK, TimeOrNone
  <2>2. deltaFrontier' \in Nat
    BY <2>1, FrontierStepType DEF TypeInv, TypeOK, Transport
  <2>3. frontier' \in Int /\ frontier <= frontier' /\ frontier' <= Horizon
    BY <2>1, <2>2, NoTimeIsNone DEF Least
  <2>4. deltaFrontier' # NoTime /\ frontier' # NoTime
    BY <2>2, <2>3, NoTimeIsNone
  <2>5. \A t \in Topics : edges[t] \in Int /\ edges[t] <= frontier'
    <3>1. \A t \in Topics : edges[t] # NoTime /\ edges[t] <= frontier
      BY <2>1, NoTimeIsNone
    <3>2. \A t \in Topics : edges[t] \in Int
      BY <3>1 DEF TypeInv, TypeOK, TimeOrNone
    <3> QED  BY <2>1, <2>3, <3>1, <3>2
  <2> QED  BY <2>1, <2>3, <2>4, <2>5, NoTimeIsNone
<1>3. ASSUME NEW t \in Topics, InitEdge(t) PROVE EdgesBelowFrontier'
  <2>1. EdgeLoopStep(t)  BY <1>3 DEF EdgeLoopStep
  <2>2. /\ deltaFrontier = NoTime /\ edges'[t] = frontier - dials[t].lag
        /\ dials[t].lag \in Nat
    BY <1>3, LagsAreNat DEF InitEdge, TypeInv, TypeOK
  <2>3. edges'[t] \in Int /\ edges'[t] <= frontier /\ edges'[t] # NoTime
    BY <2>1, <2>2, EdgeLoopFacts, NoTimeIsNone
  <2>4. ASSUME NEW u \in Topics, edges'[u] # NoTime PROVE edges'[u] <= frontier
    BY <2>1, <2>3, <2>4, EdgeLoopFacts
  <2>5. ASSUME NEW i \in 1..Len(TopicOrder)
        PROVE  i < at + 1 <=> edges'[TopicOrder[i]] # NoTime
    <3>1. CASE i = at  BY <2>1, <2>3, <3>1, EdgeLoopFacts
    <3>2. CASE i # at
      <4>1. TopicOrder[i] # t /\ TopicOrder[i] \in Topics
        BY <2>1, <3>2, EdgeLoopFacts, EveryTopicHasAPlace, OrderTypes
      <4>2. i < at + 1 <=> i < at  BY <2>1, <3>2, EdgeLoopFacts
      <4> QED  BY <2>1, <2>2, <4>1, <4>2, EdgeLoopFacts
    <3> QED  BY <3>1, <3>2
  <2>6. frontier # NoTime /\ frontier' = frontier /\ FirstEdges'
        /\ at' = at + 1
    BY <2>1, <2>2, EdgeLoopFacts, NoTimeIsNone
  <2> QED  BY <2>4, <2>5, <2>6
<1>4. ASSUME NEW t \in Topics, HoldEdge(t) PROVE EdgesBelowFrontier'
  BY <1>4 DEF HoldEdge, InEdgeLoop
<1>5. ASSUME NEW t \in Topics, AdvanceEdge(t) PROVE EdgesBelowFrontier'
  <2>1. EdgeLoopStep(t) /\ deltaFrontier # NoTime
    BY <1>5 DEF EdgeLoopStep, AdvanceEdge
  <2>2. deltaFrontier \in Nat  BY <2>1 DEF TypeInv, TypeOK
  <2>3. edges[t] # NoTime /\ edges[t] \in Int /\ edges[t] <= frontier
    BY <2>1, EdgeLoopFacts, NoTimeIsNone DEF TimeOrNone
  <2>4. edges'[t] = NextEdge(edges[t], dials[t], deltaFrontier, frontier)
    BY <1>5, <2>1, EdgeLoopFacts DEF AdvanceEdge
  <2>5. edges'[t] \in Int /\ edges'[t] <= frontier /\ edges'[t] # NoTime
    <3>1. frontier \in Int /\ dials[t] \in Dials  BY <2>1, EdgeLoopFacts
    <3>2. LET stepped == NextEdge(edges[t], dials[t], deltaFrontier, frontier)
          IN  stepped \in Int /\ stepped <= frontier
      BY <2>2, <2>3, <3>1, NextEdgeBounds
    <3> QED  BY <2>4, <3>2, NoTimeIsNone
  <2>6. /\ frontier # NoTime /\ frontier' = frontier
        /\ deltaFrontier' # NoTime
        /\ \A u \in Topics : edges'[u] # NoTime /\ edges'[u] <= frontier
    BY <2>1, <2>5, EdgeLoopFacts, NoTimeIsNone
  <2> QED  BY <2>6
<1>6. CASE EdgesDone
  <2>1. /\ pc = "edges" /\ pc' = "release" /\ at > Len(TopicOrder)
        /\ UNCHANGED <<frontier, edges>>
    BY <1>6 DEF EdgesDone
  <2>2. \A i \in 1..Len(TopicOrder) : i < at
    BY <2>1, OrderTypes DEF TypeInv, TypeOK
  <2>3. frontier # NoTime  BY <2>1 DEF TypeInv, LoopShape
  <2>4. \A t \in Topics : edges[t] # NoTime
    BY <2>1, <2>2, <2>3, EveryTopicHasAPlace
  <2> QED  BY <2>1, <2>4
<1>7. CASE /\ UNCHANGED <<frontier, edges>>
           /\ \/ pc' = "edges" /\ UNCHANGED <<pc, at, deltaFrontier>>
              \/ pc # "edges" /\ pc' # "edges"
  BY <1>7
<1> QED
  <2>1. ASSUME NEW t \in Topics, PopHead(t) \/ RecordRelease(t)
        PROVE  EdgesBelowFrontier'
    BY <2>1 DEF PopHead, RecordRelease
  <2>2. CASE Finish \/ PausedTick \/ NextTopic \/ ReleaseDone \/ SinkEvent
             \/ SinkDone \/ Sleep \/ Stop
    BY <1>7, <2>2
    DEF Finish, PausedTick, ReadClock, NextTopic, ReleaseDone, SinkEvent,
        SinkDone, Sleep, Stop, SinkRaises, CancelInSink, CancelInSleep, Abandon
  <2>3. CASE Handler \/ Ended \/ UNCHANGED vars
    BY <2>3
    DEF Handler, PutTransport, PutTopic, Meter, MeterBacklog, MeterEdge,
        MeterLag, MeterAnswered, Ended
  <2> QED
    BY <1>1, <1>2, <1>3, <1>4, <1>5, <1>6, <2>1, <2>2, <2>3
    DEF Next, LoopStep, Advance
-----------------------------------------------------------------------------
LEMMA DeliveredStep ==
  ASSUME TypeInv, TypeInv', EdgesBelowFrontier, EdgesBelowFrontier',
         DeliveredBelowEdges, [Next]_vars
  PROVE  DeliveredBelowEdges'
<1>1. \A t \in Topics : /\ popped[t] \in Nat
                        /\ edges[t] \in TimeOrNone
                        /\ \A p \in 1..popped[t] : Tape[t][p] \in Int
  <2>1. ASSUME NEW t \in Topics
        PROVE  popped[t] \in Nat /\ popped[t] <= Len(Tape[t])
    BY DEF TypeInv, TypeOK
  <2>2. ASSUME NEW t \in Topics, NEW p \in 1..popped[t]
        PROVE  Tape[t][p] \in Int
    <3>1. p \in 1..Len(Tape[t])  BY <2>1, TapeTypes
    <3> QED  BY <3>1, TapeTypes
  <2> QED  BY <2>1, <2>2 DEF TypeInv, TypeOK
<1>2. ASSUME UNCHANGED <<popped, edges, deliveryEdges>>,
             pc # "stamp", pc' # "stamp"
      PROVE  DeliveredBelowEdges'
  BY <1>2 DEF DeliveredBelowEdges, Stamped
<1>3. ASSUME NEW t \in Topics, EdgeLoopStep(t) PROVE DeliveredBelowEdges'
  <2>1. popped[t] > 0 =>
          edges'[t] # NoTime /\ Tape[t][popped[t]] <= edges'[t]
    <3> SUFFICES ASSUME popped[t] > 0
                 PROVE  edges'[t] # NoTime /\ Tape[t][popped[t]] <= edges'[t]
      OBVIOUS
    <3>1. /\ edges[t] # NoTime /\ edges[t] \in Int
          /\ Tape[t][popped[t]] <= edges[t] /\ Tape[t][popped[t]] \in Int
      BY <1>1 DEF DeliveredBelowEdges, TimeOrNone
    <3>2. CASE InitEdge(t)
      <4>1. FirstEdges /\ ~(at < at)
        BY <1>3, <3>2, EdgeLoopFacts DEF FirstEdges, InitEdge
      <4> QED  BY <1>3, <3>1, <4>1, EdgeLoopFacts DEF EdgesBelowFrontier
    <3>3. CASE HoldEdge(t)  BY <3>1, <3>3 DEF HoldEdge
    <3>4. CASE AdvanceEdge(t)
      <4>1. /\ edges'[t] = NextEdge(edges[t], dials[t], deltaFrontier, frontier)
            /\ deltaFrontier \in Nat
        BY <1>3, <3>4, EdgeLoopFacts DEF AdvanceEdge, TypeInv, TypeOK
      <4>2. frontier \in Int /\ dials[t] \in Dials  BY <1>3, EdgeLoopFacts
      <4>3. LET stepped == NextEdge(edges[t], dials[t], deltaFrontier, frontier)
            IN  stepped \in Int /\ stepped >= edges[t]
        BY <3>1, <4>1, <4>2, NextEdgeBounds
      <4> QED  BY <3>1, <4>1, <4>3, NoTimeIsNone
    <3> QED  BY <1>3, <3>2, <3>3, <3>4 DEF EdgeLoopStep
  <2>2. \A u \in Topics : /\ u # t => edges'[u] = edges[u]
                          /\ popped'[u] = popped[u]
                          /\ deliveryEdges'[u] = deliveryEdges[u]
                          /\ Stamped(u)' = Stamped(u)
    BY <1>3, EdgeLoopFacts DEF Stamped
  <2> QED  BY <2>1, <2>2 DEF DeliveredBelowEdges
<1>4. ASSUME NEW t \in Topics, PopHead(t) PROVE DeliveredBelowEdges'
  <2>1. /\ pc = "release" /\ pc' = "stamp" /\ t = TopicOrder[at]
        /\ popped' = [popped EXCEPT ![t] = @ + 1]
        /\ UNCHANGED <<edges, deliveryEdges, at>>
        /\ edges[t] # NoTime /\ HeadTime(t) <= edges[t]
    BY <1>4 DEF PopHead, Eligible
  <2>2. popped'[t] = popped[t] + 1 /\ \A u \in Topics \ {t} : popped'[u] = popped[u]
    BY <2>1 DEF TypeInv, TypeOK
  <2>3. \A u \in Topics : Stamped(u)' = Stamped(u)
    BY <1>1, <2>1, <2>2 DEF Stamped
  <2> QED  BY <2>1, <2>2, <2>3 DEF DeliveredBelowEdges, HeadTime
<1>5. ASSUME NEW t \in Topics, RecordRelease(t) PROVE DeliveredBelowEdges'
  <2>1. /\ pc = "stamp" /\ pc' = "release" /\ t = TopicOrder[at]
        /\ deliveryEdges' = [deliveryEdges EXCEPT ![t] = Tape[t][popped[t]]]
        /\ UNCHANGED <<edges, popped, at>> /\ popped[t] > 0
    BY <1>5 DEF RecordRelease, TypeInv, LoopShape
  <2>2. /\ deliveryEdges'[t] = Tape[t][popped[t]]
        /\ \A u \in Topics \ {t} : deliveryEdges'[u] = deliveryEdges[u]
    BY <2>1 DEF TypeInv, TypeOK
  <2>3. \A u \in Topics : /\ Stamped(u)' = popped[u]
                          /\ u # t => Stamped(u) = popped[u]
    BY <2>1 DEF Stamped
  <2> QED  BY <1>1, <2>1, <2>2, <2>3 DEF DeliveredBelowEdges
<1>6. CASE Handler \/ Ended \/ UNCHANGED vars
  <2>1. UNCHANGED <<popped, edges, deliveryEdges, pc, at>>
    BY <1>6
    DEF Handler, PutTransport, PutTopic, Meter, MeterBacklog, MeterEdge,
        MeterLag, MeterAnswered, Ended
  <2> QED  BY <2>1 DEF DeliveredBelowEdges, Stamped
<1>7. CASE Finish \/ PausedTick \/ FirstTick \/ PlayingTick \/ EdgesDone
           \/ NextTopic \/ ReleaseDone \/ SinkEvent \/ SinkDone \/ Sleep \/ Stop
  BY <1>2, <1>7
  DEF Finish, PausedTick, FirstTick, PlayingTick, ReadClock, EdgesDone,
      NextTopic, ReleaseDone, SinkEvent, SinkDone, Sleep, Stop, SinkRaises,
      CancelInSink, CancelInSleep, Abandon
<1> QED
  BY <1>3, <1>4, <1>5, <1>6, <1>7 DEF Next, LoopStep, Advance, EdgeLoopStep

LEMMA EligibleStep ==
  ASSUME TypeInv, TypeInv', EdgesBelowFrontier, EligibleUnderCeiling, [Next]_vars
  PROVE  EligibleUnderCeiling'
<1>1. ASSUME UNCHANGED <<popped, edges>>
      PROVE  \A t \in Topics : Eligible(t)' <=> Eligible(t)
  BY <1>1 DEF Eligible, Backlog, HeadTime
<1>2. CASE FirstTick \/ PlayingTick
  <2>1. /\ UNCHANGED <<popped, edges>> /\ pc = "top" /\ pc' = "edges"
    BY <1>2 DEF FirstTick, PlayingTick, ReadClock
  <2> QED  BY <1>1, <2>1, OrderTypes DEF EligibleUnderCeiling
<1>3. ASSUME NEW t \in Topics, EdgeLoopStep(t) PROVE EligibleUnderCeiling'
  <2>1. ~Eligible(t)
    BY <1>3, EdgeLoopFacts DEF EligibleUnderCeiling
  <2>2. ASSUME Eligible(t)' PROVE UnderCeiling(t)'
    <3>1. /\ tickDial'[t] = dials[t] /\ dials[t] # NoTime
          /\ dials[t] \in Dials /\ frontier' = frontier /\ frontier \in Int
          /\ deltaFrontier' = deltaFrontier /\ popped' = popped
      <4>1. tickDial'[t] = dials[t]
        BY <1>3, EdgeLoopFacts DEF TypeInv, TypeOK
      <4> QED  BY <1>3, <4>1, EdgeLoopFacts, NoDialIsNone
    <3>2. edges'[t] # edges[t]
      BY <2>1, <2>2, <3>1 DEF Eligible, Backlog, HeadTime
    <3>3. CASE InitEdge(t)
      <4>1. edges'[t] = frontier - dials[t].lag /\ deltaFrontier = NoTime
        BY <3>3 DEF InitEdge, TypeInv, TypeOK
      <4>2. dials[t].lag \in Nat  BY <3>1, LagsAreNat
      <4> QED  BY <3>1, <4>1, <4>2 DEF UnderCeiling
    <3>4. CASE HoldEdge(t)  BY <3>2, <3>4 DEF HoldEdge
    <3>5. CASE AdvanceEdge(t)
      <4>1. /\ edges'[t] = NextEdge(edges[t], dials[t], deltaFrontier, frontier)
            /\ ~dials[t].mute /\ deltaFrontier # NoTime /\ deltaFrontier \in Nat
        BY <1>3, <3>5, EdgeLoopFacts DEF AdvanceEdge, TypeInv, TypeOK
      <4>2. edges[t] \in Int
        BY <1>3, <3>1, <4>1, EdgeLoopFacts, NoTimeIsNone
        DEF EdgesBelowFrontier, FirstEdges, TimeOrNone
      <4>3. LET stepped == NextEdge(edges[t], dials[t], deltaFrontier, frontier)
            IN  stepped = edges[t] \/ stepped <= frontier - dials[t].lag
        BY <3>1, <4>1, <4>2, NextEdgeBounds
      <4> QED  BY <3>1, <3>2, <4>1, <4>3 DEF UnderCeiling
    <3> QED  BY <1>3, <3>3, <3>4, <3>5 DEF EdgeLoopStep
  <2>3. ASSUME NEW u \in Topics, u # t
        PROVE  /\ Eligible(u)' <=> Eligible(u)
               /\ UnderCeiling(u)' <=> UnderCeiling(u)
    <3>1. /\ edges'[u] = edges[u] /\ tickDial'[u] = tickDial[u]
          /\ UNCHANGED <<popped, frontier, deltaFrontier>>
      <4>1. /\ edges'[u] = edges[u]
            /\ tickDial' = [tickDial EXCEPT ![t] = dials[t]]
            /\ UNCHANGED <<popped, frontier, deltaFrontier>>
        BY <1>3, <2>3, EdgeLoopFacts
      <4>2. tickDial \in [Topics -> Dials \cup {NoTime}]
        BY DEF TypeInv, TypeOK
      <4> QED  BY <2>3, <4>1, <4>2
    <3> QED  BY <3>1 DEF Eligible, Backlog, HeadTime, UnderCeiling
  <2>4. ASSUME NEW i \in 1..Len(TopicOrder), Eligible(TopicOrder[i])'
        PROVE  i < at' /\ UnderCeiling(TopicOrder[i])'
    <3>1. CASE i = at  BY <1>3, <2>2, <2>4, <3>1, EdgeLoopFacts
    <3>2. CASE i # at
      <4>1. TopicOrder[i] # t /\ TopicOrder[i] \in Topics
        BY <1>3, <3>2, EdgeLoopFacts, EveryTopicHasAPlace, OrderTypes
      <4>2. i < at /\ UnderCeiling(TopicOrder[i])
        BY <1>3, <2>3, <2>4, <4>1, EdgeLoopFacts DEF EligibleUnderCeiling
      <4> QED  BY <1>3, <2>3, <4>1, <4>2, EdgeLoopFacts
    <3> QED  BY <3>1, <3>2
  <2> QED  BY <1>3, <2>4, EdgeLoopFacts DEF EligibleUnderCeiling
<1>4. CASE EdgesDone
  <2>1. /\ pc = "edges" /\ pc' = "release" /\ at > Len(TopicOrder) /\ at' = 1
        /\ UNCHANGED <<popped, edges, frontier, tickDial, deltaFrontier>>
    BY <1>4 DEF EdgesDone
  <2>2. \A t \in Topics : Eligible(t) => UnderCeiling(t)
    BY <2>1, EveryTopicHasAPlace DEF EligibleUnderCeiling
  <2>3. \A t \in Topics : Eligible(t)' => UnderCeiling(t)'
    BY <1>1, <2>1, <2>2 DEF UnderCeiling
  <2> QED  BY <2>1, <2>3, OrderTypes DEF EligibleUnderCeiling
<1>5. ASSUME NEW t \in Topics, PopHead(t) PROVE EligibleUnderCeiling'
  <2>1. /\ pc = "release" /\ pc' = "stamp" /\ at \in 1..Len(TopicOrder)
        /\ t = TopicOrder[at] /\ Eligible(t)
        /\ popped' = [popped EXCEPT ![t] = @ + 1]
        /\ UNCHANGED <<edges, frontier, tickDial, deltaFrontier, at>>
    BY <1>5, OrderTypes DEF PopHead, TypeInv, TypeOK
  <2>2. \A u \in Topics : /\ UnderCeiling(u)' <=> UnderCeiling(u)
                          /\ u # t => (Eligible(u)' <=> Eligible(u))
    BY <2>1 DEF UnderCeiling, Eligible, Backlog, HeadTime, TypeInv, TypeOK
  <2>3. \A i \in 1..Len(TopicOrder) : i < at => TopicOrder[i] # t
    BY <2>1, EveryTopicHasAPlace
  <2> QED  BY <2>1, <2>2, <2>3, OrderTypes DEF EligibleUnderCeiling
<1>6. CASE NextTopic
  <2>1. /\ pc = "release" /\ pc' = "release" /\ at \in 1..Len(TopicOrder)
        /\ at' = at + 1 /\ ~Eligible(TopicOrder[at])
        /\ UNCHANGED <<popped, edges, frontier, tickDial, deltaFrontier>>
    BY <1>6, OrderTypes DEF NextTopic, TypeInv, TypeOK
  <2>2. \A t \in Topics : /\ Eligible(t)' <=> Eligible(t)
                          /\ UnderCeiling(t)' <=> UnderCeiling(t)
    BY <1>1, <2>1 DEF UnderCeiling
  <2>3. \A i \in 1..Len(TopicOrder) : i < at + 1 => i < at \/ i = at
    BY <2>1
  <2> QED  BY <2>1, <2>2, <2>3, OrderTypes DEF EligibleUnderCeiling
<1>7. CASE ReleaseDone
  <2>1. /\ pc = "release" /\ pc' = "sink" /\ at > Len(TopicOrder)
        /\ UNCHANGED <<popped, edges>>
    BY <1>7 DEF ReleaseDone
  <2>2. \A i \in 1..Len(TopicOrder) : i < at
    BY <2>1, OrderTypes DEF TypeInv, TypeOK
  <2>3. \A t \in Topics : ~Eligible(t)
    BY <2>1, <2>2, EveryTopicHasAPlace DEF EligibleUnderCeiling
  <2> QED  BY <1>1, <2>1, <2>3 DEF EligibleUnderCeiling
<1>8. CASE /\ UNCHANGED <<popped, edges, frontier, tickDial, deltaFrontier, at>>
           /\ \/ pc' = pc
              \/ pc \in {"release", "stamp"} /\ pc' \in {"release", "stamp"}
  <2>1. \A t \in Topics : /\ Eligible(t)' <=> Eligible(t)
                          /\ UnderCeiling(t)' <=> UnderCeiling(t)
    BY <1>1, <1>8 DEF UnderCeiling
  <2> QED  BY <1>8, <2>1, OrderTypes DEF EligibleUnderCeiling
<1>9. CASE Finish \/ PausedTick \/ SinkEvent \/ SinkDone \/ Sleep \/ Stop
  <2>1. /\ UNCHANGED <<popped, edges>>
        /\ pc \notin {"edges", "release", "stamp"}
        /\ pc' \notin {"edges", "release", "stamp"}
    BY <1>9
    DEF Finish, PausedTick, ReadClock, SinkEvent, SinkDone, Sleep, Stop,
        SinkRaises, CancelInSink, CancelInSleep, Abandon
  <2> QED  BY <1>1, <2>1 DEF EligibleUnderCeiling
<1> QED
  <2>1. ASSUME NEW t \in Topics, RecordRelease(t) PROVE EligibleUnderCeiling'
    BY <1>8, <2>1 DEF RecordRelease
  <2>2. CASE Handler \/ Ended \/ UNCHANGED vars
    BY <1>8, <2>2
    DEF Handler, PutTransport, PutTopic, Meter, MeterBacklog, MeterEdge,
        MeterLag, MeterAnswered, Ended
  <2> QED
    BY <1>2, <1>3, <1>4, <1>5, <1>6, <1>7, <1>9, <2>1, <2>2
    DEF Next, LoopStep, Advance, EdgeLoopStep
-----------------------------------------------------------------------------
(* A delivery edge is the time of an event at or before the last popped    *)
(* one, so it is below the edge, and the edge is below the frontier.       *)
LEMMA DeliveryBelowFrontier ==
  ASSUME TypeInv, EdgesBelowFrontier, DeliveredBelowEdges,
         NEW t \in Topics, deliveryEdges[t] # NoTime
  PROVE  /\ frontier # NoTime /\ edges[t] # NoTime
         /\ deliveryEdges[t] <= edges[t] /\ deliveryEdges[t] <= frontier
<1>1. popped[t] \in Nat /\ popped[t] <= Len(Tape[t])  BY DEF TypeInv, TypeOK
<1>2. Stamped(t) # 0 /\ deliveryEdges[t] = Tape[t][Stamped(t)]
  BY DEF DeliveredBelowEdges
<1>3. /\ Stamped(t) \in 1..popped[t] /\ popped[t] > 0
  <2>1. pc = "stamp" /\ t = TopicOrder[at] => popped[t] > 0
    BY DEF TypeInv, LoopShape
  <2> QED  BY <1>1, <1>2, <2>1 DEF Stamped
<1>4. /\ Stamped(t) \in DOMAIN Tape[t] /\ popped[t] \in DOMAIN Tape[t]
      /\ Stamped(t) <= popped[t]
      /\ Tape[t][Stamped(t)] \in Int /\ Tape[t][popped[t]] \in Int
  <2>1. Stamped(t) \in 1..Len(Tape[t]) /\ popped[t] \in 1..Len(Tape[t])
    BY <1>1, <1>3, TapeTypes
  <2> QED  BY <1>3, <2>1, TapeTypes, TapeAssumption
<1>5. Tape[t][Stamped(t)] <= Tape[t][popped[t]]
  BY <1>4, TapeAssumption
<1>6. edges[t] # NoTime /\ Tape[t][popped[t]] <= edges[t]
  BY <1>3 DEF DeliveredBelowEdges
<1>7. frontier # NoTime /\ edges[t] <= frontier
  BY <1>6 DEF EdgesBelowFrontier
<1>8. edges[t] \in Int /\ frontier \in Int
  BY <1>6, <1>7 DEF TypeInv, TypeOK, TimeOrNone
<1> QED  BY <1>2, <1>4, <1>5, <1>6, <1>7, <1>8

LEMMA FrontierNeverRetreats ==
  ASSUME TypeInv, TypeInv', EdgesBelowFrontier, [Next]_vars, frontier # NoTime
  PROVE  frontier' # NoTime /\ frontier <= frontier'
<1>1. frontier \in Int  BY DEF TypeInv, TypeOK, TimeOrNone
<1>2. CASE PlayingTick
  <2>1. FrontierStep(transport.speed, elapsed) \in Nat
    BY FrontierStepType DEF TypeInv, TypeOK, Transport
  <2>2. /\ frontier' = Least(frontier + FrontierStep(transport.speed, elapsed),
                             Horizon)
        /\ frontier <= Horizon
    BY <1>2 DEF PlayingTick, EdgesBelowFrontier
  <2> QED  BY <1>1, <2>1, <2>2, NoTimeIsNone DEF Least
<1>3. CASE UNCHANGED frontier  BY <1>1, <1>3
<1> QED
  <2>1. CASE LoopStep
    BY <1>2, <1>3, <2>1
    DEF LoopStep, Advance, Finish, PausedTick, ReadClock, FirstTick, InitEdge,
        HoldEdge, AdvanceEdge, InEdgeLoop, EdgesDone, PopHead, RecordRelease,
        NextTopic, ReleaseDone, SinkEvent, SinkDone, Sleep
  <2>2. CASE Stop \/ Handler \/ Ended \/ UNCHANGED vars
    BY <1>3, <2>2
    DEF Stop, SinkRaises, CancelInSink, CancelInSleep, Abandon, Handler,
        PutTransport, PutTopic, Meter, MeterBacklog, MeterEdge, MeterLag,
        MeterAnswered, Ended
  <2> QED  BY <2>1, <2>2 DEF Next

LEMMA MeterStep ==
  ASSUME TypeInv, TypeInv', EdgesBelowFrontier, EdgesBelowFrontier',
         DeliveredBelowEdges, MeterBehindFrontier, [Next]_vars
  PROVE  MeterBehindFrontier'
<1>1. CASE UNCHANGED poll
  <2>1. frontier # NoTime =>
          /\ frontier' # NoTime /\ frontier \in Int /\ frontier' \in Int
          /\ frontier <= frontier'
    BY FrontierNeverRetreats DEF TypeInv, TypeOK, TimeOrNone
  <2>2. poll.edge \in TimeOrNone  BY DEF TypeInv, TypeOK, Poll
  <2> QED  BY <1>1, <2>1, <2>2 DEF MeterBehindFrontier, TimeOrNone
<1>2. CASE MeterEdge
  <2> DEFINE t == poll.topic
  <2>1. /\ t \in Topics /\ poll'.phase = "edge" /\ poll'.edge = deliveryEdges[t]
        /\ frontier' = frontier
    BY <1>2 DEF MeterEdge, TypeInv, TypeOK, LoopShape, Poll
  <2>2. ASSUME deliveryEdges[t] # NoTime
        PROVE  frontier # NoTime /\ deliveryEdges[t] <= frontier
    BY <2>1, <2>2, DeliveryBelowFrontier
  <2> QED  BY <2>1, <2>2 DEF MeterBehindFrontier
<1>3. CASE MeterLag
  <2>1. /\ poll'.phase = "answered" /\ poll.phase = "edge"
        /\ poll'.lag = DeliveryLag(frontier, poll.edge)
    BY <1>3 DEF MeterLag, TypeInv, TypeOK, Poll
  <2>2. poll.edge \in TimeOrNone /\ frontier \in TimeOrNone
    BY DEF TypeInv, TypeOK, Poll
  <2>3. poll'.lag # NoTime => poll'.lag >= 0
    BY <2>1, <2>2 DEF DeliveryLag, MeterBehindFrontier, TimeOrNone
  <2> QED  BY <2>1, <2>3 DEF MeterBehindFrontier
<1>4. CASE MeterAnswered \/ \E t \in PolledTopics : MeterBacklog(t)
  <2>1. poll'.phase \in {"idle", "backlog"}
    <3>1. CASE MeterAnswered  BY <3>1 DEF MeterAnswered, NoPoll
    <3>2. ASSUME NEW t \in PolledTopics, MeterBacklog(t)
          PROVE  poll'.phase = "backlog"
      BY <3>2 DEF MeterBacklog, NoPoll
    <3> QED  BY <1>4, <3>1, <3>2
  <2> QED  BY <2>1 DEF MeterBehindFrontier
<1> QED
  <2>1. CASE LoopStep
    BY <1>1, <2>1
    DEF LoopStep, Advance, Finish, PausedTick, FirstTick, PlayingTick, InitEdge,
        HoldEdge, AdvanceEdge, InEdgeLoop, EdgesDone, PopHead, RecordRelease,
        NextTopic, ReleaseDone, SinkEvent, SinkDone, Sleep
  <2>2. CASE Stop \/ Ended \/ UNCHANGED vars
    BY <1>1, <2>2
    DEF Stop, SinkRaises, CancelInSink, CancelInSleep, Abandon, Ended
  <2>3. CASE Handler
    BY <1>1, <1>2, <1>3, <1>4, <2>3 DEF Handler, PutTransport, PutTopic, Meter
  <2> QED  BY <2>1, <2>2, <2>3 DEF Next

LEMMA ClockStep == ASSUME TypeInv, ClockInStep, [Next]_vars PROVE ClockInStep'
<1>1. CASE Finish \/ Advance \/ SinkDone
  BY <1>1
  DEF ClockInStep, Finish, Advance, PausedTick, FirstTick, PlayingTick,
      ReadClock, InitEdge, HoldEdge, AdvanceEdge, InEdgeLoop, EdgesDone,
      PopHead, RecordRelease, NextTopic, ReleaseDone, SinkDone
<1>2. CASE SinkEvent \/ Sleep
  BY <1>2 DEF ClockInStep, SinkEvent, Sleep, Pass
<1>3. CASE Stop \/ Handler \/ Ended \/ UNCHANGED vars
  BY <1>3
  DEF ClockInStep, Stop, SinkRaises, CancelInSink, CancelInSleep, Abandon,
      Handler, PutTransport, PutTopic, Meter, MeterBacklog, MeterEdge,
      MeterLag, MeterAnswered, Ended
<1> QED  BY <1>1, <1>2, <1>3 DEF Next, LoopStep

LEMMA TimingInit == Init => Timing
  BY OrderTypes
  DEF Init, Timing, EdgesBelowFrontier, FirstEdges, DeliveredBelowEdges,
      Stamped, EligibleUnderCeiling, Eligible, MeterBehindFrontier, NoPoll,
      ClockInStep

LEMMA TimingAlways == Spec => [](TypeInv /\ Timing)
<1>1. Init => TypeInv /\ Timing  BY TypeInit, TimingInit
<1>2. TypeInv /\ Timing /\ [Next]_vars => (TypeInv /\ Timing)'
  <2> SUFFICES ASSUME TypeInv, Timing, [Next]_vars PROVE (TypeInv /\ Timing)'
    OBVIOUS
  <2>1. TypeInv'  BY TypeStep
  <2>2. EdgesBelowFrontier'  BY <2>1, EdgesStep DEF Timing
  <2>3. DeliveredBelowEdges'  BY <2>1, <2>2, DeliveredStep DEF Timing
  <2>4. EligibleUnderCeiling'  BY <2>1, EligibleStep DEF Timing
  <2>5. MeterBehindFrontier'  BY <2>1, <2>2, MeterStep DEF Timing
  <2>6. ClockInStep'  BY ClockStep DEF Timing
  <2> QED  BY <2>1, <2>2, <2>3, <2>4, <2>5, <2>6 DEF Timing
<1> QED  BY <1>1, <1>2, PTL DEF Spec
-----------------------------------------------------------------------------
(* Only popleft takes an event from a buffer.                              *)
LEMMA OnlyPopHeadPops ==
  ASSUME TypeInv, [Next]_vars, NEW t \in Topics, popped'[t] # popped[t]
  PROVE  PopHead(t)
<1>1. ASSUME NEW u \in Topics, PopHead(u) PROVE PopHead(t)
  <2>1. u = t  BY <1>1 DEF PopHead, TypeInv, TypeOK
  <2> QED  BY <1>1, <2>1
<1>2. CASE Finish \/ PausedTick \/ FirstTick \/ PlayingTick \/ EdgesDone
           \/ NextTopic \/ ReleaseDone \/ SinkEvent \/ SinkDone \/ Sleep \/ Stop
  BY <1>2
  DEF Finish, PausedTick, FirstTick, PlayingTick, EdgesDone, NextTopic,
      ReleaseDone, SinkEvent, SinkDone, Sleep, Stop, SinkRaises, CancelInSink,
      CancelInSleep, Abandon
<1>3. ASSUME NEW u \in Topics, EdgeLoopStep(u) \/ RecordRelease(u) PROVE FALSE
  BY <1>3, EdgeLoopFacts DEF RecordRelease
<1>4. CASE Handler \/ Ended \/ UNCHANGED vars
  BY <1>4
  DEF Handler, PutTransport, PutTopic, Meter, MeterBacklog, MeterEdge,
      MeterLag, MeterAnswered, Ended
<1> QED  BY <1>1, <1>2, <1>3, <1>4 DEF Next, LoopStep, Advance, EdgeLoopStep

(* No released event is ahead of frontier - lag as its tick read the lag,  *)
(* and none belongs to a stream its tick read muted, but on the first tick.*)
THEOREM StreamsNeverLead == Spec => NoStreamLeadsFrontier
<1>1. TypeInv /\ Timing /\ [Next]_vars =>
        [\A t \in Topics : popped'[t] # popped[t] =>
           /\ tickDial[t] # NoTime
           /\ tickDial[t].mute => deltaFrontier = NoTime
           /\ HeadTime(t) <= frontier - tickDial[t].lag]_vars
  <2> SUFFICES ASSUME TypeInv, Timing, [Next]_vars, NEW t \in Topics,
                      popped'[t] # popped[t]
               PROVE  /\ tickDial[t] # NoTime
                      /\ tickDial[t].mute => deltaFrontier = NoTime
                      /\ HeadTime(t) <= frontier - tickDial[t].lag
    OBVIOUS
  <2>1. pc = "release" /\ Eligible(t)  BY OnlyPopHeadPops DEF PopHead
  <2>2. UnderCeiling(t)  BY <2>1 DEF Timing, EligibleUnderCeiling
  <2>3. HeadTime(t) \in Int
    <3>1. popped[t] + 1 \in 1..Len(Tape[t])
      BY <2>1, TapeTypes DEF Eligible, Backlog, TypeInv, TypeOK
    <3> QED  BY <3>1, TapeTypes DEF HeadTime
  <2>4. edges[t] \in Int /\ frontier \in Int
    BY <2>1 DEF Eligible, TypeInv, TypeOK, LoopShape, TimeOrNone
  <2>5. tickDial[t].lag \in Int
    <3>1. tickDial[t] \in Dials  BY <2>2 DEF UnderCeiling, TypeInv, TypeOK
    <3> QED  BY <3>1, LagsAreNat
  <2> QED  BY <2>1, <2>2, <2>3, <2>4, <2>5 DEF UnderCeiling, Eligible
<1> QED  BY <1>1, TimingAlways, PTL DEF Spec, NoStreamLeadsFrontier

(* What a tick may release it releases, and a held edge keeps back every   *)
(* later event until the edge moves.                                       *)
THEOREM TicksReleaseAll == Spec => []NothingEligibleLeft
<1>1. TypeInv /\ Timing => NothingEligibleLeft
  BY DEF Timing, EligibleUnderCeiling, NothingEligibleLeft
<1> QED  BY <1>1, TimingAlways, PTL

(* A meter never shows a negative delivery lag.                            *)
THEOREM MeterLagIsNatural == Spec => []MeterLagNotNegative
<1>1. TypeInv /\ Timing => MeterLagNotNegative
  BY DEF Timing, MeterBehindFrontier, MeterLagNotNegative
<1> QED  BY <1>1, TimingAlways, PTL

(* No edit, pause or slow tick moves the frontier, an edge or a delivery   *)
(* edge back.                                                              *)
THEOREM PositionsAreMonotone == Spec => PositionsNeverRetreat
<1>1. ASSUME TypeInv, TypeInv', Timing, Timing', [Next]_vars, NEW t \in Topics,
             edges[t] # NoTime
      PROVE  edges'[t] # NoTime /\ edges[t] <= edges'[t]
  <2>1. edges[t] \in Int  BY <1>1 DEF TypeInv, TypeOK, TimeOrNone
  <2>2. ASSUME NEW u \in Topics, EdgeLoopStep(u)
        PROVE  edges'[t] # NoTime /\ edges[t] <= edges'[t]
    <3>1. CASE u # t  BY <1>1, <2>1, <2>2, <3>1, EdgeLoopFacts
    <3>2. CASE u = t /\ InitEdge(u)
      <4>1. FirstEdges /\ ~(at < at)
        BY <1>1, <2>2, <3>2, EdgeLoopFacts DEF FirstEdges, InitEdge
      <4> QED  BY <1>1, <2>2, <3>2, <4>1, EdgeLoopFacts DEF Timing, EdgesBelowFrontier
    <3>3. CASE u = t /\ HoldEdge(u)  BY <1>1, <2>1, <3>3 DEF HoldEdge
    <3>4. CASE u = t /\ AdvanceEdge(u)
      <4>1. /\ edges'[t] = NextEdge(edges[t], dials[t], deltaFrontier, frontier)
            /\ deltaFrontier \in Nat
        BY <1>1, <2>2, <3>4, EdgeLoopFacts DEF AdvanceEdge, TypeInv, TypeOK
      <4>2. frontier \in Int /\ dials[t] \in Dials
        BY <1>1, <2>2, <3>4, EdgeLoopFacts
      <4>3. LET stepped == NextEdge(edges[t], dials[t], deltaFrontier, frontier)
            IN  stepped \in Int /\ stepped >= edges[t]
        BY <2>1, <4>1, <4>2, NextEdgeBounds
      <4> QED  BY <2>1, <4>1, <4>3, NoTimeIsNone
    <3> QED  BY <2>2, <3>1, <3>2, <3>3, <3>4 DEF EdgeLoopStep
  <2>3. CASE UNCHANGED edges  BY <1>1, <2>1, <2>3
  <2>4. CASE Finish \/ PausedTick \/ FirstTick \/ PlayingTick \/ EdgesDone
             \/ NextTopic \/ ReleaseDone \/ SinkEvent \/ SinkDone \/ Sleep
             \/ Stop
    BY <2>3, <2>4
    DEF Finish, PausedTick, FirstTick, PlayingTick, EdgesDone, NextTopic,
        ReleaseDone, SinkEvent, SinkDone, Sleep, Stop, SinkRaises,
        CancelInSink, CancelInSleep, Abandon
  <2>5. ASSUME NEW u \in Topics, PopHead(u) \/ RecordRelease(u)
        PROVE  edges'[t] # NoTime /\ edges[t] <= edges'[t]
    BY <2>3, <2>5 DEF PopHead, RecordRelease
  <2>6. CASE Handler \/ Ended \/ UNCHANGED vars
    BY <2>3, <2>6
    DEF Handler, PutTransport, PutTopic, Meter, MeterBacklog, MeterEdge,
        MeterLag, MeterAnswered, Ended
  <2> QED  BY <1>1, <2>2, <2>4, <2>5, <2>6 DEF Next, LoopStep, Advance, EdgeLoopStep
<1>2. ASSUME TypeInv, TypeInv', Timing, Timing', [Next]_vars, NEW t \in Topics,
             deliveryEdges[t] # NoTime
      PROVE  deliveryEdges'[t] # NoTime /\ deliveryEdges[t] <= deliveryEdges'[t]
  <2>1. deliveryEdges[t] \in Int  BY <1>2 DEF TypeInv, TypeOK, TimeOrNone
  <2>2. /\ Stamped(t) # 0 /\ deliveryEdges[t] = Tape[t][Stamped(t)]
        /\ popped[t] \in Nat /\ popped[t] <= Len(Tape[t])
    BY <1>2 DEF Timing, DeliveredBelowEdges, TypeInv, TypeOK
  <2>3. ASSUME NEW u \in Topics, RecordRelease(u)
        PROVE  deliveryEdges'[t] # NoTime /\ deliveryEdges[t] <= deliveryEdges'[t]
    <3>1. /\ pc = "stamp" /\ u = TopicOrder[at] /\ popped[u] > 0
          /\ deliveryEdges' = [deliveryEdges EXCEPT ![u] = Tape[u][popped[u]]]
      BY <1>2, <2>3 DEF RecordRelease, TypeInv, LoopShape
    <3>2. CASE u # t
      <4>1. deliveryEdges \in [Topics -> TimeOrNone]
        BY <1>2 DEF TypeInv, TypeOK
      <4>2. deliveryEdges'[t] = deliveryEdges[t]  BY <3>1, <3>2, <4>1
      <4> QED  BY <1>2, <2>1, <4>2
    <3>3. CASE u = t
      <4>1. deliveryEdges'[t] = Tape[t][popped[t]]
        BY <1>2, <3>1, <3>3 DEF TypeInv, TypeOK
      <4>2. Stamped(t) = popped[t] - 1 /\ popped[t] - 1 > 0
        BY <2>2, <3>1, <3>3 DEF Stamped
      <4>3. popped[t] \in 1..Len(Tape[t]) /\ popped[t] - 1 \in 1..Len(Tape[t])
        BY <2>2, <4>2, TapeTypes
      <4>4. Tape[t][popped[t] - 1] <= Tape[t][popped[t]]
        <5>1. popped[t] \in DOMAIN Tape[t] /\ popped[t] - 1 \in DOMAIN Tape[t]
              /\ popped[t] - 1 <= popped[t]
          BY <4>3, TapeAssumption
        <5> QED  BY <5>1, TapeAssumption
      <4>5. Tape[t][popped[t]] \in Int  BY <4>3, TapeTypes
      <4> QED  BY <2>2, <4>1, <4>2, <4>4, <4>5, NoTimeIsNone
    <3> QED  BY <3>2, <3>3
  <2>4. CASE UNCHANGED deliveryEdges  BY <1>2, <2>1, <2>4
  <2>5. CASE Finish \/ PausedTick \/ FirstTick \/ PlayingTick \/ EdgesDone
             \/ NextTopic \/ ReleaseDone \/ SinkEvent \/ SinkDone \/ Sleep
             \/ Stop
    BY <2>4, <2>5
    DEF Finish, PausedTick, FirstTick, PlayingTick, EdgesDone, NextTopic,
        ReleaseDone, SinkEvent, SinkDone, Sleep, Stop, SinkRaises,
        CancelInSink, CancelInSleep, Abandon
  <2>6. ASSUME NEW u \in Topics, EdgeLoopStep(u) \/ PopHead(u)
        PROVE  deliveryEdges'[t] # NoTime /\ deliveryEdges[t] <= deliveryEdges'[t]
    BY <1>2, <2>4, <2>6, EdgeLoopFacts DEF PopHead
  <2>7. CASE Handler \/ Ended \/ UNCHANGED vars
    BY <2>4, <2>7
    DEF Handler, PutTransport, PutTopic, Meter, MeterBacklog, MeterEdge,
        MeterLag, MeterAnswered, Ended
  <2> QED  BY <1>2, <2>3, <2>5, <2>6, <2>7 DEF Next, LoopStep, Advance, EdgeLoopStep
<1>3. TypeInv /\ Timing /\ TypeInv' /\ Timing' /\ [Next]_vars =>
        [/\ frontier # NoTime => frontier' # NoTime /\ frontier <= frontier'
         /\ \A t \in Topics :
              /\ edges[t] # NoTime => edges'[t] # NoTime /\ edges[t] <= edges'[t]
              /\ deliveryEdges[t] # NoTime =>
                   deliveryEdges'[t] # NoTime
                     /\ deliveryEdges[t] <= deliveryEdges'[t]]_vars
  BY <1>1, <1>2, FrontierNeverRetreats DEF Timing
<1> QED  BY <1>3, TimingAlways, PTL DEF Spec, PositionsNeverRetreat

(* What int() makes of a product never exceeds it.                         *)
LEMMA DivBelow ==
  ASSUME NEW n \in Nat, NEW d \in Nat \ {0}, NEW k \in Int, k <= n \div d
  PROVE  k * d <= n
  <1>1. n \div d \in Nat  BY DivNat
  <1>2. (n \div d) * d <= n  OBVIOUS
  <1>3. k * d <= (n \div d) * d  BY <1>1
  <1> QED  BY <1>1, <1>2, <1>3

(* The real time of a pause never reaches the frontier.                    *)
THEOREM PausesAreDiscarded == Spec => PauseNotBanked
<1>1. ASSUME TypeInv, Timing, [Next]_vars, frontier # NoTime,
             frontier' # frontier
      PROVE  (frontier' - frontier) * SpeedUnit <= transport.speed * sinceTick
  <2>1. CASE PlayingTick
    <3> DEFINE step == FrontierStep(transport.speed, elapsed)
    <3>1. /\ frontier \in Int /\ elapsed \in Nat /\ elapsed = sinceTick
          /\ transport.speed \in Speeds
      BY <1>1 DEF TypeInv, TypeOK, TimeOrNone, Transport, Timing, ClockInStep
    <3>2. step \in Nat  BY <3>1, FrontierStepType
    <3>3. frontier' = Least(frontier + step, Horizon)
      BY <2>1 DEF PlayingTick
    <3>4. frontier' - frontier \in Int /\ frontier' - frontier <= step
      BY <3>1, <3>2, <3>3, NoTimeIsNone DEF Least
    <3>5. transport.speed * elapsed \in Nat /\ SpeedUnit \in Nat \ {0}
      BY <3>1, MulNat, DialAssumption
    <3> HIDE DEF step
    <3>6. step = (transport.speed * elapsed) \div SpeedUnit
      BY DEF step, FrontierStep
    <3> QED  BY <3>1, <3>4, <3>5, <3>6, DivBelow
  <2>2. CASE LoopStep /\ ~PlayingTick
    BY <1>1, <2>2
    DEF LoopStep, Advance, Finish, PausedTick, ReadClock, FirstTick, InitEdge,
        HoldEdge, AdvanceEdge, InEdgeLoop, EdgesDone, PopHead, RecordRelease,
        NextTopic, ReleaseDone, SinkEvent, SinkDone, Sleep
  <2>3. CASE Stop \/ Handler \/ Ended \/ UNCHANGED vars
    BY <1>1, <2>3
    DEF Stop, SinkRaises, CancelInSink, CancelInSleep, Abandon, Handler,
        PutTransport, PutTopic, Meter, MeterBacklog, MeterEdge, MeterLag,
        MeterAnswered, Ended
  <2> QED  BY <1>1, <2>1, <2>2, <2>3 DEF Next
<1>2. TypeInv /\ Timing /\ [Next]_vars =>
        [frontier # NoTime /\ frontier' # frontier =>
           (frontier' - frontier) * SpeedUnit <= transport.speed * sinceTick]_vars
  BY <1>1
<1> QED  BY <1>2, TimingAlways, PTL DEF Spec, PauseNotBanked

-----------------------------------------------------------------------------
(***************************************************************************)
(* Order, completeness and an honest end of a mixer run, for every feed,   *)
(* every queue limit and every set of faults.                              *)
(*                                                                         *)
(* OrderKept speaks of the broker's log alone and is not inductive: that   *)
(* the next event the broker takes comes after all of its topic depends on *)
(* the order of the client's queue, and that on the one job a cancelled    *)
(* await may have left in the executor.                                    *)
(***************************************************************************)

\* At most the job of the event at hand is in the executor, none between two
\* deliveries, and no delivery before the lifespan has started the release task.
JobAtHand ==
    /\ \A j \in jobs : j.ev = next /\ next <= Len(Feed)
    /\ \A j, k \in jobs : j = k
    /\ release \notin {"awaiting", "cancelled"} => jobs = {}
    /\ phase \in {"start", "source"} => release = "none"

\* The events the client library has been given, wherever they have got to.
Refused == {r.ev : r \in {r \in reports : ~r.ok}}
Handed  == RangeOf(queue) \cup RangeOf(log) \cup errors \cup Refused

\* The event at hand has not been handed to the client.
AtHand == \/ release \in {"none", "sleeping"}
          \/ \E j \in jobs : j.step \in {"queued", "full"}

\* Everything before the event at hand has been handed over, nothing after it.
EventsAccounted ==
    /\ 1..(next - 1) \subseteq Handed
    /\ Handed \subseteq 1..next
    /\ AtHand => next \notin Handed
    /\ \A j \in jobs : j.step \in {"produced", "polled"} => next \in Handed

\* The queue is in release order and behind the log, topic by topic.
QueueInOrder ==
    /\ \A i, j \in DOMAIN queue : i < j => queue[i] < queue[j]
    /\ \A i \in DOMAIN log, j \in DOMAIN queue :
          Feed[log[i]] = Feed[queue[j]] => log[i] < queue[j]

OrderInv == DeliveryTypeOK /\ JobAtHand /\ EventsAccounted /\ QueueInOrder /\ InOrder

\* What has been opened and closed where, and that only the end raises.
ClientsInStep ==
    /\ phase = "start" => sink = "none" /\ source = "none"
    /\ phase = "source" => source = "none"
    /\ phase \in {"closeSource", "served"} => sink = "closed"
    /\ phase \in {"served", "over"} => source # "open"
    /\ phase = "over" => sink # "open"

EndInv == DeliveryTypeOK /\ ClientsInStep /\ TaskFailureIsExit

-----------------------------------------------------------------------------
(* Sequences and the type invariant.                                       *)

LEMMA RemoveAtFacts ==
    ASSUME NEW S, NEW s \in Seq(S), NEW i \in 1..Len(s)
    PROVE  /\ RemoveAt(s, i) \in Seq(S)
           /\ Len(RemoveAt(s, i)) = Len(s) - 1
           /\ \A k \in 1..(Len(s) - 1) :
                 RemoveAt(s, i)[k] = IF k < i THEN s[k] ELSE s[k + 1]
<1> DEFINE before == SubSeq(s, 1, i - 1)
           after  == SubSeq(s, i + 1, Len(s))
<1>0. Len(s) \in Nat /\ i \in Nat /\ \A k \in 1..Len(s) : s[k] \in S
  BY LenProperties, ElementOfSeq
<1>1. /\ before \in Seq(S) /\ Len(before) = i - 1
      /\ \A k \in 1..(i - 1) : before[k] = s[k]
  BY <1>0, SubSeqProperties
<1>2. /\ after \in Seq(S) /\ Len(after) = Len(s) - i
      /\ \A k \in 1..(Len(s) - i) : after[k] = s[k + i]
  BY <1>0, SubSeqProperties
<1> HIDE DEF before, after
<1>3. RemoveAt(s, i) = before \o after
  BY DEF RemoveAt, before, after
<1>4. /\ before \o after \in Seq(S)
      /\ Len(before \o after) = Len(before) + Len(after)
      /\ \A k \in 1..(Len(before) + Len(after)) :
            (before \o after)[k] = IF k <= Len(before) THEN before[k] ELSE after[k - Len(before)]
  BY <1>1, <1>2, ConcatProperties
<1>5. ASSUME NEW k \in 1..(Len(s) - 1)
      PROVE  (before \o after)[k] = IF k < i THEN s[k] ELSE s[k + 1]
  <2>1. CASE k < i
    BY <1>0, <1>1, <1>2, <1>4, <2>1
  <2>2. CASE ~(k < i)
    <3>1. (before \o after)[k] = after[k - (i - 1)]
      BY <1>0, <1>1, <1>2, <1>4, <2>2
    <3>2. k - (i - 1) \in 1..(Len(s) - i) /\ (k - (i - 1)) + i = k + 1
      BY <1>0, <2>2
    <3> QED
      BY <1>2, <2>2, <3>1, <3>2
  <2> QED
    BY <2>1, <2>2
<1> QED
  BY <1>0, <1>1, <1>2, <1>3, <1>4, <1>5

LEMMA RangeOfFacts ==
    ASSUME NEW S, NEW s \in Seq(S)
    PROVE  /\ \A x \in S : RangeOf(Append(s, x)) = RangeOf(s) \cup {x}
           /\ \A i \in 1..Len(s) :
                 RangeOf(s) = RangeOf(RemoveAt(s, i)) \cup {s[i]}
<1>1. ASSUME NEW x \in S PROVE RangeOf(Append(s, x)) = RangeOf(s) \cup {x}
  BY AppendProperties, LenProperties DEF RangeOf
<1>2. ASSUME NEW i \in 1..Len(s)
      PROVE  RangeOf(s) = RangeOf(RemoveAt(s, i)) \cup {s[i]}
  <2> DEFINE r == RemoveAt(s, i)
  <2>1. /\ DOMAIN s = 1..Len(s) /\ DOMAIN r = 1..(Len(s) - 1) /\ Len(s) \in Nat /\ i \in Nat
        /\ \A k \in 1..(Len(s) - 1) : r[k] = IF k < i THEN s[k] ELSE s[k + 1]
    <3>1. /\ Len(r) = Len(s) - 1 /\ r \in Seq(S)
          /\ \A k \in 1..(Len(s) - 1) : r[k] = IF k < i THEN s[k] ELSE s[k + 1]
      BY RemoveAtFacts
    <3> HIDE DEF r
    <3> QED
      BY <3>1, LenProperties
  <2> HIDE DEF r
  <2>2. ASSUME NEW k \in 1..Len(s), k # i PROVE s[k] \in RangeOf(r)
    <3>1. CASE k < i
      BY <2>1, <3>1 DEF RangeOf
    <3>2. CASE k > i
      <4>1. k - 1 \in 1..(Len(s) - 1) /\ r[k - 1] = s[k]
        BY <2>1, <3>2
      <4> QED
        BY <2>1, <4>1 DEF RangeOf
    <3> QED
      BY <2>1, <2>2, <3>1, <3>2
  <2>3. ASSUME NEW k \in 1..(Len(s) - 1) PROVE r[k] \in RangeOf(s)
    <3>1. k \in 1..Len(s) /\ k + 1 \in 1..Len(s)
      BY <2>1
    <3> QED
      BY <2>1, <3>1 DEF RangeOf
  <2>4. RangeOf(r) \subseteq RangeOf(s)
    BY <2>1, <2>3 DEF RangeOf
  <2> QED
    BY <2>1, <2>2, <2>4 DEF RangeOf, r
<1> QED
  BY <1>1, <1>2

LEMMA InitTypeOK == DeliveryInit => DeliveryTypeOK
<1>1. Len(Feed) \in Nat
  BY DeliveryAssumption, LenProperties
<1>2. 1 \in 1..(Len(Feed) + 1)
  BY <1>1
<1>3. {} \in SUBSET Job /\ {} \in SUBSET Reports /\ {} \in SUBSET Events
  OBVIOUS
<1>4. << >> \in Seq(Events) /\ << >> \in Seq(Failures)
  BY EmptySeq
<1> QED
  BY <1>2, <1>3, <1>4 DEF DeliveryInit, DeliveryTypeOK

\* A job that advances stays a job.
LEMMA AdvancedType ==
    ASSUME jobs \in SUBSET Job, NEW j \in jobs, NEW to \in {"produced", "full", "polled"},
           Advanced(j, to)
    PROVE  jobs' \in SUBSET Job
BY DEF Advanced, Job

\* Reports that are called back become errors.
LEMMA CallBackType ==
    ASSUME DeliveryTypeOK, NEW called \in SUBSET reports, CallBack(called)
    PROVE  reports' \in SUBSET Reports /\ errors' \in SUBSET Events
BY DEF CallBack, DeliveryTypeOK, Reports

LEMMA StepTypeOK == DeliveryTypeOK /\ [DeliveryNext]_deliveryVars => DeliveryTypeOK'
<1> SUFFICES ASSUME DeliveryTypeOK, [DeliveryNext]_deliveryVars PROVE DeliveryTypeOK'
  OBVIOUS
<1>f. Len(Feed) \in Nat
  BY DeliveryAssumption, LenProperties
<1>s. \A exc \in Failures : Append(stored, exc) \in Seq(Failures)
  BY DEF DeliveryTypeOK
<1>1. CASE OpenSink \/ OpenSource
  BY <1>1 DEF OpenSink, OpenSource, DeliveryTypeOK, client
<1>2. CASE Deliver
  <2>1. next \in Events
    BY <1>2, <1>f DEF Deliver, DeliveryTypeOK, Events
  <2>2. [ev |-> next, step |-> "queued"] \in Job
    BY <2>1 DEF Job
  <2>3. /\ jobs' \in {jobs, jobs \cup {[ev |-> next, step |-> "queued"]}}
        /\ stored' \in {stored, Append(stored, "delivery")}
        /\ shouldExit' \in {TRUE, shouldExit} /\ release' \in {"failed", "awaiting"}
        /\ UNCHANGED <<next, consumer, client, phase, raised, sink, source>>
    BY <1>2 DEF Deliver, TaskFails
  <2>4. jobs' \in SUBSET Job
    BY <2>2, <2>3 DEF DeliveryTypeOK
  <2>5. stored' \in Seq(Failures)
    BY <1>s, <2>3 DEF DeliveryTypeOK, Failures
  <2>6. shouldExit' \in BOOLEAN
    BY <2>3 DEF DeliveryTypeOK
  <2> QED
    BY <2>3, <2>4, <2>5, <2>6 DEF DeliveryTypeOK, client
<1>3. CASE Delivered
  <2>1. next \in Events
    BY <1>3 DEF Delivered, DeliveryTypeOK, Job
  <2>2. next + 1 \in 1..(Len(Feed) + 1)
    BY <1>f, <2>1 DEF Events
  <2>3. /\ jobs' \subseteq jobs /\ next' \in {next, next + 1}
        /\ stored' \in {stored, Append(stored, "buffer"), Append(stored, "delivery")}
        /\ release' \in {"failed", "sleeping"}
        /\ UNCHANGED <<consumer, client, phase, raised, sink, source>>
    BY <1>3 DEF Delivered, TaskFails
  <2>4. next' \in 1..(Len(Feed) + 1)
    BY <2>2, <2>3 DEF DeliveryTypeOK
  <2>5. stored' \in Seq(Failures)
    BY <1>s, <2>3 DEF DeliveryTypeOK, Failures
  <2>6. jobs' \in SUBSET Job
    BY <2>3 DEF DeliveryTypeOK
  <2>7. shouldExit' \in BOOLEAN
    BY <1>3 DEF Delivered, TaskFails, DeliveryTypeOK
  <2> QED
    BY <2>3, <2>4, <2>5, <2>6, <2>7 DEF DeliveryTypeOK, client
<1>4. CASE Drain
  BY <1>4 DEF Drain, DeliveryTypeOK, client, server
<1>5. ASSUME NEW j \in jobs, JobProduce(j) PROVE DeliveryTypeOK'
  <2>1. jobs' \in SUBSET Job
    BY <1>5, AdvancedType DEF JobProduce, DeliveryTypeOK
  <2>2. j.ev \in Events
    BY DEF DeliveryTypeOK, Job
  <2>3. Append(queue, j.ev) \in Seq(Events)
    BY <2>2 DEF DeliveryTypeOK
  <2>4. queue' \in Seq(Events)
    BY <1>5, <2>3 DEF JobProduce, DeliveryTypeOK
  <2> QED
    BY <1>5, <2>1, <2>4 DEF JobProduce, DeliveryTypeOK, tasks, server
<1>6. ASSUME NEW j \in jobs, JobPoll(j) PROVE DeliveryTypeOK'
  <2>1. jobs' \in SUBSET Job
    BY <1>6, AdvancedType DEF JobPoll, DeliveryTypeOK
  <2>2. reports' \in SUBSET Reports /\ errors' \in SUBSET Events
    BY <1>6, CallBackType DEF JobPoll
  <2> QED
    BY <1>6, <2>1, <2>2 DEF JobPoll, DeliveryTypeOK, tasks, server
<1>7. ASSUME NEW j \in jobs, JobForgotten(j) PROVE DeliveryTypeOK'
  BY <1>7 DEF JobForgotten, DeliveryTypeOK, client, tasks, server
<1>8. ASSUME NEW i \in DOMAIN queue, BrokerTakes(i) \/ BrokerRefuses(i) PROVE DeliveryTypeOK'
  <2>1. i \in 1..Len(queue) /\ queue[i] \in Events
    BY DEF DeliveryTypeOK
  <2>2. RemoveAt(queue, i) \in Seq(Events) /\ Append(log, queue[i]) \in Seq(Events)
    BY <2>1, RemoveAtFacts DEF DeliveryTypeOK
  <2>3. \A ok \in BOOLEAN : [ev |-> queue[i], ok |-> ok] \in Reports
    BY <2>1 DEF Reports
  <2> QED
    BY ZenonT(40), <1>8, <2>2, <2>3 DEF BrokerTakes, BrokerRefuses, DeliveryTypeOK, tasks, server
<1>9. CASE ConsumerFails
  BY <1>9, <1>s DEF ConsumerFails, TaskFails, DeliveryTypeOK, client, Failures
<1>10. CASE Interrupt
  BY <1>10 DEF Interrupt, DeliveryTypeOK, client, tasks
<1>11. CASE CancelRelease
  BY <1>11 DEF CancelRelease, DeliveryTypeOK, client
<1>12. CASE CancelConsumer
  BY <1>12 DEF CancelConsumer, DeliveryTypeOK, client
<1>13. CASE CloseSink
  <2>1. reports' \in SUBSET Reports /\ errors' \in SUBSET Events
    BY <1>13, CallBackType DEF CloseSink
  <2> QED
    BY <1>13, <2>1 DEF CloseSink, DeliveryTypeOK, tasks, Failures
<1>14. CASE CloseSource
  BY <1>14 DEF CloseSource, DeliveryTypeOK, client, tasks, Failures
<1>15. CASE Return
  <2>1. stored # << >> => stored[1] \in Failures
    BY EmptySeq DEF DeliveryTypeOK
  <2> QED
    BY <1>15, <2>1 DEF Return, DeliveryTypeOK, client, tasks
<1>16. CASE UNCHANGED deliveryVars
  BY <1>16 DEF deliveryVars, server, client, tasks, DeliveryTypeOK
<1> QED
  BY <1>1, <1>2, <1>3, <1>4, <1>5, <1>6, <1>7, <1>8, <1>9, <1>10, <1>11, <1>12, <1>13,
     <1>14, <1>15, <1>16 DEF DeliveryNext, Exited, ReleaseStep, JobStep, BrokerStep, ServerStep

-----------------------------------------------------------------------------
(* The one job.                                                            *)

LEMMA OneJob ==
    ASSUME DeliveryTypeOK, JobAtHand, NEW j \in jobs
    PROVE  /\ jobs = {j} /\ j.ev = next /\ next \in Events
           /\ release \in {"awaiting", "cancelled"}
<1>1. jobs = {j} /\ j.ev = next /\ release \in {"awaiting", "cancelled"}
  BY DEF JobAtHand
<1>2. j.ev \in Events
  BY DEF DeliveryTypeOK, Job
<1> QED
  BY <1>1, <1>2

LEMMA AdvancedJob ==
    ASSUME DeliveryTypeOK, JobAtHand, NEW j \in jobs, NEW to, Advanced(j, to)
    PROVE  \E k : jobs' = {k} /\ k.ev = next /\ k.step = to
<1>1. jobs = {j} /\ j.ev = next /\ j \in [ev : Events, step : {"queued", "produced", "full", "polled"}]
  BY OneJob DEF DeliveryTypeOK, Job
<1>2. jobs' = {[j EXCEPT !.step = to]}
  BY <1>1 DEF Advanced
<1>3. [j EXCEPT !.step = to].ev = next /\ [j EXCEPT !.step = to].step = to
  BY <1>1
<1> QED
  BY <1>2, <1>3

LEMMA StepJobAtHand == DeliveryTypeOK /\ JobAtHand /\ [DeliveryNext]_deliveryVars => JobAtHand'
<1> SUFFICES ASSUME DeliveryTypeOK, JobAtHand, [DeliveryNext]_deliveryVars PROVE JobAtHand'
  OBVIOUS
<1>f. Len(Feed) \in Nat
  BY DeliveryAssumption, LenProperties
<1>1. CASE Deliver
  BY <1>1, <1>f DEF Deliver, JobAtHand
<1>2. CASE Delivered
  <2>1. PICK j \in jobs : jobs' = jobs \ {j}
    BY <1>2 DEF Delivered
  <2>2. jobs' = {}
    BY <2>1, OneJob
  <2>3. phase \notin {"start", "source"} /\ phase' = phase
    BY <1>2 DEF Delivered, JobAtHand
  <2> QED
    BY <2>2, <2>3 DEF JobAtHand
<1>3. ASSUME NEW j \in jobs, JobProduce(j) \/ JobPoll(j) PROVE JobAtHand'
  <2>1. \E to : Advanced(j, to)
    BY <1>3 DEF JobProduce, JobPoll
  <2>2. PICK k : jobs' = {k} /\ k.ev = next
    BY <2>1, AdvancedJob
  <2>3. UNCHANGED <<release, next, phase>>
    BY <1>3 DEF JobProduce, JobPoll, tasks, server
  <2>4. next \in Events /\ release \in {"awaiting", "cancelled"}
    BY OneJob
  <2> QED
    BY <1>f, <2>2, <2>3, <2>4 DEF JobAtHand, Events
<1>4. CASE Drain \/ OpenSink \/ OpenSource
  <2>1. UNCHANGED <<jobs, next>>
    BY <1>4 DEF Drain, OpenSink, OpenSource
  <2>2. release \notin {"awaiting", "cancelled"}
    BY <1>4 DEF Drain, OpenSink, OpenSource, JobAtHand
  <2>3. release' \notin {"awaiting", "cancelled"} /\ (phase' \in {"start", "source"} => release' = "none")
    BY <1>4 DEF Drain, OpenSink, OpenSource, JobAtHand, server
  <2> QED
    BY <2>1, <2>2, <2>3 DEF JobAtHand
<1>5. CASE CancelRelease
  BY <1>5 DEF CancelRelease, JobAtHand
<1>6. ASSUME NEW j \in jobs, JobForgotten(j) PROVE JobAtHand'
  BY <1>6 DEF JobForgotten, JobAtHand, tasks, server
<1>7. CASE UNCHANGED <<jobs, release, next>> /\ phase' \in {phase, "flush", "closeSource", "served", "over"}
  BY <1>7 DEF JobAtHand
<1> QED
  BY <1>1, <1>2, <1>3, <1>4, <1>5, <1>6, <1>7
     DEF DeliveryNext, deliveryVars, Exited, ReleaseStep, JobStep, BrokerStep, ServerStep, BrokerTakes, BrokerRefuses,
         ConsumerFails, Interrupt, CancelConsumer, CloseSink, CloseSource, Return, tasks, server
-----------------------------------------------------------------------------
(* What has been handed over.                                              *)

\* A poll or a flush moves what was refused from a report to the error list.
LEMMA CallBackHands ==
    ASSUME NEW called \in SUBSET reports, CallBack(called), UNCHANGED <<queue, log>>
    PROVE  Handed' = Handed
<1>1. errors' \cup Refused' = errors \cup Refused
  BY DEF CallBack, Refused
<1> QED
  BY <1>1 DEF Handed

\* The broker moves an event out of the queue, into its log or into a report.
LEMMA BrokerHands ==
    ASSUME DeliveryTypeOK, NEW i \in DOMAIN queue, BrokerTakes(i) \/ BrokerRefuses(i)
    PROVE  Handed' = Handed
<1>1. i \in 1..Len(queue) /\ queue[i] \in Events /\ queue \in Seq(Events) /\ log \in Seq(Events)
  BY DEF DeliveryTypeOK
<1>2. RangeOf(queue) = RangeOf(queue') \cup {queue[i]}
  BY <1>1, RangeOfFacts DEF BrokerTakes, BrokerRefuses
<1>3. CASE BrokerTakes(i)
  <2>1. RangeOf(log') = RangeOf(log) \cup {queue[i]}
    BY <1>1, <1>3, RangeOfFacts DEF BrokerTakes
  <2>2. Refused' = Refused /\ errors' = errors
    BY <1>3 DEF BrokerTakes, Refused
  <2> QED
    BY <1>2, <2>1, <2>2 DEF Handed
<1>4. CASE BrokerRefuses(i)
  <2> DEFINE r == [ev |-> queue[i], ok |-> FALSE]
  <2>0. reports' = reports \cup {r} /\ r.ev = queue[i] /\ ~r.ok
    BY <1>4 DEF BrokerRefuses
  <2> HIDE DEF r
  <2>1. Refused' = Refused \cup {queue[i]}
    BY <2>0 DEF Refused
  <2>2. log' = log /\ errors' = errors
    BY <1>4 DEF BrokerRefuses
  <2> QED
    BY <1>2, <2>1, <2>2 DEF Handed
<1> QED
  BY <1>3, <1>4

\* A step that hands nothing over and puts no event in hand.
LEMMA AccountedFrame ==
    ASSUME EventsAccounted, next' = next, Handed' = Handed, AtHand' => AtHand,
           \A j \in jobs' : j.step \in {"produced", "polled"} =>
              \E k \in jobs : k.step \in {"produced", "polled"}
    PROVE  EventsAccounted'
BY DEF EventsAccounted

LEMMA StepAccounted == DeliveryTypeOK /\ JobAtHand /\ EventsAccounted /\ [DeliveryNext]_deliveryVars => EventsAccounted'
<1> SUFFICES ASSUME DeliveryTypeOK, JobAtHand, EventsAccounted, [DeliveryNext]_deliveryVars PROVE EventsAccounted'
  OBVIOUS
<1>n. next \in Nat \ {0}
  BY DEF DeliveryTypeOK
<1>1. CASE Deliver
  <2>1. Handed' = Handed /\ next' = next /\ AtHand /\ jobs = {}
    BY <1>1 DEF Deliver, client, Handed, Refused, AtHand, JobAtHand
  <2>2. \A j \in jobs' : j.step = "queued"
    BY <1>1, <2>1 DEF Deliver
  <2> QED
    BY <2>1, <2>2, AccountedFrame
<1>2. CASE Delivered
  <2>1. PICK j \in jobs :
           /\ j.step \in {"polled", "full"} /\ jobs' = jobs \ {j}
           /\ \/ release' = "failed" /\ next' = next
              \/ j.step = "polled" /\ next' = next + 1
    BY <1>2 DEF Delivered
  <2>2. Handed' = Handed /\ jobs' = {}
    BY <1>2, <2>1, OneJob DEF Delivered, client, Handed, Refused
  <2>3. CASE release' = "failed" /\ next' = next
    BY <2>2, <2>3, AccountedFrame DEF AtHand
  <2>4. CASE j.step = "polled" /\ next' = next + 1
    <3>1. next \in Handed /\ 1..(next - 1) \subseteq Handed /\ Handed \subseteq 1..next
      BY <2>4 DEF EventsAccounted
    <3>2. 1..next \subseteq Handed /\ Handed \subseteq 1..(next + 1) /\ next + 1 \notin Handed
      BY <1>n, <3>1
    <3> QED
      BY <1>n, <2>2, <2>4, <3>2 DEF EventsAccounted
  <2> QED
    BY <2>1, <2>3, <2>4
<1>3. ASSUME NEW j \in jobs, JobProduce(j) PROVE EventsAccounted'
  <2>1. j.ev = next /\ next' = next /\ j.step = "queued" /\ release \in {"awaiting", "cancelled"}
        /\ release' = release
    BY <1>3, OneJob DEF JobProduce, tasks
  <2>2. next \notin Handed
    BY <2>1 DEF EventsAccounted, AtHand
  <2>3. CASE Len(queue) < QueueLimit
    <3>1. Advanced(j, "produced") /\ queue' = Append(queue, next) /\ UNCHANGED <<log, errors, reports>>
      BY <1>3, <2>1, <2>3 DEF JobProduce
    <3>2. Handed' = Handed \cup {next}
      BY <3>1, RangeOfFacts, OneJob DEF DeliveryTypeOK, Handed, Refused
    <3>3. PICK k : jobs' = {k} /\ k.step = "produced"
      BY <3>1, AdvancedJob
    <3>4. ~AtHand'
      BY <2>1, <3>3 DEF AtHand
    <3> QED
      BY <1>n, <2>1, <3>2, <3>4 DEF EventsAccounted
  <2>4. CASE ~(Len(queue) < QueueLimit)
    <3>1. Advanced(j, "full") /\ Handed' = Handed
      BY <1>3, <2>4 DEF JobProduce, Handed, Refused
    <3>2. PICK k : jobs' = {k} /\ k.step = "full"
      BY <3>1, AdvancedJob
    <3>3. AtHand
      BY <2>1 DEF AtHand
    <3> QED
      BY <2>1, <3>1, <3>2, <3>3, AccountedFrame
  <2> QED
    BY <2>3, <2>4
<1>4. ASSUME NEW j \in jobs, JobPoll(j) PROVE EventsAccounted'
  <2>1. Handed' = Handed
    BY <1>4, CallBackHands DEF JobPoll
  <2>2. PICK k : jobs' = {k} /\ k.step = "polled"
    BY <1>4, AdvancedJob DEF JobPoll
  <2>3. release' = release /\ next' = next /\ j.step = "produced"
    BY <1>4 DEF JobPoll, tasks
  <2>4. AtHand' => AtHand
    BY <2>2, <2>3 DEF AtHand
  <2> QED
    BY <2>1, <2>2, <2>3, <2>4, AccountedFrame
<1>5. ASSUME NEW j \in jobs, JobForgotten(j) PROVE EventsAccounted'
  <2>1. Handed' = Handed /\ next' = next /\ release' = release /\ jobs' \subseteq jobs
    BY <1>5 DEF JobForgotten, client, tasks, Handed, Refused
  <2> QED
    BY <2>1, AccountedFrame DEF AtHand
<1>6. ASSUME NEW i \in DOMAIN queue, BrokerTakes(i) \/ BrokerRefuses(i) PROVE EventsAccounted'
  <2>1. Handed' = Handed
    BY <1>6, BrokerHands
  <2>2. UNCHANGED <<next, jobs, release>>
    BY <1>6 DEF BrokerTakes, BrokerRefuses, tasks
  <2> QED
    BY <2>1, <2>2, AccountedFrame DEF AtHand
<1>7. CASE CloseSink
  <2>1. Handed' = Handed
    BY <1>7, CallBackHands DEF CloseSink
  <2> QED
    BY <1>7, <2>1, AccountedFrame DEF CloseSink, tasks, AtHand
<1>8. CASE Drain \/ OpenSink \/ OpenSource \/ CancelRelease
  <2>1. UNCHANGED <<queue, log, errors, reports, next>>
    BY <1>8 DEF Drain, OpenSink, OpenSource, CancelRelease, client
  <2>2. Handed' = Handed
    BY <2>1 DEF Handed, Refused
  <2>3. jobs' \subseteq jobs
    BY <1>8 DEF Drain, OpenSink, OpenSource, CancelRelease
  <2>4. release' \in {"none", "sleeping"} => release \in {"none", "sleeping"}
    BY <1>8 DEF Drain, OpenSink, OpenSource, CancelRelease, JobAtHand
  <2> QED
    BY <2>1, <2>2, <2>3, <2>4, AccountedFrame DEF AtHand
<1>9. CASE UNCHANGED <<client, jobs, release, next>>
  BY <1>9, AccountedFrame DEF client, AtHand, Handed, Refused
<1> QED
  BY <1>1, <1>2, <1>3, <1>4, <1>5, <1>6, <1>7, <1>8, <1>9
     DEF DeliveryNext, deliveryVars, Exited, ReleaseStep, JobStep, BrokerStep, ServerStep, ConsumerFails,
         Interrupt, CancelConsumer, CloseSource, Return, tasks

-----------------------------------------------------------------------------
(* The order in the queue and in the log.                                  *)

\* Where an element of a sequence without its i-th stood before.
LEMMA RemoveAtOrigin ==
    ASSUME NEW S, NEW s \in Seq(S), NEW i \in DOMAIN s, NEW k \in DOMAIN RemoveAt(s, i)
    PROVE  \E m \in DOMAIN s : /\ m # i /\ RemoveAt(s, i)[k] = s[m]
                               /\ m = IF k < i THEN k ELSE k + 1
<1>1. i \in 1..Len(s) /\ Len(s) \in Nat /\ DOMAIN s = 1..Len(s)
  BY LenProperties
<1>2. k \in 1..(Len(s) - 1)
  BY <1>1, RemoveAtFacts, LenProperties
<1>3. CASE k < i
  <2>1. k \in DOMAIN s /\ k # i
    BY <1>1, <1>2, <1>3
  <2>2. RemoveAt(s, i)[k] = s[k]
    BY <1>1, <1>2, <1>3, RemoveAtFacts
  <2> QED
    BY <1>3, <2>1, <2>2
<1>4. CASE ~(k < i)
  <2>1. k + 1 \in DOMAIN s /\ k + 1 # i
    BY <1>1, <1>2, <1>4
  <2>2. RemoveAt(s, i)[k] = s[k + 1]
    BY <1>1, <1>2, <1>4, RemoveAtFacts
  <2> QED
    BY <1>4, <2>1, <2>2
<1> QED
  BY <1>3, <1>4

\* Without one of its events the queue keeps its order.
LEMMA BrokerKeepsQueue ==
    ASSUME DeliveryTypeOK, QueueInOrder, NEW i \in DOMAIN queue, queue' = RemoveAt(queue, i)
    PROVE  \A k, l \in DOMAIN queue' : k < l => queue'[k] < queue'[l]
<1> SUFFICES ASSUME NEW k \in DOMAIN queue', NEW l \in DOMAIN queue', k < l
             PROVE  queue'[k] < queue'[l]
  OBVIOUS
<1>q. queue \in Seq(Events) /\ RemoveAt(queue, i) \in Seq(Events) /\ i \in Nat
  BY RemoveAtFacts DEF DeliveryTypeOK
<1>i. k \in Nat /\ l \in Nat
  BY <1>q, LenProperties
<1>1. PICK m \in DOMAIN queue : queue'[k] = queue[m] /\ m = IF k < i THEN k ELSE k + 1
  BY <1>q, RemoveAtOrigin
<1>2. PICK n \in DOMAIN queue : queue'[l] = queue[n] /\ n = IF l < i THEN l ELSE l + 1
  BY <1>q, RemoveAtOrigin
<1>3. m < n
  BY <1>q, <1>i, <1>1, <1>2
<1> QED
  BY <1>1, <1>2, <1>3 DEF QueueInOrder

LEMMA StepOrder ==
    DeliveryTypeOK /\ JobAtHand /\ EventsAccounted /\ QueueInOrder /\ InOrder /\ [DeliveryNext]_deliveryVars
      => QueueInOrder' /\ InOrder'
<1> SUFFICES ASSUME DeliveryTypeOK, JobAtHand, EventsAccounted, QueueInOrder, InOrder, [DeliveryNext]_deliveryVars
             PROVE  QueueInOrder' /\ InOrder'
  OBVIOUS
<1>q. /\ queue \in Seq(Events) /\ log \in Seq(Events)
      /\ \A i \in DOMAIN queue : i \in Nat /\ queue[i] \in Events
      /\ \A i \in DOMAIN log : i \in Nat /\ log[i] \in Events
  BY DEF DeliveryTypeOK
<1>1. ASSUME NEW j \in jobs, JobProduce(j), Len(queue) < QueueLimit
      PROVE  QueueInOrder' /\ InOrder'
  <2>1. j.ev = next /\ next \in Events /\ AtHand
    BY <1>1, OneJob DEF JobProduce, AtHand
  <2>2. queue' = Append(queue, next) /\ log' = log
    BY <1>1, <2>1 DEF JobProduce
  <2>3. \A ev \in Handed : ev < next
    BY <2>1 DEF EventsAccounted, Events
  <2>4. /\ \A i \in DOMAIN queue : queue[i] < next
        /\ \A i \in DOMAIN log : log[i] < next
    BY <2>3 DEF Handed, RangeOf
  <2>5. /\ DOMAIN queue = 1..Len(queue) /\ Len(queue) \in Nat
        /\ DOMAIN queue' = 1..(Len(queue) + 1)
        /\ \A i \in DOMAIN queue : queue'[i] = queue[i]
        /\ queue'[Len(queue) + 1] = next
    BY <1>q, <2>1, <2>2, AppendProperties, LenProperties
  <2>6. ASSUME NEW i \in DOMAIN queue', NEW k \in DOMAIN queue', i < k
        PROVE  queue'[i] < queue'[k]
    <3>1. i \in DOMAIN queue
      BY <2>5, <2>6
    <3>2. k \in DOMAIN queue \/ k = Len(queue) + 1
      BY <2>5
    <3> QED
      BY <2>4, <2>5, <2>6, <3>1, <3>2 DEF QueueInOrder
  <2>7. ASSUME NEW i \in DOMAIN log', NEW k \in DOMAIN queue', Feed[log'[i]] = Feed[queue'[k]]
        PROVE  log'[i] < queue'[k]
    <3>1. k \in DOMAIN queue \/ k = Len(queue) + 1
      BY <2>5
    <3> QED
      BY <2>2, <2>4, <2>5, <2>7, <3>1 DEF QueueInOrder
  <2> QED
    BY <2>2, <2>6, <2>7 DEF QueueInOrder, InOrder
<1>2. ASSUME NEW i \in DOMAIN queue, BrokerTakes(i) PROVE QueueInOrder' /\ InOrder'
  <2>1. /\ queue' = RemoveAt(queue, i) /\ log' = Append(log, queue[i])
        /\ OldestOfTopic(i)
    BY <1>2 DEF BrokerTakes
  <2>2. \A k, l \in DOMAIN queue' : k < l => queue'[k] < queue'[l]
    BY <2>1, BrokerKeepsQueue
  <2>3. /\ DOMAIN log = 1..Len(log) /\ Len(log) \in Nat
        /\ DOMAIN log' = 1..(Len(log) + 1)
        /\ \A k \in DOMAIN log : log'[k] = log[k]
        /\ log'[Len(log) + 1] = queue[i]
    BY <1>q, <2>1, AppendProperties, LenProperties
  <2>4. ASSUME NEW k \in DOMAIN log', NEW l \in DOMAIN queue', Feed[log'[k]] = Feed[queue'[l]]
        PROVE  log'[k] < queue'[l]
    <3>1. PICK m \in DOMAIN queue : m # i /\ queue'[l] = queue[m]
      BY <1>q, <2>1, RemoveAtOrigin
    <3>2. CASE k \in DOMAIN log
      BY <2>3, <2>4, <3>1, <3>2 DEF QueueInOrder
    <3>3. CASE k = Len(log) + 1
      <4>1. Feed[queue[i]] = Feed[queue[m]]
        BY <2>3, <2>4, <3>1, <3>3
      <4>2. ~(m \in 1..(i - 1))
        BY <2>1, <4>1 DEF OldestOfTopic
      <4>3. i < m
        BY <1>q, <3>1, <4>2, LenProperties
      <4> QED
        BY <2>3, <3>1, <3>3, <4>3 DEF QueueInOrder
    <3> QED
      BY <2>3, <3>2, <3>3
  <2>5. ASSUME NEW k \in DOMAIN log', NEW l \in DOMAIN log', k < l, Feed[log'[k]] = Feed[log'[l]]
        PROVE  log'[k] < log'[l]
    <3>1. k \in DOMAIN log
      BY <2>3, <2>5
    <3>2. CASE l \in DOMAIN log
      BY <2>3, <2>5, <3>1, <3>2 DEF InOrder
    <3>3. CASE l = Len(log) + 1
      BY <2>3, <2>5, <3>1, <3>3 DEF QueueInOrder
    <3> QED
      BY <2>3, <3>2, <3>3
  <2> QED
    BY <2>2, <2>4, <2>5 DEF QueueInOrder, InOrder
<1>3. ASSUME NEW i \in DOMAIN queue, BrokerRefuses(i) PROVE QueueInOrder' /\ InOrder'
  <2>1. queue' = RemoveAt(queue, i) /\ log' = log
    BY <1>3 DEF BrokerRefuses
  <2>2. \A k, l \in DOMAIN queue' : k < l => queue'[k] < queue'[l]
    BY <2>1, BrokerKeepsQueue
  <2>3. ASSUME NEW k \in DOMAIN log, NEW l \in DOMAIN queue', Feed[log[k]] = Feed[queue'[l]]
        PROVE  log[k] < queue'[l]
    <3>1. PICK m \in DOMAIN queue : queue'[l] = queue[m]
      BY <1>q, <2>1, RemoveAtOrigin
    <3> QED
      BY <2>3, <3>1 DEF QueueInOrder
  <2> QED
    BY <2>1, <2>2, <2>3 DEF QueueInOrder, InOrder
<1>4. CASE UNCHANGED <<queue, log>>
  BY <1>4 DEF QueueInOrder, InOrder
<1>5. ASSUME NEW j \in jobs, JobProduce(j), ~(Len(queue) < QueueLimit)
      PROVE  UNCHANGED <<queue, log>>
  BY <1>5 DEF JobProduce
<1> QED
  BY <1>1, <1>2, <1>3, <1>4, <1>5
     DEF DeliveryNext, deliveryVars, Exited, ReleaseStep, JobStep, BrokerStep, ServerStep, Deliver, Delivered, Drain,
         OpenSink, OpenSource, JobPoll, JobForgotten, ConsumerFails, Interrupt, CancelRelease,
         CancelConsumer, CloseSink, CloseSource, Return, client

\* An event a topic has gone past was handed over, and is no longer in the queue.
LEMMA NoGapUnheard ==
    ASSUME OrderInv
    PROVE  NoSilentGap
<1> SUFFICES ASSUME NEW i \in DOMAIN log, NEW ev \in 1..(log[i] - 1), Feed[ev] = Feed[log[i]]
             PROVE  \/ ev \in RangeOf(log) \/ ev \in errors
                    \/ [ev |-> ev, ok |-> FALSE] \in reports
  BY DEF NoSilentGap
<1>t. DeliveryTypeOK /\ EventsAccounted /\ QueueInOrder
  BY DEF OrderInv
<1>1. log[i] \in Nat /\ next \in Nat /\ log[i] <= next
  BY <1>t DEF DeliveryTypeOK, EventsAccounted, Handed, RangeOf, Events
<1>2. ev \in Nat /\ ev < log[i] /\ ev \in 1..(next - 1)
  BY <1>1
<1>3. ev \in Handed
  BY <1>t, <1>2 DEF EventsAccounted
<1>4. ev \notin RangeOf(queue)
  <2> SUFFICES ASSUME NEW k \in DOMAIN queue, queue[k] = ev PROVE FALSE
    BY DEF RangeOf
  <2> QED
    BY <1>t, <1>1, <1>2 DEF QueueInOrder
<1>5. ASSUME ev \in Refused PROVE [ev |-> ev, ok |-> FALSE] \in reports
  <2>1. PICK r \in reports : r.ev = ev /\ ~r.ok
    BY <1>5 DEF Refused
  <2>2. r \in [ev : Events, ok : BOOLEAN]
    BY <1>t DEF DeliveryTypeOK, Reports
  <2>3. r = [ev |-> ev, ok |-> FALSE]
    BY <2>1, <2>2
  <2> QED
    BY <2>1, <2>3
<1> QED
  BY <1>3, <1>4, <1>5 DEF Handed

LEMMA InitOrderInv == DeliveryInit => OrderInv
<1> SUFFICES ASSUME DeliveryInit PROVE OrderInv
  OBVIOUS
<1>1. RangeOf(queue) = {} /\ RangeOf(log) = {} /\ errors = {} /\ Refused = {}
  BY DEF DeliveryInit, RangeOf, Refused
<1> QED
  BY <1>1, InitTypeOK
     DEF DeliveryInit, OrderInv, JobAtHand, EventsAccounted, QueueInOrder, InOrder, Handed, AtHand

\* Every topic's log is its feed in order, each event once, and what is missing in it
\* was refused and is reported or about to be, whatever a cancellation leaves in
\* the executor.
THEOREM TopicsKeepOrder == DeliverySpec => []OrderKept
<1>1. OrderInv /\ [DeliveryNext]_deliveryVars => OrderInv'
  BY StepTypeOK, StepJobAtHand, StepAccounted, StepOrder DEF OrderInv
<1>2. OrderInv => OrderKept
  BY NoGapUnheard DEF OrderInv, OrderKept
<1> QED
  BY InitOrderInv, <1>1, <1>2, PTL DEF DeliverySpec
-----------------------------------------------------------------------------
(* The end of a run.                                                       *)

LEMMA StepClients == DeliveryTypeOK /\ ClientsInStep /\ [DeliveryNext]_deliveryVars => ClientsInStep'
<1> SUFFICES ASSUME DeliveryTypeOK, ClientsInStep, [DeliveryNext]_deliveryVars PROVE ClientsInStep'
  OBVIOUS
<1>1. CASE OpenSink
  BY <1>1 DEF OpenSink, ClientsInStep
<1>2. CASE OpenSource
  BY <1>2 DEF OpenSource, ClientsInStep
<1>3. CASE CancelRelease \/ CancelConsumer
  BY <1>3 DEF CancelRelease, CancelConsumer, ClientsInStep
<1>4. CASE CloseSink
  BY <1>4 DEF CloseSink, ClientsInStep
<1>5. CASE CloseSource
  BY <1>5 DEF CloseSource, ClientsInStep
<1>6. CASE Return
  BY <1>6 DEF Return, ClientsInStep
<1>7. CASE UNCHANGED <<phase, sink, source>>
  BY <1>7 DEF ClientsInStep
<1> QED
  BY <1>1, <1>2, <1>3, <1>4, <1>5, <1>6, <1>7
     DEF DeliveryNext, deliveryVars, Exited, ReleaseStep, JobStep, BrokerStep, ServerStep, Deliver, Delivered, Drain,
         JobProduce, JobPoll, JobForgotten, BrokerTakes, BrokerRefuses, ConsumerFails, Interrupt,
         server

\* Only Return and a failed open end the run, and both say why.
LEMMA StepExit == DeliveryTypeOK /\ TaskFailureIsExit /\ [DeliveryNext]_deliveryVars => TaskFailureIsExit'
<1> SUFFICES ASSUME DeliveryTypeOK, TaskFailureIsExit, [DeliveryNext]_deliveryVars PROVE TaskFailureIsExit'
  OBVIOUS
<1>1. CASE OpenSink \/ OpenSource
  BY <1>1 DEF OpenSink, OpenSource, TaskFailureIsExit, ExitCode
<1>2. CASE Return
  <2>1. stored # << >> => stored[1] \in Failures
    BY EmptySeq DEF DeliveryTypeOK
  <2> QED
    BY <1>2, <2>1 DEF Return, TaskFailureIsExit, ExitCode, Failures
<1>3. CASE phase # "over" /\ phase' \in {phase, "cancelConsumer", "flush", "closeSource", "served"}
  BY <1>3 DEF TaskFailureIsExit
<1>4. CASE UNCHANGED deliveryVars
  BY <1>4 DEF deliveryVars, server, TaskFailureIsExit, ExitCode
<1> QED
  BY <1>1, <1>2, <1>3, <1>4
     DEF DeliveryNext, deliveryVars, Exited, ReleaseStep, JobStep, BrokerStep, ServerStep, Deliver, Delivered, Drain,
         JobProduce, JobPoll, JobForgotten, BrokerTakes, BrokerRefuses, ConsumerFails, Interrupt,
         CancelRelease, CancelConsumer, CloseSink, CloseSource, server

\* However a run ends, both clients are closed, and a task that failed makes the exit
\* code an error.
THEOREM RunsEndHonestly == DeliverySpec => []EndsHonestly
<1>1. DeliveryInit => EndInv
  BY InitTypeOK DEF DeliveryInit, EndInv, ClientsInStep, TaskFailureIsExit
<1>2. EndInv /\ [DeliveryNext]_deliveryVars => EndInv'
  BY StepTypeOK, StepClients, StepExit DEF EndInv
<1>3. EndInv => EndsHonestly
  BY DEF EndInv, ClientsInStep, EndsHonestly, ClientsClosed
<1> QED
  BY <1>1, <1>2, <1>3, PTL DEF DeliverySpec
=============================================================================

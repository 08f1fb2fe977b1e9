--------------------------- MODULE MixerScheduler ---------------------------
(***************************************************************************)
(* The release loop of the live mixer (exporters/streaming/mixer):         *)
(* schedule_releases drives advance once per tick over the per-topic       *)
(* buffers seed_mixer_run filled, while the request handlers of app.py     *)
(* edit the dials and read the meters.                                     *)
(*                                                                         *)
(* The handlers are plain functions, so the ASGI framework runs them in    *)
(* worker threads beside the event loop's thread.  The grain of atomicity  *)
(* is that of the interpreter the package runs on: a thread may be         *)
(* switched out at a call or at the back edge of a loop, so one topic's    *)
(* three dial stores are one step, and so is one turn of each loop of      *)
(* advance.                                                                *)
(*                                                                         *)
(* Event time and real time are integers.  A rate is a numerator over      *)
(* RateUnit, a speed a numerator over SpeedUnit (event time per unit of    *)
(* real time); int(..) truncates, as \div does on naturals.  Event         *)
(* times beyond Horizon are told apart from Horizon by nothing below, so   *)
(* the frontier saturates there.                                           *)
(***************************************************************************)
EXTENDS Integers, Sequences, FiniteSets

CONSTANTS
    Topics,         \* the routed topics, build_topic_set
    TopicOrder,     \* ControlState.topics: the topics in display order
    Tape,           \* Tape[t]: the event_sim_time of each seeded event of t
    NoTime,         \* Python's None where a time is expected
    RateUnit,       \* the numerator that stands for rate 1.0
    Rates,          \* the rates a PUT may ask for
    Lags,           \* the lags a PUT may ask for, in units of event time
    SpeedUnit,      \* the numerator that stands for speed 1.0
    Speeds,         \* the speeds a PUT, or the launch, may ask for
    SinkTimes,      \* the real time one await of the sink may take
    SleepTimes,     \* the real time one sleep(tick_seconds) may take
    Stops,          \* how the task may end early: "cancel", "error"
    PolledTopics,   \* the topics whose meters are polled
    MaxPuts,        \* bound: the number of PUTs in a behaviour
    Horizon         \* bound: the frontier saturates at this event time

ASSUME TopicsAssumption ==
    /\ IsFiniteSet(Topics)
    /\ TopicOrder \in Seq(Topics)
    /\ \A t \in Topics : \E i \in DOMAIN TopicOrder : TopicOrder[i] = t
    /\ \A i, j \in DOMAIN TopicOrder :
         TopicOrder[i] = TopicOrder[j] => i = j
    /\ PolledTopics \subseteq Topics

\* The engine's guarantee: within a topic event_sim_time never decreases.
ASSUME TapeAssumption ==
    /\ Tape \in [Topics -> Seq(Int)]
    /\ \A t \in Topics : \A i, j \in DOMAIN Tape[t] :
         i <= j => Tape[t][i] <= Tape[t][j]
    /\ \A t \in Topics : \A i \in DOMAIN Tape[t] : Tape[t][i] <= Horizon

\* The bounds wire.py puts on a request body.
ASSUME DialAssumption ==
    /\ NoTime \notin Int
    /\ NoTime \notin [rate : Rates, lag : Lags, mute : BOOLEAN]
    /\ RateUnit \in Nat \ {0} /\ SpeedUnit \in Nat \ {0}
    /\ Rates \subseteq Nat /\ RateUnit \in Rates
    /\ Lags \subseteq Nat /\ 0 \in Lags
    /\ Speeds \subseteq Nat \ {0}
    /\ SinkTimes \subseteq Nat /\ SleepTimes \subseteq Nat
    /\ MaxPuts \in Nat /\ Horizon \in Int

VARIABLES
    transport,      \* ControlState.transport: [playing, speed]
    dials,          \* ControlState.topics: [rate, lag, mute] of each topic
    originSet,      \* play_origin_monotonic is not None
    puts,           \* PUTs served so far
    popped,         \* events popleft has taken from the buffer of each topic
    frontier,       \* FrontierState.frontier_sim_time
    edges,          \* FrontierState.edges
    deliveryEdges,  \* FrontierState.delivery_edges
    pc,             \* where schedule_releases is
    at,             \* the topic its current loop has reached
    deltaFrontier,  \* delta_frontier of this tick; NoTime on the first one
    released,       \* released events still to be handed to the sink
    elapsed,        \* monotonic() minus previous
    arrived,        \* what the sink has produced to each topic
    poll,           \* one GET /api/meters being answered for one topic
    tickDial,       \* history: the dial this tick has read of each topic
    sinceTick       \* history: the real time since the last tick began

control   == <<transport, dials, originSet, puts>>
schedule  == <<frontier, edges, deliveryEdges, popped>>
loop      == <<pc, at, deltaFrontier, released, elapsed>>
history   == <<tickDial, sinceTick>>
vars      == <<control, schedule, loop, arrived, poll, history>>

TimeOrNone == Int \cup {NoTime}
Dials     == [rate : Rates, lag : Lags, mute : BOOLEAN]
Transport == [playing : BOOLEAN, speed : Speeds]
Event     == {e \in [topic : Topics, pos : Nat] : e.pos \in DOMAIN Tape[e.topic]}
TimeOf(e) == Tape[e.topic][e.pos]

Poll      == [phase : {"idle", "backlog", "edge", "answered"},
              topic : Topics \cup {NoTime}, backlog : Int,
              edge : TimeOrNone, lag : TimeOrNone]
NoPoll    == [phase |-> "idle", topic |-> NoTime, backlog |-> 0,
              edge |-> NoTime, lag |-> NoTime]

Backlog(t) == Len(Tape[t]) - popped[t]
Drained    == \A t \in Topics : Backlog(t) = 0
HeadTime(t) == Tape[t][popped[t] + 1]

Least(x, y)    == IF x <= y THEN x ELSE y
Greatest(x, y) == IF x <= y THEN y ELSE x
-----------------------------------------------------------------------------
(* seed_mixer_run fills the buffers and leaves neutral dials; the lifespan *)
(* stamps the play origin of a run launched playing and starts the task.   *)
Neutral == [rate |-> RateUnit, lag |-> 0, mute |-> FALSE]

Init ==
    /\ transport \in Transport
    /\ originSet = transport.playing
    /\ dials = [t \in Topics |-> Neutral]
    /\ puts = 0
    /\ popped = [t \in Topics |-> 0]
    /\ frontier = NoTime
    /\ edges = [t \in Topics |-> NoTime]
    /\ deliveryEdges = [t \in Topics |-> NoTime]
    /\ pc = "top" /\ at = 1 /\ deltaFrontier = NoTime
    /\ released = << >>
    /\ elapsed = 0
    /\ arrived = [t \in Topics |-> << >>]
    /\ poll = NoPoll
    /\ tickDial = [t \in Topics |-> NoTime]
    /\ sinceTick = 0
-----------------------------------------------------------------------------
(* The loop thread: one tick.                                              *)

(* Every buffer is empty: schedule_releases returns.                       *)
Finish ==
    /\ pc = "top" /\ Drained
    /\ pc' = "done"
    /\ UNCHANGED <<control, schedule, at, deltaFrontier, released, elapsed,
                   arrived, poll, history>>

(* The clock is read and previous refreshed on every tick, paused or not.  *)
ReadClock ==
    /\ pc = "top" /\ ~Drained
    /\ elapsed' = 0
    /\ sinceTick' = 0

(* Plausible bug: previous is refreshed on playing ticks only.             *)
PausedTick_Banked ==
    /\ pc = "top" /\ ~Drained
    /\ ~transport.playing
    /\ pc' = "sleep" /\ sinceTick' = 0
    /\ UNCHANGED <<control, schedule, at, deltaFrontier, released, elapsed,
                   arrived, poll, tickDial>>

(* advance returns at once while the transport is paused.                  *)
PausedTick ==
    /\ ReadClock
    /\ ~transport.playing
    /\ pc' = "sleep"
    /\ UNCHANGED <<control, schedule, at, deltaFrontier, released, arrived,
                   poll, tickDial>>

(* The first tick under play puts the frontier at the least head time.     *)
FirstTick ==
    /\ ReadClock
    /\ transport.playing /\ frontier = NoTime
    /\ \E t \in Topics :
         /\ Backlog(t) > 0
         /\ \A u \in Topics : Backlog(u) > 0 => HeadTime(t) <= HeadTime(u)
         /\ frontier' = HeadTime(t)
    /\ pc' = "edges" /\ at' = 1 /\ deltaFrontier' = NoTime
    /\ UNCHANGED <<control, edges, deliveryEdges, popped, released, arrived,
                   poll, tickDial>>

(* Plausible bug: the speed is truncated before it scales the clock.       *)
FrontierStep_EarlyInt(speed, real) == (speed \div SpeedUnit) * real

(* delta_frontier = int(speed * delta * 1e9), and the frontier moves by it.*)
FrontierStep(speed, real) == (speed * real) \div SpeedUnit

PlayingTick ==
    /\ ReadClock
    /\ transport.playing /\ frontier # NoTime
    /\ deltaFrontier' = FrontierStep(transport.speed, elapsed)
    /\ frontier' = Least(frontier + deltaFrontier', Horizon)
    /\ pc' = "edges" /\ at' = 1
    /\ UNCHANGED <<control, edges, deliveryEdges, popped, released, arrived,
                   poll, tickDial>>
-----------------------------------------------------------------------------
(* The loop over control.topics that moves the edges; the dial of a topic  *)
(* is read when its turn comes.                                            *)
InEdgeLoop(t) ==
    /\ pc = "edges" /\ at <= Len(TopicOrder) /\ t = TopicOrder[at]
    /\ at' = at + 1
    /\ UNCHANGED <<control, frontier, deliveryEdges, popped, pc,
                   deltaFrontier, released, elapsed, arrived, poll, sinceTick>>

(* First tick: every edge starts at frontier - lag, muted or not.          *)
InitEdge(t) ==
    /\ InEdgeLoop(t)
    /\ deltaFrontier = NoTime
    /\ edges' = [edges EXCEPT ![t] = frontier - dials[t].lag]
    /\ tickDial' = [tickDial EXCEPT ![t] = dials[t]]

(* A muted topic keeps its edge.                                           *)
HoldEdge(t) ==
    /\ InEdgeLoop(t)
    /\ deltaFrontier # NoTime /\ dials[t].mute
    /\ tickDial' = [tickDial EXCEPT ![t] = dials[t]]
    /\ UNCHANGED edges

(* Move the edge by at most rate * delta_frontier, never past the ceiling  *)
(* frontier - lag, never back.                                             *)
EdgeStep(rate, delta) == (rate * delta) \div RateUnit

(* Plausible bugs: the outer max is lost; the ceiling is lost.             *)
NextEdge_NoMax(edge, dial, delta, front) ==
    IF edge = NoTime
      THEN front - dial.lag
      ELSE Least(edge + EdgeStep(dial.rate, delta), front - dial.lag)

NextEdge_NoCeiling(edge, dial, delta, front) ==
    IF edge = NoTime THEN front - dial.lag
                     ELSE edge + EdgeStep(dial.rate, delta)

NextEdge(edge, dial, delta, front) ==
    LET ceiling == front - dial.lag
    IN  IF edge = NoTime
          THEN ceiling
          ELSE Greatest(edge, Least(edge + EdgeStep(dial.rate, delta), ceiling))

AdvanceEdge(t) ==
    /\ InEdgeLoop(t)
    /\ deltaFrontier # NoTime /\ ~dials[t].mute
    /\ edges' = [edges EXCEPT ![t] =
                   NextEdge(@, dials[t], deltaFrontier, frontier)]
    /\ tickDial' = [tickDial EXCEPT ![t] = dials[t]]

EdgesDone ==
    /\ pc = "edges" /\ at > Len(TopicOrder)
    /\ pc' = "release" /\ at' = 1
    /\ UNCHANGED <<control, schedule, deltaFrontier, released, elapsed,
                   arrived, poll, history>>
-----------------------------------------------------------------------------
(* The loop over control.topics that releases.  popleft and the store of   *)
(* the delivery edge are two steps: a meter may be read between them.      *)
Eligible(t) ==
    /\ edges[t] # NoTime
    /\ Backlog(t) > 0
    /\ HeadTime(t) <= edges[t]

PopHead(t) ==
    /\ pc = "release" /\ at <= Len(TopicOrder) /\ t = TopicOrder[at]
    /\ Eligible(t)
    /\ popped' = [popped EXCEPT ![t] = @ + 1]
    /\ pc' = "stamp"
    /\ UNCHANGED <<control, frontier, edges, deliveryEdges, at, deltaFrontier,
                   released, elapsed, arrived, poll, history>>

(* Plausible bugs: one event per topic and tick; the newest release first. *)
RecordRelease_One(t) ==
    /\ pc = "stamp" /\ t = TopicOrder[at]
    /\ deliveryEdges' = [deliveryEdges EXCEPT ![t] = Tape[t][popped[t]]]
    /\ released' = Append(released, [topic |-> t, pos |-> popped[t]])
    /\ pc' = "release" /\ at' = at + 1
    /\ UNCHANGED <<control, frontier, edges, popped, deltaFrontier, elapsed,
                   arrived, poll, history>>

RecordRelease_Newest(t) ==
    /\ pc = "stamp" /\ t = TopicOrder[at]
    /\ deliveryEdges' = [deliveryEdges EXCEPT ![t] = Tape[t][popped[t]]]
    /\ released' = <<[topic |-> t, pos |-> popped[t]]>> \o released
    /\ pc' = "release"
    /\ UNCHANGED <<control, frontier, edges, popped, at, deltaFrontier,
                   elapsed, arrived, poll, history>>

(* delivery_edges[topic] = event_sim_time; released.append(event)          *)
RecordRelease(t) ==
    /\ pc = "stamp" /\ t = TopicOrder[at]
    /\ deliveryEdges' = [deliveryEdges EXCEPT ![t] = Tape[t][popped[t]]]
    /\ released' = Append(released, [topic |-> t, pos |-> popped[t]])
    /\ pc' = "release"
    /\ UNCHANGED <<control, frontier, edges, popped, at, deltaFrontier,
                   elapsed, arrived, poll, history>>

NextTopic ==
    /\ pc = "release" /\ at <= Len(TopicOrder) /\ ~Eligible(TopicOrder[at])
    /\ at' = at + 1
    /\ UNCHANGED <<control, schedule, pc, deltaFrontier, released, elapsed,
                   arrived, poll, history>>

(* advance returns the released events.                                    *)
ReleaseDone ==
    /\ pc = "release" /\ at > Len(TopicOrder)
    /\ pc' = "sink" /\ at' = 1 /\ deltaFrontier' = NoTime
    /\ tickDial' = [t \in Topics |-> NoTime]
    /\ UNCHANGED <<control, schedule, released, elapsed, arrived, poll,
                   sinceTick>>
-----------------------------------------------------------------------------
(* await sink(event), once per released event, in order.                   *)
Produce(e) == arrived' = [arrived EXCEPT ![e.topic] = Append(@, TimeOf(e))]

Pass(d) == elapsed' = elapsed + d /\ sinceTick' = sinceTick + d

(* Plausible bug: the loop over the released events stops after the first. *)
SinkEvent_FirstOnly ==
    /\ pc = "sink" /\ released # << >>
    /\ Produce(Head(released))
    /\ released' = << >>
    /\ \E d \in SinkTimes : Pass(d)
    /\ UNCHANGED <<control, schedule, pc, at, deltaFrontier, poll, tickDial>>

SinkEvent ==
    /\ pc = "sink" /\ released # << >>
    /\ Produce(Head(released))
    /\ released' = Tail(released)
    /\ \E d \in SinkTimes : Pass(d)
    /\ UNCHANGED <<control, schedule, pc, at, deltaFrontier, poll, tickDial>>

SinkDone ==
    /\ pc = "sink" /\ released = << >>
    /\ pc' = "sleep"
    /\ UNCHANGED <<control, schedule, at, deltaFrontier, released, elapsed,
                   arrived, poll, history>>

(* await sleep(tick_seconds); a slow loop may oversleep.                   *)
Sleep ==
    /\ pc = "sleep"
    /\ \E d \in SleepTimes : Pass(d)
    /\ pc' = "top"
    /\ UNCHANGED <<control, schedule, at, deltaFrontier, released, arrived,
                   poll, tickDial>>

(* The sink raises, or the task is cancelled while it awaits the sink: the *)
(* event in hand may or may not have been produced, and the rest of the    *)
(* released list is gone with the coroutine's frame.                       *)
Abandon(how, end) ==
    /\ how \in Stops
    /\ pc = "sink" /\ released # << >>
    /\ \/ Produce(Head(released))
       \/ UNCHANGED arrived
    /\ pc' = end
    /\ released' = << >>
    /\ UNCHANGED <<control, schedule, at, deltaFrontier, elapsed, poll,
                   history>>

SinkRaises   == Abandon("error", "failed")
CancelInSink == Abandon("cancel", "cancelled")

CancelInSleep ==
    /\ "cancel" \in Stops
    /\ pc = "sleep"
    /\ pc' = "cancelled"
    /\ UNCHANGED <<control, schedule, at, deltaFrontier, released, elapsed,
                   arrived, poll, history>>
-----------------------------------------------------------------------------
(* The handler threads.                                                    *)

(* PUT /api/transport: the first turn to playing stamps the play origin.   *)
PutTransport(body) ==
    /\ puts < MaxPuts
    /\ puts' = puts + 1
    /\ transport' = body
    /\ originSet' = (originSet \/ (~transport.playing /\ body.playing))
    /\ UNCHANGED <<dials, schedule, loop, arrived, poll, history>>

(* PUT /api/topics/{topic}: the three dials of the one topic it names.     *)
PutTopic(t, body) ==
    /\ puts < MaxPuts
    /\ puts' = puts + 1
    /\ dials' = [dials EXCEPT ![t] = body]
    /\ UNCHANGED <<transport, originSet, schedule, loop, arrived, poll,
                   history>>

(* GET /api/meters for topic t: derive_meters reads the buffer's length,   *)
(* then the delivery edge, then the frontier.                              *)
MeterBacklog(t) ==
    /\ poll.phase = "idle"
    /\ poll' = [NoPoll EXCEPT !.phase = "backlog", !.topic = t,
                              !.backlog = Backlog(t)]
    /\ UNCHANGED <<control, schedule, loop, arrived, history>>

MeterEdge ==
    /\ poll.phase = "backlog"
    /\ poll' = [poll EXCEPT !.phase = "edge", !.edge = deliveryEdges[poll.topic]]
    /\ UNCHANGED <<control, schedule, loop, arrived, history>>

DeliveryLag(front, edge) ==
    IF front = NoTime \/ edge = NoTime THEN NoTime ELSE front - edge

MeterLag ==
    /\ poll.phase = "edge"
    /\ poll' = [poll EXCEPT !.phase = "answered",
                            !.lag = DeliveryLag(frontier, poll.edge)]
    /\ UNCHANGED <<control, schedule, loop, arrived, history>>

MeterAnswered ==
    /\ poll.phase = "answered"
    /\ poll' = NoPoll
    /\ UNCHANGED <<control, schedule, loop, arrived, history>>
-----------------------------------------------------------------------------
Advance ==
    \/ PausedTick \/ FirstTick \/ PlayingTick
    \/ \E t \in Topics : InitEdge(t) \/ HoldEdge(t) \/ AdvanceEdge(t)
    \/ EdgesDone
    \/ \E t \in Topics : PopHead(t) \/ RecordRelease(t)
    \/ NextTopic \/ ReleaseDone

LoopStep == Finish \/ Advance \/ SinkEvent \/ SinkDone \/ Sleep

Stop == SinkRaises \/ CancelInSink \/ CancelInSleep

Meter ==
    \/ \E t \in PolledTopics : MeterBacklog(t)
    \/ MeterEdge \/ MeterLag \/ MeterAnswered

Handler ==
    \/ \E body \in Transport : PutTransport(body)
    \/ \E t \in Topics, body \in Dials : PutTopic(t, body)
    \/ Meter

(* The server keeps serving after the task has ended.                      *)
Ended == pc \in {"done", "failed", "cancelled"} /\ UNCHANGED vars

Next == LoopStep \/ Stop \/ Handler \/ Ended

Spec == Init /\ [][Next]_vars

(* The event loop keeps running the release task.                          *)
FairSpec == Spec /\ WF_vars(LoopStep)
-----------------------------------------------------------------------------
(* The variables hold what the code's annotations say they hold.           *)
TypeOK ==
    /\ transport \in Transport
    /\ dials \in [Topics -> Dials]
    /\ originSet \in BOOLEAN
    /\ puts \in 0..MaxPuts
    /\ popped \in [Topics -> Nat]
    /\ \A t \in Topics : popped[t] <= Len(Tape[t])
    /\ frontier \in TimeOrNone
    /\ edges \in [Topics -> TimeOrNone]
    /\ deliveryEdges \in [Topics -> TimeOrNone]
    /\ pc \in {"top", "edges", "release", "stamp", "sink", "sleep",
               "done", "failed", "cancelled"}
    /\ at \in 1..(Len(TopicOrder) + 1)
    /\ deltaFrontier \in Nat \cup {NoTime}
    /\ released \in Seq(Event)
    /\ elapsed \in Nat
    /\ arrived \in [Topics -> Seq(Int)]
    /\ tickDial \in [Topics -> Dials \cup {NoTime}]
    /\ sinceTick \in Nat
    /\ poll \in Poll

(* An event popleft has taken is never dropped on the way: while the task  *)
(* runs it is either in its topic's log, or in the hands of advance, or in *)
(* the released list, in order; between ticks nothing is in flight.        *)
InHand(t, p) == pc = "stamp" /\ t = TopicOrder[at] /\ p = popped[t]

NothingStranded ==
    pc \notin {"failed", "cancelled"} =>
      \A t \in Topics :
        /\ \A p \in (Len(arrived[t]) + 1)..popped[t] :
             \/ InHand(t, p)
             \/ \E i \in DOMAIN released : released[i] = [topic |-> t, pos |-> p]
        /\ pc \in {"top", "sleep", "done"} => Len(arrived[t]) = popped[t]

(* The scheduler neither corrupts its state nor loses what it has released. *)
SchedulerInv == TypeOK /\ NothingStranded

(* No stream leads the frontier, and a held one releases nothing: an event *)
(* leaves its buffer only at or before frontier - lag for the lag its tick *)
(* read, and (but for the first tick) only if that tick read it unmuted,   *)
(* whatever was done to the dials before, during or after.                 *)
NoStreamLeadsFrontier ==
    [][\A t \in Topics : popped'[t] # popped[t] =>
         /\ tickDial[t] # NoTime
         /\ tickDial[t].mute => deltaFrontier = NoTime
         /\ HeadTime(t) <= frontier - tickDial[t].lag]_vars

(* Lag, rate and mute edits never move a release position back.            *)
PositionsNeverRetreat ==
    [][/\ frontier # NoTime => frontier' # NoTime /\ frontier <= frontier'
       /\ \A t \in Topics :
            /\ edges[t] # NoTime => edges'[t] # NoTime /\ edges[t] <= edges'[t]
            /\ deliveryEdges[t] # NoTime =>
                 deliveryEdges'[t] # NoTime
                   /\ deliveryEdges[t] <= deliveryEdges'[t]]_vars

(* A tick releases everything its edges allow: once advance has returned,  *)
(* every head still buffered lies beyond its topic's edge, so a held edge  *)
(* (mute, rate 0, a raised lag) keeps back every later event.              *)
NothingEligibleLeft ==
    pc \in {"sink", "sleep", "top"} => \A t \in Topics : ~Eligible(t)

(* The delivery lag a meter shows is never negative, though its frontier   *)
(* and its delivery edge are read in different steps beside the loop.      *)
MeterLagNotNegative ==
    poll.phase = "answered" /\ poll.lag # NoTime => poll.lag >= 0

(* Real time spent paused is discarded: one tick moves the frontier by no  *)
(* more than the real time since the tick before it, at the speed in force.*)
PauseNotBanked ==
    [][frontier # NoTime /\ frontier' # frontier =>
         (frontier' - frontier) * SpeedUnit <= transport.speed * sinceTick]_vars

(* A run that is left playing, with no topic held and no rate so small     *)
(* that int() truncates its edge's step to zero, drains every buffer into  *)
(* the topics, whatever the lags.                                          *)
Unobstructed ==
    /\ transport.playing
    /\ \A t \in Topics :
         /\ ~dials[t].mute
         /\ \A d \in SleepTimes :
              dials[t].rate * ((transport.speed * d) \div SpeedUnit) >= RateUnit

DrainsWhenPlayed == <>[]Unobstructed => <>(pc = "done" /\ arrived = Tape)

(* The refinement: what the sink has produced is the log of each topic.    *)
Streams == INSTANCE TopicStreams
ImplementsStreams == Streams!StreamsSpec
=============================================================================

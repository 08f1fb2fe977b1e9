---------------------------- MODULE MixerConsumer ----------------------------
(***************************************************************************)
(* The consumer instrument of the mixer: run_consumer pulls each topic by  *)
(* a budget through KafkaSource, reads the lag, and folds the tick into    *)
(* watermarks, windows and joins (ingest), while the operator edits the    *)
(* ingest rates and the producer keeps delivering.                         *)
(*                                                                         *)
(* A record is its event time.  Broker[t] is all that topic t ever holds:  *)
(* first what an earlier run left there, then this run's events in order.  *)
(* Rates and real time are integers over RateUnit, as in MixerScheduler.   *)
(* The client library is external: it is assigned its partitions during    *)
(* some poll after subscribe, hands out the next record of any assigned    *)
(* topic that is not paused, and may come back empty at any poll.          *)
(***************************************************************************)
EXTENDS Integers, Sequences, FiniteSets

CONSTANTS
    Topics,         \* the topic set the consumer subscribes to
    Broker,         \* Broker[t]: the event times topic t comes to hold
    Earlier,        \* Earlier[t]: how many of them an earlier run left there
    Resets,         \* the auto.offset.reset values a run may be launched with
    Gating,         \* shape.gating_topics: the data-bearing topics
    Windows,        \* shape.windows: the size of each
    Joins,          \* shape.joins: [fact, dim] of each
    NoTime,         \* Python's None where a time is expected
    RateUnit,       \* the numerator that stands for one record per time unit
    Rates,          \* the rates a PUT may ask for
    Delays,         \* the real time one tick may take
    MaxPuts,        \* bound: the number of PUTs in a behaviour
    MaxPollInterval,\* the client's max.poll.interval.ms
    MayFail         \* whether a poll or an offset query may fail

ASSUME ConsumerAssumption ==
    /\ IsFiniteSet(Topics)
    /\ Broker \in [Topics -> Seq(Int)]
    /\ Earlier \in [Topics -> Nat]
    /\ \A t \in Topics : Earlier[t] <= Len(Broker[t])
    /\ Resets \subseteq {"earliest", "latest"}
    /\ Gating \subseteq Topics
    /\ Windows \in Seq(Nat \ {0})
    /\ Joins \in Seq([fact : Topics, dim : Topics])
    /\ NoTime \notin Int
    /\ RateUnit \in Nat \ {0} /\ Rates \subseteq Nat /\ RateUnit \in Rates
    /\ Delays \subseteq Nat /\ MaxPuts \in Nat
    /\ MaxPollInterval \in Nat /\ MayFail \in BOOLEAN

VARIABLES
    rate,           \* ConsumerControlState: ingest_rate of each topic
    puts,           \* PUTs served so far
    high,           \* the broker's end offset of each topic
    fetched,        \* the offset the client hands out next of each topic
    start,          \* where it started reading each topic
    idle,           \* the real time since the client was last polled
    assigned,       \* the group join has completed
    paused,         \* paused_topics, and the partitions the client holds back
    pc,             \* where run_consumer is
    delta,          \* monotonic() minus previous
    carry,          \* the fraction of a record each topic has saved up
    remaining,      \* remaining[t]: records topic t may still deliver; 0: gone
    results,        \* the records pulled this tick, by offset
    lag,            \* what source.lag has read
    watermark,      \* state.watermark_ms
    consumerLag,    \* state.consumer_lag
    origin,         \* state.window_origin_ms
    fired,          \* state.window_fired_count
    latestEnd,      \* state.window_latest_end_ms
    facts, nulls,   \* state.join_fact_count, state.join_null_count
    ingested,       \* history: the offsets folded so far, by topic
    credit          \* history: the sum of rate * delta of each topic

dials   == <<rate, puts>>
client  == <<fetched, start, idle, assigned, paused>>
loop    == <<pc, delta, carry, remaining, results, lag>>
state   == <<watermark, consumerLag, origin, fired, latestEnd, facts, nulls>>
history == <<ingested, credit>>
vars    == <<dials, high, client, loop, state, history>>

TimeOrNone == Int \cup {NoTime}
TimeAt(t, off) == Broker[t][off + 1]
RangeOf(s) == {s[i] : i \in DOMAIN s}

(* seed_consumer_run: neutral dials, no watermark, zeroed counters.        *)
Init ==
    /\ rate = [t \in Topics |-> RateUnit] /\ puts = 0
    /\ high = Earlier
    /\ fetched = [t \in Topics |-> 0] /\ start = [t \in Topics |-> 0]
    /\ idle = 0
    /\ assigned = FALSE /\ paused = {}
    /\ pc = "top" /\ delta = 0
    /\ carry = [t \in Topics |-> 0]
    /\ remaining = [t \in Topics |-> 0]
    /\ results = [t \in Topics |-> << >>]
    /\ lag = [t \in Topics |-> 0]
    /\ watermark = [t \in Topics |-> NoTime]
    /\ consumerLag = [t \in Topics |-> 0]
    /\ origin = NoTime
    /\ fired = [i \in DOMAIN Windows |-> 0]
    /\ latestEnd = [i \in DOMAIN Windows |-> NoTime]
    /\ facts = [i \in DOMAIN Joins |-> 0]
    /\ nulls = [i \in DOMAIN Joins |-> 0]
    /\ ingested = [t \in Topics |-> << >>]
    /\ credit = [t \in Topics |-> 0]
-----------------------------------------------------------------------------
(* One tick of run_consumer.                                               *)
Raw(t)    == rate[t] * delta + carry[t]
Saturated(t, c) == LET cap == (Len(Broker[t]) + 1) * RateUnit
                   IN  IF c <= cap THEN c ELSE cap

StartTick_NoCarry ==
    /\ pc = "top"
    /\ remaining' = [t \in Topics |-> Raw(t) \div RateUnit]
    /\ credit' = [t \in Topics |-> Saturated(t, credit[t] + rate[t] * delta)]
    /\ results' = [t \in Topics |-> << >>]
    /\ pc' = "pull"
    /\ UNCHANGED <<dials, high, client, delta, carry, lag, state, ingested>>

(* Each topic's budget is int(ingest_rate * delta + carry); the fraction   *)
(* is carried.                                                             *)
StartTick ==
    /\ pc = "top"
    /\ remaining' = [t \in Topics |-> Raw(t) \div RateUnit]
    /\ carry' = [t \in Topics |-> Raw(t) % RateUnit]
    /\ credit' = [t \in Topics |-> Saturated(t, credit[t] + rate[t] * delta)]
    /\ results' = [t \in Topics |-> << >>]
    /\ pc' = "pull"
    /\ UNCHANGED <<dials, high, client, delta, lag, state, ingested>>

(* Of the assigned topics those without a budget are paused, the others    *)
(* resumed; nothing is assigned before the first poll.                     *)
PauseResume ==
    /\ pc = "pull"
    /\ paused' = IF assigned THEN {t \in Topics : remaining[t] = 0} ELSE paused
    /\ pc' = "poll"
    /\ UNCHANGED <<dials, high, fetched, start, idle, assigned, delta, carry,
                   remaining, results, lag, state, history>>

Wanting == \E t \in Topics : remaining[t] > 0
Evicted == assigned /\ idle > MaxPollInterval

(* The group join completes while the client is being polled.              *)
Assign ==
    /\ pc = "poll" /\ Wanting /\ ~assigned
    /\ assigned' = TRUE
    /\ \E reset \in Resets : start' = IF reset = "latest" THEN high ELSE start
    /\ fetched' = start'
    /\ UNCHANGED <<dials, high, idle, paused, loop, state, history>>

(* A poll hands out a record of any topic the client holds open; one whose *)
(* budget is used up is read past and thrown away.                         *)
PollRecord(t) ==
    /\ pc = "poll" /\ Wanting /\ ~Evicted
    /\ assigned /\ t \notin paused /\ fetched[t] < high[t]
    /\ fetched' = [fetched EXCEPT ![t] = @ + 1]
    /\ idle' = 0
    /\ IF remaining[t] > 0
         THEN /\ results' = [results EXCEPT ![t] = Append(@, fetched[t])]
              /\ remaining' = [remaining EXCEPT ![t] = @ - 1]
         ELSE UNCHANGED <<results, remaining>>
    /\ UNCHANGED <<dials, high, start, assigned, paused, pc, delta, carry, lag,
                   state, history>>

(* The poll comes back empty, or every budget is met: the pull returns.    *)
PullReturns ==
    /\ pc = "poll"
    /\ Wanting => ~Evicted
    /\ idle' = IF Wanting THEN 0 ELSE idle
    /\ pc' = "lag"
    /\ UNCHANGED <<dials, high, fetched, start, assigned, paused, delta, carry,
                   remaining, results, lag, state, history>>

(* The poll returns a broker error; a client that was not polled for       *)
(* max.poll.interval.ms has left the group and says so on the next poll.   *)
PollFails ==
    /\ pc = "poll" /\ Wanting
    /\ MayFail \/ Evicted
    /\ pc' = "failed"
    /\ UNCHANGED <<dials, high, client, delta, carry, remaining, results, lag,
                   state, history>>

(* position() knows no offset before the first record: it counts as 0.     *)
Position(t) == IF fetched[t] = start[t] THEN 0 ELSE fetched[t]

ReadLag ==
    /\ pc = "lag"
    /\ \/ /\ lag' = [t \in Topics |-> IF assigned THEN high[t] - Position(t)
                                                  ELSE 0]
          /\ pc' = "ingest"
       \/ /\ MayFail /\ pc' = "failed"
          /\ UNCHANGED lag
    /\ UNCHANGED <<dials, high, client, delta, carry, remaining, results,
                   state, history>>
-----------------------------------------------------------------------------
(* ingest: one tick folded into the timing state.                          *)
Last(s) == s[Len(s)]

(* Plausible bug: a topic that yielded nothing this tick has no watermark.  *)
WatermarkAfter_PerTick(t) ==
    IF results[t] = << >> THEN NoTime ELSE TimeAt(t, Last(results[t]))

WatermarkAfter(t) ==
    IF results[t] = << >> THEN watermark[t] ELSE TimeAt(t, Last(results[t]))

(* The least watermark of the gating topics, None while one has none.      *)
Global(wm) ==
    IF Gating = {} \/ \E t \in Gating : wm[t] = NoTime
      THEN NoTime
      ELSE CHOOSE w \in {wm[t] : t \in Gating} : \A t \in Gating : w <= wm[t]

(* How many window ends after "from" the global watermark has reached.     *)
EndsPassed(from, size, global) ==
    IF global < from THEN 0 ELSE (global - from) \div size

(* _advance_windows: each window counts on from its own latest end.        *)
WindowFrom(i) == IF latestEnd[i] = NoTime THEN origin' ELSE latestEnd[i]

AdvanceWindows(global) ==
    IF global = NoTime
      THEN UNCHANGED <<origin, fired, latestEnd>>
      ELSE /\ origin' = IF origin = NoTime THEN global ELSE origin
           /\ fired' = [i \in DOMAIN Windows |->
                fired[i] + EndsPassed(WindowFrom(i), Windows[i], global)]
           /\ latestEnd' = [i \in DOMAIN Windows |->
                LET n == EndsPassed(WindowFrom(i), Windows[i], global)
                IN  IF n = 0 THEN latestEnd[i]
                             ELSE WindowFrom(i) + n * Windows[i]]

(* Plausible bug: the dimension's watermark of the tick before is used.    *)
FindsNull_Early(join, off) ==
    \/ watermark[join.dim] = NoTime
    \/ watermark[join.dim] < TimeAt(join.fact, off)

(* A fact finds null when its dimension's watermark at the end of the tick *)
(* has not reached it.                                                     *)
FindsNull(join, off) ==
    \/ watermark'[join.dim] = NoTime
    \/ watermark'[join.dim] < TimeAt(join.fact, off)

ProcessJoins ==
    /\ facts' = [j \in DOMAIN Joins |-> facts[j] + Len(results[Joins[j].fact])]
    /\ nulls' = [j \in DOMAIN Joins |->
         nulls[j] + Cardinality({off \in RangeOf(results[Joins[j].fact]) :
                                   FindsNull(Joins[j], off)})]

Ingest ==
    /\ pc = "ingest"
    /\ watermark' = [t \in Topics |-> WatermarkAfter(t)]
    /\ consumerLag' = lag
    /\ ProcessJoins
    /\ AdvanceWindows(Global(watermark'))
    /\ ingested' = [t \in Topics |-> ingested[t] \o results[t]]
    /\ results' = [t \in Topics |-> << >>]
    /\ pc' = "sleep"
    /\ UNCHANGED <<dials, high, client, delta, carry, remaining, lag, credit>>

(* sleep(tick_seconds); delta is all the time since the tick began.        *)
Sleep ==
    /\ pc = "sleep"
    /\ \E d \in Delays :
         /\ delta' = d
         /\ idle' = IF idle + d <= MaxPollInterval THEN idle + d
                                                   ELSE MaxPollInterval + 1
    /\ pc' = "top"
    /\ UNCHANGED <<dials, high, fetched, start, assigned, paused, carry,
                   remaining, results, lag, state, history>>
-----------------------------------------------------------------------------
(* PUT /api/consumer/topics/{topic}.                                       *)
PutRate(t, r) ==
    /\ puts < MaxPuts
    /\ puts' = puts + 1
    /\ rate' = [rate EXCEPT ![t] = r]
    /\ UNCHANGED <<high, client, loop, state, history>>

(* The sink of the same run delivers the topic's next record.              *)
Deliver(t) ==
    /\ high[t] < Len(Broker[t])
    /\ high' = [high EXCEPT ![t] = @ + 1]
    /\ UNCHANGED <<dials, client, loop, state, history>>

(* The lifespan cancels the task at whichever await it stands.             *)
Cancel ==
    /\ MayFail
    /\ pc \in {"pull", "poll", "lag", "sleep"}
    /\ pc' = "cancelled"
    /\ UNCHANGED <<dials, high, client, delta, carry, remaining, results, lag,
                   state, history>>

Stopped == pc \in {"failed", "cancelled"} /\ UNCHANGED vars

PollAny == \E t \in Topics : PollRecord(t)

LoopStep == \/ StartTick \/ PauseResume \/ Assign \/ PollAny \/ PullReturns
            \/ PollFails \/ ReadLag \/ Ingest \/ Sleep

Next == \/ LoopStep
        \/ \E t \in Topics : Deliver(t) \/ \E r \in Rates : PutRate(t, r)
        \/ Cancel \/ Stopped

Spec == Init /\ [][Next]_vars

(* The loop runs; the join completes and the broker answers now and then;  *)
(* the producer delivers what it has.                                      *)
FairSpec ==
    /\ Spec
    /\ WF_vars(LoopStep) /\ SF_vars(Assign) /\ SF_vars(PollAny)
    /\ WF_vars(\E t \in Topics : Deliver(t))
-----------------------------------------------------------------------------
(* The variables hold what ConsumerState's annotations say.                *)
TypeOK ==
    /\ rate \in [Topics -> Rates] /\ puts \in 0..MaxPuts
    /\ high \in [Topics -> Nat] /\ fetched \in [Topics -> Nat]
    /\ start \in [Topics -> Nat] /\ idle \in 0..(MaxPollInterval + 1)
    /\ \A t \in Topics : start[t] <= fetched[t] /\ fetched[t] <= high[t]
    /\ assigned \in BOOLEAN /\ paused \subseteq Topics
    /\ pc \in {"top", "pull", "poll", "lag", "ingest", "sleep",
               "failed", "cancelled"}
    /\ delta \in Nat
    /\ carry \in [Topics -> 0..(RateUnit - 1)]
    /\ remaining \in [Topics -> Nat]
    /\ results \in [Topics -> Seq(Nat)] /\ ingested \in [Topics -> Seq(Nat)]
    /\ lag \in [Topics -> Nat] /\ consumerLag \in [Topics -> Nat]
    /\ watermark \in [Topics -> TimeOrNone] /\ origin \in TimeOrNone
    /\ fired \in [DOMAIN Windows -> Nat]
    /\ latestEnd \in [DOMAIN Windows -> TimeOrNone]
    /\ facts \in [DOMAIN Joins -> Nat] /\ nulls \in [DOMAIN Joins -> Nat]
    /\ credit \in [Topics -> Nat]

(* What a run may read of a topic is in time order: the topic holds one    *)
(* run, or what an earlier run left is skipped and this run's is.          *)
OneTimeline ==
    \A t \in Topics : \A i, j \in DOMAIN Broker[t] :
      i <= j /\ ("earliest" \in Resets \/ Earlier[t] < i) =>
        Broker[t][i] <= Broker[t][j]

(* On such topics no watermark runs back, the global one included.         *)
WatermarksAdvance ==
    [][/\ \A t \in Topics : watermark[t] # NoTime =>
            watermark'[t] # NoTime /\ watermark[t] <= watermark'[t]
       /\ Global(watermark) # NoTime =>
            /\ Global(watermark') # NoTime
            /\ Global(watermark) <= Global(watermark')]_vars

(* The windows fired, counted up tick by tick, are exactly the windows     *)
(* from the origin that the global watermark has closed: none skipped by a *)
(* jump, none fired twice, none while a stalled topic holds the watermark. *)
WindowsFollowGlobal ==
    origin # NoTime =>
      \A i \in DOMAIN Windows :
        /\ fired[i] = (Global(watermark) - origin) \div Windows[i]
        /\ latestEnd[i] = IF fired[i] = 0 THEN NoTime
                                          ELSE origin + fired[i] * Windows[i]

(* Event time only moves on, and windows close with it.                    *)
EventTimeAdvances == WatermarksAdvance /\ []WindowsFollowGlobal

(* However the rate is turned, a topic never yields more records than the  *)
(* rates in force have earned it since the run began.                      *)
PullsWithinCredit ==
    \A t \in Topics :
      RateUnit * (Len(ingested[t]) + Len(results[t])) <= credit[t]

(* Every ingested fact is counted once; every fact still ahead of its      *)
(* dimension was counted null; a topic joined to itself never finds null.  *)
JoinsCountFacts ==
    \A j \in DOMAIN Joins :
      LET f == Joins[j].fact
          d == Joins[j].dim
          ahead == {i \in DOMAIN ingested[f] :
                      \/ watermark[d] = NoTime
                      \/ watermark[d] < TimeAt(f, ingested[f][i])}
      IN  /\ facts[j] = Len(ingested[f])
          /\ Cardinality(ahead) <= nulls[j]
          /\ f = d => nulls[j] = 0

(* Every record pulled is paid for by the rates and counted once.          *)
RecordsAccounted == TypeOK /\ PullsWithinCredit /\ JoinsCountFacts

(* Every record the client has read past was pulled, in offset order:      *)
(* nothing the broker delivered is skipped.                                *)
NothingSkipped ==
    \A t \in Topics :
      LET pulled == ingested[t] \o results[t]
      IN  pc \notin {"failed", "cancelled"} =>
            /\ Len(pulled) = fetched[t] - start[t]
            /\ \A i \in DOMAIN pulled : pulled[i] = start[t] + i - 1

(* A consumer left running at rates above zero, and never paused for       *)
(* longer than the client allows, reads every topic to its end unless it   *)
(* is stopped, also when one tick earns a topic less than one record.      *)
CatchesUp ==
    []~Evicted /\ <>[](\A t \in Topics : rate[t] > 0) =>
      <>(\/ pc \in {"failed", "cancelled"}
         \/ \A t \in Topics : fetched[t] = Len(Broker[t]))

=============================================================================

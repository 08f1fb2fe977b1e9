------------------------ MODULE MixerConsumer_proofs ------------------------
(***************************************************************************)
(* Credit, joins, watermarks and windows of the consumer instrument, for   *)
(* every set of topics, windows and joins, every sequence of rates and     *)
(* delays and wherever polls come back empty or fail.                      *)
(*                                                                         *)
(* What depends on event time holds on topics that are one timeline for    *)
(* the run (OneTimeline): a watermark is the time of the last record, not  *)
(* the greatest.                                                           *)
(***************************************************************************)
EXTENDS MixerConsumer, FiniteSetTheorems, SequenceTheorems, WellFoundedInduction, TLAPS

Pulled(t) == Len(ingested[t]) + Len(results[t])

\* Ends and beginnings: the log holds what it ever holds, and a run that skips what
\* an earlier one left begins behind it.
OffsetsInStep ==
    \A t \in Topics :
        /\ Earlier[t] <= high[t] /\ high[t] <= Len(Broker[t])
        /\ assigned => "earliest" \in Resets \/ Earlier[t] <= start[t]
        /\ ~assigned => ingested[t] = << >> /\ results[t] = << >>

Increasing(s) == \A i, j \in DOMAIN s : i < j => s[i] < s[j]

\* The offsets a topic has yielded lie in order between its first and its next.
PulledInOrder ==
    \A t \in Topics :
        /\ Increasing(ingested[t]) /\ Increasing(results[t])
        /\ \A i \in DOMAIN ingested[t] : start[t] <= ingested[t][i] /\ ingested[t][i] < fetched[t]
        /\ \A i \in DOMAIN results[t] : start[t] <= results[t][i] /\ results[t][i] < fetched[t]
        /\ \A i \in DOMAIN ingested[t], j \in DOMAIN results[t] : ingested[t][i] < results[t][j]
        /\ start[t] + Pulled(t) <= fetched[t]

PullInv == TypeOK /\ OffsetsInStep /\ PulledInOrder

\* The records pulled, those still in the budget and the fraction carried are what
\* the rates have earned; the count of it stops beyond the whole topic.
Cap(t) == (Len(Broker[t]) + 1) * RateUnit

CreditKept ==
    \A t \in Topics :
        \/ credit[t] = Cap(t)
        \/ RateUnit * (Pulled(t) + remaining[t]) + carry[t] <= credit[t]

\* A watermark is the time of the last record ingested.
WatermarkIsLast ==
    \A t \in Topics :
        watermark[t] = IF ingested[t] = << >> THEN NoTime ELSE TimeAt(t, Last(ingested[t]))

\* No window before the first global watermark, and that one stands.
OriginInStep ==
    /\ origin = NoTime =>
          \A i \in DOMAIN Windows : fired[i] = 0 /\ latestEnd[i] = NoTime
    /\ origin # NoTime => Global(watermark) # NoTime /\ origin <= Global(watermark)

TimeInv == PullInv /\ WatermarkIsLast /\ OriginInStep /\ WindowsFollowGlobal

-----------------------------------------------------------------------------
(* Arithmetic, least elements, sequences.                                  *)

LEMMA DivFacts ==
    ASSUME NEW a \in Nat, NEW d \in Nat \ {0}
    PROVE  /\ a \div d \in Nat /\ a % d \in 0..(d - 1)
           /\ d * (a \div d) + (a % d) = a
OBVIOUS

LEMMA QuotientBounds ==
    ASSUME NEW a \in Nat, NEW d \in Nat \ {0}, NEW q, q = a \div d
    PROVE  q \in Nat /\ q * d \in Nat /\ q * d <= a /\ a < q * d + d
<1>1. q \in Nat
  OBVIOUS
<1>2. q * d <= a /\ a < (q + 1) * d
  OBVIOUS
<1>3. (q + 1) * d = q * d + d /\ q * d \in Nat
  BY <1>1
<1> QED
  BY <1>1, <1>2, <1>3

LEMMA Quotient ==
    ASSUME NEW a \in Int, NEW d \in Nat \ {0}, NEW q \in Int, q * d <= a, a < (q + 1) * d
    PROVE  a \div d = q
<1> DEFINE p == a \div d
<1>1. p \in Int /\ p * d <= a /\ a < (p + 1) * d
  OBVIOUS
<1> HIDE DEF p
<1>2. ~(p < q)
  <2> SUFFICES ASSUME p < q PROVE FALSE
    OBVIOUS
  <2>1. (p + 1) * d <= q * d
    BY <1>1
  <2> QED
    BY <1>1, <2>1
<1>3. ~(q < p)
  <2> SUFFICES ASSUME q < p PROVE FALSE
    OBVIOUS
  <2>1. (q + 1) * d <= p * d
    BY <1>1
  <2> QED
    BY <1>1, <2>1
<1> QED
  BY <1>1, <1>2, <1>3 DEF p

LEMMA Scale ==
    ASSUME NEW u \in Nat, NEW a \in Nat, NEW b \in Nat
    PROVE  u * (a + b) = u * a + u * b /\ u * a \in Nat
OBVIOUS

LEMMA ScaleMonotone ==
    ASSUME NEW u \in Nat, NEW a \in Nat, NEW b \in Nat, a <= b
    PROVE  u * a <= u * b
<1>1. u * b = u * a + u * (b - a) /\ u * (b - a) \in Nat
  OBVIOUS
<1> QED
  BY <1>1

\* A finite set of times has a least one.
LEMMA LeastExists ==
    ASSUME NEW S, IsFiniteSet(S), S # {}, S \subseteq Int
    PROVE  \E w \in S : \A x \in S : w <= x
<1> DEFINE Below(y) == {x \in S : x < y}
           T == {Below(y) : y \in S}
<1>1. T \subseteq FiniteSubsetsOf(S) /\ T # {}
  <2>1. \A y \in S : IsFiniteSet(Below(y))
    BY FS_Subset
  <2> QED
    BY <2>1 DEF FiniteSubsetsOf
<1>2. PICK m \in T : \A n \in T : <<n, m>> \notin StrictSubsetOrdering(S)
  <2> HIDE DEF T
  <2> QED
    BY <1>1, FS_StrictSubsetOrderingWellFounded, WFMin
<1>3. PICK w \in S : m = Below(w)
  OBVIOUS
<1>4. ASSUME NEW x \in S, x < w PROVE FALSE
  <2>0. Below(x) \in T
    OBVIOUS
  <2>1. Below(x) \subseteq Below(w) /\ x \in Below(w) /\ x \notin Below(x)
    <3>1. ASSUME NEW y \in S, y < x PROVE y < w
      <4>1. y \in Int /\ x \in Int /\ w \in Int
        OBVIOUS
      <4> QED
        BY <1>4, <3>1, <4>1
    <3>2. ~(x < x)
      <4>1. x \in Int
        OBVIOUS
      <4> QED
        BY <4>1
    <3> QED
      BY <1>4, <3>1, <3>2
  <2>2. Below(x) \subseteq S /\ Below(w) \subseteq S
    OBVIOUS
  <2> HIDE DEF T, Below
  <2>3. <<Below(x), Below(w)>> \in StrictSubsetOrdering(S)
    BY <2>1, <2>2 DEF StrictSubsetOrdering
  <2> QED
    BY <1>2, <1>3, <2>0, <2>3
<1> QED
  BY <1>4

LEMMA RangeIsFinite ==
    ASSUME NEW S, NEW s \in Seq(S)
    PROVE  IsFiniteSet(RangeOf(s))
<1>1. IsFiniteSet(DOMAIN s)
  BY LenProperties, FS_Interval
<1>2. s \in Surjection(DOMAIN s, RangeOf(s))
  BY LenProperties DEF Surjection, RangeOf
<1> QED
  BY <1>1, <1>2, FS_Surjection

\* A count of positions is no more than the count of what is at them.
LEMMA PositionsCount ==
    ASSUME NEW S, NEW s \in Seq(S), NEW P \in SUBSET DOMAIN s, NEW R \in SUBSET RangeOf(s),
           \A i \in P : s[i] \in R, \A i, j \in P : i # j => s[i] # s[j]
    PROVE  IsFiniteSet(P) /\ IsFiniteSet(R) /\ Cardinality(P) <= Cardinality(R)
<1>1. IsFiniteSet(R)
  BY RangeIsFinite, FS_Subset
<1> DEFINE f == [i \in P |-> s[i]]
<1>2. f \in Injection(P, R)
  BY DEF Injection, IsInjective
<1> QED
  BY <1>1, <1>2, FS_Injection
-----------------------------------------------------------------------------
(* The global watermark.                                                   *)

LEMMA GlobalFacts ==
    ASSUME NEW wm \in [Topics -> TimeOrNone]
    PROVE  /\ Global(wm) = NoTime <=> Gating = {} \/ \E t \in Gating : wm[t] = NoTime
           /\ Global(wm) # NoTime =>
                 /\ Global(wm) \in Int
                 /\ \A t \in Gating : wm[t] # NoTime /\ Global(wm) <= wm[t]
                 /\ \E t \in Gating : Global(wm) = wm[t]
<1>1. CASE Gating = {} \/ \E t \in Gating : wm[t] = NoTime
  BY <1>1 DEF Global
<1>2. CASE ~(Gating = {} \/ \E t \in Gating : wm[t] = NoTime)
  <2> DEFINE S == {wm[t] : t \in Gating}
  <2>1. Gating \subseteq Topics /\ IsFiniteSet(Gating)
    BY ConsumerAssumption, FS_Subset
  <2>2. S \subseteq Int /\ S # {}
    BY <1>2, <2>1 DEF TimeOrNone
  <2>3. IsFiniteSet(S)
    <3>1. [t \in Gating |-> wm[t]] \in Surjection(Gating, S)
      BY DEF Surjection
    <3> QED
      BY <2>1, <3>1, FS_Surjection
  <2>4. \E w \in S : \A x \in S : w <= x
    BY <2>2, <2>3, LeastExists
  <2>5. Global(wm) = CHOOSE w \in S : \A t \in Gating : w <= wm[t]
    BY <1>2 DEF Global
  <2>6. Global(wm) \in S /\ \A t \in Gating : Global(wm) <= wm[t]
    BY <2>4, <2>5
  <2>7. NoTime \notin Int
    BY ConsumerAssumption
  <2> QED
    BY <1>2, <2>2, <2>6, <2>7
<1> QED
  BY <1>1, <1>2

\* When no watermark runs back the least of them does not either.
LEMMA GlobalMonotone ==
    ASSUME NEW wm \in [Topics -> TimeOrNone], NEW after \in [Topics -> TimeOrNone],
           \A t \in Topics : wm[t] # NoTime => after[t] # NoTime /\ wm[t] <= after[t],
           Global(wm) # NoTime
    PROVE  Global(after) # NoTime /\ Global(wm) <= Global(after)
<1>1. Gating \subseteq Topics
  BY ConsumerAssumption
<1>2. Gating # {} /\ \A t \in Gating : wm[t] # NoTime /\ Global(wm) <= wm[t] /\ wm[t] \in Int
  BY <1>1, GlobalFacts DEF TimeOrNone
<1>3. Global(after) # NoTime
  BY <1>1, <1>2, GlobalFacts
<1>4. PICK t \in Gating : Global(after) = after[t]
  BY <1>3, GlobalFacts
<1>5. wm[t] <= after[t] /\ after[t] \in Int /\ Global(wm) \in Int
  BY <1>1, <1>2, <1>3, <1>4, GlobalFacts DEF TimeOrNone
<1> QED
  BY <1>2, <1>3, <1>4, <1>5

-----------------------------------------------------------------------------
(* Type correctness.                                                       *)

LEMMA WindowFacts ==
    /\ \A i \in DOMAIN Windows : Windows[i] \in Nat \ {0}
    /\ \A j \in DOMAIN Joins : Joins[j].fact \in Topics /\ Joins[j].dim \in Topics
<1>1. ASSUME NEW i \in DOMAIN Windows PROVE Windows[i] \in Nat \ {0}
  <2> DEFINE N == Nat \ {0}
  <2>1. Windows \in Seq(N)
    BY ConsumerAssumption
  <2> HIDE DEF N
  <2>2. i \in 1..Len(Windows)
    BY <2>1, LenProperties
  <2>3. Windows[i] \in N
    BY <2>1, <2>2, ElementOfSeq
  <2> QED
    BY <2>3 DEF N
<1>2. ASSUME NEW j \in DOMAIN Joins
      PROVE  Joins[j].fact \in Topics /\ Joins[j].dim \in Topics
  <2> DEFINE J == [fact : Topics, dim : Topics]
  <2>1. Joins \in Seq(J)
    BY ConsumerAssumption
  <2> HIDE DEF J
  <2>2. j \in 1..Len(Joins)
    BY <2>1, LenProperties
  <2>3. Joins[j] \in J
    BY <2>1, <2>2, ElementOfSeq
  <2> QED
    BY <2>3 DEF J
<1> QED
  BY <1>1, <1>2

LEMMA TimeAtType ==
    ASSUME OffsetsInStep, PulledInOrder, TypeOK, NEW t \in Topics
    PROVE  /\ \A i \in DOMAIN results[t] : TimeAt(t, results[t][i]) \in Int
           /\ \A i \in DOMAIN ingested[t] : TimeAt(t, ingested[t][i]) \in Int
<1>1. Broker[t] \in Seq(Int) /\ high[t] \in Nat /\ fetched[t] \in Nat /\ fetched[t] <= high[t]
      /\ high[t] <= Len(Broker[t]) /\ Len(Broker[t]) \in Nat
  BY ConsumerAssumption, LenProperties DEF TypeOK, OffsetsInStep
<1>2. \A off \in Nat : off < fetched[t] => TimeAt(t, off) \in Int
  <2> SUFFICES ASSUME NEW off \in Nat, off < fetched[t] PROVE TimeAt(t, off) \in Int
    OBVIOUS
  <2>1. off + 1 \in 1..Len(Broker[t])
    BY <1>1
  <2> QED
    BY <1>1, <2>1, ElementOfSeq DEF TimeAt
<1>3. /\ \A i \in DOMAIN results[t] : results[t][i] \in Nat
      /\ \A i \in DOMAIN ingested[t] : ingested[t][i] \in Nat
  <2>1. results[t] \in Seq(Nat) /\ ingested[t] \in Seq(Nat)
    BY DEF TypeOK
  <2> QED
    BY <2>1
<1>4. /\ \A i \in DOMAIN results[t] : results[t][i] < fetched[t]
      /\ \A i \in DOMAIN ingested[t] : ingested[t][i] < fetched[t]
  BY DEF PulledInOrder
<1> QED
  BY <1>2, <1>3, <1>4

LEMMA InitPullInv == Init => PullInv
<1> SUFFICES ASSUME Init PROVE PullInv
  OBVIOUS
<1>1. TypeOK
  <2>1. << >> \in Seq(Nat)
    BY EmptySeq
  <2>2. RateUnit \in Nat \ {0} /\ RateUnit \in Rates /\ MaxPuts \in Nat /\ MaxPollInterval \in Nat
    BY ConsumerAssumption
  <2>3. Earlier \in [Topics -> Nat] /\ high = Earlier
    BY ConsumerAssumption DEF Init
  <2>4. \A t \in Topics : start[t] <= fetched[t] /\ fetched[t] <= high[t]
    BY <2>3 DEF Init
  <2>5. /\ rate \in [Topics -> Rates]
        /\ high \in [Topics -> Nat] /\ fetched \in [Topics -> Nat]
        /\ start \in [Topics -> Nat]
    BY <2>2, <2>3 DEF Init
  <2>9. puts \in 0..MaxPuts /\ idle \in 0..(MaxPollInterval + 1) /\ delta \in Nat
    BY <2>2 DEF Init
  <2>10. assigned \in BOOLEAN /\ paused \subseteq Topics
    BY DEF Init
  <2>6. /\ carry \in [Topics -> 0..(RateUnit - 1)]
        /\ remaining \in [Topics -> Nat]
        /\ results \in [Topics -> Seq(Nat)] /\ ingested \in [Topics -> Seq(Nat)]
        /\ lag \in [Topics -> Nat] /\ consumerLag \in [Topics -> Nat]
        /\ credit \in [Topics -> Nat]
    BY <2>1, <2>2 DEF Init
  <2>7. /\ watermark \in [Topics -> TimeOrNone] /\ origin \in TimeOrNone
        /\ latestEnd \in [DOMAIN Windows -> TimeOrNone]
    BY DEF Init, TimeOrNone
  <2>8. /\ fired \in [DOMAIN Windows -> Nat]
        /\ facts \in [DOMAIN Joins -> Nat] /\ nulls \in [DOMAIN Joins -> Nat]
        /\ pc \in {"top", "pull", "poll", "lag", "ingest", "sleep", "failed", "cancelled"}
    BY DEF Init
  <2> QED
    BY <2>4, <2>5, <2>6, <2>7, <2>8, <2>9, <2>10 DEF TypeOK
<1>2. OffsetsInStep
  BY ConsumerAssumption DEF Init, OffsetsInStep
<1>3. PulledInOrder
  BY DEF Init, PulledInOrder, Increasing, Pulled
<1> QED
  BY <1>1, <1>2, <1>3 DEF PullInv

LEMMA StartTickType == ASSUME TypeOK, StartTick PROVE TypeOK'
<1>1. ASSUME NEW t \in Topics
      PROVE  /\ Raw(t) \in Nat /\ Raw(t) \div RateUnit \in Nat
             /\ Raw(t) % RateUnit \in 0..(RateUnit - 1)
             /\ Saturated(t, credit[t] + rate[t] * delta) \in Nat
  <2>0. Broker[t] \in Seq(Int) /\ RateUnit \in Nat \ {0} /\ Rates \subseteq Nat
    BY ConsumerAssumption
  <2>1. /\ rate[t] \in Nat /\ delta \in Nat /\ carry[t] \in Nat /\ credit[t] \in Nat
        /\ RateUnit \in Nat \ {0} /\ Len(Broker[t]) \in Nat
    <3>1. rate[t] \in Nat
      BY <2>0 DEF TypeOK
    <3>2. carry[t] \in Nat
      BY <2>0 DEF TypeOK
    <3>3. Len(Broker[t]) \in Nat
      BY <2>0, LenProperties
    <3> QED
      BY <2>0, <3>1, <3>2, <3>3 DEF TypeOK
  <2>2. rate[t] * delta \in Nat
    BY <2>1
  <2>3. Raw(t) \in Nat
    BY <2>1, <2>2 DEF Raw
  <2>4. (Len(Broker[t]) + 1) * RateUnit \in Nat
    BY <2>1
  <2>5. Saturated(t, credit[t] + rate[t] * delta) \in Nat
    BY <2>1, <2>2, <2>4 DEF Saturated
  <2> QED
    BY <2>1, <2>3, <2>5, DivFacts
<1>2. [t \in Topics |-> << >>] \in [Topics -> Seq(Nat)]
  BY EmptySeq
<1> QED
  BY <1>1, <1>2 DEF StartTick, TypeOK, dials, client, state

LEMMA PollRecordType == ASSUME TypeOK, NEW t \in Topics, PollRecord(t) PROVE TypeOK'
<1>1. /\ fetched' \in [Topics -> Nat] /\ start' = start /\ high' = high
      /\ \A u \in Topics : start[u] <= fetched'[u] /\ fetched'[u] <= high[u]
  BY SMTT(20) DEF PollRecord, TypeOK
<1>2. results' \in [Topics -> Seq(Nat)] /\ remaining' \in [Topics -> Nat]
  <2>1. Append(results[t], fetched[t]) \in Seq(Nat)
    BY DEF TypeOK
  <2>2. remaining[t] > 0 => remaining[t] - 1 \in Nat
    BY DEF TypeOK
  <2> QED
    BY ZenonT(30), <2>1, <2>2 DEF PollRecord, TypeOK
<1>3. idle' \in 0..(MaxPollInterval + 1)
  BY ConsumerAssumption DEF PollRecord
<1> QED
  BY <1>1, <1>2, <1>3 DEF PollRecord, TypeOK, dials, state, history

LEMMA AssignType == ASSUME TypeOK, Assign PROVE TypeOK'
<1>1. PICK reset \in Resets : start' = IF reset = "latest" THEN high ELSE start
  BY DEF Assign
<1>2. /\ start' \in [Topics -> Nat] /\ fetched' = start'
      /\ \A t \in Topics : start'[t] <= high[t]
  <2>1. /\ high \in [Topics -> Nat] /\ start \in [Topics -> Nat] /\ fetched \in [Topics -> Nat]
        /\ \A t \in Topics : start[t] <= high[t]
    BY DEF TypeOK
  <2>2. start' = high \/ start' = start
    BY <1>1
  <2> QED
    BY <2>1, <2>2 DEF Assign
<1>3. /\ fetched' \in [Topics -> Nat] /\ high' = high
      /\ \A t \in Topics : start'[t] <= fetched'[t] /\ fetched'[t] <= high'[t]
  BY <1>2 DEF Assign
<1>4. assigned' \in BOOLEAN
  BY DEF Assign
<1>5. /\ UNCHANGED <<rate, puts, idle, paused, pc, delta, carry, remaining, results, lag>>
      /\ UNCHANGED <<watermark, consumerLag, origin, fired, latestEnd, facts, nulls>>
      /\ UNCHANGED <<ingested, credit>>
  BY DEF Assign, dials, loop, state, history
<1>6. /\ rate' \in [Topics -> Rates] /\ puts' \in 0..MaxPuts
      /\ high' \in [Topics -> Nat] /\ start' \in [Topics -> Nat]
      /\ idle' \in 0..(MaxPollInterval + 1) /\ paused' \subseteq Topics
      /\ pc' \in {"top", "pull", "poll", "lag", "ingest", "sleep", "failed", "cancelled"}
      /\ delta' \in Nat
  BY <1>2, <1>3, <1>5 DEF TypeOK
<1>7. /\ carry' \in [Topics -> 0..(RateUnit - 1)]
      /\ remaining' \in [Topics -> Nat]
      /\ results' \in [Topics -> Seq(Nat)] /\ ingested' \in [Topics -> Seq(Nat)]
      /\ lag' \in [Topics -> Nat] /\ consumerLag' \in [Topics -> Nat]
      /\ watermark' \in [Topics -> TimeOrNone] /\ origin' \in TimeOrNone
      /\ fired' \in [DOMAIN Windows -> Nat]
      /\ latestEnd' \in [DOMAIN Windows -> TimeOrNone]
      /\ facts' \in [DOMAIN Joins -> Nat] /\ nulls' \in [DOMAIN Joins -> Nat]
      /\ credit' \in [Topics -> Nat]
  BY <1>5 DEF TypeOK
<1> HIDE DEF Assign
<1> QED
  BY <1>3, <1>4, <1>6, <1>7 DEF TypeOK

LEMMA ReadLagType == ASSUME TypeOK, ReadLag PROVE TypeOK'
<1>1. \A t \in Topics : high[t] - Position(t) \in Nat
  BY DEF Position, TypeOK
<1>2. lag' \in [Topics -> Nat]
  <2>1. CASE lag' = [t \in Topics |-> IF assigned THEN high[t] - Position(t) ELSE 0]
    <3>1. \A t \in Topics : (IF assigned THEN high[t] - Position(t) ELSE 0) \in Nat
      BY <1>1
    <3> QED
      BY <2>1, <3>1
  <2>2. CASE UNCHANGED lag
    BY <2>2 DEF TypeOK
  <2> QED
    BY <2>1, <2>2 DEF ReadLag
<1>3. pc' \in {"ingest", "failed"}
  BY DEF ReadLag
<1>4. UNCHANGED <<dials, high, client, delta, carry, remaining, results, state, history>>
  BY DEF ReadLag
<1> QED
  BY <1>2, <1>3, <1>4 DEF TypeOK, dials, client, state, history

\* The windows hold numbers whatever the watermark does.
LEMMA WindowsType ==
    ASSUME TypeOK, NEW global \in TimeOrNone, AdvanceWindows(global)
    PROVE  /\ origin' \in TimeOrNone /\ fired' \in [DOMAIN Windows -> Nat]
           /\ latestEnd' \in [DOMAIN Windows -> TimeOrNone]
<1>1. CASE global = NoTime
  BY <1>1 DEF AdvanceWindows, TypeOK
<1>2. CASE global # NoTime
  <2>1. global \in Int /\ origin' \in Int
    BY <1>2, ConsumerAssumption DEF AdvanceWindows, TypeOK, TimeOrNone
  <2>2. ASSUME NEW i \in DOMAIN Windows
        PROVE  /\ WindowFrom(i) \in Int
               /\ EndsPassed(WindowFrom(i), Windows[i], global) \in Nat
               /\ WindowFrom(i) + EndsPassed(WindowFrom(i), Windows[i], global) * Windows[i] \in Int
    <3>1. WindowFrom(i) \in Int
      BY <2>1 DEF WindowFrom, TypeOK, TimeOrNone
    <3>2. Windows[i] \in Nat \ {0}
      BY WindowFacts
    <3>3. ~(global < WindowFrom(i)) => (global - WindowFrom(i)) \div Windows[i] \in Nat
      BY <2>1, <3>1, <3>2, DivFacts
    <3>4. EndsPassed(WindowFrom(i), Windows[i], global) \in Nat
      BY <3>3 DEF EndsPassed
    <3> QED
      BY <3>1, <3>2, <3>4
  <2>3. fired' \in [DOMAIN Windows -> Nat]
    BY <1>2, <2>2 DEF AdvanceWindows, TypeOK
  <2>4. latestEnd' \in [DOMAIN Windows -> TimeOrNone]
    BY <1>2, <2>2 DEF AdvanceWindows, TypeOK, TimeOrNone
  <2> QED
    BY <2>1, <2>3, <2>4 DEF TimeOrNone
<1> QED
  BY <1>1, <1>2

LEMMA WatermarkType ==
    ASSUME PullInv, NEW t \in Topics
    PROVE  WatermarkAfter(t) \in TimeOrNone
<1>1. CASE results[t] = << >>
  BY <1>1 DEF WatermarkAfter, PullInv, TypeOK
<1>2. CASE results[t] # << >>
  <2>1. Len(results[t]) \in DOMAIN results[t]
    BY <1>2, EmptySeq, LenProperties DEF PullInv, TypeOK
  <2> QED
    BY <1>2, <2>1, TimeAtType DEF WatermarkAfter, PullInv, Last, TimeOrNone
<1> QED
  BY <1>1, <1>2

LEMMA IngestType == ASSUME PullInv, Ingest PROVE TypeOK'
<1>t. TypeOK
  BY DEF PullInv
<1>1. watermark' \in [Topics -> TimeOrNone]
  BY WatermarkType DEF Ingest
<1>2. Global(watermark') \in TimeOrNone
  BY <1>1, GlobalFacts DEF TimeOrNone
<1>3. /\ origin' \in TimeOrNone /\ fired' \in [DOMAIN Windows -> Nat]
      /\ latestEnd' \in [DOMAIN Windows -> TimeOrNone]
  BY <1>t, <1>2, WindowsType DEF Ingest
<1>4. /\ facts' \in [DOMAIN Joins -> Nat] /\ nulls' \in [DOMAIN Joins -> Nat]
  <2>1. ASSUME NEW j \in DOMAIN Joins
        PROVE  /\ Len(results[Joins[j].fact]) \in Nat
               /\ Cardinality({off \in RangeOf(results[Joins[j].fact]) :
                                 FindsNull(Joins[j], off)}) \in Nat
    <3>1. results[Joins[j].fact] \in Seq(Nat)
      BY <1>t, WindowFacts DEF TypeOK
    <3> QED
      BY <3>1, RangeIsFinite, FS_Subset, FS_CardinalityType, LenProperties
  <2>2. facts \in [DOMAIN Joins -> Nat] /\ nulls \in [DOMAIN Joins -> Nat]
    BY <1>t DEF TypeOK
  <2>3. ASSUME NEW j \in DOMAIN Joins
        PROVE  /\ facts[j] + Len(results[Joins[j].fact]) \in Nat
               /\ nulls[j] + Cardinality({off \in RangeOf(results[Joins[j].fact]) :
                                            FindsNull(Joins[j], off)}) \in Nat
    <3> DEFINE n == Len(results[Joins[j].fact])
               k == Cardinality({off \in RangeOf(results[Joins[j].fact]) :
                                   FindsNull(Joins[j], off)})
    <3>1. n \in Nat /\ k \in Nat
      BY <2>1
    <3>2. facts[j] \in Nat /\ nulls[j] \in Nat
      BY <2>2
    <3> HIDE DEF n, k
    <3>3. facts[j] + n \in Nat /\ nulls[j] + k \in Nat
      BY <3>1, <3>2
    <3> QED
      BY <3>3 DEF n, k
  <2>4. facts' = [j \in DOMAIN Joins |-> facts[j] + Len(results[Joins[j].fact])]
    BY DEF Ingest, ProcessJoins
  <2>5. nulls' = [j \in DOMAIN Joins |->
                    nulls[j] + Cardinality({off \in RangeOf(results[Joins[j].fact]) :
                                              FindsNull(Joins[j], off)})]
    BY DEF Ingest, ProcessJoins
  <2>6. facts' \in [DOMAIN Joins -> Nat]
    BY <2>3, <2>4
  <2>7. nulls' \in [DOMAIN Joins -> Nat]
    BY <2>3, <2>5
  <2> QED
    BY <2>6, <2>7
<1>5. ingested' \in [Topics -> Seq(Nat)] /\ results' \in [Topics -> Seq(Nat)]
  BY <1>t, ConcatProperties, EmptySeq DEF Ingest, TypeOK
<1> QED
  BY <1>t, <1>1, <1>3, <1>4, <1>5 DEF Ingest, TypeOK, dials, client

LEMMA StepTypeOK == PullInv /\ [Next]_vars => TypeOK'
<1> SUFFICES ASSUME PullInv, [Next]_vars PROVE TypeOK'
  OBVIOUS
<1>t. TypeOK
  BY DEF PullInv
<1>1. CASE StartTick
  BY <1>t, <1>1, StartTickType
<1>2. CASE PauseResume
  BY <1>t, <1>2 DEF PauseResume, TypeOK, dials, state, history
<1>3. CASE Assign
  BY <1>t, <1>3, AssignType
<1>4. CASE PollAny
  BY <1>t, <1>4, PollRecordType DEF PollAny
<1>5. CASE PullReturns
  <2>1. idle' \in 0..(MaxPollInterval + 1)
    BY <1>t, <1>5, ConsumerAssumption DEF PullReturns, TypeOK
  <2> QED
    BY <1>t, <1>5, <2>1 DEF PullReturns, TypeOK, dials, state, history
<1>6. CASE PollFails \/ Cancel
  BY <1>t, <1>6 DEF PollFails, Cancel, TypeOK, dials, client, state, history
<1>7. CASE ReadLag
  BY <1>t, <1>7, ReadLagType
<1>8. CASE Ingest
  BY <1>8, IngestType
<1>9. CASE Sleep
  <2>1. PICK d \in Delays :
           /\ delta' = d
           /\ idle' = IF idle + d <= MaxPollInterval THEN idle + d ELSE MaxPollInterval + 1
    BY <1>9 DEF Sleep
  <2>2. delta' \in Nat /\ idle' \in 0..(MaxPollInterval + 1)
    BY <1>t, <2>1, ConsumerAssumption DEF TypeOK
  <2> QED
    BY <1>t, <1>9, <2>2 DEF Sleep, TypeOK, dials, state, history
<1>10. ASSUME NEW t \in Topics, Deliver(t) PROVE TypeOK'
  <2>1. high' \in [Topics -> Nat] /\ \A u \in Topics : fetched[u] <= high'[u]
    BY SMTT(20), <1>t, <1>10 DEF Deliver, TypeOK
  <2> QED
    BY <1>t, <1>10, <2>1 DEF Deliver, TypeOK, dials, client, loop, state, history
<1>11. ASSUME NEW t \in Topics, NEW r \in Rates, PutRate(t, r) PROVE TypeOK'
  <2>1. puts' \in 0..MaxPuts /\ rate' \in [Topics -> Rates]
    BY <1>t, <1>11, ConsumerAssumption DEF PutRate, TypeOK
  <2> QED
    BY <1>t, <1>11, <2>1 DEF PutRate, TypeOK, client, loop, state, history
<1>12. CASE UNCHANGED vars
  BY <1>t, <1>12 DEF vars, dials, client, loop, state, history, TypeOK
<1> QED
  BY <1>1, <1>2, <1>3, <1>4, <1>5, <1>6, <1>7, <1>8, <1>9, <1>10, <1>11, <1>12
     DEF Next, LoopStep, Stopped
-----------------------------------------------------------------------------
(* Offsets.                                                                *)

LEMMA StepOffsets == PullInv /\ [Next]_vars => OffsetsInStep'
<1> SUFFICES ASSUME PullInv, [Next]_vars, NEW u \in Topics
             PROVE  /\ Earlier[u] <= high'[u] /\ high'[u] <= Len(Broker[u])
                    /\ assigned' => "earliest" \in Resets \/ Earlier[u] <= start'[u]
                    /\ ~assigned' => ingested'[u] = << >> /\ results'[u] = << >>
  BY DEF OffsetsInStep
<1>a. /\ Earlier[u] <= high[u] /\ high[u] <= Len(Broker[u])
      /\ assigned => "earliest" \in Resets \/ Earlier[u] <= start[u]
      /\ ~assigned => ingested[u] = << >> /\ results[u] = << >>
  BY DEF PullInv, OffsetsInStep
<1>1. CASE StartTick
  BY <1>a, <1>1 DEF StartTick, client
<1>2. CASE PauseResume
  BY <1>a, <1>2 DEF PauseResume, history
<1>3. CASE Assign
  <2>1. PICK reset \in Resets : start' = IF reset = "latest" THEN high ELSE start
    BY <1>3 DEF Assign
  <2>2. "earliest" \in Resets \/ start' = high
    BY <2>1, ConsumerAssumption
  <2> QED
    BY <1>a, <1>3, <2>2 DEF Assign
<1>4. CASE PollAny
  BY <1>a, <1>4 DEF PollAny, PollRecord
<1>5. CASE PullReturns \/ PollFails \/ ReadLag \/ Sleep \/ Cancel \/ UNCHANGED vars
  BY <1>a, <1>5
     DEF PullReturns, PollFails, ReadLag, Sleep, Cancel, vars, client, loop, history
<1>6. CASE Ingest
  <2>1. ingested[u] = << >> /\ results[u] = << >> => ingested[u] \o results[u] = << >>
    <3>1. << >> \in Seq(Nat)
      BY EmptySeq
    <3> QED
      BY <3>1, ConcatEmptySeq
  <2>2. ingested'[u] = ingested[u] \o results[u] /\ results'[u] = << >>
    BY <1>6 DEF Ingest
  <2>3. UNCHANGED <<high, assigned, start>>
    BY <1>6 DEF Ingest, client
  <2> QED
    BY <1>a, <2>1, <2>2, <2>3
<1>7. ASSUME NEW t \in Topics, Deliver(t)
      PROVE  /\ Earlier[u] <= high'[u] /\ high'[u] <= Len(Broker[u])
             /\ UNCHANGED <<assigned, start, ingested, results>>
  <2>1. high[u] \in Nat /\ Earlier[u] \in Nat /\ high \in [Topics -> Nat]
    BY ConsumerAssumption DEF PullInv, TypeOK
  <2>2. Len(Broker[u]) \in Nat
    <3>1. Broker[u] \in Seq(Int)
      BY ConsumerAssumption
    <3> QED
      BY <3>1, LenProperties
  <2>3. high'[u] = high[u] \/ (u = t /\ high'[u] = high[u] + 1 /\ high[u] < Len(Broker[u]))
    BY <1>7, <2>1 DEF Deliver
  <2>4. UNCHANGED <<assigned, start, ingested, results>>
    BY <1>7 DEF Deliver, client, loop, history
  <2>5. Earlier[u] <= high'[u] /\ high'[u] <= Len(Broker[u])
    BY <1>a, <2>1, <2>2, <2>3
  <2> QED
    BY <2>4, <2>5
<1>8. ASSUME NEW t \in Topics, NEW r \in Rates, PutRate(t, r)
      PROVE  UNCHANGED <<high, assigned, start, ingested, results>>
  BY <1>8 DEF PutRate, client, loop, history
<1> QED
  BY <1>a, <1>1, <1>2, <1>3, <1>4, <1>5, <1>6, <1>7, <1>8 DEF Next, LoopStep, Stopped

LEMMA AppendInOrder ==
    ASSUME NEW s \in Seq(Nat), NEW x \in Nat, Increasing(s), \A i \in DOMAIN s : s[i] < x
    PROVE  /\ Append(s, x) \in Seq(Nat) /\ Len(Append(s, x)) = Len(s) + 1
           /\ Increasing(Append(s, x))
           /\ \A i \in DOMAIN Append(s, x) :
                 \/ i \in DOMAIN s /\ Append(s, x)[i] = s[i]
                 \/ i = Len(s) + 1 /\ Append(s, x)[i] = x
<1>1. /\ Append(s, x) \in Seq(Nat) /\ Len(Append(s, x)) = Len(s) + 1
      /\ Len(s) \in Nat /\ DOMAIN s = 1..Len(s)
      /\ DOMAIN Append(s, x) = 1..(Len(s) + 1)
  OBVIOUS
<1>2. \A i \in DOMAIN Append(s, x) :
         \/ i \in DOMAIN s /\ Append(s, x)[i] = s[i]
         \/ i = Len(s) + 1 /\ Append(s, x)[i] = x
  <2> SUFFICES ASSUME NEW i \in DOMAIN Append(s, x)
               PROVE  \/ i \in DOMAIN s /\ Append(s, x)[i] = s[i]
                      \/ i = Len(s) + 1 /\ Append(s, x)[i] = x
    OBVIOUS
  <2>1. i \in 1..Len(s) \/ i = Len(s) + 1
    BY <1>1
  <2> QED
    BY <1>1, <2>1
<1>3. Increasing(Append(s, x))
  <2> SUFFICES ASSUME NEW i \in DOMAIN Append(s, x), NEW j \in DOMAIN Append(s, x), i < j
               PROVE  Append(s, x)[i] < Append(s, x)[j]
    BY DEF Increasing
  <2>1. i \in DOMAIN s /\ Append(s, x)[i] = s[i]
    BY <1>1, <1>2
  <2> QED
    BY <1>2, <2>1 DEF Increasing
<1> QED
  BY <1>1, <1>2, <1>3

LEMMA ConcatInOrder ==
    ASSUME NEW s \in Seq(Nat), NEW r \in Seq(Nat)
    PROVE  /\ s \o r \in Seq(Nat) /\ Len(s \o r) = Len(s) + Len(r)
           /\ DOMAIN (s \o r) = 1..(Len(s) + Len(r))
           /\ \A i \in DOMAIN (s \o r) :
                 \/ i \in DOMAIN s /\ (s \o r)[i] = s[i]
                 \/ i - Len(s) \in DOMAIN r /\ (s \o r)[i] = r[i - Len(s)]
           /\ (\A i \in DOMAIN s, j \in DOMAIN r : s[i] < r[j]) /\ Increasing(s) /\ Increasing(r)
                 => Increasing(s \o r)
<1>1. /\ Len(s) \in Nat /\ DOMAIN s = 1..Len(s) /\ Len(r) \in Nat /\ DOMAIN r = 1..Len(r)
      /\ s \o r \in Seq(Nat) /\ Len(s \o r) = Len(s) + Len(r)
      /\ DOMAIN (s \o r) = 1..(Len(s) + Len(r))
  BY LenProperties, ConcatProperties
<1>2. ASSUME NEW i \in DOMAIN (s \o r)
      PROVE  \/ i \in DOMAIN s /\ (s \o r)[i] = s[i]
             \/ i - Len(s) \in DOMAIN r /\ (s \o r)[i] = r[i - Len(s)] /\ i > Len(s)
  <2>1. (s \o r)[i] = IF i <= Len(s) THEN s[i] ELSE r[i - Len(s)]
    BY <1>1, ConcatProperties
  <2>2. i \in Nat /\ (i <= Len(s) => i \in 1..Len(s))
        /\ (~(i <= Len(s)) => i - Len(s) \in 1..Len(r) /\ i > Len(s))
    BY <1>1
  <2> QED
    BY <1>1, <2>1, <2>2
<1>3. ASSUME \A i \in DOMAIN s, j \in DOMAIN r : s[i] < r[j], Increasing(s), Increasing(r),
             NEW i \in DOMAIN (s \o r), NEW j \in DOMAIN (s \o r), i < j
      PROVE  (s \o r)[i] < (s \o r)[j]
  <2>1. CASE j \in DOMAIN s /\ (s \o r)[j] = s[j]
    <3>1. i \in DOMAIN s /\ (s \o r)[i] = s[i]
      BY <1>1, <1>2, <1>3, <2>1
    <3> QED
      BY <1>3, <2>1, <3>1 DEF Increasing
  <2>2. CASE j - Len(s) \in DOMAIN r /\ (s \o r)[j] = r[j - Len(s)]
    <3>1. CASE i \in DOMAIN s /\ (s \o r)[i] = s[i]
      BY <1>3, <2>2, <3>1
    <3>2. CASE i - Len(s) \in DOMAIN r /\ (s \o r)[i] = r[i - Len(s)]
      <4>1. i - Len(s) < j - Len(s)
        BY <1>1, <1>3
      <4> QED
        BY <1>3, <2>2, <3>2, <4>1 DEF Increasing
    <3> QED
      BY <1>2, <3>1, <3>2
  <2> QED
    BY <1>2, <2>1, <2>2
<1> QED
  BY <1>1, <1>2, <1>3 DEF Increasing
LEMMA StepPulled == PullInv /\ [Next]_vars => PulledInOrder'
<1> SUFFICES ASSUME PullInv, [Next]_vars, NEW u \in Topics
             PROVE  /\ Increasing(ingested'[u]) /\ Increasing(results'[u])
                    /\ \A i \in DOMAIN ingested'[u] :
                          start'[u] <= ingested'[u][i] /\ ingested'[u][i] < fetched'[u]
                    /\ \A i \in DOMAIN results'[u] :
                          start'[u] <= results'[u][i] /\ results'[u][i] < fetched'[u]
                    /\ \A i \in DOMAIN ingested'[u], j \in DOMAIN results'[u] :
                          ingested'[u][i] < results'[u][j]
                    /\ start'[u] + Pulled(u)' <= fetched'[u]
  BY DEF PulledInOrder
<1>a. /\ Increasing(ingested[u]) /\ Increasing(results[u])
      /\ \A i \in DOMAIN ingested[u] : start[u] <= ingested[u][i] /\ ingested[u][i] < fetched[u]
      /\ \A i \in DOMAIN results[u] : start[u] <= results[u][i] /\ results[u][i] < fetched[u]
      /\ \A i \in DOMAIN ingested[u], j \in DOMAIN results[u] : ingested[u][i] < results[u][j]
      /\ start[u] + Len(ingested[u]) + Len(results[u]) <= fetched[u]
  <2>1. /\ ingested[u] \in Seq(Nat) /\ results[u] \in Seq(Nat)
        /\ start[u] \in Nat /\ fetched[u] \in Nat
    BY DEF PullInv, TypeOK
  <2>2. start[u] + (Len(ingested[u]) + Len(results[u])) <= fetched[u]
    BY DEF PullInv, PulledInOrder, Pulled
  <2> DEFINE n == Len(ingested[u])
             m == Len(results[u])
  <2>3. n \in Nat /\ m \in Nat
    BY <2>1, LenProperties
  <2> HIDE DEF n, m
  <2>4. start[u] + (n + m) <= fetched[u]
    BY <2>2 DEF n, m
  <2>5. start[u] + n + m <= fetched[u]
    BY <2>1, <2>3, <2>4
  <2> QED
    BY <2>5 DEF PullInv, PulledInOrder, n, m
<1>b. /\ ingested[u] \in Seq(Nat) /\ results[u] \in Seq(Nat)
      /\ start[u] \in Nat /\ fetched[u] \in Nat /\ start[u] <= fetched[u]
      /\ results \in [Topics -> Seq(Nat)] /\ fetched \in [Topics -> Nat]
  BY DEF PullInv, TypeOK
<1>c. /\ Len(ingested[u]) \in Nat /\ Len(results[u]) \in Nat
      /\ DOMAIN ingested[u] = 1..Len(ingested[u]) /\ DOMAIN results[u] = 1..Len(results[u])
  BY <1>b, LenProperties
<1>e. DOMAIN << >> = {} /\ Len(<< >>) = 0 /\ Increasing(<< >>)
  BY DEF Increasing
<1>1. CASE StartTick
  <2>1. UNCHANGED <<ingested, start, fetched>> /\ results'[u] = << >>
    BY <1>1 DEF StartTick, client
  <2>2. Pulled(u)' = Len(ingested[u]) + 0
    BY <1>e, <2>1 DEF Pulled
  <2>3. start[u] + Pulled(u)' <= fetched[u]
    BY <1>a, <1>b, <1>c, <2>2
  <2> QED
    BY <1>a, <1>e, <2>1, <2>3
<1>2. CASE UNCHANGED <<ingested, results, start, fetched>>
  BY <1>2 DEF PullInv, PulledInOrder, Pulled
<1>3. CASE Assign
  <2>1. /\ ingested'[u] = << >> /\ results'[u] = << >>
        /\ fetched' = start' /\ start'[u] \in Nat
    BY <1>3, AssignType DEF Assign, loop, history, PullInv, OffsetsInStep, TypeOK
  <2> QED
    BY <1>e, <2>1 DEF Pulled
<1>4. ASSUME NEW t \in Topics, PollRecord(t)
      PROVE  /\ Increasing(ingested'[u]) /\ Increasing(results'[u])
             /\ \A i \in DOMAIN ingested'[u] :
                   start'[u] <= ingested'[u][i] /\ ingested'[u][i] < fetched'[u]
             /\ \A i \in DOMAIN results'[u] :
                   start'[u] <= results'[u][i] /\ results'[u][i] < fetched'[u]
             /\ \A i \in DOMAIN ingested'[u], j \in DOMAIN results'[u] :
                   ingested'[u][i] < results'[u][j]
             /\ start'[u] + Pulled(u)' <= fetched'[u]
  <2>1. UNCHANGED <<ingested, start>> /\ fetched' = [fetched EXCEPT ![t] = @ + 1]
    BY <1>4 DEF PollRecord, history
  <2>2. CASE results'[u] = results[u]
    <3>1. fetched'[u] \in Nat /\ fetched[u] <= fetched'[u]
      BY <1>b, <2>1
    <3>2. \A i \in DOMAIN ingested[u] : ingested[u][i] \in Nat
      BY <1>b
    <3>3. \A i \in DOMAIN results[u] : results[u][i] \in Nat
      BY <1>b
    <3>4. Pulled(u)' = Len(ingested[u]) + Len(results[u])
      BY <2>1, <2>2 DEF Pulled
    <3>5. start'[u] + Pulled(u)' <= fetched'[u]
      BY <1>a, <1>b, <1>c, <2>1, <3>1, <3>4
    <3> QED
      BY <1>a, <1>b, <2>1, <2>2, <3>1, <3>2, <3>3, <3>5
  <2>3. CASE u = t /\ results'[u] = Append(results[u], fetched[u])
    <3> DEFINE a == Append(results[u], fetched[u])
    <3>1. fetched'[u] = fetched[u] + 1
      BY <1>b, <2>1, <2>3
    <3>2. /\ Len(a) = Len(results[u]) + 1 /\ Increasing(a)
          /\ \A i \in DOMAIN a : \/ i \in DOMAIN results[u] /\ a[i] = results[u][i]
                                 \/ a[i] = fetched[u]
      BY <1>a, <1>b, AppendInOrder
    <3> HIDE DEF a
    <3>3. \A i \in DOMAIN ingested[u] : ingested[u][i] \in Nat
      BY <1>b
    <3>4. \A i \in DOMAIN results[u] : results[u][i] \in Nat
      BY <1>b
    <3>5. \A i \in DOMAIN a : start[u] <= a[i] /\ a[i] < fetched[u] + 1
      BY SMTT(20), <1>a, <1>b, <3>2, <3>4
    <3>6. \A i \in DOMAIN ingested[u], j \in DOMAIN a : ingested[u][i] < a[j]
      BY <1>a, <1>b, <3>2
    <3>7. \A i \in DOMAIN ingested[u] : ingested[u][i] < fetched[u] + 1
      BY <1>a, <1>b, <3>3
    <3>8. results'[u] = a
      BY <2>3 DEF a
    <3>9. start[u] + (Len(ingested[u]) + Len(a)) <= fetched[u] + 1
      <4> DEFINE n == Len(ingested[u])
                 m == Len(results[u])
      <4>1. start[u] + n + m <= fetched[u] /\ Len(a) = m + 1
        BY <1>a, <3>2
      <4>2. n \in Nat /\ m \in Nat
        BY <1>c
      <4> HIDE DEF n, m
      <4>3. start[u] + (n + (m + 1)) <= fetched[u] + 1
        BY SMTT(20), <1>b, <4>1, <4>2
      <4> QED
        BY <4>1, <4>3 DEF n
    <3> QED
      BY <1>a, <2>1, <3>1, <3>2, <3>5, <3>6, <3>7, <3>8, <3>9 DEF Pulled
  <2>4. results'[u] = results[u] \/ (u = t /\ results'[u] = Append(results[u], fetched[u]))
    BY <1>4, <1>b DEF PollRecord
  <2> QED
    BY <2>2, <2>3, <2>4
<1>5. CASE Ingest
  <2> DEFINE c == ingested[u] \o results[u]
  <2>1. /\ ingested'[u] = c /\ results'[u] = << >> /\ UNCHANGED <<start, fetched>>
    BY <1>5 DEF Ingest, client
  <2>2. /\ Increasing(c) /\ Len(c) = Len(ingested[u]) + Len(results[u])
        /\ \A i \in DOMAIN c : \/ i \in DOMAIN ingested[u] /\ c[i] = ingested[u][i]
                               \/ i - Len(ingested[u]) \in DOMAIN results[u]
                                  /\ c[i] = results[u][i - Len(ingested[u])]
    BY <1>a, <1>b, ConcatInOrder
  <2> HIDE DEF c
  <2>3. \A i \in DOMAIN c : start[u] <= c[i] /\ c[i] < fetched[u]
    BY <1>a, <2>2
  <2>4. start[u] + (Len(c) + 0) <= fetched[u]
    BY <1>a, <1>b, <1>c, <2>2
  <2> QED
    BY <1>e, <2>1, <2>2, <2>3, <2>4 DEF Pulled
<1>6. CASE \/ PauseResume \/ PullReturns \/ PollFails \/ ReadLag \/ Sleep \/ Cancel
           \/ UNCHANGED vars
  BY <1>2, <1>6
     DEF PauseResume, PullReturns, PollFails, ReadLag, Sleep, Cancel, vars, client, loop, history
<1>7. CASE \E t \in Topics : Deliver(t) \/ \E r \in Rates : PutRate(t, r)
  BY <1>2, <1>7 DEF Deliver, PutRate, client, loop, history
<1> QED
  BY <1>1, <1>3, <1>4, <1>5, <1>6, <1>7 DEF Next, LoopStep, PollAny, Stopped

LEMMA StepPullInv == PullInv /\ [Next]_vars => PullInv'
BY StepTypeOK, StepOffsets, StepPulled DEF PullInv

-----------------------------------------------------------------------------
(* Credit.                                                                 *)

LEMMA InitCredit == Init => CreditKept
<1> SUFFICES ASSUME Init, NEW t \in Topics
             PROVE  RateUnit * (Pulled(t) + remaining[t]) + carry[t] <= credit[t]
  BY DEF CreditKept
<1>1. Pulled(t) = 0 /\ remaining[t] = 0 /\ carry[t] = 0 /\ credit[t] = 0
  BY DEF Init, Pulled
<1>2. RateUnit \in Nat
  BY ConsumerAssumption
<1> QED
  BY <1>1, <1>2

\* What a tick adds to the budget and carries on is what the rate has earned.
LEMMA EarnedIsKept ==
    ASSUME NEW u \in Nat \ {0}, NEW pulled \in Nat, NEW more \in Nat, NEW left \in Nat,
           NEW saved \in Nat, NEW earned \in Nat, NEW paid \in Nat,
           u * (pulled + more + left) + saved <= paid
    PROVE  u * (pulled + ((earned + saved) \div u)) + ((earned + saved) % u) <= paid + earned
<1> DEFINE q == (earned + saved) \div u
           r == (earned + saved) % u
<1>1. q \in Nat /\ r \in Nat /\ u * q + r = earned + saved
  BY DivFacts
<1> HIDE DEF q, r
<1>2. u * (pulled + q) = u * pulled + u * q /\ u * pulled \in Nat /\ u * q \in Nat
  BY <1>1, Scale
<1>3. u * (pulled + (more + left)) = u * pulled + u * (more + left) /\ u * (more + left) \in Nat
  BY Scale
<1>4. u * (pulled + more + left) = u * pulled + u * (more + left)
  BY <1>3
<1>5. u * (pulled + q) + r <= paid + earned
  BY <1>1, <1>2, <1>3, <1>4
<1> QED
  BY <1>5 DEF q, r

LEMMA StepCredit == PullInv /\ CreditKept /\ [Next]_vars => CreditKept'
<1> SUFFICES ASSUME PullInv, CreditKept, [Next]_vars, NEW t \in Topics
             PROVE  \/ credit'[t] = Cap(t)
                    \/ RateUnit * (Pulled(t)' + remaining'[t]) + carry'[t] <= credit'[t]
  BY DEF CreditKept, Cap
<1>a. \/ credit[t] = Cap(t)
      \/ RateUnit * (Len(ingested[t]) + Len(results[t]) + remaining[t]) + carry[t] <= credit[t]
  BY DEF CreditKept, Pulled
<1>b. /\ ingested[t] \in Seq(Nat) /\ results[t] \in Seq(Nat)
      /\ remaining \in [Topics -> Nat] /\ results \in [Topics -> Seq(Nat)]
      /\ rate[t] \in Nat /\ delta \in Nat /\ carry[t] \in Nat /\ credit[t] \in Nat
      /\ RateUnit \in Nat \ {0} /\ fetched[t] \in Nat
  <2>1. RateUnit \in Nat \ {0} /\ Rates \subseteq Nat
    BY ConsumerAssumption
  <2>2. rate[t] \in Nat
    BY <2>1 DEF PullInv, TypeOK
  <2>3. carry[t] \in Nat
    BY <2>1 DEF PullInv, TypeOK
  <2> QED
    BY <2>1, <2>2, <2>3 DEF PullInv, TypeOK
<1>c. Len(ingested[t]) \in Nat /\ Len(results[t]) \in Nat /\ remaining[t] \in Nat
  BY <1>b, LenProperties
<1>d. Cap(t) \in Nat
  <2>1. Broker[t] \in Seq(Int)
    BY ConsumerAssumption
  <2>2. Len(Broker[t]) \in Nat
    BY <2>1, LenProperties
  <2> QED
    BY <1>b, <2>2 DEF Cap
<1>1. CASE StartTick
  <2> DEFINE e == rate[t] * delta
  <2>1. e \in Nat
    BY <1>b
  <2>2. /\ remaining'[t] = (e + carry[t]) \div RateUnit
        /\ carry'[t] = (e + carry[t]) % RateUnit
        /\ credit'[t] = IF credit[t] + e <= Cap(t) THEN credit[t] + e ELSE Cap(t)
        /\ ingested' = ingested /\ results'[t] = << >>
    BY <1>1 DEF StartTick, Raw, Saturated, Cap
  <2>3. Pulled(t)' = Len(ingested[t])
    BY <1>c, <2>2 DEF Pulled
  <2> HIDE DEF e
  <2>4. CASE credit[t] = Cap(t)
    BY <1>b, <1>d, <2>1, <2>2, <2>4
  <2>5. CASE RateUnit * (Len(ingested[t]) + Len(results[t]) + remaining[t]) + carry[t] <= credit[t]
    <3>1. RateUnit * (Len(ingested[t]) + remaining'[t]) + carry'[t] <= credit[t] + e
      BY <1>b, <1>c, <2>1, <2>2, <2>5, EarnedIsKept
    <3> QED
      BY <2>2, <2>3, <3>1
  <2> QED
    BY <1>a, <2>4, <2>5
<1>2. CASE UNCHANGED <<ingested, results, remaining, carry, credit>>
  BY <1>a, <1>2 DEF Pulled
<1>3. ASSUME NEW v \in Topics, PollRecord(v)
      PROVE  /\ Pulled(t)' + remaining'[t] = Len(ingested[t]) + Len(results[t]) + remaining[t]
             /\ UNCHANGED <<carry, credit>>
  <2>1. UNCHANGED <<carry, credit, ingested>>
    BY <1>3 DEF PollRecord, history
  <2>2. \/ results'[t] = results[t] /\ remaining'[t] = remaining[t]
        \/ /\ remaining[t] > 0 /\ remaining'[t] = remaining[t] - 1
           /\ results'[t] = Append(results[t], fetched[t])
    BY <1>3, <1>b DEF PollRecord
  <2>3. Len(Append(results[t], fetched[t])) = Len(results[t]) + 1
    BY <1>b
  <2>4. Pulled(t)' = Len(ingested[t]) + Len(results'[t])
    BY <2>1 DEF Pulled
  <2> DEFINE n == Len(ingested[t])
             m == Len(results[t])
             k == Len(Append(results[t], fetched[t]))
  <2>6. n \in Nat /\ m \in Nat /\ k = m + 1
    BY <1>c, <2>3
  <2>7. \/ Pulled(t)' = n + m /\ remaining'[t] = remaining[t]
        \/ Pulled(t)' = n + k /\ remaining'[t] = remaining[t] - 1
    BY <2>2, <2>4
  <2> HIDE DEF n, m, k
  <2>8. Pulled(t)' + remaining'[t] = n + m + remaining[t]
    BY <1>c, <2>6, <2>7
  <2>5. Pulled(t)' + remaining'[t] = Len(ingested[t]) + Len(results[t]) + remaining[t]
    BY <2>8 DEF n, m
  <2> QED
    BY <2>1, <2>5
<1>4. CASE Ingest
  <2>1. /\ UNCHANGED <<carry, credit, remaining>>
        /\ ingested'[t] = ingested[t] \o results[t] /\ results'[t] = << >>
    BY <1>4 DEF Ingest
  <2>2. Len(ingested[t] \o results[t]) = Len(ingested[t]) + Len(results[t])
    BY <1>b, ConcatProperties
  <2>3. Pulled(t)' = Len(ingested[t]) + Len(results[t])
    BY <1>c, <2>1, <2>2 DEF Pulled
  <2> QED
    BY <1>a, <2>1, <2>3
<1>5. CASE \/ PauseResume \/ Assign \/ PullReturns \/ PollFails \/ ReadLag \/ Sleep \/ Cancel
           \/ UNCHANGED vars
  BY <1>2, <1>5 DEF PauseResume, Assign, PullReturns, PollFails, ReadLag, Sleep, Cancel, vars,
                    client, loop, history
<1>6. CASE \E v \in Topics : Deliver(v) \/ \E r \in Rates : PutRate(v, r)
  BY <1>2, <1>6 DEF Deliver, PutRate, client, loop, history
<1>7. CASE PollAny
  BY <1>a, <1>3, <1>7 DEF PollAny
<1> QED
  BY <1>1, <1>4, <1>5, <1>6, <1>7 DEF Next, LoopStep, Stopped

LEMMA CreditCovers == PullInv /\ CreditKept => PullsWithinCredit
<1> SUFFICES ASSUME PullInv, CreditKept, NEW t \in Topics
             PROVE  RateUnit * (Len(ingested[t]) + Len(results[t])) <= credit[t]
  BY DEF PullsWithinCredit
<1>1. /\ ingested[t] \in Seq(Nat) /\ results[t] \in Seq(Nat) /\ Broker[t] \in Seq(Int)
      /\ RateUnit \in Nat \ {0} /\ remaining[t] \in Nat /\ credit[t] \in Nat
      /\ start[t] \in Nat /\ fetched[t] \in Nat /\ high[t] \in Nat
      /\ fetched[t] <= high[t]
  BY ConsumerAssumption DEF PullInv, TypeOK
<1>2. carry[t] \in Nat
  BY <1>1 DEF PullInv, TypeOK
<1>3. /\ Len(ingested[t]) \in Nat /\ Len(results[t]) \in Nat /\ Len(Broker[t]) \in Nat
  BY <1>1, LenProperties
<1> DEFINE p == Len(ingested[t]) + Len(results[t])
<1>6. p \in Nat
  <2> DEFINE n == Len(ingested[t])
             m == Len(results[t])
  <2>1. n \in Nat /\ m \in Nat
    BY <1>3
  <2> HIDE DEF n, m
  <2>2. n + m \in Nat
    BY <2>1
  <2> QED
    BY <2>2 DEF n, m
<1>4. CASE credit[t] = Cap(t)
  <2>0. start[t] + p <= fetched[t] /\ high[t] <= Len(Broker[t])
    BY DEF PullInv, PulledInOrder, Pulled, OffsetsInStep
  <2>1. start[t] + p <= fetched[t] /\ high[t] <= Len(Broker[t]) /\ p \in Nat
    BY <1>6, <2>0
  <2> HIDE DEF p
  <2>2. p <= Len(Broker[t]) + 1
    BY <1>1, <1>3, <2>1
  <2>3. RateUnit * p <= RateUnit * (Len(Broker[t]) + 1)
    BY <1>1, <1>3, <2>1, <2>2, ScaleMonotone
  <2>4. RateUnit * (Len(Broker[t]) + 1) = Cap(t)
    BY <1>1, <1>3 DEF Cap
  <2> QED
    BY <1>4, <2>3, <2>4 DEF p
<1>5. CASE RateUnit * (Pulled(t) + remaining[t]) + carry[t] <= credit[t]
  <2>0. Pulled(t) = p
    BY DEF Pulled
  <2>1. p \in Nat /\ Pulled(t) = p
    BY <1>6, <2>0
  <2> HIDE DEF p
  <2>2. RateUnit * (p + remaining[t]) = RateUnit * p + RateUnit * remaining[t]
        /\ RateUnit * remaining[t] \in Nat /\ RateUnit * p \in Nat
    BY <1>1, <2>1, Scale
  <2>3. RateUnit * p + RateUnit * remaining[t] + carry[t] <= credit[t]
    BY <1>5, <2>1, <2>2
  <2>4. RateUnit * p <= credit[t]
    BY <1>1, <1>2, <2>2, <2>3
  <2> QED
    BY <2>4 DEF p
<1> QED
  BY <1>4, <1>5 DEF CreditKept
-----------------------------------------------------------------------------
(* Watermarks.                                                             *)

\* Of two records a run may read, the one at the later offset is not the earlier in time.
LEMMA LaterIsNotEarlier ==
    ASSUME PullInv, OneTimeline, NEW t \in Topics, NEW off \in Nat, NEW next \in Nat,
           start[t] <= off, off <= next, next < fetched[t], assigned
    PROVE  TimeAt(t, off) <= TimeAt(t, next)
<1>1. /\ start[t] \in Nat /\ fetched[t] \in Nat /\ high[t] \in Nat /\ fetched[t] <= high[t]
      /\ Broker[t] \in Seq(Int) /\ Earlier[t] \in Nat
  BY ConsumerAssumption DEF PullInv, TypeOK
<1>2. /\ "earliest" \in Resets \/ Earlier[t] <= start[t]
      /\ high[t] <= Len(Broker[t])
  BY DEF PullInv, OffsetsInStep
<1>3. Len(Broker[t]) \in Nat /\ DOMAIN Broker[t] = 1..Len(Broker[t])
  BY <1>1, LenProperties
<1>4. off + 1 \in DOMAIN Broker[t] /\ next + 1 \in DOMAIN Broker[t] /\ off + 1 <= next + 1
  BY <1>1, <1>2, <1>3
<1>5. "earliest" \in Resets \/ Earlier[t] < off + 1
  BY <1>1, <1>2
<1> QED
  BY <1>4, <1>5 DEF OneTimeline, TimeAt

LEMMA PulledFacts ==
    ASSUME PullInv, NEW t \in Topics
    PROVE  /\ ingested[t] \in Seq(Nat) /\ results[t] \in Seq(Nat)
           /\ Len(ingested[t]) \in Nat /\ Len(results[t]) \in Nat
           /\ DOMAIN ingested[t] = 1..Len(ingested[t]) /\ DOMAIN results[t] = 1..Len(results[t])
           /\ \A i \in DOMAIN ingested[t] :
                 /\ ingested[t][i] \in Nat /\ start[t] <= ingested[t][i]
                 /\ ingested[t][i] < fetched[t]
           /\ \A i \in DOMAIN results[t] :
                 /\ results[t][i] \in Nat /\ start[t] <= results[t][i]
                 /\ results[t][i] < fetched[t]
           /\ \A i \in DOMAIN ingested[t], j \in DOMAIN results[t] : ingested[t][i] < results[t][j]
           /\ ingested[t] # << >> \/ results[t] # << >> => assigned
           /\ ingested[t] # << >> => Len(ingested[t]) \in DOMAIN ingested[t]
           /\ results[t] # << >> => Len(results[t]) \in DOMAIN results[t]
<1>1. ingested[t] \in Seq(Nat) /\ results[t] \in Seq(Nat)
  BY DEF PullInv, TypeOK
<1>2. /\ Len(ingested[t]) \in Nat /\ Len(results[t]) \in Nat
      /\ DOMAIN ingested[t] = 1..Len(ingested[t]) /\ DOMAIN results[t] = 1..Len(results[t])
  BY <1>1, LenProperties
<1>3. /\ ingested[t] # << >> => Len(ingested[t]) \in DOMAIN ingested[t]
      /\ results[t] # << >> => Len(results[t]) \in DOMAIN results[t]
  BY <1>1, <1>2, EmptySeq
<1>4. /\ \A i \in DOMAIN ingested[t] : ingested[t][i] \in Nat
      /\ \A i \in DOMAIN results[t] : results[t][i] \in Nat
  BY <1>1
<1>5. ingested[t] # << >> \/ results[t] # << >> => assigned
  BY DEF PullInv, OffsetsInStep
<1> QED
  BY <1>1, <1>2, <1>3, <1>4, <1>5 DEF PullInv, PulledInOrder

LEMMA InitTime == Init => WatermarkIsLast /\ OriginInStep /\ WindowsFollowGlobal
BY DEF Init, WatermarkIsLast, OriginInStep, WindowsFollowGlobal

LEMMA StepWatermarkIsLast == PullInv /\ WatermarkIsLast /\ [Next]_vars => WatermarkIsLast'
<1> SUFFICES ASSUME PullInv, WatermarkIsLast, [Next]_vars, NEW t \in Topics
             PROVE  watermark'[t] = IF ingested'[t] = << >> THEN NoTime
                                    ELSE TimeAt(t, Last(ingested'[t]))
  BY DEF WatermarkIsLast, TimeAt, Last
<1>1. CASE Ingest
  <2>1. /\ watermark'[t] = WatermarkAfter(t)
        /\ ingested'[t] = ingested[t] \o results[t]
    BY <1>1 DEF Ingest
  <2>2. CASE results[t] = << >>
    <3>1. ingested'[t] = ingested[t]
      BY <2>1, <2>2, PulledFacts, ConcatEmptySeq
    <3> QED
      BY <2>1, <2>2, <3>1 DEF WatermarkAfter, WatermarkIsLast
  <2>3. CASE results[t] # << >>
    <3> DEFINE n == Len(ingested[t])
               m == Len(results[t])
               c == ingested[t] \o results[t]
    <3>1. n \in Nat /\ m \in Nat /\ m \in 1..m
      BY <2>3, PulledFacts
    <3>2. Len(c) = n + m /\ \A i \in 1..(n + m) : c[i] = IF i <= n THEN ingested[t][i] ELSE results[t][i - n]
      <4>1. ingested[t] \in Seq(Nat) /\ results[t] \in Seq(Nat)
        BY PulledFacts
      <4> QED
        BY <4>1, ConcatProperties
    <3>3. c # << >>
      <4>1. << >> \in Seq(Nat) /\ Len(<< >>) = 0
        BY EmptySeq
      <4> HIDE DEF n, m
      <4>2. n + m # 0
        BY <3>1
      <4> HIDE DEF c
      <4> QED
        BY <3>2, <4>1, <4>2
    <3>4. Last(c) = Last(results[t])
      <4> HIDE DEF n, m, c
      <4> DEFINE k == n + m
      <4>1. k \in 1..(n + m) /\ ~(k <= n) /\ k - n = m
        BY <3>1
      <4> HIDE DEF k
      <4>2. c[k] = results[t][m]
        BY <3>2, <4>1
      <4>3. c[Len(c)] = results[t][m]
        BY <3>2, <4>2 DEF k
      <4> QED
        BY <4>3 DEF Last, m
    <3> HIDE DEF c
    <3>5. ingested'[t] = c
      BY <2>1 DEF c
    <3> QED
      BY <2>1, <2>3, <3>3, <3>4, <3>5 DEF WatermarkAfter
  <2> QED
    BY <2>2, <2>3
<1>2. CASE UNCHANGED <<watermark, ingested>>
  BY <1>2 DEF WatermarkIsLast
<1>3. CASE \/ StartTick \/ PauseResume \/ Assign \/ PollAny \/ PullReturns \/ PollFails \/ ReadLag
           \/ Sleep \/ Cancel \/ UNCHANGED vars
  BY <1>2, <1>3
     DEF StartTick, PauseResume, Assign, PollAny, PollRecord, PullReturns, PollFails, ReadLag, Sleep,
         Cancel, vars, state, history
<1>4. CASE \E v \in Topics : Deliver(v) \/ \E r \in Rates : PutRate(v, r)
  BY <1>2, <1>4 DEF Deliver, PutRate, state, history
<1> QED
  BY <1>1, <1>3, <1>4 DEF Next, LoopStep, Stopped

\* What an ingest folds in is later than what it had.
LEMMA WatermarkAdvances ==
    ASSUME PullInv, WatermarkIsLast, OneTimeline, Ingest, NEW t \in Topics, watermark[t] # NoTime
    PROVE  watermark'[t] # NoTime /\ watermark[t] <= watermark'[t]
<1>1. watermark'[t] = WatermarkAfter(t)
  BY DEF Ingest
<1>2. watermark[t] \in Int /\ NoTime \notin Int
  BY ConsumerAssumption DEF PullInv, TypeOK, TimeOrNone
<1>3. CASE results[t] = << >>
  BY <1>1, <1>2, <1>3 DEF WatermarkAfter
<1>4. CASE results[t] # << >>
  <2>1. ingested[t] # << >> /\ watermark[t] = TimeAt(t, Last(ingested[t]))
    BY DEF WatermarkIsLast
  <2> DEFINE a == Last(ingested[t])
             b == Last(results[t])
  <2>2. /\ a \in Nat /\ b \in Nat /\ start[t] <= a /\ a < b /\ b < fetched[t] /\ assigned
    BY <1>4, <2>1, PulledFacts DEF Last
  <2>3. TimeAt(t, b) \in Int
    BY <1>4, PulledFacts, TimeAtType DEF PullInv, Last
  <2> HIDE DEF a, b
  <2>4. TimeAt(t, a) <= TimeAt(t, b)
    <3>1. a <= b
      BY <2>2
    <3> QED
      BY <2>2, <3>1, LaterIsNotEarlier
  <2>5. watermark'[t] = TimeAt(t, b)
    BY <1>1, <1>4 DEF WatermarkAfter, b
  <2> QED
    BY <1>2, <2>1, <2>3, <2>4, <2>5 DEF a
<1> QED
  BY <1>3, <1>4

LEMMA GlobalAdvances ==
    ASSUME PullInv, WatermarkIsLast, OneTimeline, Ingest, Global(watermark) # NoTime
    PROVE  Global(watermark') # NoTime /\ Global(watermark) <= Global(watermark')
<1>1. watermark \in [Topics -> TimeOrNone] /\ watermark' \in [Topics -> TimeOrNone]
  BY IngestType DEF PullInv, TypeOK
<1>2. \A t \in Topics : watermark[t] # NoTime => watermark'[t] # NoTime /\ watermark[t] <= watermark'[t]
  BY WatermarkAdvances
<1> QED
  BY <1>1, <1>2, GlobalMonotone

-----------------------------------------------------------------------------
(* Windows.                                                                *)

\* The ends passed since the last one, counted on from it.
LEMMA CountedOn ==
    ASSUME NEW w \in Nat \ {0}, NEW from \in Int, NEW q \in Nat, NEW to \in Int,
           from + q * w <= to
    PROVE  /\ EndsPassed(from + q * w, w, to) \in Nat
           /\ (to - from) \div w = q + EndsPassed(from + q * w, w, to)
           /\ from + q * w + EndsPassed(from + q * w, w, to) * w
                 = from + (q + EndsPassed(from + q * w, w, to)) * w
<1> DEFINE mid == from + q * w
           n == (to - mid) \div w
<1>1. mid \in Int /\ to - mid \in Nat /\ q * w \in Nat
  OBVIOUS
<1>2. EndsPassed(mid, w, to) = n
  BY <1>1 DEF EndsPassed
<1>3. n \in Nat /\ n * w \in Nat /\ n * w <= to - mid /\ to - mid < n * w + w
  <2> DEFINE x == to - mid
  <2>1. x \in Nat /\ n = x \div w
    BY <1>1
  <2> HIDE DEF x, n
  <2>2. n \in Nat /\ n * w \in Nat /\ n * w <= x /\ x < n * w + w
    BY <2>1, QuotientBounds
  <2> QED
    BY <2>2 DEF x
<1>4. mid = from + q * w
  OBVIOUS
<1> HIDE DEF mid, n
<1>5. (q + n) * w = q * w + n * w /\ (q + n + 1) * w = q * w + n * w + w
  BY <1>3
<1>6. (q + n) * w <= to - from /\ to - from < (q + n + 1) * w
  <2> DEFINE a == n * w
             b == q * w
  <2>1. a <= to - mid /\ to - mid < a + w /\ a \in Nat /\ b \in Nat /\ mid = from + b
    BY <1>1, <1>3, <1>4
  <2>2. (q + n) * w = b + a /\ (q + n + 1) * w = b + a + w
    BY <1>5
  <2> HIDE DEF a, b
  <2>3. b + a <= to - from /\ to - from < b + a + w
    BY <1>1, <2>1
  <2> QED
    BY <2>2, <2>3
<1>7. (to - from) \div w = q + n
  <2>1. to - from \in Int /\ q + n \in Int
    BY <1>3
  <2> QED
    BY <1>6, <2>1, Quotient
<1>8. mid + n * w = from + (q + n) * w
  <2> DEFINE a == n * w
             b == q * w
  <2>1. a \in Nat /\ b \in Nat /\ mid = from + b /\ (q + n) * w = b + a
    BY <1>1, <1>3, <1>4, <1>5
  <2> HIDE DEF a, b
  <2>2. mid + a = from + (b + a)
    BY <2>1
  <2> QED
    BY <2>1, <2>2 DEF a
<1> QED
  BY <1>2, <1>3, <1>7, <1>8 DEF mid

LEMMA IngestWindows ==
    ASSUME PullInv, WatermarkIsLast, OriginInStep, WindowsFollowGlobal, OneTimeline, Ingest
    PROVE  OriginInStep' /\ WindowsFollowGlobal'
<1> DEFINE g == Global(watermark')
<1>1. AdvanceWindows(g)
  BY DEF Ingest
<1>2. watermark' \in [Topics -> TimeOrNone] /\ NoTime \notin Int /\ origin \in TimeOrNone
  BY ConsumerAssumption, IngestType DEF PullInv, TypeOK
<1>3. g = NoTime \/ g \in Int
  BY <1>2, GlobalFacts
<1>4. origin # NoTime => origin \in Int /\ g \in Int /\ origin <= g
  <2> SUFFICES ASSUME origin # NoTime PROVE origin \in Int /\ g \in Int /\ origin <= g
    OBVIOUS
  <2>1. Global(watermark) # NoTime /\ origin <= Global(watermark) /\ origin \in Int
    BY <1>2 DEF OriginInStep, TimeOrNone
  <2>2. Global(watermark) \in Int
    BY <2>1, GlobalFacts DEF PullInv, TypeOK
  <2>3. g # NoTime /\ Global(watermark) <= g
    BY <2>1, GlobalAdvances
  <2> QED
    BY <1>3, <2>1, <2>2, <2>3
<1>5. CASE g = NoTime
  <2>1. origin = NoTime /\ origin' = NoTime /\ fired' = fired /\ latestEnd' = latestEnd
    BY <1>1, <1>2, <1>4, <1>5 DEF AdvanceWindows
  <2> QED
    BY <2>1 DEF OriginInStep, WindowsFollowGlobal
<1>6. CASE g # NoTime
  <2>1. /\ origin' = IF origin = NoTime THEN g ELSE origin
        /\ \A i \in DOMAIN Windows :
              LET n == EndsPassed(WindowFrom(i), Windows[i], g)
              IN  /\ fired'[i] = fired[i] + n
                  /\ latestEnd'[i] = IF n = 0 THEN latestEnd[i] ELSE WindowFrom(i) + n * Windows[i]
    BY <1>1, <1>6 DEF AdvanceWindows
  <2>2. origin' \in Int /\ origin' # NoTime /\ g \in Int /\ origin' <= g
    BY <1>2, <1>3, <1>4, <1>6, <2>1
  <2> HIDE DEF g
  <2>3. ASSUME NEW i \in DOMAIN Windows
        PROVE  \E q \in Nat : /\ fired[i] = q /\ origin' + q * Windows[i] <= g
                              /\ latestEnd[i] = IF q = 0 THEN NoTime ELSE origin' + q * Windows[i]
    <3>1. Windows[i] \in Nat \ {0}
      BY WindowFacts
    <3>2. CASE origin = NoTime
      <4>1. fired[i] = 0 /\ latestEnd[i] = NoTime
        BY <3>2 DEF OriginInStep
      <4>2. origin' + 0 * Windows[i] <= g
        BY <2>2, <3>1
      <4> QED
        BY <4>1, <4>2
    <3>3. CASE origin # NoTime
      <4> DEFINE h == Global(watermark)
                 q == (h - origin) \div Windows[i]
      <4>1. h # NoTime /\ origin <= h /\ origin' = origin
        BY <2>1, <3>3 DEF OriginInStep
      <4>2. h \in Int
        BY <4>1, GlobalFacts DEF PullInv, TypeOK
      <4>3. h <= g
        BY <4>1, GlobalAdvances DEF g
      <4>4. fired[i] = q /\ latestEnd[i] = IF q = 0 THEN NoTime ELSE origin + q * Windows[i]
        BY <3>3 DEF WindowsFollowGlobal
      <4> HIDE DEF h
      <4>5. h - origin \in Nat
        BY <1>4, <3>3, <4>1, <4>2
      <4>6. q \in Nat /\ q * Windows[i] <= h - origin
        <5> DEFINE x == h - origin
        <5>1. x \in Nat /\ q = x \div Windows[i]
          BY <4>5
        <5> HIDE DEF x, q
        <5>2. q \in Nat /\ q * Windows[i] <= x
          BY <3>1, <5>1, QuotientBounds
        <5> QED
          BY <5>2 DEF x
      <4> HIDE DEF q
      <4>7. q * Windows[i] \in Nat
        BY <3>1, <4>6
      <4>8. origin' + q * Windows[i] <= g
        BY <1>4, <2>2, <3>3, <4>1, <4>2, <4>3, <4>6, <4>7
      <4> QED
        BY <4>1, <4>4, <4>6, <4>8
    <3> QED
      BY <3>2, <3>3
  <2>4. ASSUME NEW i \in DOMAIN Windows
        PROVE  /\ fired'[i] = (g - origin') \div Windows[i]
               /\ latestEnd'[i] = IF fired'[i] = 0 THEN NoTime ELSE origin' + fired'[i] * Windows[i]
    <3>1. PICK q \in Nat : /\ fired[i] = q /\ origin' + q * Windows[i] <= g
                           /\ latestEnd[i] = IF q = 0 THEN NoTime ELSE origin' + q * Windows[i]
      BY <2>3
    <3>2. Windows[i] \in Nat \ {0}
      BY WindowFacts
    <3> DEFINE mid == origin' + q * Windows[i]
               n == EndsPassed(mid, Windows[i], g)
    <3>3. /\ n \in Nat /\ (g - origin') \div Windows[i] = q + n
          /\ mid + n * Windows[i] = origin' + (q + n) * Windows[i]
      BY ZenonT(30), <2>2, <3>1, <3>2, CountedOn
    <3>4. WindowFrom(i) = mid
      <4>1. CASE q = 0
        <5>1. mid = origin'
          BY <2>2, <3>2, <4>1
        <5> QED
          BY <3>1, <4>1, <5>1 DEF WindowFrom
      <4>2. CASE q # 0
        <5>1. mid \in Int
          BY <2>2, <3>2
        <5>2. latestEnd[i] = mid /\ latestEnd[i] # NoTime
          BY <1>2, <3>1, <4>2, <5>1
        <5> HIDE DEF mid
        <5> QED
          BY <5>2 DEF WindowFrom
      <4> QED
        BY <4>1, <4>2
    <3>5. /\ fired'[i] = q + n
          /\ latestEnd'[i] = IF n = 0 THEN latestEnd[i] ELSE mid + n * Windows[i]
      BY <2>1, <3>1, <3>4
    <3> HIDE DEF mid, n
    <3>6. CASE n = 0
      BY <3>1, <3>3, <3>5, <3>6
    <3>7. CASE n # 0
      <4>1. q + n # 0
        BY <3>3, <3>7
      <4> QED
        BY <3>3, <3>5, <3>7, <4>1
    <3> QED
      BY <3>6, <3>7
  <2>7. Global(watermark') # NoTime /\ origin' # NoTime /\ origin' <= Global(watermark')
    BY <1>6, <2>2 DEF g
  <2>5. OriginInStep'
    BY <2>7 DEF OriginInStep
  <2>6. WindowsFollowGlobal'
    <3> SUFFICES ASSUME NEW i \in DOMAIN Windows
                 PROVE  /\ fired'[i] = (Global(watermark') - origin') \div Windows[i]
                        /\ latestEnd'[i] = IF fired'[i] = 0 THEN NoTime
                                           ELSE origin' + fired'[i] * Windows[i]
      BY DEF WindowsFollowGlobal
    <3> QED
      BY <2>4 DEF g
  <2> QED
    BY <2>5, <2>6
<1> QED
  BY <1>5, <1>6

LEMMA StepTimeInv == ASSUME OneTimeline PROVE TimeInv /\ [Next]_vars => TimeInv'
<1> SUFFICES ASSUME TimeInv, [Next]_vars PROVE TimeInv'
  OBVIOUS
<1>1. PullInv' /\ WatermarkIsLast'
  BY StepPullInv, StepWatermarkIsLast DEF TimeInv
<1>2. CASE Ingest
  BY <1>1, <1>2, IngestWindows DEF TimeInv
<1>3. CASE UNCHANGED <<watermark, origin, fired, latestEnd>>
  BY <1>1, <1>3 DEF TimeInv, OriginInStep, WindowsFollowGlobal
<1>4. CASE \/ StartTick \/ PauseResume \/ Assign \/ PollAny \/ PullReturns \/ PollFails \/ ReadLag
           \/ Sleep \/ Cancel \/ UNCHANGED vars
  BY <1>3, <1>4
     DEF StartTick, PauseResume, Assign, PollAny, PollRecord, PullReturns, PollFails, ReadLag, Sleep,
         Cancel, vars, state
<1>5. CASE \E v \in Topics : Deliver(v) \/ \E r \in Rates : PutRate(v, r)
  BY <1>3, <1>5 DEF Deliver, PutRate, state
<1> QED
  BY <1>2, <1>4, <1>5 DEF Next, LoopStep, Stopped

\* The action part of EventTimeAdvances.
LEMMA StepWatermarks ==
    ASSUME OneTimeline, TimeInv, [Next]_vars
    PROVE  /\ \A t \in Topics : watermark[t] # NoTime =>
                 watermark'[t] # NoTime /\ watermark[t] <= watermark'[t]
           /\ Global(watermark) # NoTime =>
                 Global(watermark') # NoTime /\ Global(watermark) <= Global(watermark')
<1>1. CASE Ingest
  BY <1>1, WatermarkAdvances, GlobalAdvances DEF TimeInv
<1>2. CASE UNCHANGED watermark
  <2>1. \A t \in Topics : watermark[t] # NoTime => watermark[t] \in Int
    BY DEF TimeInv, PullInv, TypeOK, TimeOrNone
  <2>2. Global(watermark) # NoTime => Global(watermark) \in Int
    BY GlobalFacts DEF TimeInv, PullInv, TypeOK
  <2> QED
    BY <1>2, <2>1, <2>2
<1>3. CASE \/ StartTick \/ PauseResume \/ Assign \/ PollAny \/ PullReturns \/ PollFails \/ ReadLag
           \/ Sleep \/ Cancel \/ UNCHANGED vars
  BY <1>2, <1>3
     DEF StartTick, PauseResume, Assign, PollAny, PollRecord, PullReturns, PollFails, ReadLag, Sleep,
         Cancel, vars, state
<1>4. CASE \E v \in Topics : Deliver(v) \/ \E r \in Rates : PutRate(v, r)
  BY <1>2, <1>4 DEF Deliver, PutRate, state
<1> QED
  BY <1>1, <1>3, <1>4 DEF Next, LoopStep, Stopped
-----------------------------------------------------------------------------
(* Joins.                                                                  *)

\* The positions of the ingested facts of a join that are ahead of its dimension.
Ahead(j) == {i \in DOMAIN ingested[Joins[j].fact] :
                \/ watermark[Joins[j].dim] = NoTime
                \/ watermark[Joins[j].dim] < TimeAt(Joins[j].fact, ingested[Joins[j].fact][i])}

\* The offsets of this tick that find null.
Missed(j) == {off \in RangeOf(results[Joins[j].fact]) : FindsNull(Joins[j], off)}

LEMMA JoinsByAhead ==
    JoinsCountFacts <=>
      \A j \in DOMAIN Joins :
         /\ facts[j] = Len(ingested[Joins[j].fact])
         /\ Cardinality(Ahead(j)) <= nulls[j]
         /\ Joins[j].fact = Joins[j].dim => nulls[j] = 0
BY DEF JoinsCountFacts, Ahead

LEMMA InitJoins == Init => JoinsCountFacts
<1> SUFFICES ASSUME Init, NEW j \in DOMAIN Joins
             PROVE  /\ facts[j] = Len(ingested[Joins[j].fact])
                    /\ Cardinality(Ahead(j)) <= nulls[j]
                    /\ Joins[j].fact = Joins[j].dim => nulls[j] = 0
  BY JoinsByAhead
<1>1. Joins[j].fact \in Topics
  BY WindowFacts
<1>2. ingested[Joins[j].fact] = << >> /\ facts[j] = 0 /\ nulls[j] = 0
  BY <1>1 DEF Init
<1>3. Ahead(j) = {}
  BY <1>2 DEF Ahead
<1>4. Cardinality(Ahead(j)) = 0
  BY <1>3, FS_EmptySet
<1> QED
  BY <1>2, <1>4

\* An ingest leaves no fact ahead that neither was before nor is counted now.
LEMMA AheadGrows ==
    ASSUME TimeInv, OneTimeline, Ingest, NEW j \in DOMAIN Joins
    PROVE  Cardinality(Ahead(j)') <= Cardinality(Ahead(j)) + Cardinality(Missed(j))
<1> DEFINE f == Joins[j].fact
           d == Joins[j].dim
           n == Len(ingested[f])
           m == Len(results[f])
           c == ingested[f] \o results[f]
           New == {i \in DOMAIN c : i > n /\ c[i] \in Missed(j)}
<1>1. f \in Topics /\ d \in Topics
  BY WindowFacts
<1>2. /\ ingested[f] \in Seq(Nat) /\ results[f] \in Seq(Nat) /\ n \in Nat /\ m \in Nat
      /\ DOMAIN ingested[f] = 1..n
  BY <1>1, PulledFacts DEF TimeInv
<1>3. /\ c \in Seq(Nat) /\ DOMAIN c = 1..(n + m) /\ Increasing(c)
      /\ \A i \in DOMAIN c : \/ i \in DOMAIN ingested[f] /\ c[i] = ingested[f][i]
                             \/ i - n \in DOMAIN results[f] /\ c[i] = results[f][i - n]
  BY <1>1, <1>2, ConcatInOrder DEF TimeInv, PullInv, PulledInOrder
<1>4. ingested'[f] = c
  BY <1>1 DEF Ingest
<1>5. \A i \in DOMAIN ingested[f] : i \notin Ahead(j) => i \notin Ahead(j)'
  <2> SUFFICES ASSUME NEW i \in DOMAIN ingested[f], i \notin Ahead(j) PROVE i \notin Ahead(j)'
    OBVIOUS
  <2> DEFINE x == TimeAt(f, ingested[f][i])
  <2>1. watermark[d] # NoTime /\ ~(watermark[d] < x)
    BY DEF Ahead
  <2>2. watermark'[d] # NoTime /\ watermark[d] <= watermark'[d]
    BY <1>1, <2>1, WatermarkAdvances DEF TimeInv
  <2>3. x \in Int /\ watermark[d] \in Int /\ watermark'[d] \in Int
    <3>1. watermark[d] \in TimeOrNone /\ watermark'[d] \in TimeOrNone
      BY <1>1, IngestType DEF TimeInv, PullInv, TypeOK
    <3>2. x \in Int
      BY <1>1, TimeAtType DEF TimeInv, PullInv
    <3> QED
      BY <2>1, <2>2, <3>1, <3>2 DEF TimeOrNone
  <2>4. ~(watermark'[d] < x)
    <3> HIDE DEF x
    <3> QED
      BY <2>1, <2>2, <2>3
  <2>5. c[i] = ingested[f][i]
    <3>1. c[i] = IF i <= n THEN ingested[f][i] ELSE results[f][i - n]
      <4>1. i \in 1..(n + m)
        <5> HIDE DEF n, m
        <5> QED
          BY <1>2
      <4> QED
        BY <1>2, <4>1, ConcatProperties
    <3>2. i <= n
      BY <1>2
    <3> QED
      BY <3>1, <3>2
  <2> QED
    BY <1>4, <2>2, <2>4, <2>5 DEF Ahead
<1>6. Ahead(j)' \subseteq Ahead(j) \cup New
  <2> SUFFICES ASSUME NEW i \in Ahead(j)', i \notin Ahead(j) PROVE i \in New
    OBVIOUS
  <2>1. i \in DOMAIN c /\ (watermark'[d] = NoTime \/ watermark'[d] < TimeAt(f, c[i]))
    BY <1>4 DEF Ahead
  <2>2. i \notin DOMAIN ingested[f]
    BY <1>5
  <2>3. i > n /\ i - n \in DOMAIN results[f] /\ c[i] = results[f][i - n]
    <3>1. i \in 1..(n + m) /\ i \notin 1..n
      BY <1>2, <1>3, <2>1, <2>2
    <3>2. i > n
      BY <1>2, <3>1
    <3> QED
      BY <1>3, <2>1, <2>2, <3>2
  <2>4. c[i] \in RangeOf(results[f]) /\ FindsNull(Joins[j], c[i])
    BY <2>1, <2>3 DEF RangeOf, FindsNull
  <2> QED
    BY <2>1, <2>3, <2>4 DEF Missed
<1>7. IsFiniteSet(New) /\ IsFiniteSet(Missed(j)) /\ Cardinality(New) <= Cardinality(Missed(j))
  <2>1. Missed(j) \subseteq RangeOf(c)
    <3> SUFFICES ASSUME NEW k \in DOMAIN results[f] PROVE results[f][k] \in RangeOf(c)
      BY DEF Missed, RangeOf
    <3>1. k \in 1..m
      BY <1>1, PulledFacts DEF TimeInv
    <3> DEFINE p == n + k
    <3>2. p \in 1..(n + m) /\ ~(p <= n) /\ p - n = k
      <4> HIDE DEF n, m
      <4> QED
        BY <1>2, <3>1
    <3> HIDE DEF p
    <3>3. c[p] = IF p <= n THEN ingested[f][p] ELSE results[f][p - n]
      BY <1>2, <3>2, ConcatProperties
    <3>4. c[p] = results[f][k]
      BY <3>2, <3>3
    <3> QED
      BY <1>3, <3>2, <3>4 DEF RangeOf
  <2>2. \A i, k \in New : i # k => c[i] # c[k]
    <3> HIDE DEF c, n, m
    <3>0. c \in Seq(Nat)
      BY <1>3
    <3>1. ASSUME NEW i \in DOMAIN c, NEW k \in DOMAIN c, i < k PROVE c[i] # c[k]
      <4>1. c[i] < c[k]
        BY <1>3, <3>1 DEF Increasing
      <4>2. c[i] \in Nat
        BY <3>0
      <4> QED
        BY <4>1, <4>2
    <3>2. DOMAIN c \subseteq Int /\ New \subseteq DOMAIN c
      <4>1. New \subseteq DOMAIN c
        OBVIOUS
      <4>2. DOMAIN c = 1..Len(c) /\ Len(c) \in Nat
        BY <3>0, LenProperties
      <4> QED
        BY <4>1, <4>2
    <3>3. \A i, k \in New : i # k => i < k \/ k < i
      <4> HIDE DEF New
      <4> QED
        BY <3>2
    <3> HIDE DEF New
    <3> QED
      BY <3>1, <3>2, <3>3
  <2>3. New \subseteq DOMAIN c /\ \A i \in New : c[i] \in Missed(j)
    OBVIOUS
  <2> HIDE DEF New, c
  <2> QED
    BY <1>3, <2>1, <2>2, <2>3, PositionsCount
<1>8. IsFiniteSet(Ahead(j))
  <2>1. Ahead(j) \subseteq DOMAIN ingested[f]
    BY DEF Ahead
  <2>2. IsFiniteSet(DOMAIN ingested[f])
    BY <1>2, FS_Interval
  <2> QED
    BY <2>1, <2>2, FS_Subset
<1> HIDE DEF New
<1>9. /\ IsFiniteSet(Ahead(j) \cup New)
      /\ Cardinality(Ahead(j) \cup New) <= Cardinality(Ahead(j)) + Cardinality(New)
  <2>1. /\ IsFiniteSet(Ahead(j) \cup New) /\ IsFiniteSet(Ahead(j) \cap New)
        /\ Cardinality(Ahead(j) \cup New) =
              Cardinality(Ahead(j)) + Cardinality(New) - Cardinality(Ahead(j) \cap New)
    BY <1>7, <1>8, FS_Union, FS_Intersection
  <2>2. /\ Cardinality(Ahead(j)) \in Nat /\ Cardinality(New) \in Nat
        /\ Cardinality(Ahead(j) \cap New) \in Nat
    BY <1>7, <1>8, <2>1, FS_CardinalityType
  <2> QED
    BY <2>1, <2>2
<1>10. /\ Cardinality(Ahead(j)') <= Cardinality(Ahead(j) \cup New)
       /\ IsFiniteSet(Ahead(j)')
  BY <1>6, <1>9, FS_Subset
<1>11. /\ Cardinality(Ahead(j)') \in Nat /\ Cardinality(Ahead(j) \cup New) \in Nat
       /\ Cardinality(Ahead(j)) \in Nat /\ Cardinality(New) \in Nat
       /\ Cardinality(Missed(j)) \in Nat
  BY <1>7, <1>8, <1>9, <1>10, FS_CardinalityType
<1> QED
  BY <1>7, <1>9, <1>10, <1>11

\* The last record of a tick is as late as any of it.
LEMMA SelfJoinFindsAll ==
    ASSUME TimeInv, OneTimeline, Ingest, NEW j \in DOMAIN Joins, Joins[j].fact = Joins[j].dim
    PROVE  Missed(j) = {}
<1> DEFINE f == Joins[j].fact
           m == Len(results[f])
<1>1. f \in Topics
  BY WindowFacts
<1> SUFFICES ASSUME NEW k \in DOMAIN results[f] PROVE ~FindsNull(Joins[j], results[f][k])
  BY DEF Missed, RangeOf
<1>2. /\ m \in Nat /\ DOMAIN results[f] = 1..m /\ results[f] # << >>
      /\ \A i \in DOMAIN results[f] :
            results[f][i] \in Nat /\ start[f] <= results[f][i] /\ results[f][i] < fetched[f]
      /\ assigned /\ m \in DOMAIN results[f]
  <2>1. results[f] # << >>
    OBVIOUS
  <2> QED
    BY <1>1, <2>1, PulledFacts DEF TimeInv
<1>3. results[f][k] <= results[f][m]
  <2>1. k < m \/ k = m
    BY <1>2
  <2>2. k < m => results[f][k] < results[f][m]
    BY <1>1, <1>2 DEF TimeInv, PullInv, PulledInOrder, Increasing
  <2> QED
    BY <1>2, <2>1, <2>2
<1>4. TimeAt(f, results[f][k]) <= TimeAt(f, results[f][m])
  BY <1>1, <1>2, <1>3, LaterIsNotEarlier DEF TimeInv
<1>5. watermark'[f] = TimeAt(f, results[f][m])
  BY <1>1, <1>2 DEF Ingest, WatermarkAfter, Last
<1>6. TimeAt(f, results[f][k]) \in Int /\ TimeAt(f, results[f][m]) \in Int
  BY <1>1, <1>2, TimeAtType DEF TimeInv, PullInv
<1>7. watermark'[f] # NoTime /\ ~(watermark'[f] < TimeAt(f, results[f][k]))
  <2>1. NoTime \notin Int
    BY ConsumerAssumption
  <2> QED
    BY <1>4, <1>5, <1>6, <2>1
<1> QED
  BY <1>7 DEF FindsNull

LEMMA IngestJoins ==
    ASSUME TimeInv, OneTimeline, JoinsCountFacts, Ingest
    PROVE  JoinsCountFacts'
<1> SUFFICES ASSUME NEW j \in DOMAIN Joins
             PROVE  /\ facts'[j] = Len(ingested'[Joins[j].fact])
                    /\ Cardinality(Ahead(j)') <= nulls'[j]
                    /\ Joins[j].fact = Joins[j].dim => nulls'[j] = 0
  BY DEF JoinsCountFacts, Ahead, TimeAt
<1>1. /\ facts[j] = Len(ingested[Joins[j].fact])
      /\ Cardinality(Ahead(j)) <= nulls[j]
      /\ Joins[j].fact = Joins[j].dim => nulls[j] = 0
  BY JoinsByAhead
<1> DEFINE f == Joins[j].fact
<1>2. f \in Topics
  BY WindowFacts
<1>3. /\ facts'[j] = facts[j] + Len(results[f])
      /\ nulls'[j] = nulls[j] + Cardinality(Missed(j))
      /\ ingested'[f] = ingested[f] \o results[f]
  BY <1>2 DEF Ingest, ProcessJoins, Missed
<1>4. Len(ingested[f] \o results[f]) = Len(ingested[f]) + Len(results[f])
  <2>1. ingested[f] \in Seq(Nat) /\ results[f] \in Seq(Nat)
    BY <1>2, PulledFacts DEF TimeInv
  <2> QED
    BY <2>1, ConcatProperties
<1>5. facts'[j] = Len(ingested'[f])
  BY <1>1, <1>3, <1>4
<1>6. /\ IsFiniteSet(Missed(j)) /\ IsFiniteSet(Ahead(j)) /\ IsFiniteSet(Ahead(j)')
  <2>1. results[f] \in Seq(Nat) /\ ingested[f] \in Seq(Nat)
    BY <1>2, PulledFacts DEF TimeInv
  <2>2. ingested'[f] \in Seq(Nat)
    BY <1>2, IngestType DEF TimeInv, TypeOK
  <2>3. IsFiniteSet(DOMAIN ingested[f]) /\ IsFiniteSet(DOMAIN ingested'[f])
    <3>1. DOMAIN ingested[f] = 1..Len(ingested[f]) /\ DOMAIN ingested'[f] = 1..Len(ingested'[f])
          /\ Len(ingested[f]) \in Nat /\ Len(ingested'[f]) \in Nat
      BY <2>1, <2>2, LenProperties
    <3> QED
      BY SMTT(20), <3>1, FS_Interval
  <2>4. /\ Ahead(j) \subseteq DOMAIN ingested[f] /\ Ahead(j)' \subseteq DOMAIN ingested'[f]
        /\ Missed(j) \subseteq RangeOf(results[f])
    BY DEF Ahead, Missed
  <2>5. IsFiniteSet(RangeOf(results[f]))
    BY <2>1, RangeIsFinite
  <2> QED
    BY <2>3, <2>4, <2>5, FS_Subset
<1>7. Cardinality(Ahead(j)') <= nulls'[j]
  <2> DEFINE a == Cardinality(Ahead(j))
             b == Cardinality(Ahead(j)')
             k == Cardinality(Missed(j))
  <2>1. a \in Nat /\ b \in Nat /\ k \in Nat /\ nulls[j] \in Nat
    BY <1>6, FS_CardinalityType DEF TimeInv, PullInv, TypeOK
  <2>2. b <= a + k /\ a <= nulls[j] /\ nulls'[j] = nulls[j] + k
    BY <1>1, <1>3, AheadGrows
  <2> HIDE DEF a, b, k
  <2>3. b <= nulls'[j]
    BY <2>1, <2>2
  <2> QED
    BY <2>3 DEF b
<1>8. Joins[j].fact = Joins[j].dim => nulls'[j] = 0
  <2> SUFFICES ASSUME Joins[j].fact = Joins[j].dim PROVE nulls'[j] = 0
    OBVIOUS
  <2>1. Cardinality(Missed(j)) = 0
    BY SelfJoinFindsAll, FS_EmptySet
  <2>2. nulls[j] = 0 /\ nulls'[j] = nulls[j] + Cardinality(Missed(j))
    BY <1>1, <1>3
  <2> QED
    BY <2>1, <2>2
<1> QED
  BY <1>5, <1>7, <1>8

LEMMA StepJoins ==
    ASSUME OneTimeline PROVE TimeInv /\ JoinsCountFacts /\ [Next]_vars => JoinsCountFacts'
<1> SUFFICES ASSUME TimeInv, JoinsCountFacts, [Next]_vars PROVE JoinsCountFacts'
  OBVIOUS
<1>1. CASE Ingest
  BY <1>1, IngestJoins
<1>2. CASE UNCHANGED <<watermark, facts, nulls, ingested>>
  BY <1>2 DEF JoinsCountFacts
<1>3. CASE \/ StartTick \/ PauseResume \/ Assign \/ PollAny \/ PullReturns \/ PollFails \/ ReadLag
           \/ Sleep \/ Cancel \/ UNCHANGED vars
  BY <1>2, <1>3
     DEF StartTick, PauseResume, Assign, PollAny, PollRecord, PullReturns, PollFails, ReadLag, Sleep,
         Cancel, vars, state, history
<1>4. CASE \E v \in Topics : Deliver(v) \/ \E r \in Rates : PutRate(v, r)
  BY <1>2, <1>4 DEF Deliver, PutRate, state, history
<1> QED
  BY <1>1, <1>3, <1>4 DEF Next, LoopStep, Stopped

-----------------------------------------------------------------------------
(* The theorems.                                                           *)

\* The consumer's state is what ConsumerState's annotations say, on any topics.
THEOREM TypeCorrect == Spec => []TypeOK
<1>1. Init => PullInv
  BY InitPullInv
<1>2. PullInv /\ [Next]_vars => PullInv'
  BY StepPullInv
<1>3. PullInv => TypeOK
  BY DEF PullInv
<1> QED
  BY <1>1, <1>2, <1>3, PTL DEF Spec

\* No topic yields more records than its rates have earned: of run_consumer's budget
\* int(ingest_rate * delta + carry), across every edit of the rate, on any topics.
THEOREM RatesAreLimits == Spec => []PullsWithinCredit
<1>1. Init => PullInv /\ CreditKept
  BY InitPullInv, InitCredit
<1>2. PullInv /\ CreditKept /\ [Next]_vars => PullInv' /\ CreditKept'
  BY StepPullInv, StepCredit
<1>3. PullInv /\ CreditKept => PullsWithinCredit
  BY CreditCovers
<1> QED
  BY <1>1, <1>2, <1>3, PTL DEF Spec

\* On topics that are one timeline event time only moves on, and the windows fired are
\* those the global watermark has closed (_advance_windows, one call a tick).
THEOREM TimeMovesOn == ASSUME OneTimeline PROVE Spec => EventTimeAdvances
<1>1. Init => TimeInv
  BY InitPullInv, InitTime DEF TimeInv
<1>2. TimeInv /\ [Next]_vars => TimeInv'
  BY StepTimeInv
<1>3. TimeInv => WindowsFollowGlobal
  BY DEF TimeInv
<1>4. TimeInv /\ [Next]_vars =>
        [/\ \A t \in Topics : watermark[t] # NoTime =>
              watermark'[t] # NoTime /\ watermark[t] <= watermark'[t]
         /\ Global(watermark) # NoTime =>
              /\ Global(watermark') # NoTime
              /\ Global(watermark) <= Global(watermark')]_vars
  BY StepWatermarks
<1> QED
  BY <1>1, <1>2, <1>3, <1>4, PTL DEF Spec, EventTimeAdvances, WatermarksAdvance

\* On such topics every record pulled is paid for, every fact ingested is counted once,
\* and every fact still ahead of its dimension was counted null (process_joins).
THEOREM RecordsAreAccounted == ASSUME OneTimeline PROVE Spec => []RecordsAccounted
<1> DEFINE Inv == TimeInv /\ CreditKept /\ JoinsCountFacts
<1>1. Init => Inv
  BY InitPullInv, InitTime, InitCredit, InitJoins DEF TimeInv
<1>2. Inv /\ [Next]_vars => Inv'
  BY StepTimeInv, StepCredit, StepJoins DEF TimeInv
<1>3. Inv => RecordsAccounted
  BY CreditCovers DEF TimeInv, PullInv, RecordsAccounted
<1> HIDE DEF Inv
<1> QED
  BY <1>1, <1>2, <1>3, PTL DEF Spec
=============================================================================

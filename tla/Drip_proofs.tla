----------------------------- MODULE Drip_proofs ----------------------------
(***************************************************************************)
(* What a drip into CSV files keeps, and the windows any drip walks.       *)
(***************************************************************************)
EXTENDS DripCsv, DripWindows, FiniteSetTheorems, WellFoundedInduction, TLAPS

-----------------------------------------------------------------------------
(***************************************************************************)
(* The windows of a drip partition the run, for every calendar, every zone *)
(* and every origin, and a range over a past window reproduces it.         *)
(*                                                                         *)
(* A boundary is computed from nothing but its index, each time anew.  So  *)
(* the proof is about Boundary: that the recursion defines it (a chain of  *)
(* any length exists, and two chains agree, each by the least index where  *)
(* they would not), and that its wall times strictly increase.  Both       *)
(* bounds of a window are wall times less the same wall time, so whatever  *)
(* the zone does to instants does not reach them.                          *)
(***************************************************************************)

(* Arithmetic.                                                             *)

LEMMA LeastNatural ==
    ASSUME NEW S \in SUBSET Nat, S # {}
    PROVE  \E w \in S : \A x \in S : w <= x
<1> DEFINE T == {0 .. y : y \in S}
<1>1. T \subseteq FiniteSubsetsOf(Nat) /\ T # {}
  <2>1. \A y \in S : IsFiniteSet(0 .. y) /\ 0 .. y \subseteq Nat
    BY FS_Interval
  <2> QED
    BY <2>1 DEF FiniteSubsetsOf
<1>2. PICK m \in T : \A n \in T : <<n, m>> \notin StrictSubsetOrdering(Nat)
  <2> HIDE DEF T
  <2> QED
    BY <1>1, FS_StrictSubsetOrderingWellFounded, WFMin
<1>3. PICK w \in S : m = 0 .. w
  OBVIOUS
<1>4. ASSUME NEW x \in S, x < w PROVE FALSE
  <2>1. 0 .. x \subseteq 0 .. w /\ w \in 0 .. w /\ w \notin 0 .. x
    BY <1>4
  <2>2. 0 .. x \subseteq Nat /\ 0 .. w \subseteq Nat /\ 0 .. x \in T
    OBVIOUS
  <2> HIDE DEF T
  <2>3. <<0 .. x, 0 .. w>> \in StrictSubsetOrdering(Nat)
    BY <2>1, <2>2 DEF StrictSubsetOrdering
  <2> QED
    BY <1>2, <1>3, <2>2, <2>3
<1> QED
  BY <1>4

LEMMA Division ==
    ASSUME NEW a \in Int, NEW d \in Nat \ {0}
    PROVE  /\ a \div d \in Int /\ a % d \in Int /\ 0 <= a % d /\ a % d < d
           /\ a = d * (a \div d) + (a % d)
OBVIOUS

LEMMA Scale ==
    ASSUME NEW a \in Int, NEW b \in Int, NEW d \in Nat \ {0}, a < b
    PROVE  d * a \in Int /\ d * b \in Int /\ d * a + d <= d * b
<1>1. d * (b - a) >= d
  <2> DEFINE c == b - a
  <2>1. c \in Int /\ c >= 1
    OBVIOUS
  <2> HIDE DEF c
  <2>2. d * c >= d
    BY <2>1
  <2> QED
    BY <2>2 DEF c
<1>2. d * (b - a) = d * b - d * a /\ d * a \in Int /\ d * b \in Int
  OBVIOUS
<1> QED
  BY <1>1, <1>2

\* The days of one residue.
LEMMA Residue ==
    ASSUME NEW q \in Int, NEW d \in Nat \ {0}, NEW m \in 0 .. d - 1
    PROVE  (d * q + m) % d = m
<1> DEFINE a == d * q + m
           p == a \div d
           r == a % d
<1>1. a \in Int /\ d * q \in Int /\ m \in Int /\ 0 <= m /\ m < d
  OBVIOUS
<1>2. p \in Int /\ r \in Int /\ 0 <= r /\ r < d /\ a = d * p + r /\ d * p \in Int
  <2> HIDE DEF a
  <2> QED
    BY <1>1, Division
<1>3. a = d * q + m
  OBVIOUS
<1> HIDE DEF a, p, r
<1>4. ~ (p < q)
  <2> SUFFICES ASSUME p < q PROVE FALSE
    OBVIOUS
  <2>1. d * p + d <= d * q
    BY <1>2, Scale
  <2> QED
    BY <1>1, <1>2, <1>3, <2>1
<1>5. ~ (q < p)
  <2> SUFFICES ASSUME q < p PROVE FALSE
    OBVIOUS
  <2>1. d * q + d <= d * p
    BY <1>2, Scale
  <2> QED
    BY <1>1, <1>2, <1>3, <2>1
<1>6. p = q
  BY <1>2, <1>4, <1>5
<1>7. r = m
  BY <1>1, <1>2, <1>3, <1>6
<1> QED
  BY <1>7 DEF a, r

\* A residue comes round within d days.
LEMMA ComesRound ==
    ASSUME NEW day \in Int, NEW d \in Nat \ {0}, NEW m \in 0 .. d - 1
    PROVE  \E n \in 1 .. d : (day + n) % d = m
<1> DEFINE q == day \div d
           r == day % d
<1>1. q \in Int /\ r \in Int /\ 0 <= r /\ r < d /\ day = d * q + r /\ d * q \in Int
  BY Division
<1>2. m \in Int /\ 0 <= m /\ m < d
  OBVIOUS
<1>3. d * (q + 1) = d * q + d
  BY <1>1
<1> HIDE DEF q, r
<1>4. CASE r < m
  <2> DEFINE n == m - r
  <2>1. n \in 1 .. d /\ day + n = d * q + m
    BY <1>1, <1>2, <1>4
  <2>2. (day + n) % d = m
    BY <1>1, <2>1, Residue
  <2> QED
    BY <2>1, <2>2
<1>5. CASE m <= r
  <2> DEFINE n == d + m - r
  <2>1. n \in 1 .. d /\ day + n = d * (q + 1) + m
    BY <1>1, <1>2, <1>3, <1>5
  <2>2. (day + n) % d = m
    BY <1>1, <2>1, Residue
  <2> QED
    BY <2>1, <2>2
<1> QED
  BY <1>1, <1>2, <1>4, <1>5

-----------------------------------------------------------------------------
(* The calendar.                                                           *)

\* The next start of a period is a later day.
LEMMA NextStartIsLater ==
    ASSUME NEW day \in Int, period \in {"day", "week", "month"}
    PROVE  NextStart(day) \in Int /\ NextStart(day) > day
<1> DEFINE last == day + CycleDays + WeekDays
           S == {n \in 1 .. CycleDays + WeekDays : PeriodStart(day + n)}
<1>0. CycleDays \in Nat \ {0} /\ WeekDays \in Nat \ {0}
  BY HourAssumption, CalendarAssumption
<1>1. S # {}
  <2>1. CASE period = "day"
    <3>1. PeriodStart(day + 1)
      BY <2>1 DEF PeriodStart
    <3>2. 1 \in 1 .. CycleDays + WeekDays
      BY <1>0
    <3> QED
      BY <3>1, <3>2
  <2>2. CASE period = "week"
    <3>1. PICK n \in 1 .. WeekDays : (day + n) % WeekDays = 0
      <4>1. 0 \in 0 .. WeekDays - 1
        BY <1>0
      <4> QED
        BY <1>0, <4>1, ComesRound
    <3>2. PeriodStart(day + n)
      BY <2>2, <3>1 DEF PeriodStart
    <3>3. n \in 1 .. CycleDays + WeekDays
      BY <1>0
    <3> QED
      BY <3>2, <3>3
  <2>3. CASE period = "month"
    <3>1. PICK m \in MonthStarts : m \in 0 .. CycleDays - 1
      BY CalendarAssumption
    <3>2. PICK n \in 1 .. CycleDays : (day + n) % CycleDays = m
      BY <1>0, <3>1, ComesRound
    <3>3. PeriodStart(day + n)
      BY <2>3, <3>1, <3>2 DEF PeriodStart
    <3>4. n \in 1 .. CycleDays + WeekDays
      BY <1>0
    <3> QED
      BY <3>3, <3>4
  <2> QED
    BY <2>1, <2>2, <2>3
<1>2. S \in SUBSET Nat
  BY <1>0
<1>3. PICK w \in S : \A x \in S : w <= x
  <2> HIDE DEF S
  <2> QED
    BY <1>1, <1>2, LeastNatural
<1>4. w \in Nat /\ 1 <= w /\ w <= CycleDays + WeekDays /\ PeriodStart(day + w)
  BY <1>0
<1>5. ASSUME NEW e \in day + 1 .. (day + w) - 1 PROVE ~PeriodStart(e)
  <2> DEFINE x == e - day
  <2>1. x \in 1 .. CycleDays + WeekDays /\ x < w /\ day + x = e
    BY <1>0, <1>4
  <2>2. x \notin S
    <3> HIDE DEF S, x
    <3> QED
      BY <1>0, <1>2, <1>3, <1>4, <2>1
  <2> QED
    BY <2>1, <2>2
<1>6. day + w \in day + 1 .. last
  BY <1>0, <1>4
<1>7. NextStart(day) \in day + 1 .. last
  <2> HIDE DEF S, last
  <2> QED
    BY <1>4, <1>5, <1>6 DEF NextStart, last
<1> QED
  BY <1>0, <1>7

\* A wall time and the hour of its day.
LEMMA HourOfDay ==
    ASSUME NEW w \in Int
    PROVE  /\ w \div DayHours \in Int
           /\ w % DayHours \in Int
           /\ 0 <= w % DayHours /\ w % DayHours < DayHours
           /\ DayHours * (w \div DayHours) \in Int
           /\ w = DayHours * (w \div DayHours) + (w % DayHours)
BY HourAssumption, Division

\* A later day begins later.
LEMMA LaterDay ==
    ASSUME NEW w \in Int, NEW next \in Int, next > w \div DayHours
    PROVE  /\ DayHours * next \in Int /\ DayHours * next > w
           /\ (DayHours * next) + (w % DayHours) \in Int
           /\ (DayHours * next) + (w % DayHours) > w
<1> DEFINE q == w \div DayHours
           r == w % DayHours
<1>1. q \in Int /\ r \in Int /\ 0 <= r /\ r < DayHours /\ DayHours * q \in Int /\ w = DayHours * q + r
  BY HourOfDay
<1>2. next > q
  OBVIOUS
<1> HIDE DEF q, r
<1>3. DayHours * next \in Int /\ DayHours * q + DayHours <= DayHours * next
  BY <1>1, <1>2, HourAssumption, Scale
<1>4. /\ DayHours * next > w
      /\ (DayHours * next) + r \in Int
      /\ (DayHours * next) + r > w
  BY <1>1, <1>3, HourAssumption
<1> QED
  BY <1>3, <1>4 DEF r

\* A datetime of the run's zone, with a whole hour on the wall.
Local(dt) == dt.tz = "zone" /\ dt.wall \in Int

LEMMA StartIsLocal ==
    ASSUME zone \in ZoneChanges, start \in Starts
    PROVE  Local(StartInstant)
<1>1. start \in Int /\ zone.at \in Int /\ zone.shift \in Int
  BY RunAssumption
<1> QED
  BY <1>1 DEF Local, StartInstant, InZone

LEMMA FirstIsLater ==
    ASSUME NEW dt, Local(dt), period \in {"day", "week", "month"}
    PROVE  Local(FirstBoundaryAfter(dt)) /\ FirstBoundaryAfter(dt).wall > dt.wall
<1>1. dt.wall \in Int /\ dt.wall \div DayHours \in Int
  BY HourOfDay DEF Local
<1> DEFINE next == NextStart(dt.wall \div DayHours)
<1>2. next \in Int /\ next > dt.wall \div DayHours
  BY <1>1, NextStartIsLater
<1>3. FirstBoundaryAfter(dt) = [wall |-> DayHours * next, fold |-> 0, tz |-> "zone"]
  BY DEF FirstBoundaryAfter, Fold0
<1> HIDE DEF next
<1>4. DayHours * next \in Int /\ DayHours * next > dt.wall
  BY <1>1, <1>2, LaterDay
<1> QED
  BY <1>3, <1>4 DEF Local

LEMMA AdvanceIsLater ==
    ASSUME NEW dt, Local(dt), period \in {"day", "week", "month"}
    PROVE  Local(AdvanceOnePeriod(dt)) /\ AdvanceOnePeriod(dt).wall > dt.wall
<1>1. dt.wall \in Int /\ dt.wall \div DayHours \in Int
  BY HourOfDay DEF Local
<1>2. PICK next \in Int : /\ next > dt.wall \div DayHours
                          /\ AdvanceOnePeriod(dt) =
                               [wall |-> (DayHours * next) + (dt.wall % DayHours), fold |-> 0, tz |-> "zone"]
  <2> DEFINE day == dt.wall \div DayHours
  <2>1. CASE period = "day"
    <3>1. AdvanceOnePeriod(dt) = Fold0((DayHours * (day + 1)) + (dt.wall % DayHours))
      BY <2>1 DEF AdvanceOnePeriod
    <3>2. day + 1 \in Int /\ day + 1 > day
      BY <1>1
    <3> QED
      BY <3>1, <3>2 DEF Fold0
  <2>2. CASE period = "week"
    <3>1. AdvanceOnePeriod(dt) = Fold0((DayHours * (day + WeekDays)) + (dt.wall % DayHours))
      BY <2>2 DEF AdvanceOnePeriod
    <3>2. day + WeekDays \in Int /\ day + WeekDays > day
      BY <1>1, HourAssumption
    <3> QED
      BY <3>1, <3>2 DEF Fold0
  <2>3. CASE period = "month"
    <3>1. AdvanceOnePeriod(dt) = Fold0((DayHours * NextStart(day)) + (dt.wall % DayHours))
      BY <2>3 DEF AdvanceOnePeriod
    <3>2. NextStart(day) \in Int /\ NextStart(day) > day
      BY <1>1, NextStartIsLater
    <3> QED
      BY <3>1, <3>2 DEF Fold0
  <2> QED
    BY <2>1, <2>2, <2>3
<1>3. /\ (DayHours * next) + (dt.wall % DayHours) \in Int
      /\ (DayHours * next) + (dt.wall % DayHours) > dt.wall
  BY <1>1, <1>2, LaterDay
<1> QED
  BY <1>2, <1>3 DEF Local

-----------------------------------------------------------------------------
(* The recursion of Boundary.                                              *)

Step(k, before) ==
    IF k = 0 THEN StartInstant
    ELSE IF k = 1 THEN FirstBoundaryAfter(StartInstant)
    ELSE AdvanceOnePeriod(before)

\* The first boundaries, up to the n-th.
Chain(f, n) ==
    /\ f = [k \in 0 .. n |-> f[k]]
    /\ \A k \in 0 .. n : f[k] = Step(k, f[k - 1])

LEMMA ChainExists ==
    ASSUME NEW n \in Nat
    PROVE  \E f : Chain(f, n)
<1> DEFINE S == {x \in Nat : ~ \E f : Chain(f, x)}
<1>1. SUFFICES ASSUME S # {} PROVE FALSE
  OBVIOUS
<1>2. PICK w \in S : \A x \in S : w <= x
  <2>1. S \in SUBSET Nat
    OBVIOUS
  <2> HIDE DEF S
  <2> QED
    BY <1>1, <2>1, LeastNatural
<1>3. w \in Nat /\ ~ \E f : Chain(f, w)
  OBVIOUS
<1>4. CASE w = 0
  <2> DEFINE f == [k \in 0 .. w |-> StartInstant]
  <2>1. \A k \in 0 .. w : k = 0 /\ f[k] = StartInstant
    BY <1>4
  <2>2. \A k \in 0 .. w : f[k] = Step(k, f[k - 1])
    <3> HIDE DEF f
    <3> QED
      BY <2>1 DEF Step
  <2>3. f = [k \in 0 .. w |-> f[k]]
    OBVIOUS
  <2>4. Chain(f, w)
    <3> HIDE DEF f
    <3> QED
      BY <2>2, <2>3 DEF Chain
  <2> QED
    BY <1>3, <2>4
<1>5. CASE w > 0
  <2>1. w - 1 \in Nat /\ w - 1 \notin S
    <3> HIDE DEF S
    <3> QED
      BY <1>2, <1>3, <1>5
  <2>2. PICK g : Chain(g, w - 1)
    BY <2>1
  <2> DEFINE f == [k \in 0 .. w |-> IF k = w THEN Step(w, g[w - 1]) ELSE g[k]]
  <2>3. ASSUME NEW k \in 0 .. w PROVE f[k] = Step(k, f[k - 1])
    <3>1. CASE k = w
      <4>1. w - 1 \in 0 .. w /\ w - 1 # w
        BY <1>3, <1>5
      <4>2. f[w - 1] = g[w - 1] /\ f[k] = Step(w, g[w - 1])
        BY <3>1, <4>1
      <4> HIDE DEF f
      <4> QED
        BY <3>1, <4>2
    <3>2. CASE k # w /\ k = 0
      <4>1. k \in 0 .. w - 1 /\ f[k] = g[k]
        BY <1>3, <1>5, <3>2
      <4>2. g[k] = Step(k, g[k - 1])
        BY <2>2, <4>1 DEF Chain
      <4> HIDE DEF f
      <4> QED
        BY <3>2, <4>1, <4>2 DEF Step
    <3>3. CASE k # w /\ k # 0
      <4>1. k \in 0 .. w - 1 /\ k - 1 \in 0 .. w /\ k - 1 # w
        BY <1>3, <1>5, <3>3
      <4>2. f[k] = g[k] /\ f[k - 1] = g[k - 1]
        BY <3>3, <4>1
      <4>3. g[k] = Step(k, g[k - 1])
        BY <2>2, <4>1 DEF Chain
      <4> HIDE DEF f
      <4> QED
        BY <4>2, <4>3
    <3> QED
      BY <3>1, <3>2, <3>3
  <2>4. f = [k \in 0 .. w |-> f[k]]
    OBVIOUS
  <2>5. Chain(f, w)
    <3> HIDE DEF f
    <3> QED
      BY <2>3, <2>4 DEF Chain
  <2> QED
    BY <1>3, <2>5
<1> QED
  BY <1>3, <1>4, <1>5

LEMMA ChainsAgree ==
    ASSUME NEW m \in Nat, NEW n \in Nat, NEW f, NEW g, Chain(f, m), Chain(g, n),
           NEW k \in Nat, k <= m, k <= n
    PROVE  f[k] = g[k]
<1> DEFINE S == {x \in Nat : x <= m /\ x <= n /\ f[x] # g[x]}
<1>1. SUFFICES ASSUME S # {} PROVE FALSE
  OBVIOUS
<1>2. PICK w \in S : \A x \in S : w <= x
  <2>1. S \in SUBSET Nat
    OBVIOUS
  <2> HIDE DEF S
  <2> QED
    BY <1>1, <2>1, LeastNatural
<1>3. w \in Nat /\ w <= m /\ w <= n /\ f[w] # g[w]
  OBVIOUS
<1>4. w \in 0 .. m /\ w \in 0 .. n
  BY <1>3
<1>5. f[w] = Step(w, f[w - 1]) /\ g[w] = Step(w, g[w - 1])
  BY <1>4 DEF Chain
<1>6. CASE w = 0
  BY <1>3, <1>5, <1>6 DEF Step
<1>7. CASE w > 0
  <2>1. w - 1 \in Nat /\ w - 1 <= m /\ w - 1 <= n /\ w - 1 \notin S
    <3>1. w - 1 \in Nat /\ w - 1 <= m /\ w - 1 <= n /\ ~(w <= w - 1)
      BY <1>3, <1>7
    <3> HIDE DEF S
    <3> QED
      BY <1>2, <3>1
  <2>2. f[w - 1] = g[w - 1]
    BY <2>1
  <2> QED
    BY <1>3, <1>5, <2>2
<1> QED
  BY <1>3, <1>6, <1>7

\* The recursive definition has a solution, so Boundary is one.
LEMMA BoundaryRecursion == \A k \in Nat : Boundary[k] = Step(k, Boundary[k - 1])
<1> DEFINE B(f) == [k \in Nat |-> IF k = 0 THEN StartInstant
                                  ELSE IF k = 1 THEN FirstBoundaryAfter(StartInstant)
                                  ELSE AdvanceOnePeriod(f[k - 1])]
           C(n) == CHOOSE f : Chain(f, n)
           F == [n \in Nat |-> C(n)[n]]
<1>1. ASSUME NEW n \in Nat PROVE Chain(C(n), n)
  BY ChainExists
<1>2. ASSUME NEW k \in Nat PROVE F[k] = Step(k, F[k - 1])
  <2>1. k \in 0 .. k /\ F[k] = C(k)[k]
    OBVIOUS
  <2>2. F[k] = Step(k, C(k)[k - 1])
    <3>1. Chain(C(k), k)
      BY <1>1
    <3> HIDE DEF C, F
    <3> QED
      BY <2>1, <3>1 DEF Chain
  <2>3. CASE k = 0
    <3> HIDE DEF C, F
    <3> QED
      BY <2>2, <2>3 DEF Step
  <2>4. CASE k > 0
    <3>1. k - 1 \in Nat /\ k - 1 <= k
      BY <2>4
    <3>2. F[k - 1] = C(k - 1)[k - 1]
      BY <3>1
    <3>3. Chain(C(k), k) /\ Chain(C(k - 1), k - 1)
      BY <1>1, <3>1
    <3> HIDE DEF C, F
    <3>4. C(k)[k - 1] = C(k - 1)[k - 1]
      BY <3>1, <3>3, ChainsAgree
    <3> QED
      BY <2>2, <3>2, <3>4
  <2> QED
    BY <2>3, <2>4
<1>3. F = B(F)
  <2>1. \A k \in Nat : F[k] = B(F)[k]
    <3> HIDE DEF F
    <3> QED
      BY <1>2 DEF Step
  <2>2. F = [k \in Nat |-> F[k]] /\ B(F) = [k \in Nat |-> B(F)[k]]
    OBVIOUS
  <2> HIDE DEF F, B
  <2> QED
    BY <2>1, <2>2
<1>4. Boundary = CHOOSE f : f = B(f)
  BY DEF Boundary
<1>5. Boundary = B(Boundary)
  <2> HIDE DEF F, B
  <2> QED
    BY <1>3, <1>4
<1>6. ASSUME NEW k \in Nat PROVE B(Boundary)[k] = Step(k, Boundary[k - 1])
  BY DEF Step
<1> HIDE DEF B
<1> QED
  BY <1>5, <1>6

-----------------------------------------------------------------------------
(* The windows of a run.                                                   *)

\* A run's zone, origin, cadence and end are the configuration's.
RunOfConfig ==
    zone \in ZoneChanges /\ start \in Starts /\ period \in Periods /\ sliceAt \in Slices

\* The boundaries are local times, each later on the wall than the one before.
LEMMA BoundariesIncrease ==
    ASSUME RunOfConfig, period # "sim"
    PROVE  \A k \in Nat : Local(Boundary[k]) /\ (k > 0 => Boundary[k].wall > Boundary[k - 1].wall)
<1> DEFINE P(k) == Local(Boundary[k]) /\ (k > 0 => Boundary[k].wall > Boundary[k - 1].wall)
           S == {k \in Nat : ~P(k)}
<1>0. period \in {"day", "week", "month"} /\ zone \in ZoneChanges /\ start \in Starts
  BY DEF RunOfConfig, Periods
<1>1. SUFFICES ASSUME S # {} PROVE FALSE
  OBVIOUS
<1>2. PICK w \in S : \A x \in S : w <= x
  <2>1. S \in SUBSET Nat
    OBVIOUS
  <2> HIDE DEF S
  <2> QED
    BY <1>1, <2>1, LeastNatural
<1>3. w \in Nat /\ ~P(w)
  <2> HIDE DEF P
  <2> QED
    OBVIOUS
<1>4. Boundary[w] = Step(w, Boundary[w - 1])
  BY <1>3, BoundaryRecursion
<1>5. CASE w = 0
  <2>1. Local(Boundary[w])
    BY <1>0, <1>4, <1>5, StartIsLocal DEF Step
  <2> QED
    BY <1>3, <1>5, <2>1
<1>6. CASE w = 1
  <2>1. Boundary[w] = FirstBoundaryAfter(StartInstant)
    BY <1>4, <1>6 DEF Step
  <2>2. Boundary[w - 1] = StartInstant
    <3>1. w - 1 = 0 /\ Boundary[0] = Step(0, Boundary[0 - 1])
      BY <1>6, BoundaryRecursion
    <3> QED
      BY <3>1 DEF Step
  <2>3. Local(Boundary[w]) /\ Boundary[w].wall > Boundary[w - 1].wall
    BY <1>0, <2>1, <2>2, StartIsLocal, FirstIsLater
  <2> QED
    BY <1>3, <2>3
<1>7. CASE w > 1
  <2>1. Boundary[w] = AdvanceOnePeriod(Boundary[w - 1])
    BY <1>3, <1>4, <1>7 DEF Step
  <2>2. w - 1 \in Nat /\ w - 1 \notin S
    <3>1. w - 1 \in Nat /\ ~(w <= w - 1)
      BY <1>3, <1>7
    <3> HIDE DEF S
    <3> QED
      BY <1>2, <3>1
  <2>3. Local(Boundary[w - 1])
    BY <2>2
  <2>4. Local(Boundary[w]) /\ Boundary[w].wall > Boundary[w - 1].wall
    BY <1>0, <2>1, <2>3, AdvanceIsLater
  <2> QED
    BY <1>3, <2>4
<1>8. w = 0 \/ w = 1 \/ w > 1
  BY <1>3
<1> QED
  BY <1>5, <1>6, <1>7, <1>8

\* Where a window begins, in sim time.
Edge(k) == IF period = "sim" THEN k * SimPeriod ELSE Boundary[k].wall - StartInstant.wall

LEMMA EdgesIncrease ==
    ASSUME RunOfConfig, NEW k \in Nat
    PROVE  /\ Edge(0) = 0
           /\ Edge(k) \in Int /\ Edge(k + 1) \in Int
           /\ Edge(k) < Edge(k + 1)
<1>1. CASE period = "sim"
  <2>1. SimPeriod \in Nat \ {0}
    BY HourAssumption
  <2>2. (k + 1) * SimPeriod = k * SimPeriod + SimPeriod /\ k * SimPeriod \in Int /\ 0 * SimPeriod = 0
    BY <2>1
  <2>3. Edge(k) = k * SimPeriod /\ Edge(k + 1) = (k + 1) * SimPeriod /\ Edge(0) = 0 * SimPeriod
    BY <1>1 DEF Edge
  <2> QED
    BY <2>1, <2>2, <2>3
<1>2. CASE period # "sim"
  <2> DEFINE s == StartInstant.wall
             a == Boundary[k].wall
             b == Boundary[k + 1].wall
  <2>1. s \in Int
    BY StartIsLocal DEF RunOfConfig, Local
  <2>2. a \in Int /\ b \in Int
    BY <1>2, BoundariesIncrease DEF Local
  <2>3. a < b
    <3>1. k + 1 \in Nat /\ k + 1 > 0 /\ (k + 1) - 1 = k
      OBVIOUS
    <3>2. Boundary[k + 1].wall > Boundary[(k + 1) - 1].wall
      BY <1>2, <3>1, BoundariesIncrease
    <3> QED
      BY <2>2, <3>1, <3>2
  <2>4. Edge(k) = a - s /\ Edge(k + 1) = b - s
    BY <1>2 DEF Edge
  <2>5. Edge(0) = s - s
    <3>1. Boundary[0] = StartInstant
      BY BoundaryRecursion DEF Step
    <3> QED
      BY <1>2, <3>1 DEF Edge
  <2> HIDE DEF s, a, b
  <2> QED
    BY <2>1, <2>2, <2>3, <2>4, <2>5
<1> QED
  BY <1>1, <1>2

\* Both ends of a window are wall times less the wall time of the start.
LEMMA WindowIsEdges ==
    ASSUME RunOfConfig, NEW k \in Nat
    PROVE  DeriveWindow(k) = [from |-> Edge(k), to |-> Edge(k + 1)]
<1>1. CASE period = "sim"
  BY <1>1 DEF DeriveWindow, Edge
<1>2. CASE period # "sim"
  <2>1. StartInstant.tz = "zone"
    BY StartIsLocal DEF RunOfConfig, Local
  <2>2. \A n \in Nat : Boundary[n].tz = "zone"
    BY <1>2, BoundariesIncrease DEF Local
  <2>3. \A n \in Nat : SimOffset(Boundary[n]) = Edge(n)
    BY <1>2, <2>1, <2>2 DEF SimOffset, Minus, Edge
  <2>4. SimOffset(Boundary[k]) = Edge(k) /\ SimOffset(Boundary[k + 1]) = Edge(k + 1)
    BY <2>3
  <2> QED
    BY <1>2, <2>4 DEF DeriveWindow
<1> QED
  BY <1>1, <1>2

-----------------------------------------------------------------------------
(* The inductive invariant.                                                *)

\* The windows emitted are the first ones, each beginning by slice_at; once
\* drained, the next one begins past it.  (A tiling that says nothing of the
\* index a window was derived from is not inductive.)
WindowsAreDerived ==
    /\ windows \in Seq([from : Int, to : Int])
    /\ \A k \in DOMAIN windows : windows[k] = DeriveWindow(k - 1) /\ windows[k].from <= sliceAt

DrainedIsPastEnd == drained => DeriveWindow(Len(windows)).from > sliceAt

DripInv == RunOfConfig /\ WindowsAreDerived /\ DrainedIsPastEnd

LEMMA Frame ==
    ASSUME UNCHANGED <<zone, start, period, sliceAt>>, NEW k
    PROVE  DeriveWindow(k)' = DeriveWindow(k)
BY DEF DeriveWindow, SimOffset, Minus, StartInstant, Instant, OffsetOf, InZone, NextStart,
       PeriodStart, Boundary, AdvanceOnePeriod, FirstBoundaryAfter

LEMMA DripInvInit == WindowsInit => DripInv
<1> SUFFICES ASSUME WindowsInit PROVE DripInv
  OBVIOUS
<1> USE DEF WindowsInit
<1>1. RunOfConfig
  BY DEF RunOfConfig
<1>2. WindowsAreDerived
  BY DEF WindowsAreDerived
<1>3. DrainedIsPastEnd
  BY DEF DrainedIsPastEnd
<1> QED
  BY <1>1, <1>2, <1>3 DEF DripInv

LEMMA DripInvNext == DripInv /\ [WindowsNext]_windowVars => DripInv'
<1> SUFFICES ASSUME DripInv, [WindowsNext]_windowVars PROVE DripInv'
  OBVIOUS
<1> USE DEF DripInv
<1>0. UNCHANGED <<zone, start, period, sliceAt>>
  BY DEF WindowsNext, Emit, Drain, windowVars
<1>1. RunOfConfig'
  BY <1>0 DEF RunOfConfig
<1>2. \A k : DeriveWindow(k)' = DeriveWindow(k)
  BY <1>0, Frame
<1>3. CASE Emit
  <2> DEFINE n == Len(windows)
             w == DeriveWindow(n)
  <2>1. n \in Nat /\ DOMAIN windows = 1 .. n
    BY DEF WindowsAreDerived
  <2>2. w \in [from : Int, to : Int]
    BY <2>1, WindowIsEdges, EdgesIncrease
  <2>3. windows' = Append(windows, w) /\ ~(w.from > sliceAt) /\ ~drained /\ drained' = drained
    BY <1>3 DEF Emit, PastEnd
  <2>4. w.from <= sliceAt
    <3>1. sliceAt \in Int
      BY RunAssumption DEF RunOfConfig
    <3>2. w.from \in Int
      BY <2>2
    <3> HIDE DEF w
    <3> QED
      BY <2>3, <3>1, <3>2
  <2>5. windows' \in Seq([from : Int, to : Int]) /\ DOMAIN windows' = 1 .. n + 1
    <3> HIDE DEF w
    <3> QED
      BY <2>1, <2>2, <2>3 DEF WindowsAreDerived
  <2>6. ASSUME NEW k \in DOMAIN windows'
        PROVE  windows'[k] = DeriveWindow(k - 1) /\ windows'[k].from <= sliceAt
    <3>1. CASE k = n + 1
      <4>1. windows'[k] = w /\ k - 1 = n
        <5> HIDE DEF w
        <5> QED
          BY <2>1, <2>3, <3>1 DEF WindowsAreDerived
      <4> QED
        BY <2>4, <4>1
    <3>2. CASE k # n + 1
      <4>1. k \in DOMAIN windows /\ windows'[k] = windows[k]
        <5> HIDE DEF w
        <5> QED
          BY <2>1, <2>3, <2>5, <3>2 DEF WindowsAreDerived
      <4> QED
        BY <4>1 DEF WindowsAreDerived
    <3> QED
      BY <3>1, <3>2
  <2>7. WindowsAreDerived'
    BY <1>0, <1>2, <2>5, <2>6 DEF WindowsAreDerived
  <2>8. DrainedIsPastEnd'
    BY <2>3 DEF DrainedIsPastEnd
  <2> QED
    BY <1>1, <2>7, <2>8
<1>4. CASE Drain
  <2>1. windows' = windows /\ DeriveWindow(Len(windows)).from > sliceAt
    BY <1>4 DEF Drain, PastEnd
  <2>2. WindowsAreDerived'
    BY <1>0, <1>2, <2>1 DEF WindowsAreDerived
  <2>3. DrainedIsPastEnd'
    BY <1>0, <1>2, <2>1 DEF DrainedIsPastEnd
  <2> QED
    BY <1>1, <2>2, <2>3
<1>5. CASE UNCHANGED windowVars
  <2>1. windows' = windows /\ drained' = drained
    BY <1>5 DEF windowVars
  <2>2. WindowsAreDerived'
    BY <1>0, <1>2, <2>1 DEF WindowsAreDerived
  <2>3. DrainedIsPastEnd'
    BY <1>0, <1>2, <2>1 DEF DrainedIsPastEnd
  <2> QED
    BY <1>1, <2>2, <2>3
<1> QED
  BY <1>3, <1>4, <1>5 DEF WindowsNext

LEMMA DripInvHolds == WindowsSpec => []DripInv
<1> QED
  BY DripInvInit, DripInvNext, PTL DEF WindowsSpec

-----------------------------------------------------------------------------
(* What follows from it.                                                   *)

LEMMA EmittedWindow ==
    ASSUME DripInv, NEW k \in DOMAIN windows
    PROVE  /\ k \in Nat /\ k - 1 \in Nat /\ (k - 1) + 1 = k
           /\ windows[k] = [from |-> Edge(k - 1), to |-> Edge(k)]
           /\ windows[k].from = Edge(k - 1) /\ windows[k].to = Edge(k)
           /\ Edge(k - 1) \in Int /\ Edge(k) \in Int /\ Edge(k - 1) < Edge(k)
<1> USE DEF DripInv
<1>1. k \in Nat /\ k - 1 \in Nat /\ (k - 1) + 1 = k
  BY DEF WindowsAreDerived
<1>2. windows[k] = [from |-> Edge(k - 1), to |-> Edge(k)]
  <2>1. windows[k] = DeriveWindow(k - 1)
    BY DEF WindowsAreDerived
  <2>2. DeriveWindow(k - 1) = [from |-> Edge(k - 1), to |-> Edge((k - 1) + 1)]
    BY <1>1, WindowIsEdges
  <2> QED
    BY <1>1, <2>1, <2>2
<1>3. Edge(k - 1) \in Int /\ Edge((k - 1) + 1) \in Int /\ Edge(k - 1) < Edge((k - 1) + 1)
  BY <1>1, EdgesIncrease
<1> QED
  BY <1>1, <1>2, <1>3

LEMMA InvTiles == DripInv => WindowsTile
<1> SUFFICES ASSUME DripInv PROVE WindowsTile
  OBVIOUS
<1>1. windows # <<>> => windows[1].from = 0
  <2> SUFFICES ASSUME windows # <<>> PROVE windows[1].from = 0
    OBVIOUS
  <2>1. 1 \in DOMAIN windows
    BY DEF DripInv, WindowsAreDerived
  <2>2. windows[1].from = Edge(1 - 1)
    BY <2>1, EmittedWindow
  <2>3. Edge(0) = 0
    BY EdgesIncrease DEF DripInv
  <2> QED
    BY <2>2, <2>3
<1>2. \A k \in DOMAIN windows : windows[k].from < windows[k].to
  BY EmittedWindow
<1>3. ASSUME NEW k \in DOMAIN windows, k > 1 PROVE windows[k].from = windows[k - 1].to
  <2>1. k - 1 \in DOMAIN windows
    BY <1>3 DEF DripInv, WindowsAreDerived
  <2>2. windows[k].from = Edge(k - 1)
    BY EmittedWindow
  <2>3. windows[k - 1].to = Edge(k - 1)
    BY <2>1, EmittedWindow
  <2> QED
    BY <2>2, <2>3
<1> QED
  BY <1>1, <1>2, <1>3 DEF WindowsTile

LEMMA InvCovers == DripInv => DrainedCoversRun
<1> SUFFICES ASSUME DripInv, drained PROVE
        /\ \A t \in 0 .. sliceAt : \E k \in DOMAIN windows : windows[k].from <= t /\ t < windows[k].to
        /\ \A k \in DOMAIN windows : windows[k].from <= sliceAt
  BY DEF DrainedCoversRun
<1> DEFINE n == Len(windows)
<1>1. n \in Nat /\ DOMAIN windows = 1 .. n /\ sliceAt \in Int
  BY RunAssumption DEF DripInv, WindowsAreDerived, RunOfConfig
<1>2. Edge(n) > sliceAt /\ Edge(n) \in Int /\ Edge(0) = 0
  <2>1. DeriveWindow(n).from = Edge(n)
    BY <1>1, WindowIsEdges DEF DripInv
  <2> QED
    BY <1>1, <2>1, EdgesIncrease DEF DripInv, DrainedIsPastEnd
<1>3. ASSUME NEW t \in 0 .. sliceAt
      PROVE  \E k \in DOMAIN windows : windows[k].from <= t /\ t < windows[k].to
  <2> DEFINE S == {k \in 1 .. n : t < Edge(k)}
  <2>0. t \in Int /\ 0 <= t /\ t <= sliceAt
    BY <1>1
  <2>1. n \in S
    <3>1. t < Edge(n) /\ n # 0
      BY <1>1, <1>2, <2>0
    <3> QED
      BY <1>1, <3>1
  <2>2. PICK k \in S : \A x \in S : k <= x
    <3>1. S \in SUBSET Nat /\ S # {}
      BY <1>1, <2>1
    <3> HIDE DEF S
    <3> QED
      BY <3>1, LeastNatural
  <2>3. k \in 1 .. n /\ k \in DOMAIN windows /\ t < Edge(k)
    BY <1>1
  <2>4. /\ windows[k].from = Edge(k - 1) /\ windows[k].to = Edge(k)
        /\ Edge(k - 1) \in Int
    BY <2>3, EmittedWindow
  <2>5. Edge(k - 1) <= t
    <3>1. CASE k = 1
      BY <1>2, <2>0, <3>1
    <3>2. CASE k # 1
      <4>1. k - 1 \in 1 .. n /\ ~(k <= k - 1)
        BY <1>1, <2>3, <3>2
      <4>2. k - 1 \notin S
        <5> HIDE DEF S
        <5> QED
          BY <2>2, <4>1
      <4>3. ~(t < Edge(k - 1))
        BY <4>1, <4>2
      <4> QED
        BY <2>0, <2>4, <4>3
    <3> QED
      BY <3>1, <3>2
  <2> QED
    BY <2>3, <2>4, <2>5
<1>4. \A k \in DOMAIN windows : windows[k].from <= sliceAt
  BY DEF DripInv, WindowsAreDerived
<1> QED
  BY <1>3, <1>4

LEMMA InvReproduces == DripInv => RangeReproducesWindow
<1> SUFFICES ASSUME DripInv, NEW k \in DOMAIN windows, period # "sim"
             PROVE  ParseRange(Boundary[k - 1].wall, Boundary[k].wall) = windows[k]
  BY DEF RangeReproducesWindow
<1>1. windows[k] = [from |-> Edge(k - 1), to |-> Edge(k)]
  BY EmittedWindow
<1>2. StartInstant.tz = "zone"
  BY StartIsLocal DEF DripInv, RunOfConfig, Local
<1>3. ParseRange(Boundary[k - 1].wall, Boundary[k].wall) = [from |-> Edge(k - 1), to |-> Edge(k)]
  BY <1>2 DEF ParseRange, SimOffset, Minus, Fold0, Edge
<1> QED
  BY <1>1, <1>3

\* derive_window computes a window from its index alone; the windows a drip has
\* emitted tile the run from 0 without gap or overlap, and a drained drip covered
\* slice_at, whatever the calendar, the zone's change and the origin.
THEOREM WindowsPartitionRun == WindowsSpec => []WindowsCoverRun
<1>1. DripInv => WindowsCoverRun
  BY InvTiles, InvCovers DEF WindowsCoverRun
<1> QED
  BY <1>1, DripInvHolds, PTL

\* A range between the civil bounds of an emitted window, if parse_range accepts
\* it, selects what the window selected.
THEOREM RangesReproduce == WindowsSpec => []RangeReproducesWindow
<1> QED
  BY InvReproduces, DripInvHolds, PTL

-----------------------------------------------------------------------------
(***************************************************************************)
(* Proofs about the CSV drip, for every set of configurations, every       *)
(* labelling of them, every number of windows and every number of mishaps. *)
(*                                                                         *)
(* SettledDropsWhole is not inductive: why the cursor may move on is only  *)
(* known from where the running invocation stands.  IInv adds what each    *)
(* step of an invocation knows of the disk, and what keeps a directory     *)
(* with a cursor from ever looking fresh.                                  *)
(***************************************************************************)

\* An invocation that has not touched the cursor yet repeats or follows it.
JobFollowsCursor ==
    pc \in {"stage", "write", "clear", "open_cursor"} =>
        \/ cursor = Absent /\ job.index = 0
        \/ cursor \in Cursors /\ cursor.next = job.index /\ cursor.fingerprint = job.fingerprint

\* What is in place before the rename, and before the cursor moves.
JobInPlace ==
    /\ pc = "clear" => staging[Target] = job.fingerprint
    /\ pc \in {"open_cursor", "write_cursor"} => drop[Target] = job.fingerprint
    /\ pc = "write_cursor" => cursor = Torn
    /\ pc = "write_cursor" =>
        \A k \in Indices : k < job.index => drop[Label(k, job.fingerprint)] = job.fingerprint

\* A cursor that was ever written leaves a directory that does not look fresh.
CursorNotFresh ==
    /\ cursor \in Cursors => cursor.next > 0
    /\ cursor = Torn => pc \in {"idle", "write_cursor"} /\ NonHidden # {}

Running == pc # "idle" => outcome = "none"

IInv ==
    /\ TypeOK
    /\ SettledDropsWhole
    /\ JobFollowsCursor
    /\ JobInPlace
    /\ CursorNotFresh
    /\ Running
    /\ DrainedMeansComplete

-----------------------------------------------------------------------------
(* Labels and marks.                                                       *)

\* A label determines the window it was made for.
LEMMA LabelFacts ==
    ASSUME NEW k \in Indices, NEW c \in Configs
    PROVE  /\ Label(k, c) \in Labels
           /\ \A j \in Indices, d \in Configs : Label(k, c) = Label(j, d) => k = j
BY DEF Label, Labels

\* A mark is never mistaken for content.
LEMMA MarkFacts ==
    /\ Absent \notin Configs /\ Partial \notin Configs
    /\ Absent \notin Cursors /\ Torn \notin Cursors
    /\ Absent # Torn /\ Absent # Partial
BY MarkAssumption

LEMMA IndexFacts ==
    /\ 0 \in Indices /\ 0 \in NextIndices /\ Indices \subseteq NextIndices
    /\ \A k \in Indices : k + 1 \in NextIndices /\ k \in Nat
    /\ \A n \in NextIndices : n \in Nat /\ (n <= LastWindow => n \in Indices)
BY WindowAssumption DEF Indices, NextIndices

-----------------------------------------------------------------------------
(* Type correctness.                                                       *)

LEMMA InitTypeOK == Init => TypeOK
<1> SUFFICES ASSUME Init PROVE TypeOK
  OBVIOUS
<1>1. job \in [index : Indices, fingerprint : Configs]
  BY IndexFacts DEF Init
<1> QED
  BY <1>1 DEF Init, TypeOK, Dirs, Steps

\* A window an invocation may start is a window of the run.
LEMMA NextWindowInRun ==
    ASSUME TypeOK, Readable, NextWindow <= LastWindow
    PROVE  NextWindow \in Indices
<1>1. CASE Fresh
  BY <1>1, IndexFacts DEF NextWindow
<1>2. CASE ~Fresh
  <2>1. cursor \in Cursors /\ NextWindow = cursor.next
    BY <1>2 DEF Readable, StoredCursor, NextWindow
  <2> QED
    BY <2>1, IndexFacts DEF Cursors
<1> QED
  BY <1>1, <1>2

LEMMA TargetIsLabel ==
    ASSUME TypeOK
    PROVE  /\ Target \in Labels
           /\ job.index \in Indices /\ job.fingerprint \in Configs
BY LabelFacts DEF TypeOK, Target

LEMMA StepTypeOK == TypeOK /\ [Next]_vars => TypeOK'
<1> SUFFICES ASSUME TypeOK, [Next]_vars PROVE TypeOK'
  OBVIOUS
<1>job. Target \in Labels /\ job.index \in Indices /\ job.fingerprint \in Configs
  BY TargetIsLabel
<1>1. CASE Refuse
  BY <1>1 DEF Refuse, TypeOK, disk
<1>2. CASE Drained
  BY <1>2 DEF Drained, TypeOK, disk
<1>3. CASE Start
  <2>1. NextWindow \in Indices
    BY <1>3, NextWindowInRun DEF Start
  <2>2. job' \in [index : Indices, fingerprint : Configs]
    BY <1>3, <2>1 DEF Start, TypeOK
  <2> QED
    BY <1>3, <2>2 DEF Start, TypeOK, disk, Steps
<1>4. CASE Stage
  BY <1>4, <1>job DEF Stage, TypeOK, Dirs, Steps
<1>5. CASE WriteTables
  BY <1>5, <1>job DEF WriteTables, TypeOK, Dirs, Steps
<1>6. CASE WriteFails
  BY <1>6, <1>job DEF WriteFails, TypeOK, Dirs, Steps
<1>7. CASE ClearDrop
  BY <1>7, <1>job DEF ClearDrop, TypeOK, Dirs, Steps
<1>8. CASE Rename
  BY <1>8, <1>job DEF Rename, TypeOK, Dirs, Steps
<1>9. CASE TruncateCursor
  BY <1>9 DEF TruncateCursor, TypeOK, Steps
<1>10. CASE WriteCursor
  <2>1. cursor' \in Cursors
    BY <1>10, <1>job, IndexFacts DEF WriteCursor, Cursors
  <2> QED
    BY <1>10, <2>1 DEF WriteCursor, TypeOK, Steps
<1>11. CASE TruncateManifest
  BY <1>11 DEF TruncateManifest, TypeOK, Steps
<1>12. CASE WriteManifest
  BY <1>12, <1>job, IndexFacts DEF WriteManifest, TypeOK, Steps
<1>13. CASE TruncateReadme
  BY <1>13 DEF TruncateReadme, TypeOK, Steps
<1>14. CASE WriteReadme
  BY <1>14, <1>job, IndexFacts DEF WriteReadme, TypeOK, Steps
<1>15. CASE Die
  BY <1>15 DEF Die, TypeOK, disk, Steps
<1>16. CASE ChangeConfig
  BY <1>16 DEF ChangeConfig, TypeOK, disk
<1>17. CASE Reset
  BY <1>17 DEF Reset, TypeOK, Dirs
<1>18. CASE UNCHANGED vars
  BY <1>18 DEF vars, disk, TypeOK
<1> QED
  BY <1>1, <1>2, <1>3, <1>4, <1>5, <1>6, <1>7, <1>8, <1>9, <1>10, <1>11, <1>12,
     <1>13, <1>14, <1>15, <1>16, <1>17, <1>18 DEF Next, Invocation, Mishap

\* Every variable keeps its range, whatever is interrupted.
THEOREM TypeCorrect == Spec => []TypeOK
BY InitTypeOK, StepTypeOK, PTL DEF Spec

-----------------------------------------------------------------------------
(* The inductive invariant.                                                *)

LEMMA InitIInv == Init => IInv
<1> SUFFICES ASSUME Init PROVE IInv
  OBVIOUS
<1>1. TypeOK
  BY InitTypeOK
<1> QED
  BY <1>1, MarkFacts
     DEF Init, IInv, SettledDropsWhole, JobFollowsCursor, JobInPlace,
         CursorNotFresh, Running, DrainedMeansComplete

\* A cursor file keeps the directory from looking fresh.
LEMMA CursorMeansVisible ==
    ASSUME TypeOK, SettledDropsWhole, CursorNotFresh, pc = "idle", cursor # Absent
    PROVE  ~Fresh
<1>1. CASE cursor = Torn
  BY <1>1, MarkFacts DEF CursorNotFresh, Fresh
<1>2. CASE cursor \in Cursors
  <2>1. cursor.fingerprint \in Configs /\ cursor.next > 0
    BY <1>2 DEF Cursors, CursorNotFresh
  <2>2. drop[Label(0, cursor.fingerprint)] = cursor.fingerprint
    BY <1>2, <2>1, IndexFacts DEF SettledDropsWhole
  <2>3. Label(0, cursor.fingerprint) \in NonHidden
    BY <2>1, <2>2, LabelFacts, IndexFacts, MarkFacts DEF NonHidden
  <2> QED
    BY <2>3 DEF Fresh
<1> QED
  BY <1>1, <1>2 DEF TypeOK

\* A drained drip has moved its cursor past every window.
LEMMA DrainedAtEnd ==
    ASSUME TypeOK, SettledDropsWhole, Readable, NextWindow > LastWindow
    PROVE  \A k \in Indices : drop[Label(k, config)] = config
<1>1. ~Fresh
  BY WindowAssumption DEF NextWindow
<1>2. cursor \in Cursors /\ cursor.fingerprint = config /\ NextWindow = cursor.next
  BY <1>1 DEF Readable, StoredCursor, NextWindow
<1>3. \A k \in Indices : k < cursor.next
  BY <1>2, WindowAssumption DEF Indices, Cursors, NextIndices
<1> QED
  BY <1>2, <1>3 DEF SettledDropsWhole

\* The drop being written is none of those the cursor has moved past.
LEMMA TargetNotSettled ==
    ASSUME TypeOK, JobFollowsCursor, pc \in {"stage", "write", "clear", "open_cursor"},
           cursor \in Cursors, NEW k \in Indices, k < cursor.next
    PROVE  /\ Label(k, cursor.fingerprint) \in Labels
           /\ Label(k, cursor.fingerprint) # Target
<1>1. cursor.next = job.index /\ cursor.fingerprint = job.fingerprint
  BY MarkFacts DEF JobFollowsCursor
<1>2. job.fingerprint \in Configs /\ job.index \in Indices
  BY DEF TypeOK
<1>3. k # job.index
  BY <1>1, <1>2, IndexFacts
<1> QED
  BY <1>1, <1>2, <1>3, LabelFacts DEF Target

\* A step that leaves the disk, the operator's configuration and the place of
\* the invocation's write alone keeps the invariant.
LEMMA SameDisk ==
    ASSUME IInv, TypeOK', UNCHANGED <<drop, staging, cursor, config, job>>,
           pc' \notin {"stage", "write", "clear", "open_cursor", "write_cursor"},
           pc' # "idle" => outcome' = "none",
           outcome' = "drained" => outcome = "drained",
           cursor = Torn => pc' = "idle"
    PROVE  IInv'
<1> QED
  BY DEF IInv, SettledDropsWhole, JobFollowsCursor, JobInPlace, CursorNotFresh,
         Running, DrainedMeansComplete, NonHidden, Target

LEMMA StepIInv == IInv /\ [Next]_vars => IInv'
<1> SUFFICES ASSUME IInv, [Next]_vars PROVE IInv'
  OBVIOUS
<1>t. TypeOK /\ TypeOK'
  BY StepTypeOK DEF IInv
<1>j. Target \in Labels /\ job.index \in Indices /\ job.fingerprint \in Configs
  BY <1>t, TargetIsLabel
<1>1. CASE Refuse
  BY <1>1, <1>t, SameDisk DEF Refuse, disk
<1>2. CASE Drained
  <2>1. \A k \in Indices : drop[Label(k, config)] = config
    BY <1>2, DrainedAtEnd DEF Drained, IInv
  <2> QED
    BY <1>2, <1>t, <2>1
       DEF Drained, disk, IInv, SettledDropsWhole, JobFollowsCursor, JobInPlace,
           CursorNotFresh, Running, DrainedMeansComplete, NonHidden, Target
<1>3. CASE Start
  <2>1. \/ cursor = Absent /\ NextWindow = 0
        \/ cursor \in Cursors /\ cursor.next = NextWindow /\ cursor.fingerprint = config
    <3>1. CASE Fresh
      <4>1. cursor = Absent
        BY <1>3, <3>1, CursorMeansVisible DEF Start, IInv
      <4> QED
        BY <3>1, <4>1 DEF NextWindow
    <3>2. CASE ~Fresh
      BY <1>3, <3>2 DEF Start, Readable, StoredCursor, NextWindow
    <3> QED
      BY <3>1, <3>2
  <2>2. JobFollowsCursor'
    BY <1>3, <2>1 DEF Start, JobFollowsCursor, disk
  <2>3. cursor # Torn
    BY <2>1, MarkFacts
  <2> QED
    BY <1>3, <1>t, <2>2, <2>3
       DEF Start, disk, IInv, SettledDropsWhole, JobInPlace, CursorNotFresh,
           Running, DrainedMeansComplete
<1>4. CASE Stage
  BY <1>4, <1>t
     DEF Stage, IInv, SettledDropsWhole, JobFollowsCursor, JobInPlace,
         CursorNotFresh, Running, DrainedMeansComplete, NonHidden
<1>5. CASE WriteTables
  <2>1. staging'[Target] = job.fingerprint
    BY <1>5, <1>t, <1>j DEF WriteTables, TypeOK
  <2> QED
    BY <1>5, <1>t, <2>1
       DEF WriteTables, IInv, SettledDropsWhole, JobFollowsCursor, JobInPlace,
           CursorNotFresh, Running, DrainedMeansComplete, NonHidden, Target
<1>6. CASE WriteFails
  BY <1>6, <1>t
     DEF WriteFails, IInv, SettledDropsWhole, JobFollowsCursor, JobInPlace,
         CursorNotFresh, Running, DrainedMeansComplete, NonHidden
<1>7. CASE ClearDrop
  <2>1. SettledDropsWhole'
    BY <1>7, <1>t, <1>j, TargetNotSettled DEF ClearDrop, IInv, SettledDropsWhole, TypeOK
  <2>2. cursor # Torn /\ outcome = "none"
    BY <1>7 DEF ClearDrop, IInv, CursorNotFresh, Running
  <2> QED
    BY <1>7, <1>t, <2>1, <2>2
       DEF ClearDrop, IInv, JobFollowsCursor, JobInPlace, CursorNotFresh, Running,
           DrainedMeansComplete, Target
<1>8. CASE Rename
  <2>1. SettledDropsWhole'
    BY <1>8, <1>t, <1>j, TargetNotSettled DEF Rename, IInv, SettledDropsWhole, TypeOK
  <2>2. cursor # Torn /\ outcome = "none"
    BY <1>8 DEF Rename, IInv, CursorNotFresh, Running
  <2>3. drop'[Target] = job.fingerprint
    BY <1>8, <1>t, <1>j DEF Rename, IInv, JobInPlace, TypeOK
  <2> QED
    BY <1>8, <1>t, <2>1, <2>2, <2>3
       DEF Rename, IInv, JobFollowsCursor, JobInPlace, CursorNotFresh, Running,
           DrainedMeansComplete, Target
<1>9. CASE TruncateCursor
  <2>1. \A k \in Indices : k < job.index => drop[Label(k, job.fingerprint)] = job.fingerprint
    BY <1>9, <1>j, IndexFacts, WindowAssumption
       DEF TruncateCursor, IInv, SettledDropsWhole, JobFollowsCursor, Indices
  <2>2. Target \in NonHidden
    BY <1>9, <1>j, MarkFacts DEF TruncateCursor, IInv, JobInPlace, NonHidden
  <2>3. outcome = "none"
    BY <1>9 DEF TruncateCursor, IInv, Running
  <2> QED
    BY <1>9, <1>t, <2>1, <2>2, <2>3, MarkFacts
       DEF TruncateCursor, IInv, SettledDropsWhole, JobFollowsCursor, JobInPlace,
           CursorNotFresh, Running, DrainedMeansComplete, NonHidden, Target
<1>10. CASE WriteCursor
  <2>1. \A k \in Indices : k < job.index + 1 => drop[Label(k, job.fingerprint)] = job.fingerprint
    <3> SUFFICES ASSUME NEW k \in Indices, k < job.index + 1
                 PROVE  drop[Label(k, job.fingerprint)] = job.fingerprint
      OBVIOUS
    <3>1. CASE k = job.index
      BY <1>10, <3>1 DEF WriteCursor, IInv, JobInPlace, Target
    <3>2. CASE k < job.index
      BY <1>10, <3>2 DEF WriteCursor, IInv, JobInPlace
    <3> QED
      BY <1>j, <3>1, <3>2 DEF Indices
  <2>2. cursor'.fingerprint = job.fingerprint /\ cursor'.next = job.index + 1 /\ cursor' \in Cursors
    BY <1>10, <1>j, IndexFacts DEF WriteCursor, Cursors
  <2>3. cursor'.next > 0 /\ cursor' # Torn /\ outcome = "none"
    BY <1>10, <1>j, <2>2, MarkFacts DEF Indices, WriteCursor, IInv, Running
  <2> QED
    BY <1>10, <1>t, <2>1, <2>2, <2>3
       DEF WriteCursor, IInv, SettledDropsWhole, JobFollowsCursor, JobInPlace,
           CursorNotFresh, Running, DrainedMeansComplete
<1>11. CASE TruncateManifest
  BY <1>11, <1>t, SameDisk DEF TruncateManifest, IInv, CursorNotFresh, Running
<1>12. CASE WriteManifest
  BY <1>12, <1>t, SameDisk DEF WriteManifest, IInv, CursorNotFresh, Running
<1>13. CASE TruncateReadme
  BY <1>13, <1>t, SameDisk DEF TruncateReadme, IInv, CursorNotFresh, Running
<1>14. CASE WriteReadme
  BY <1>14, <1>t, SameDisk DEF WriteReadme, IInv
<1>15. CASE Die
  BY <1>15, <1>t, SameDisk DEF Die, disk
<1>16. CASE ChangeConfig
  BY <1>16, <1>t
     DEF ChangeConfig, disk, IInv, SettledDropsWhole, JobFollowsCursor, JobInPlace,
         CursorNotFresh, Running, DrainedMeansComplete, NonHidden
<1>17. CASE Reset
  BY <1>17, <1>t, MarkFacts
     DEF Reset, IInv, SettledDropsWhole, JobFollowsCursor, JobInPlace,
         CursorNotFresh, Running, DrainedMeansComplete
<1>18. CASE UNCHANGED vars
  BY <1>18, <1>t
     DEF vars, disk, IInv, SettledDropsWhole, JobFollowsCursor, JobInPlace,
         CursorNotFresh, Running, DrainedMeansComplete, NonHidden, Target
<1> QED
  BY <1>1, <1>2, <1>3, <1>4, <1>5, <1>6, <1>7, <1>8, <1>9, <1>10, <1>11, <1>12,
     <1>13, <1>14, <1>15, <1>16, <1>17, <1>18 DEF Next, Invocation, Mishap

THEOREM Invariant == Spec => []IInv
BY InitIInv, StepIInv, PTL DEF Spec

-----------------------------------------------------------------------------
(* The properties.                                                         *)

\* Every window the cursor has moved past is on disk, whole and of the cursor's
\* own configuration, wherever an invocation stands or has died.
THEOREM SettledWindowsAreWhole == Spec => []SettledDropsWhole
BY Invariant, PTL DEF IInv

\* A drip that reports drained has every window of the run on disk, under the
\* configuration it was run with.
THEOREM DrainedIsComplete == Spec => []DrainedMeansComplete
BY Invariant, PTL DEF IInv

\* No step but the deletion of the target disturbs a settled drop.
LEMMA StepSettledStand ==
    ASSUME IInv, [Next]_vars, cursor \in Cursors, cursor' # Absent,
           NEW k \in Indices, k < cursor.next
    PROVE  drop'[Label(k, cursor.fingerprint)] = drop[Label(k, cursor.fingerprint)]
<1>1. CASE ClearDrop
  BY <1>1, TargetNotSettled DEF ClearDrop, IInv, TypeOK
<1>2. CASE Rename
  BY <1>2, TargetNotSettled DEF Rename, IInv, TypeOK
<1>3. CASE UNCHANGED drop
  BY <1>3
<1> QED
  BY <1>1, <1>2, <1>3
     DEF Next, Invocation, Mishap, vars, disk, Refuse, Drained, Start, Stage,
         WriteTables, WriteFails, TruncateCursor, WriteCursor, TruncateManifest,
         WriteManifest, TruncateReadme, WriteReadme, Die, ChangeConfig, Reset

THEOREM SettledStandStill == Spec => SettledDropsStand
<1>1. IInv /\ [Next]_vars =>
        [(cursor \in Cursors /\ cursor' # Absent) =>
            \A k \in Indices : k < cursor.next =>
                drop'[Label(k, cursor.fingerprint)] = drop[Label(k, cursor.fingerprint)]]_vars
  BY StepSettledStand
<1> QED
  BY <1>1, Invariant, PTL DEF Spec, SettledDropsStand

-----------------------------------------------------------------------------
(* The CSV drip implements the abstract drip.                              *)

LEMMA InitAbstract == Init => Abstract!Init
<1> SUFFICES ASSUME Init PROVE WholeDrops = {} /\ SettledWindows = 0
  BY DEF Abstract!Init
<1>1. \A k \in Indices, c \in Configs : drop[Label(k, c)] \notin Configs
  BY LabelFacts, MarkFacts DEF Init
<1> QED
  BY <1>1 DEF Init, WholeDrops, SettledWindows

\* While a drop is replaced, the window it is for is the one not yet settled.
LEMMA JobNotSettled ==
    ASSUME IInv, pc \in {"stage", "write", "clear", "open_cursor"}
    PROVE  SettledWindows = job.index /\ job.index \in Indices
BY MarkFacts DEF IInv, TypeOK, JobFollowsCursor, SettledWindows

\* Changing one drop changes the whole windows by that drop's window at most.
LEMMA OneDropChanges ==
    ASSUME TypeOK, NEW content \in Dirs, drop' = [drop EXCEPT ![Target] = content]
    PROVE  /\ content \in Configs => WholeDrops' = WholeDrops \cup {job.index}
           /\ content \notin Configs =>
                \/ WholeDrops' = WholeDrops
                \/ WholeDrops' = WholeDrops \ {job.index} /\ job.index \in WholeDrops
<1>j. Target \in Labels /\ job.index \in Indices /\ job.fingerprint \in Configs
  BY TargetIsLabel
<1>1. drop'[Target] = content
  BY <1>j DEF TypeOK
<1>2. \A k \in Indices \ {job.index}, c \in Configs : drop'[Label(k, c)] = drop[Label(k, c)]
  BY <1>j, LabelFacts DEF TypeOK, Target
<1>3. \A k \in Indices \ {job.index} : k \in WholeDrops' <=> k \in WholeDrops
  BY <1>2 DEF WholeDrops
<1>4. ASSUME content \in Configs PROVE job.index \in WholeDrops'
  BY <1>1, <1>4, <1>j DEF WholeDrops, Target
<1>5. ASSUME content \notin Configs, job.index \notin WholeDrops PROVE job.index \notin WholeDrops'
  <2>1. \A c \in Configs : drop'[Label(job.index, c)] \notin Configs
    <3> SUFFICES ASSUME NEW c \in Configs PROVE drop'[Label(job.index, c)] \notin Configs
      OBVIOUS
    <3>1. drop[Label(job.index, c)] \notin Configs /\ Label(job.index, c) \in Labels
      BY <1>5, <1>j, LabelFacts DEF WholeDrops
    <3> QED
      BY <1>1, <1>5, <3>1 DEF TypeOK
  <2> QED
    BY <2>1 DEF WholeDrops
<1>6. WholeDrops \subseteq Indices /\ WholeDrops' \subseteq Indices
  BY DEF WholeDrops
<1> QED
  BY <1>3, <1>4, <1>5, <1>6, <1>j

LEMMA SameDropsStutter ==
    ASSUME UNCHANGED drop, SettledWindows' = SettledWindows
    PROVE  UNCHANGED Abstract!vars
BY DEF Abstract!vars, WholeDrops

LEMMA StepAbstract == IInv /\ [Next]_vars => [Abstract!Next]_(Abstract!vars)
<1> SUFFICES ASSUME IInv, [Next]_vars PROVE [Abstract!Next]_(Abstract!vars)
  OBVIOUS
<1>t. TypeOK
  BY DEF IInv
<1>1. CASE ClearDrop
  <2>1. SettledWindows = job.index /\ job.index \in Indices
    BY <1>1, JobNotSettled DEF ClearDrop
  <2>2. SettledWindows' = SettledWindows
    BY <1>1 DEF ClearDrop, SettledWindows
  <2>3. PICK content \in {Absent, Partial} : drop' = [drop EXCEPT ![Target] = content]
    BY <1>1 DEF ClearDrop
  <2>4. \/ WholeDrops' = WholeDrops
        \/ WholeDrops' = WholeDrops \ {job.index} /\ job.index \in WholeDrops
    BY <1>t, <2>3, OneDropChanges, MarkFacts DEF Dirs
  <2> QED
    BY <2>1, <2>2, <2>4 DEF Abstract!Next, Abstract!Withdraw, Abstract!vars
<1>2. CASE Rename
  <2>1. SettledWindows = job.index /\ job.index \in Indices
    BY <1>2, JobNotSettled DEF Rename
  <2>2. SettledWindows' = SettledWindows
    BY <1>2 DEF Rename, SettledWindows
  <2>3. drop' = [drop EXCEPT ![Target] = job.fingerprint] /\ job.fingerprint \in Configs
    BY <1>2, <1>t DEF Rename, IInv, JobInPlace, TypeOK
  <2>4. WholeDrops' = WholeDrops \cup {job.index}
    BY <1>t, <2>3, OneDropChanges DEF Dirs
  <2> QED
    BY <2>1, <2>2, <2>4 DEF Abstract!Next, Abstract!Deliver, Abstract!vars, Indices
<1>3. CASE WriteCursor
  <2>1. cursor = Torn /\ UNCHANGED drop
    BY <1>3 DEF WriteCursor, IInv, JobInPlace
  <2>2. SettledWindows = job.index /\ job.index \in Indices
    BY <1>t, <2>1, MarkFacts DEF SettledWindows, TypeOK
  <2>3. cursor' \in Cursors /\ cursor'.next = job.index + 1
    BY <1>3, <1>t, IndexFacts DEF WriteCursor, Cursors, TypeOK
  <2>4. SettledWindows' = job.index + 1
    BY <2>3, MarkFacts DEF SettledWindows
  <2>5. job.index \in WholeDrops /\ WholeDrops' = WholeDrops
    BY <1>3, <1>t, <2>1 DEF WriteCursor, IInv, JobInPlace, WholeDrops, Target, TypeOK
  <2> QED
    BY <2>2, <2>4, <2>5 DEF Abstract!Next, Abstract!Settle
<1>4. CASE TruncateCursor
  <2>1. SettledWindows = job.index
    BY <1>4, JobNotSettled DEF TruncateCursor
  <2>2. SettledWindows' = job.index /\ UNCHANGED drop
    BY <1>4, MarkFacts DEF TruncateCursor, SettledWindows
  <2> QED
    BY <2>1, <2>2, SameDropsStutter
<1>5. CASE Start
  <2>1. cursor # Torn /\ UNCHANGED <<drop, cursor>>
    BY <1>5, CursorMeansVisible, MarkFacts DEF Start, disk, Readable, StoredCursor, IInv
  <2>2. SettledWindows' = SettledWindows
    BY <2>1 DEF SettledWindows
  <2> QED
    BY <2>1, <2>2, SameDropsStutter
<1>6. CASE Reset
  <2>1. SettledWindows' = 0
    BY <1>6 DEF Reset, SettledWindows
  <2>2. \A k \in Indices, c \in Configs : drop'[Label(k, c)] \notin Configs
    BY <1>6, LabelFacts, MarkFacts DEF Reset
  <2>3. WholeDrops' = {}
    BY <2>2 DEF WholeDrops
  <2> QED
    BY <2>1, <2>3 DEF Abstract!Next, Abstract!Reset
<1>7. CASE UNCHANGED <<drop, cursor, job>>
  <2>1. SettledWindows' = SettledWindows
    BY <1>7 DEF SettledWindows
  <2> QED
    BY <1>7, <2>1, SameDropsStutter
<1> QED
  BY <1>1, <1>2, <1>3, <1>4, <1>5, <1>6, <1>7
     DEF Next, Invocation, Mishap, vars, disk, Refuse, Drained, Stage, WriteTables,
         WriteFails, TruncateManifest, WriteManifest, TruncateReadme, WriteReadme,
         Die, ChangeConfig

\* The windows a consumer sees are delivered in order, one at a time, and never
\* taken back once settled: the CSV drip is an abstract drip.
THEOREM CsvImplementsDrip == Spec => ImplementsDrip
<1>1. Init => Abstract!Init
  BY InitAbstract
<1>2. IInv /\ [Next]_vars => [Abstract!Next]_(Abstract!vars)
  BY StepAbstract
<1> QED
  BY <1>1, <1>2, Invariant, PTL DEF Spec, ImplementsDrip, Abstract!Spec

-----------------------------------------------------------------------------
(* The rest of the directory follows the cursor.                           *)

\* How far the visible drops go: one past what the cursor has settled, which all
\* is there.
VisibleFollowsCursor ==
    /\ cursor = Absent => \A l \in NonHidden : l[1] = 0
    /\ cursor \in Cursors => \A l \in NonHidden : l[1] <= cursor.next
    /\ cursor = Torn => \A l \in NonHidden : l[1] <= job.index
    /\ cursor = Torn => \A k \in Indices : k < job.index => Label(k, job.fingerprint) \in NonHidden

\* A manifest is written for a cursor that has moved, and is older than a torn one.
ManifestFollowsCursor ==
    /\ cursor = Absent => manifest = Absent
    /\ cursor = Torn /\ manifest \in NextIndices => manifest <= job.index
    /\ ManifestNotAhead
    /\ pc \in {"open_manifest", "write_manifest"} =>
         cursor \in Cursors /\ cursor.next = job.index + 1

DiskInv == IInv /\ VisibleFollowsCursor /\ ManifestFollowsCursor

LEMMA InitDiskInv == Init => DiskInv
<1> SUFFICES ASSUME Init PROVE DiskInv
  OBVIOUS
<1>1. IInv
  BY InitIInv
<1> QED
  BY <1>1, MarkFacts
     DEF Init, DiskInv, VisibleFollowsCursor, ManifestFollowsCursor, ManifestNotAhead, NonHidden

\* A settled drop is visible.
LEMMA SettledIsVisible ==
    ASSUME TypeOK, SettledDropsWhole, cursor \in Cursors, NEW k \in Indices, k < cursor.next
    PROVE  Label(k, cursor.fingerprint) \in NonHidden
<1>1. cursor.fingerprint \in Configs
  BY DEF Cursors
<1>2. drop[Label(k, cursor.fingerprint)] = cursor.fingerprint
  BY DEF SettledDropsWhole
<1> QED
  BY <1>1, <1>2, LabelFacts, MarkFacts DEF NonHidden

\* An invocation that starts does not find a torn cursor.
LEMMA StartFindsNoTorn ==
    ASSUME IInv, Start
    PROVE  cursor # Torn
BY MarkFacts DEF IInv, CursorNotFresh, Start, Readable, StoredCursor, Fresh

LEMMA StepVisible == DiskInv /\ [Next]_vars => VisibleFollowsCursor'
<1> SUFFICES ASSUME DiskInv, [Next]_vars PROVE VisibleFollowsCursor'
  OBVIOUS
<1>t. TypeOK /\ TypeOK' /\ IInv /\ VisibleFollowsCursor
  BY StepTypeOK DEF DiskInv, IInv
<1>j. Target \in Labels /\ job.index \in Indices /\ job.fingerprint \in Configs
  BY <1>t, TargetIsLabel
<1>i. Target[1] = job.index
  BY DEF Target, Label
<1>1. CASE Start
  <2>1. cursor # Torn
    BY <1>1, <1>t, StartFindsNoTorn
  <2> QED
    BY <1>1, <1>t, <2>1, MarkFacts DEF Start, disk, VisibleFollowsCursor, NonHidden
<1>2. CASE ClearDrop \/ Rename
  <2>1. /\ \A l \in Labels : l # Target => drop'[l] = drop[l]
        /\ UNCHANGED <<cursor, job>>
        /\ pc = "clear"
    BY <1>2, <1>t, <1>j DEF ClearDrop, Rename, TypeOK
  <2>2. \/ cursor = Absent /\ job.index = 0
        \/ cursor \in Cursors /\ cursor.next = job.index
    BY <1>t, <2>1 DEF IInv, JobFollowsCursor
  <2>3. \A l \in NonHidden' : l = Target \/ l \in NonHidden
    BY <2>1 DEF NonHidden
  <2> QED
    BY <1>t, <1>j, <1>i, <2>1, <2>2, <2>3, MarkFacts, IndexFacts DEF VisibleFollowsCursor
<1>3. CASE TruncateCursor
  <2>1. \/ cursor = Absent /\ job.index = 0
        \/ cursor \in Cursors /\ cursor.next = job.index /\ cursor.fingerprint = job.fingerprint
    BY <1>3, <1>t DEF TruncateCursor, IInv, JobFollowsCursor
  <2>2. \A l \in NonHidden : l[1] <= job.index
    BY <1>t, <1>j, <2>1, IndexFacts DEF VisibleFollowsCursor
  <2>3. \A k \in Indices : k < job.index => Label(k, job.fingerprint) \in NonHidden
    BY <1>t, <2>1, SettledIsVisible, IndexFacts DEF IInv
  <2> QED
    BY <1>3, <2>2, <2>3, MarkFacts DEF TruncateCursor, VisibleFollowsCursor, NonHidden
<1>4. CASE WriteCursor
  <2>1. cursor = Torn
    BY <1>4, <1>t DEF WriteCursor, IInv, JobInPlace
  <2>2. \A l \in NonHidden : l[1] <= job.index + 1
    <3> SUFFICES ASSUME NEW l \in NonHidden PROVE l[1] <= job.index + 1
      OBVIOUS
    <3>1. l[1] <= job.index
      BY <1>t, <2>1 DEF VisibleFollowsCursor
    <3>2. l[1] \in Nat
      BY IndexFacts DEF NonHidden, Labels, Label
    <3> QED
      BY <1>j, <3>1, <3>2, IndexFacts
  <2>3. cursor'.next = job.index + 1 /\ cursor' # Torn /\ cursor' # Absent
    BY <1>4, <1>j, IndexFacts, MarkFacts DEF WriteCursor, Cursors
  <2> QED
    BY <1>4, <2>2, <2>3 DEF WriteCursor, VisibleFollowsCursor, NonHidden
<1>5. CASE Reset
  BY <1>5, MarkFacts DEF Reset, VisibleFollowsCursor, NonHidden
<1>6. CASE UNCHANGED <<drop, cursor, job>>
  BY <1>6, <1>t DEF VisibleFollowsCursor, NonHidden
<1> QED
  BY <1>1, <1>2, <1>3, <1>4, <1>5, <1>6
     DEF Next, Invocation, Mishap, vars, disk, Refuse, Drained, Stage, WriteTables, WriteFails,
         TruncateManifest, WriteManifest, TruncateReadme, WriteReadme, Die, ChangeConfig

LEMMA StepManifest == DiskInv /\ [Next]_vars => ManifestFollowsCursor'
<1> SUFFICES ASSUME DiskInv, [Next]_vars PROVE ManifestFollowsCursor'
  OBVIOUS
<1>t. TypeOK /\ TypeOK' /\ IInv /\ ManifestFollowsCursor
  BY StepTypeOK DEF DiskInv, IInv
<1>j. job.index \in Indices /\ job.fingerprint \in Configs
  BY <1>t, TargetIsLabel
<1>1. CASE Start
  <2>1. cursor # Torn
    BY <1>1, <1>t, StartFindsNoTorn
  <2> QED
    BY <1>1, <1>t, <2>1 DEF Start, disk, ManifestFollowsCursor, ManifestNotAhead
<1>2. CASE TruncateCursor
  <2>1. \/ cursor = Absent
        \/ cursor \in Cursors /\ cursor.next = job.index
    BY <1>2, <1>t DEF TruncateCursor, IInv, JobFollowsCursor
  <2> QED
    BY <1>2, <1>t, <2>1, MarkFacts, MarkAssumption
       DEF TruncateCursor, ManifestFollowsCursor, ManifestNotAhead
<1>3. CASE WriteCursor
  <2>1. cursor = Torn
    BY <1>3, <1>t DEF WriteCursor, IInv, JobInPlace
  <2>2. cursor'.next = job.index + 1 /\ cursor' \in Cursors
    BY <1>3, <1>j, IndexFacts DEF WriteCursor, Cursors
  <2>3. manifest \in NextIndices => manifest <= job.index + 1
    BY <1>t, <1>j, <2>1, IndexFacts DEF ManifestFollowsCursor
  <2> QED
    BY <1>3, <2>2, <2>3, MarkFacts DEF WriteCursor, ManifestFollowsCursor, ManifestNotAhead
<1>4. CASE TruncateManifest
  BY <1>4, <1>t, MarkFacts, MarkAssumption
     DEF TruncateManifest, ManifestFollowsCursor, ManifestNotAhead
<1>5. CASE WriteManifest
  BY <1>5, <1>t, <1>j, MarkFacts, IndexFacts DEF WriteManifest, ManifestFollowsCursor, ManifestNotAhead
<1>6. CASE Reset
  BY <1>6, MarkFacts DEF Reset, ManifestFollowsCursor, ManifestNotAhead
<1>7. CASE UNCHANGED <<cursor, manifest, job>> /\ pc' \notin {"open_manifest", "write_manifest"}
  BY <1>7, <1>t DEF ManifestFollowsCursor, ManifestNotAhead
<1>8. CASE UNCHANGED <<cursor, manifest, job, pc>>
  BY <1>8, <1>t DEF ManifestFollowsCursor, ManifestNotAhead
<1> QED
  BY <1>1, <1>2, <1>3, <1>4, <1>5, <1>6, <1>7, <1>8
     DEF Next, Invocation, Mishap, vars, disk, Refuse, Drained, Stage, WriteTables, WriteFails,
         ClearDrop, Rename, TruncateReadme, WriteReadme, Die, ChangeConfig

LEMMA BelowABound ==
    ASSUME NEW a \in Nat, NEW b \in Nat, NEW c \in Nat, a < b, b <= c
    PROVE  a < c
OBVIOUS

\* What goes up to one past the settled windows has no gap.
LEMMA VisibleIsContiguous ==
    ASSUME IInv, VisibleFollowsCursor
    PROVE  DropsContiguous
<1> SUFFICES ASSUME NEW l \in NonHidden, NEW j \in 0 .. l[1] - 1
             PROVE  \E m \in NonHidden : m[1] = j
  BY DEF DropsContiguous
<1>1. l[1] \in Indices
  BY DEF NonHidden, Labels, Label
<1>2. j \in Indices /\ j < l[1]
  BY <1>1, WindowAssumption DEF Indices
<1>t. TypeOK /\ SettledDropsWhole /\ job.index \in Indices
  BY TargetIsLabel DEF IInv
<1>3. CASE cursor = Absent
  BY <1>2, <1>3 DEF VisibleFollowsCursor, Indices
<1>4. CASE cursor \in Cursors
  <2>1. j < cursor.next
    <3>1. l[1] <= cursor.next
      BY <1>4, <1>t, MarkFacts DEF VisibleFollowsCursor
    <3>2. cursor.next \in Nat
      BY <1>4, IndexFacts DEF Cursors
    <3>3. j \in Nat /\ l[1] \in Nat
      BY <1>1, <1>2, IndexFacts
    <3> QED
      BY <1>2, <3>1, <3>2, <3>3, BelowABound
  <2>2. Label(j, cursor.fingerprint) \in NonHidden
    BY <1>2, <1>4, <1>t, <2>1, SettledIsVisible
  <2> QED
    BY <2>2 DEF Label
<1>5. CASE cursor = Torn
  <2>1. j < job.index
    <3>1. l[1] <= job.index
      BY <1>5 DEF VisibleFollowsCursor
    <3>2. j \in Nat /\ l[1] \in Nat /\ job.index \in Nat
      BY <1>1, <1>2, <1>t, IndexFacts
    <3> QED
      BY <1>2, <3>1, <3>2, BelowABound
  <2>2. Label(j, job.fingerprint) \in NonHidden
    BY <1>2, <1>5, <2>1 DEF VisibleFollowsCursor
  <2> QED
    BY <2>2 DEF Label
<1> QED
  BY <1>3, <1>4, <1>5, <1>t DEF TypeOK

\* The visible drops have no gap and the manifest claims no window that the cursor
\* has not passed, however often invocations die between two effects.
THEOREM DiskIsSound == Spec => []DiskFollowsCursor
<1>1. DiskInv /\ [Next]_vars => DiskInv'
  BY StepIInv, StepVisible, StepManifest DEF DiskInv
<1>2. DiskInv => DiskFollowsCursor
  BY VisibleIsContiguous DEF DiskInv, IInv, ManifestFollowsCursor, DiskFollowsCursor
<1> QED
  BY InitDiskInv, <1>1, <1>2, PTL DEF Spec
=============================================================================

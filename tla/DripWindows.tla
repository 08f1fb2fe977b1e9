---------------------------- MODULE DripWindows -----------------------------
(***************************************************************************)
(* The window arithmetic of an incremental drip: derive_window and         *)
(* parse_range, with the datetime semantics they rely on, and the drip     *)
(* walking the windows until the one past slice_at.                        *)
(*                                                                         *)
(* Time is counted in hours.  A zone changes its UTC offset once, at       *)
(* instant zone.at, by zone.shift hours, so a civil time may be missing    *)
(* (shift > 0) or occur twice (shift < 0).  An aware datetime is its wall  *)
(* time, its fold and its tzinfo; weeks begin every WeekDays days, and     *)
(* months at days that repeat with the calendar's cycle, whose length is   *)
(* CycleDays (146097 days, four hundred years, for the civil calendar).    *)
(***************************************************************************)
EXTENDS Integers, Sequences, FiniteSetsExt

CONSTANTS
    DayHours, WeekDays,
    CycleDays,
    MonthStarts,    \* days of the cycle on which a month begins
    SimPeriod,      \* incremental.sim_period_ns
    ZoneChanges,    \* the zones a run may have: records [at, shift]
    Starts,         \* instants sim_time 0 may fall on
    Slices          \* slice_at of the sole branch

ASSUME HourAssumption == DayHours \in Nat \ {0} /\ WeekDays \in Nat \ {0} /\ SimPeriod \in Nat \ {0}

ASSUME CalendarAssumption ==
    CycleDays \in Nat \ {0} /\ MonthStarts # {} /\ MonthStarts \subseteq 0 .. CycleDays - 1

ASSUME RunAssumption ==
    ZoneChanges \subseteq [at : Int, shift : Int] /\ Starts \subseteq Int /\ Slices \subseteq Int

Periods == {"day", "week", "month", "sim"}

VARIABLES
    zone, start, period, sliceAt,   \* the run: anchor zone, origin, cadence, end
    windows,                        \* bounds of the windows emitted so far
    drained

windowVars == <<zone, start, period, sliceAt, windows, drained>>

-----------------------------------------------------------------------------
(* Aware datetimes.                                                        *)

\* The offset zoneinfo gives a wall time: with fold 0 the one before the change
\* for a missing or repeated time, with fold 1 the one after it.
OffsetOf(wall, fold) ==
    LET before == IF fold = 0 THEN Max({0, zone.shift}) ELSE Min({0, zone.shift})
    IN  IF wall < zone.at + before THEN 0 ELSE zone.shift

Instant(dt) == IF dt.tz = "utc" THEN dt.wall ELSE dt.wall - OffsetOf(dt.wall, dt.fold)

\* datetime.astimezone(zone) of an instant.
InZone(i) ==
    LET wall == IF i < zone.at THEN i ELSE i + zone.shift
    IN  [wall |-> wall,
         fold |-> IF i >= zone.at /\ i < zone.at - zone.shift THEN 1 ELSE 0,
         tz   |-> "zone"]

\* datetime subtraction: two datetimes of one tzinfo object subtract by their
\* wall times, any others by their instants.
Minus(a, b) == IF a.tz = b.tz THEN a.wall - b.wall ELSE Instant(a) - Instant(b)

\* resolve_effective_anchor: the origin localized in, or converted to, the zone.
StartInstant == InZone(start)

-----------------------------------------------------------------------------
(* derive_window.                                                          *)

Fold0(wall) == [wall |-> wall, fold |-> 0, tz |-> "zone"]

PeriodStart(day) ==
    CASE period = "day"   -> TRUE
      [] period = "week"  -> day % WeekDays = 0
      [] period = "month" -> day % CycleDays \in MonthStarts

\* Every week and every month begins within a cycle and a week.
NextStart(day) == CHOOSE d \in day + 1 .. day + CycleDays + WeekDays :
                     PeriodStart(d) /\ \A e \in day + 1 .. d - 1 : ~PeriodStart(e)

FirstBoundaryAfter(dt) == Fold0(DayHours * NextStart(dt.wall \div DayHours))

\* _advance_one_period works on the boundary's own wall time.
AdvanceOnePeriod(dt) ==
    LET day == dt.wall \div DayHours
        next == CASE period = "day"   -> day + 1
                  [] period = "week"  -> day + WeekDays
                  [] period = "month" -> NextStart(day)
    IN  Fold0((DayHours * next) + (dt.wall % DayHours))

Boundary[k \in Nat] ==
    IF k = 0 THEN StartInstant
    ELSE IF k = 1 THEN FirstBoundaryAfter(StartInstant)
    ELSE AdvanceOnePeriod(Boundary[k - 1])

\* _instant_to_ns_offset
SimOffset(dt) == Minus(dt, StartInstant)

\* Mutant: a window that ends a period late.
DeriveWindow_Wide(k) ==
    IF period = "sim" THEN [from |-> k * SimPeriod, to |-> (k + 1) * SimPeriod]
    ELSE [from |-> SimOffset(Boundary[k]), to |-> SimOffset(Boundary[k + 2])]

DeriveWindow(k) ==
    IF period = "sim" THEN [from |-> k * SimPeriod, to |-> (k + 1) * SimPeriod]
    ELSE [from |-> SimOffset(Boundary[k]), to |-> SimOffset(Boundary[k + 1])]

-----------------------------------------------------------------------------
(* parse_range.                                                            *)

\* _localize_strict: neither a missing nor a repeated civil time.
StrictlyLocal(wall) ==
    /\ InZone(Instant(Fold0(wall))).wall = wall
    /\ OffsetOf(wall, 0) = OffsetOf(wall, 1)

RangeAccepted(from, to) ==
    /\ StrictlyLocal(from) /\ StrictlyLocal(to)
    /\ SimOffset(Fold0(from)) < SimOffset(Fold0(to))

\* Mutant: the range counts in absolute time, the windows in wall time.
ParseRange_Absolute(from, to) ==
    [from |-> Instant(Fold0(from)) - start, to |-> Instant(Fold0(to)) - start]

ParseRange(from, to) == [from |-> SimOffset(Fold0(from)), to |-> SimOffset(Fold0(to))]

-----------------------------------------------------------------------------
WindowsInit ==
    /\ zone \in ZoneChanges
    /\ start \in Starts
    /\ period \in Periods
    /\ sliceAt \in Slices
    /\ windows = <<>>
    /\ drained = FALSE

PastEnd(w) == w.from > sliceAt

Emit ==
    LET w == DeriveWindow(Len(windows))
    IN  /\ ~drained
        /\ ~PastEnd(w)
        /\ windows' = Append(windows, w)
        /\ UNCHANGED <<zone, start, period, sliceAt, drained>>

Drain ==
    /\ ~drained
    /\ PastEnd(DeriveWindow(Len(windows)))
    /\ drained' = TRUE
    /\ UNCHANGED <<zone, start, period, sliceAt, windows>>

WindowsNext == Emit \/ Drain

WindowsSpec == WindowsInit /\ [][WindowsNext]_windowVars

-----------------------------------------------------------------------------
(* Properties.                                                             *)

\* The windows tile sim time from 0: no event falls between two of them or into
\* both, whatever the zone does (windows.py, derive_window is called per index
\* and never sees the window before).
WindowsTile ==
    /\ windows # <<>> => windows[1].from = 0
    /\ \A k \in DOMAIN windows : windows[k].from < windows[k].to
    /\ \A k \in DOMAIN windows : k > 1 => windows[k].from = windows[k - 1].to

\* Drained means that every sim time up to and including slice_at lies in an
\* emitted window, and that no window beyond slice_at was emitted.
DrainedCoversRun ==
    drained =>
        /\ \A t \in 0 .. sliceAt : \E k \in DOMAIN windows : windows[k].from <= t /\ t < windows[k].to
        /\ \A k \in DOMAIN windows : windows[k].from <= sliceAt

\* The windows are a partition of the run, to its very end.
WindowsCoverRun == WindowsTile /\ DrainedCoversRun

\* Re-driving one past window as a range between its two civil bounds selects
\* exactly what the window selected (docs/architecture/incremental.md:572).
RangeReproducesWindow ==
    \A k \in DOMAIN windows :
        (period # "sim" /\ RangeAccepted(Boundary[k - 1].wall, Boundary[k].wall)) =>
            ParseRange(Boundary[k - 1].wall, Boundary[k].wall) = windows[k]

\* docs/architecture/incremental.md:127, "Window widths are physical durations
\* between boundary instants — a DST-crossing day is 23 or 25 hours of physical
\* ns, faithfully."
WidthsArePhysical ==
    period # "sim" =>
        \A k \in DOMAIN windows :
            windows[k].to - windows[k].from = Instant(Boundary[k]) - Instant(Boundary[k - 1])
=============================================================================

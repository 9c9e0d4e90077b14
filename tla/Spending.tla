------------------------------ MODULE Spending ------------------------------
(***************************************************************************)
(* What was spent on electricity (crates/lss-core/src/rates.rs:615,        *)
(* crates/lss-collector/src/cost_run.rs:121): the stored ten minutes are   *)
(* priced, summed by local day, and the days summed by windows whose       *)
(* starts are counted back from the last local midnight in days of 86 400  *)
(* seconds, on a calendar where two days of the year are not that long.    *)
(*                                                                         *)
(* The unit of time is ten minutes, one row of the tier.  What a priced    *)
(* row costs is left out: a window is the days it sums.                    *)
(***************************************************************************)
EXTENDS Integers, Sequences, FiniteSets, FiniteSetsExt

CONSTANTS
    DaySecs,                    \* 86_400
    MonthLengths, Januaries,    \* external: the calendar in days, and its first months
    DaysAWeek,
    ShortestMonth,              \* the 28 of month_bounds
    LastWeek, LastMonth, Chart, \* the days of last_7d, last_30d and of the chart: 7, 30, 31
    PROJECTION_MIN_DAYS,
    PROJECTION_MIN_COVERAGE     \* in percent

ASSUME SpendingAssumption ==
    /\ {DaySecs, DaysAWeek, ShortestMonth, LastWeek, LastMonth, Chart} \subseteq Nat \ {0}
    /\ MonthLengths \in Seq(Nat \ {0}) /\ Januaries \subseteq DOMAIN MonthLengths
    /\ PROJECTION_MIN_DAYS \in Nat /\ PROJECTION_MIN_COVERAGE \in 0 .. 100

VARIABLES
    zone,       \* external: when each local day begins
    priced,     \* the ten minutes that have a row the tariff has a price for
    clock

spending_vars == <<zone, priced, clock>>

-----------------------------------------------------------------------------
(***************************************************************************)
(* The calendar (external: the formatter and the zone's rules)             *)
(***************************************************************************)
\* A moment is in the day that has begun and whose successor has not.
InDay(t, d) == zone[d] <= t /\ (d + 1 \in DOMAIN zone => t < zone[d + 1])

LocalDay(t) == CHOOSE d \in DOMAIN zone : InDay(t, d)
LocalMidnight(t) == zone[LocalDay(t)]

FirstDays ==
    [m \in 1 .. Len(MonthLengths) + 1 |-> 1 + MapThenSumSet(LAMBDA k : MonthLengths[k], 1 .. m - 1)]
FirstOf(m) == FirstDays[m]
MonthOf(d) == Max({m \in DOMAIN MonthLengths : FirstOf(m) <= d})
JanuaryFirst(d) == FirstOf(Max({m \in Januaries : m <= MonthOf(d)}))
DayOfMonth(d) == d - FirstOf(MonthOf(d)) + 1
DayOfYear(d) == d - JanuaryFirst(d) + 1
Weekday(d) == ((d - 1) % DaysAWeek) + 1

(***************************************************************************)
(* Mutants                                                                 *)
(***************************************************************************)
\* The day found for January 1st is not snapped to its midnight.
YearStartAsCounted(t) == LocalMidnight(t) - (DayOfYear(LocalDay(t)) - 1) * DaySecs

\* Any month that has begun is covered well enough.
IsWellCoveredAlways(w) == w.nominal_secs > 0

-----------------------------------------------------------------------------
(***************************************************************************)
(* The starts of the windows                                               *)
(***************************************************************************)
\* Noon of the day that is counted back to is in January 1st.
YearStart(t) ==
    LET approx == LocalMidnight(t) - (DayOfYear(LocalDay(t)) - 1) * DaySecs
    IN  LocalMidnight(approx + (DaySecs \div 2))

WeekStart(t) == LocalMidnight(t) - (Weekday(LocalDay(t)) - 1) * DaySecs

MonthStart(t) == LocalMidnight(t) - (DayOfMonth(LocalDay(t)) - 1) * DaySecs

\* month_bounds looks for the next month in days from the start of this one.
DaysInMonth(t) ==
    LET start == MonthStart(t)
        Month(days) == MonthOf(LocalDay(start + days * DaySecs))
    IN  CHOOSE n \in ShortestMonth .. Len(zone) :
            Month(n) # Month(0) /\ \A k \in ShortestMonth .. n - 1 : Month(k) = Month(0)

-----------------------------------------------------------------------------
(***************************************************************************)
(* The windows                                                             *)
(***************************************************************************)
DaySpend(d, rows) ==
    [day |-> d, ts |-> zone[d], covered_secs |-> Cardinality({t \in rows : LocalDay(t) = d})]

\* A day without a priced row has no entry.
DailySpend(from) ==
    LET rows == {t \in priced : t >= from}
    IN  {DaySpend(d, rows) : d \in {LocalDay(t) : t \in rows}}

\* SpendWindow::of, the money as the days it is the sum of
SpendWindow(days, from, to, nominal) ==
    LET held == {d \in days : d.ts >= from /\ d.ts < to}
    IN  [days |-> {d.day : d \in held}, nominal_secs |-> nominal,
         covered_secs |-> MapThenSumSet(LAMBDA d : d.covered_secs, held)]

IsWellCovered(w) ==
    w.nominal_secs > 0 /\ 100 * w.covered_secs >= PROJECTION_MIN_COVERAGE * w.nominal_secs

NoProjection == [days |-> {}, elapsed |-> 0, of |-> 0]

\* Item 3: the month so far, divided by the days elapsed, times the days in the month.
Projection(this_month, elapsed, days_in_month) ==
    IF \/ elapsed < PROJECTION_MIN_DAYS \/ ~IsWellCovered(this_month) \/ this_month.days = {}
    THEN NoProjection
    ELSE [days |-> this_month.days, elapsed |-> elapsed, of |-> days_in_month]

\* What is charted, and the least that is read.
ChartFrom(t) == LocalMidnight(t) - Chart * DaySecs

Spending(t) ==
    LET today_start == LocalMidnight(t)
        chart_from == ChartFrom(t)
        year_from == YearStart(t)
        days == DailySpend(Min({year_from, chart_from}))
        Since(from, nominal) == SpendWindow(days, from, t + DaySecs, nominal)
        this_month == Since(MonthStart(t), t - MonthStart(t))
    IN  [today |-> SpendWindow(days, today_start, today_start + DaySecs, t - today_start),
         yesterday |-> SpendWindow(days, today_start - DaySecs, today_start, DaySecs),
         this_week |-> Since(WeekStart(t), t - WeekStart(t)),
         last_7d |-> Since(today_start - (LastWeek - 1) * DaySecs, LastWeek * DaySecs),
         this_month |-> this_month,
         last_30d |-> Since(today_start - (LastMonth - 1) * DaySecs, LastMonth * DaySecs),
         this_year |-> Since(year_from, t - year_from),
         daily |-> {d.day : d \in {e \in days : e.ts >= chart_from}},
         projection |-> Projection(this_month, DayOfMonth(LocalDay(t)), DaysInMonth(t))]

-----------------------------------------------------------------------------
(***************************************************************************)
(* Ten minutes pass, and are priced or not (external: the collector was    *)
(* down, no card told its power, the tariff has no period for the hour)    *)
(***************************************************************************)
SpendingInit(midnights, start) ==
    zone = midnights /\ priced = {} /\ clock = start

TenMinutesPass(has_price) ==
    /\ clock' = clock + 1
    /\ priced' = IF has_price THEN priced \cup {clock} ELSE priced
    /\ UNCHANGED zone

-----------------------------------------------------------------------------
(***************************************************************************)
(* Properties                                                              *)
(***************************************************************************)
\* The days each window is named for (rates.rs:679).
Meant(d) ==
    [today |-> {d}, yesterday |-> {d - 1},
     this_week |-> {e \in DOMAIN zone : d - Weekday(d) < e /\ e <= d},
     last_7d |-> d - (LastWeek - 1) .. d,
     this_month |-> FirstOf(MonthOf(d)) .. d,
     last_30d |-> d - (LastMonth - 1) .. d,
     this_year |-> JanuaryFirst(d) .. d,
     daily |-> d - Chart .. d]

\* How much longer the days before d were, from e on, than days of 86 400 seconds.
Surplus(e, d) == zone[d] - zone[e] - (d - e) * DaySecs

\* Each window sums the days it is named for (cost_run.rs:150, rates.rs:714), every one
\* that has a priced row and no other, on every day of every calendar; but where a long
\* day lies between, the first day of the window is left out of it.  The year, which is
\* snapped, is always whole.
WindowsAreTheCalendars ==
    zone # <<>> =>
        LET d == LocalDay(clock)
            spent == {LocalDay(t) : t \in priced}
            told == Spending(clock)
            days == Meant(d)
            Summed(w) == IF w = "daily" THEN told.daily ELSE told[w].days
        IN  \A w \in DOMAIN days :
                LET meant == days[w] \cap DOMAIN zone
                    first == Min(meant)
                    missing == (meant \cap spent) \ Summed(w)
                IN  /\ Summed(w) \subseteq meant \cap spent
                    /\ \/ missing = {}
                       \/ w # "this_year" /\ missing = {first} /\ Surplus(first, d) > 0

\* A projection (rates.rs:741) is made of a month that is old enough and mostly priced, it
\* is of all its days so far, and such a month has one; it scales them to the days the
\* month has.  Not claimed of its days when one of them was longer or shorter than 86 400
\* seconds, nor of its length when one was shorter or a longer one is still to come.
ProjectionIsOfThisMonth ==
    zone # <<>> =>
        LET d == LocalDay(clock)
            m == MonthOf(d)
            first == FirstOf(m)
            so_far == Surplus(first, d)
            covered == Cardinality({t \in priced : t >= zone[first]})
            told == Spending(clock).projection
        IN  /\ so_far = 0 =>
                  /\ told # NoProjection <=>
                        /\ d - first + 1 >= PROJECTION_MIN_DAYS /\ covered > 0
                        /\ 100 * covered
                              >= PROJECTION_MIN_COVERAGE * (clock - zone[first])
                  /\ told # NoProjection =>
                        told.days = {LocalDay(t) : t \in priced} \cap (first .. d)
            /\ told # NoProjection =>
                  /\ told.elapsed = d - first + 1
                  /\ so_far >= Max({0, Surplus(first, FirstOf(m + 1))}) =>
                        told.of = MonthLengths[m]

=============================================================================

------------------------------- MODULE Tariff -------------------------------
(***************************************************************************)
(* What a kilowatt hour costs, from the person who types a plan into       *)
(* `lss-collector cost-setup` (crates/lss-core/src/cost_setup.rs,          *)
(* crates/lss-collector/src/cost_setup_run.rs) by the file it writes and   *)
(* the table a collector reads from it once, at its start                  *)
(* (crates/lss-core/src/rates.rs), to the bill of the day                  *)
(* (crates/lss-collector/src/cost_run.rs).                                 *)
(*                                                                         *)
(* Prices are natural numbers that parse_rate lets through, so the checks  *)
(* of check_tou and tou_doubts on prices alone never bite.                 *)
(***************************************************************************)
EXTENDS Integers, FiniteSets, FiniteSetsExt

CONSTANTS
    LocalTime,          \* external: day, month, hour and weekend of each moment
    HoursADay, Months,  \* 24 and 12
    MaxTries,           \* 3
    DoubtfulCharge,     \* a fixed charge a day that is asked about once more
    MAX_STEP_SECS,
    HISTORY_SECS, SERIES_STEP_SECS

Moments == DOMAIN LocalTime
LocalTimes == [day: Nat, month: 1 .. Months, hour: 0 .. HoursADay - 1, weekend: BOOLEAN]

ASSUME TariffAssumption ==
    /\ {HoursADay, Months, MaxTries} \subseteq Nat \ {0}
    /\ {DoubtfulCharge, MAX_STEP_SECS, HISTORY_SECS, SERIES_STEP_SECS} \subseteq Nat
    /\ Moments \subseteq Nat /\ LocalTime \in [Moments -> LocalTimes]

Price == Nat \ {0}
Unpriced == 0       \* Option::None of a price
NoReading == -1

\* A plan as it is typed: TouPlan, as far as `number` lets its numbers through, or one rate.
TouPlans ==
    [kind: {"time_of_use"}, on_peak: Price, off_peak: Price, weekend_peak: Price,
     peak_start: 0 .. HoursADay - 1, peak_end: 1 .. HoursADay,
     seasonal: BOOLEAN, summer_start: 1 .. Months, summer_end: 1 .. Months, winter_peak: Price,
     fixed_usd_per_day: Nat]
FlatPlans == [kind: {"flat"}, usd: Price]

\* No file, and a file that does not parse.
Missing == [kind |-> "missing"]
Unreadable == [kind |-> "unreadable"]

VARIABLES
    wizard,         \* the conversation: where it is, its tries, the plan, --force
    rates_file,     \* rates.toml
    rates_tmp,      \* rates.toml.tmp
    collecting,     \* a collector is up
    rates_table,    \* what it read at its start
    recent_from,    \* its History holds the samples since then
    meter,          \* the samples table: the cards' watts, the token counter
    generated,      \* external: the engine's token counter
    moment

\* History: the plan the person agreed to have in the file, the holidays written into it
\* by hand, and whether a slip of the hand spoilt it; and the same of the table.
VARIABLES agreed, standing

tariff_files == <<rates_file, rates_tmp, agreed>>
tariff_collector == <<collecting, rates_table, recent_from, standing>>
tariff_meter == <<meter, generated, moment>>
tariff_vars == <<wizard, tariff_files, tariff_collector, tariff_meter>>

NoPlan == [kind |-> "none"]
NoWizard == [pc |-> "idle", tries |-> 0, plan |-> NoPlan, force |-> FALSE]
NoAgreement == [plan |-> NoPlan, holidays |-> {}, spoilt |-> FALSE]

-----------------------------------------------------------------------------
(***************************************************************************)
(* Mutants                                                                 *)
(***************************************************************************)
\* The hour a period ends in belongs to it.
MatchesItsEnd(period, c) ==
    /\ period.season = "any" \/ (period.season = "summer") = c.summer
    /\ period.day = "any" \/ (period.day = "weekend_or_holiday") = c.free
    /\ period.start_hour <= c.hour /\ c.hour <= period.end_hour

\* The new file is opened under its final name.
OpenInPlace ==
    /\ wizard.pc = "open" /\ wizard' = [wizard EXCEPT !.pc = "write"]
    /\ rates_file' = Unreadable /\ rates_tmp' = rates_tmp
    /\ UNCHANGED <<agreed, tariff_collector, tariff_meter>>

-----------------------------------------------------------------------------
(***************************************************************************)
(* The plan and its file                                                   *)
(***************************************************************************)
\* check_tou
Usable(p) ==
    /\ p.peak_start < p.peak_end
    /\ p.seasonal => p.summer_start < p.summer_end

\* tou_doubts
Doubtful(p) == p.off_peak > p.on_peak \/ p.fixed_usd_per_day > DoubtfulCharge

Period(usd, season, day, from, to) ==
    [usd |-> usd, season |-> season, day |-> day, start_hour |-> from, end_hour |-> to]

Spans(p) ==
    LET a == p.peak_start
        b == p.peak_end
        summer == IF p.seasonal THEN "summer" ELSE "any"
    IN  <<Period(p.on_peak, summer, "weekday", a, b),
          Period(p.off_peak, summer, "weekday", 0, a),
          Period(p.off_peak, summer, "weekday", b, HoursADay),
          Period(p.weekend_peak, summer, "weekend_or_holiday", a, b),
          Period(p.off_peak, summer, "weekend_or_holiday", 0, a),
          Period(p.off_peak, summer, "weekend_or_holiday", b, HoursADay),
          Period(p.winter_peak, "winter", "any", a, b),
          Period(p.off_peak, "winter", "any", 0, a),
          Period(p.off_peak, "winter", "any", b, HoursADay)>>

\* A span of no hours is not written, nor winter when the plan has no seasons.
Written(p) ==
    {i \in 1 .. 9 : Spans(p)[i].start_hour < Spans(p)[i].end_hour /\ (i > 6 => p.seasonal)}

\* render_tou_toml and render_rates_toml; the periods keep their order.
Rendered(p) ==
    IF p.kind = "flat" THEN p
    ELSE [kind |-> "time_of_use",
          summer_start |-> IF p.seasonal THEN p.summer_start ELSE 6,
          summer_end |-> IF p.seasonal THEN p.summer_end ELSE 10,
          holidays |-> {},
          periods |-> [i \in Written(p) |-> Spans(p)[i]]]

-----------------------------------------------------------------------------
(***************************************************************************)
(* The wizard                                                              *)
(***************************************************************************)
Wizard(pc) == wizard' = [wizard EXCEPT !.pc = pc]

BeginWizard(force) ==
    /\ wizard.pc = "idle"
    /\ wizard' = [pc |-> "asking", tries |-> 1, plan |-> NoPlan, force |-> force]
    /\ UNCHANGED <<tariff_files, tariff_collector, tariff_meter>>

\* Once more, at most three times in all.
Again ==
    wizard' = IF wizard.tries < MaxTries
              THEN [wizard EXCEPT !.pc = "asking", !.tries = @ + 1, !.plan = NoPlan]
              ELSE NoWizard

AnswerPlan(p) ==
    /\ wizard.pc = "asking"
    /\ IF Usable(p)
       THEN wizard' = [wizard EXCEPT !.pc = IF Doubtful(p) THEN "doubted" ELSE "chosen", !.plan = p]
       ELSE Again
    /\ UNCHANGED <<tariff_files, tariff_collector, tariff_meter>>

\* "Use these numbers anyway?"
AnswerDoubt(yes) ==
    /\ wizard.pc = "doubted"
    /\ IF yes THEN Wizard("chosen") ELSE Again
    /\ UNCHANGED <<tariff_files, tariff_collector, tariff_meter>>

\* One rate: by ZIP code, by address, or typed.
AnswerRate(usd) ==
    /\ wizard.pc = "asking" /\ wizard.tries = 1
    /\ wizard' = [wizard EXCEPT !.pc = "chosen", !.plan = [kind |-> "flat", usd |-> usd]]
    /\ UNCHANGED <<tariff_files, tariff_collector, tariff_meter>>

\* "already exists. Replace it?", whatever it is that exists.
AnswerReplace(yes) ==
    /\ wizard.pc = "chosen"
    /\ IF rates_file = Missing \/ wizard.force \/ yes THEN Wizard("open") ELSE wizard' = NoWizard
    /\ UNCHANGED <<tariff_files, tariff_collector, tariff_meter>>

\* write_file: the temporary is opened and emptied, written, and renamed.
OpenTmp ==
    /\ wizard.pc = "open" /\ Wizard("write")
    /\ rates_tmp' = Unreadable
    /\ UNCHANGED <<rates_file, agreed, tariff_collector, tariff_meter>>

WriteTmp ==
    /\ wizard.pc = "write" /\ Wizard("rename")
    /\ rates_tmp' = Rendered(wizard.plan)
    /\ UNCHANGED <<rates_file, agreed, tariff_collector, tariff_meter>>

RenameTmp ==
    /\ wizard.pc = "rename" /\ wizard' = NoWizard
    /\ rates_file' = rates_tmp /\ rates_tmp' = Missing
    /\ agreed' = [plan |-> wizard.plan, holidays |-> {}, spoilt |-> FALSE]
    /\ UNCHANGED <<tariff_collector, tariff_meter>>

\* The end of input, a write that fails, or the death of the process, anywhere.
LeaveWizard ==
    /\ wizard.pc # "idle" /\ wizard' = NoWizard
    /\ UNCHANGED <<tariff_files, tariff_collector, tariff_meter>>

\* External: "edit it by hand": a holiday is entered, or a slip spoils the file.
EnterHoliday(day) ==
    /\ rates_file.kind = "time_of_use"
    /\ rates_file' = [rates_file EXCEPT !.holidays = @ \cup {day}]
    /\ agreed' = [agreed EXCEPT !.holidays = @ \cup {day}]
    /\ UNCHANGED <<wizard, rates_tmp, tariff_collector, tariff_meter>>

SpoilFile ==
    /\ rates_file.kind \in {"time_of_use", "flat"}
    /\ rates_file' = Unreadable /\ agreed' = [agreed EXCEPT !.spoilt = TRUE]
    /\ UNCHANGED <<wizard, rates_tmp, tariff_collector, tariff_meter>>

-----------------------------------------------------------------------------
(***************************************************************************)
(* The price of a moment                                                   *)
(***************************************************************************)
Matches(period, c) ==
    /\ period.season = "any" \/ (period.season = "summer") = c.summer
    /\ period.day = "any" \/ (period.day = "weekend_or_holiday") = c.free
    /\ period.start_hour <= c.hour /\ c.hour < period.end_hour

DayContextAt(table, t) ==
    LET at == LocalTime[t]
    IN  [hour |-> at.hour,
         summer |-> table.summer_end > table.summer_start =>
                        at.month \in table.summer_start .. table.summer_end - 1,
         free |-> at.weekend \/ at.day \in table.holidays]

\* The first period that matches; a gap is left unpriced.
Hits(table, t) ==
    LET c == DayContextAt(table, t)
    IN  {i \in DOMAIN table.periods : Matches(table.periods[i], c)}

UsdPerKwhAt(table, t) ==
    IF table.kind = "flat" THEN table.usd
    ELSE LET hits == Hits(table, t)
         IN  IF hits = {} THEN Unpriced ELSE table.periods[Min(hits)].usd

-----------------------------------------------------------------------------
(***************************************************************************)
(* The bill of the day                                                     *)
(***************************************************************************)
\* local_midnight, where the clock may repeat an hour
SameDay(t, u) == LocalTime[t].day = LocalTime[u].day
Midnight(t) == Min({u \in Moments : SameDay(t, u)})

\* Samples that follow each other among those of a set.
Neighbours(set) ==
    {x \in set \X set : /\ x[1].ts < x[2].ts
                        /\ ~\E s \in set : x[1].ts < s.ts /\ s.ts < x[2].ts}

\* watt_series: a sample without a reading of the cards is absent
WattSeries(now) ==
    {s \in meter : s.watts # NoReading /\ s.ts >= Midnight(now) /\ s.ts <= now}

\* Twice the energy of a trapezoid.
Energy(x) == (x[1].watts + x[2].watts) * (x[2].ts - x[1].ts)

\* The intervals that are priced, each at its own start.
PricedSteps(table, series) ==
    {x \in Neighbours(series) : /\ x[2].ts - x[1].ts <= MAX_STEP_SECS
                                /\ UsdPerKwhAt(table, x[1].ts) # Unpriced}

StepUsd(table, steps) == [x \in steps |-> Energy(x) * UsdPerKwhAt(table, x[1].ts)]
Sum(f) == MapThenSumSet(LAMBDA x : f[x], DOMAIN f)

\* accumulate
TodayUsd(table, now) == Sum(StepUsd(table, PricedSteps(table, WattSeries(now))))

\* counter_window over the History, since midnight
Grown(x) ==
    IF x[1].count # NoReading /\ x[2].count >= x[1].count THEN x[2].count - x[1].count ELSE 0
TodayTokens(now) ==
    LET held == {s \in meter : s.ts >= recent_from /\ s.ts >= Midnight(now)}
    IN  Sum([x \in Neighbours(held) |-> Grown(x)])

-----------------------------------------------------------------------------
(***************************************************************************)
(* The collector                                                           *)
(***************************************************************************)
\* The file is read once; one that does not parse turns cost tracking off.
StartMetering ==
    /\ ~collecting /\ collecting' = TRUE
    /\ rates_table' = IF rates_file = Unreadable THEN Missing ELSE rates_file
    /\ standing' = agreed
    /\ recent_from' = moment - HISTORY_SECS
    /\ UNCHANGED <<wizard, tariff_files, tariff_meter>>

StopMetering ==
    /\ collecting /\ collecting' = FALSE
    /\ UNCHANGED <<rates_table, recent_from, standing, wizard, tariff_files, tariff_meter>>

\* Time passes, the engine generates, and a collector that is up takes a sample.
Metered(tokens, watts, scraped) ==
    LET now == moment + 1
        s == [ts |-> now, watts |-> watts, count |-> IF scraped THEN generated' ELSE NoReading]
        oldest == now - HISTORY_SECS - SERIES_STEP_SECS
    IN  /\ now \in Moments /\ moment' = now
        /\ generated' = generated + tokens
        /\ IF collecting
           THEN /\ meter' = meter \cup {s}
                /\ recent_from' = IF recent_from < oldest THEN oldest ELSE recent_from
           ELSE UNCHANGED <<meter, recent_from>>
        /\ UNCHANGED <<wizard, tariff_files, collecting, rates_table, standing>>

TariffInit ==
    /\ wizard = NoWizard
    /\ rates_file = Missing /\ rates_tmp = Missing /\ agreed = NoAgreement
    /\ collecting = FALSE /\ rates_table = Missing /\ recent_from = 0
    /\ standing = NoAgreement
    /\ meter = {} /\ generated = 0 /\ moment \in Moments

TariffNext ==
    \/ \E force \in BOOLEAN : BeginWizard(force)
    \/ \E p \in TouPlans : AnswerPlan(p)
    \/ \E yes \in BOOLEAN : AnswerDoubt(yes) \/ AnswerReplace(yes)
    \/ \E usd \in Price : AnswerRate(usd)
    \/ OpenTmp \/ WriteTmp \/ RenameTmp \/ LeaveWizard
    \/ \E day \in Nat : EnterHoliday(day)
    \/ SpoilFile \/ StartMetering \/ StopMetering
    \/ \E tokens \in Nat, watts \in Nat \cup {NoReading}, scraped \in BOOLEAN :
          Metered(tokens, watts, scraped)

TariffSpec == TariffInit /\ [][TariffNext]_tariff_vars

-----------------------------------------------------------------------------
(***************************************************************************)
(* Properties                                                              *)
(***************************************************************************)
\* What the person meant the kilowatt hour to cost at a moment.
AgreedPrice(a, t) ==
    LET at == LocalTime[t]
        p == a.plan
    IN  IF p.kind = "flat" THEN p.usd
        ELSE IF at.hour \notin p.peak_start .. p.peak_end - 1 THEN p.off_peak
        ELSE IF p.seasonal /\ at.month \notin p.summer_start .. p.summer_end - 1 THEN p.winter_peak
        ELSE IF at.weekend \/ at.day \in a.holidays THEN p.weekend_peak
        ELSE p.on_peak

\* Every moment has one price (cost_setup.rs:391), and it is the one that was agreed to.
PricedAsMeant(table, a) ==
    \A t \in Moments :
        /\ table.kind = "time_of_use" => Cardinality(Hits(table, t)) = 1
        /\ UsdPerKwhAt(table, t) = AgreedPrice(a, t)

\* rates.toml is never half of a file (cost_setup_run.rs:545), whenever the wizard dies: it
\* prices every moment as the plan that was last agreed to, unless the person spoilt it;
\* and the bill of the day (rates.rs:198) is made of the table of the last start, every
\* interval between two readings close enough at what its own start was meant to cost.
BillIsAsAgreed ==
    /\ rates_file = Unreadable => agreed.spoilt
    /\ rates_file.kind \in {"flat", "time_of_use"} => PricedAsMeant(rates_file, agreed)
    /\ rates_table.kind \in {"flat", "time_of_use"} =>
          /\ PricedAsMeant(rates_table, standing)
          /\ LET steps == {x \in Neighbours(WattSeries(moment)) :
                              x[2].ts - x[1].ts <= MAX_STEP_SECS}
             IN  TodayUsd(rates_table, moment)
                    = Sum([x \in steps |-> Energy(x) * AgreedPrice(standing, x[1].ts)])

\* docs/STATUS-JSON.md:631 "from the SAME `today_usd` and the day's own token counters -
\* never mixed with a different window": what the day's cost is divided by is what the
\* day's samples show.
TokensAreTheDays ==
    collecting /\ rates_table # Missing /\ TodayUsd(rates_table, moment) > 0 =>
        LET today == {s \in meter : s.ts >= Midnight(moment)}
        IN  TodayTokens(moment) = Sum([x \in Neighbours(today) |-> Grown(x)])

=============================================================================

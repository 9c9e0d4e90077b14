------------------------------- MODULE Ledger -------------------------------
(***************************************************************************)
(* The all-time token ledger (crates/lss-core/src/tokens.rs): a total that *)
(* outlives the engine's own counter, fed by the counter's growth, with    *)
(* the fastest sample of all time and of each day.  It is kept in memory   *)
(* and saved once a minute (crates/lss-collector/src/main.rs:988).         *)
(*                                                                         *)
(* One of the four counters; the others are observed by the same call.     *)
(***************************************************************************)
EXTENDS Samples

CONSTANTS
    Day,            \* a calendar day
    PeakDays        \* PEAK_DAYS

ASSUME LedgerAssumption == {Day, PeakDays} \subseteq Nat \ {0}

VARIABLES
    all_time,       \* AllTime, in memory
    saved,          \* ... and as it was saved (since = 0: never)
    saved_at        \* all_time_saved_at

ledger_vars == <<all_time, saved, saved_at>>

NoPeak == [tok_s |-> 0, ts |-> 0]
NewAllTime ==
    [since |-> 0, total |-> 0, last |-> None, epoch |-> 0, peak |-> NoPeak, day_peaks |-> <<>>]

AllTimeType ==
    [since: Nat, total: Nat, last: Nat \cup {None}, epoch: Nat,
     peak: [tok_s: Nat, ts: Nat], day_peaks: Seq([tok_s: Nat, ts: Nat])]

(***************************************************************************)
(* Mutants                                                                 *)
(***************************************************************************)
\* A restart is only told by the counter.
IsResetNever(a, epoch) == FALSE

\* The newest day is dropped in place of the oldest.
KeptDaysNewest(days) == IF Len(days) > PeakDays THEN SubSeq(days, 1, PeakDays) ELSE days

-----------------------------------------------------------------------------
\* The container's start time is known, and another one than before.
IsReset(a, epoch) == epoch # 0 /\ a.epoch # 0 /\ epoch # a.epoch

\* CounterTotal::observe: what a reading adds.
Added(a, value, reset) ==
    CASE a.last = None -> 0
      [] a.last # None /\ (reset \/ value < a.last) -> value
      [] OTHER -> value - a.last

\* day_peaks, oldest first; the last one is the day of the newest sample.
KeptDays(days) == IF Len(days) > PeakDays THEN Tail(days) ELSE days

DayPeaks(days, peak) ==
    IF days # <<>> /\ Last(days).ts \div Day = peak.ts \div Day
    THEN IF peak.tok_s > Last(days).tok_s THEN Append(Front(days), peak) ELSE days
    ELSE KeptDays(Append(days, peak))

\* AllTime::observe
Observed(a, s) ==
    LET peak == [tok_s |-> s.speed, ts |-> s.ts]
    IN  [since |-> IF a.since = 0 THEN s.ts ELSE a.since,
         total |-> a.total + Added(a, s.count, IsReset(a, s.started)),
         last |-> s.count,
         epoch |-> IF s.started # 0 THEN s.started ELSE a.epoch,
         peak |-> IF s.speed > a.peak.tok_s THEN peak ELSE a.peak,
         day_peaks |-> IF s.speed > 0 THEN DayPeaks(a.day_peaks, peak) ELSE a.day_peaks]

-----------------------------------------------------------------------------
(***************************************************************************)
(* Operations                                                              *)
(***************************************************************************)
\* The start of a collector.  A new ledger begins with what the ten-minute tier holds; the
\* peak it takes from the speeds of that tier is left out.
LoadLedger(first_sample, tier) ==
    /\ all_time' = IF saved.since # 0 THEN saved
                   ELSE [NewAllTime EXCEPT !.since = first_sample, !.total = tier]
    /\ saved_at' = 0
    /\ UNCHANGED saved

\* One poll; without metrics there is nothing to observe or save.
ObserveLedger(s) ==
    IF s.count = None THEN UNCHANGED ledger_vars
    ELSE LET save == s.ts - saved_at >= SaveEvery
         IN  /\ all_time' = Observed(all_time, s)
             /\ saved' = IF save THEN all_time' ELSE saved
             /\ saved_at' = IF save THEN s.ts ELSE saved_at
=============================================================================

------------------------------- MODULE C1Rule -------------------------------
(***************************************************************************)
(* The rules of the alert engine about the C1 probe: the decode rate below *)
(* its baseline on several valid probes in a row, and the measurement that *)
(* is stale, whose messages are muted once it flaps.                       *)
(***************************************************************************)
EXTENDS PollClock, SequencesExt

CONSTANTS
    LowProbes,          \* c1_consecutive
    BaselineProbes,     \* c1_baseline_probes, or 0 when the baseline is configured
    StaleAfter,         \* c1_stale_probe_intervals probe intervals
    StaleHold,          \* C1_STALE_FIRE_HOLD_SECS
    MuteWindow,         \* FLAP_MUTE_WINDOW_SECS
    MuteThreshold,      \* FLAP_MUTE_THRESHOLD
    LabelWindow         \* FLAP_LABEL_WINDOW_SECS

ASSUME C1Assumption ==
    {LowProbes, BaselineProbes, StaleAfter, StaleHold, MuteWindow, MuteThreshold,
     LabelWindow} \subseteq Nat

\* A valid probe: its time, and whether its rate is below c1_ratio of the baseline.
Probe == [ts: Nat, low: BOOLEAN]
NoProbe == [ts |-> NoTime, low |-> FALSE]

VARIABLES
    samples,            \* baseline_samples: how many
    low_probes,         \* the times of the low probes of the current streak
    c1_announced, c1_last_sent,
    last_valid, stale,  \* the last valid probe's poll, and the timer of staleness
    flaps, muted_announced,
    c1_out              \* the messages of the last evaluation

\* History: the valid probes that were judged, and those struck out since; whether the
\* last message of each rule was a recovery.
VARIABLES judged, low_told, stale_told

c1_vars == <<samples, low_probes, c1_announced, c1_last_sent, last_valid, stale, flaps,
             muted_announced, c1_out, judged, low_told, stale_told>>

Silence == [low |-> "None", stale |-> {}]

Learning == samples < BaselineProbes

\* What was judged, but for the probes that have no valid row any more.
WithoutStruck(invalid) ==
    [i \in DOMAIN judged |->
        [judged[i] EXCEPT !.struck = @ \/ judged[i].ts \in invalid]]

(***************************************************************************)
(* Mutants.                                                                *)
(***************************************************************************)
\* Only what fires is muted.
MutedFires(edge, muted) ==
    (IF edge = "Fire" /\ ~muted THEN {"fired"} ELSE {})
      \cup (IF edge = "Recover" THEN {"recovered"} ELSE {})
      \cup (IF muted /\ ~muted_announced THEN {"unreliable"} ELSE {})

\* A count of probes that nobody can name cannot be repaired.
RepairStreakWhole(invalid) ==
    /\ judged' = WithoutStruck(invalid)
    /\ c1_out' = Silence
    /\ UNCHANGED <<samples, low_probes, c1_announced, c1_last_sent, last_valid, stale, flaps,
                   muted_announced, low_told, stale_told>>

-----------------------------------------------------------------------------
(***************************************************************************)
(* eval_c1: the low decode rate.  The first probes are the baseline and    *)
(* are not judged.                                                         *)
(***************************************************************************)
Judges(p) == p # NoProbe /\ ~Learning

Streak(p) ==
    IF ~Judges(p) THEN low_probes ELSE IF p.low THEN low_probes \cup {p.ts} ELSE {}

LowEdge(t, p) ==
    IF ~Judges(p) THEN "None"
    ELSE IF p.low
    THEN IF /\ Cardinality(Streak(p)) >= LowProbes
            /\ ~c1_announced /\ Cooled(c1_last_sent, t, Cooldown)
         THEN "Fire" ELSE "None"
    ELSE IF c1_announced THEN "Recover" ELSE "None"

EvalLow(t, p) ==
    /\ samples' = IF p # NoProbe /\ Learning THEN samples + 1 ELSE samples
    /\ low_probes' = Streak(p)
    /\ c1_announced' = \/ LowEdge(t, p) = "Fire"
                       \/ c1_announced /\ LowEdge(t, p) # "Recover"
    /\ c1_last_sent' = IF LowEdge(t, p) = "Fire" THEN t ELSE c1_last_sent

(***************************************************************************)
(* eval_c1_stale.  It runs on every poll outside a bench.                  *)
(***************************************************************************)
\* "now" on the very first tick: a grace period.
LastValid(t, p) == IF p # NoProbe \/ last_valid = NoTime THEN t ELSE last_valid
IsStale(t, p) == t - LastValid(t, p) >= StaleAfter
StaleEdge(t, p) == EdgeOf(stale, t, IsStale(t, p), StaleHold, Cooldown)

\* note_flap, with its prune.
Flaps(t, p) ==
    IF StaleEdge(t, p) = "Recover"
    THEN SelectSeq(Append(flaps, t), LAMBDA f : f > t - LabelWindow) ELSE flaps

Muted(t, p) ==
    Len(SelectSeq(Flaps(t, p), LAMBDA f : f > t - MuteWindow)) >= MuteThreshold

StaleMessages(edge, muted) ==
    (IF edge = "Fire" /\ ~muted THEN {"fired"} ELSE {})
      \cup (IF edge = "Recover" /\ ~muted THEN {"recovered"} ELSE {})
      \cup (IF muted /\ ~muted_announced THEN {"unreliable"} ELSE {})

EvalStale(t, p) ==
    /\ last_valid' = LastValid(t, p)
    /\ stale' = Step(stale, t, IsStale(t, p), StaleHold, Cooldown)
    /\ flaps' = Flaps(t, p)
    /\ muted_announced' = Muted(t, p)

-----------------------------------------------------------------------------
C1Init ==
    /\ samples = 0 /\ low_probes = {} /\ c1_announced = FALSE /\ c1_last_sent = NoTime
    /\ last_valid = NoTime /\ stale = IdleTimer
    /\ flaps = <<>> /\ muted_announced = FALSE
    /\ c1_out = Silence
    /\ judged = <<>> /\ low_told = FALSE /\ stale_told = FALSE

Told(was, fired, recovered) == fired \/ (was /\ ~recovered)

\* A probe that finished while a bench was running is no reading, and nothing of C1
\* is evaluated then.
EvalC1(t, bench, p) ==
    IF bench
    THEN /\ c1_out' = Silence
         /\ UNCHANGED <<samples, low_probes, c1_announced, c1_last_sent, last_valid, stale,
                        flaps, muted_announced, judged, low_told, stale_told>>
    ELSE /\ EvalLow(t, p)
         /\ EvalStale(t, p)
         /\ c1_out' = [low |-> LowEdge(t, p),
                       stale |-> StaleMessages(StaleEdge(t, p), Muted(t, p))]
         /\ judged' = IF Judges(p) THEN Append(judged, [ts |-> p.ts, low |-> p.low, struck |-> FALSE])
                      ELSE judged
         /\ low_told' = Told(low_told, c1_out'.low = "Fire", c1_out'.low = "Recover")
         /\ stale_told' = Told(stale_told, c1_out'.stale \cap {"fired", "unreliable"} # {},
                               "recovered" \in c1_out'.stale)

\* retain_c1_streak, when the collector starts and the repairs of its database have
\* judged some probes again.
RepairStreak(invalid) ==
    /\ low_probes' = low_probes \ invalid
    /\ judged' = WithoutStruck(invalid)
    /\ c1_out' = Silence
    /\ UNCHANGED <<samples, c1_announced, c1_last_sent, last_valid, stale, flaps,
                   muted_announced, low_told, stale_told>>

-----------------------------------------------------------------------------
C1TypeOK ==
    /\ samples \in 0 .. BaselineProbes
    /\ low_probes \subseteq Nat /\ c1_announced \in BOOLEAN /\ c1_last_sent \in OptTime
    /\ last_valid \in OptTime /\ stale \in TimerType
    /\ flaps \in Seq(Nat) /\ muted_announced \in BOOLEAN
    /\ c1_out \in [low: Edges, stale: SUBSET {"fired", "recovered", "unreliable"}]
    /\ judged \in Seq([ts: Nat, low: BOOLEAN, struck: BOOLEAN]) /\ low_told \in BOOLEAN /\ stale_told \in BOOLEAN

\* The low probes at the end of what was judged, those struck out being no probes.
LastLow == {judged[i].ts : i \in {j \in 1 .. Len(judged) :
               /\ ~judged[j].struck
               /\ \A k \in j .. Len(judged) : judged[k].low \/ judged[k].struck}}

\* rules.rs:277 "ONE genuinely low probe later fired "3 consecutive"" must not happen
\* again: the alert is about that many probes in a row that are valid now, also after
\* a restart struck some of them out, and its recovery answers it.
Streaked ==
    /\ c1_out'.low = "Fire" => Cardinality(LastLow') >= LowProbes
    /\ c1_out'.low = "Recover" => low_told
LowIsAStreak == [][Streaked]_<<now, c1_vars>>

\* rules.rs:304 "NEVER quiet about the ROW": while the measurement is stale, the last the
\* reader was told is that it is stale or unreliable, never that it is measuring
\* again, however the single flaps are muted.
StaleIsTold == stale.announced => stale_told

=============================================================================

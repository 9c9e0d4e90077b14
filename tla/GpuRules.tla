------------------------------ MODULE GpuRules ------------------------------
(***************************************************************************)
(* The rules of the alert engine about the GPUs: gpu_missing against the   *)
(* most devices ever listed, two thermal rules per device, and the daily   *)
(* digest that counts seconds for the devices whose thermal alerts are     *)
(* switched off.                                                           *)
(***************************************************************************)
EXTENDS PollClock, FiniteSets

CONSTANTS
    Devices,        \* the GPUs nvidia-smi may list
    Excluded,       \* thermal_exclude
    MissingHold,    \* gpu_missing_secs
    ThermalHold,    \* thermal_secs
    DigestPeriod,   \* DIGEST_PERIOD_SECS
    MaxStep         \* the longest time one poll is counted for: 60 s

ASSUME GpuAssumption ==
    /\ IsFiniteSet(Devices) /\ Excluded \subseteq Devices
    /\ {MissingHold, ThermalHold, DigestPeriod, MaxStep} \subseteq Nat

Kinds == {"thermal_temp", "thermal_throttle"}
Thermal == Kinds \X (Devices \ Excluded)

VARIABLES
    gpu_missing, gpu_count_seen,
    thermal,                            \* the timers of both thermal maps
    last_eval, window_start, counted,   \* the digest, per kind and excluded device
    gpu_out                             \* the messages of the last evaluation

\* History: the last listing, the last poll that read each condition as false, and
\* the thermal alerts not answered.
VARIABLES gpu_list, cool, thermal_told

gpu_vars == <<gpu_missing, gpu_count_seen, thermal, last_eval, window_start, counted,
              gpu_out, gpu_list, cool, thermal_told>>

\* One poll: whether nvidia-smi answered, the devices it named, and those over the line.
Listing ==
    {g \in [read: BOOLEAN, named: SUBSET Devices, over: [Kinds -> SUBSET Devices]] :
        /\ ~g.read => g.named = {}
        /\ \A k \in Kinds : g.over[k] \subseteq g.named}

\* Mutant: a device the listing does not name is stepped as a cool one.
StepsAbsent(r, g) == g.read

-----------------------------------------------------------------------------
Count(g) == Cardinality(g.named)
CountSeen(g) == IF Count(g) > gpu_count_seen THEN Count(g) ELSE gpu_count_seen
Missing(g) == Count(g) < CountSeen(g)

MissingEdge(t, g) == EdgeOf(gpu_missing, t, Missing(g), MissingHold, Cooldown)

EvalMissing(t, g) ==
    /\ gpu_count_seen' = CountSeen(g)
    /\ gpu_missing' = Step(gpu_missing, t, Missing(g), MissingHold, Cooldown)

\* Only a device the listing names is judged, whatever it was before.
Stepped(r, g) == r[2] \in g.named

ThermalEdge(t, r, g) ==
    IF Stepped(r, g)
    THEN EdgeOf(thermal[r], t, r[2] \in g.over[r[1]], ThermalHold, Cooldown) ELSE "None"

EvalThermal(t, g) ==
    thermal' = [r \in Thermal |-> IF Stepped(r, g)
        THEN Step(thermal[r], t, r[2] \in g.over[r[1]], ThermalHold, Cooldown) ELSE thermal[r]]

\* The time this poll stands for: since the last one, a failed one too.
Elapsed(t) ==
    IF last_eval = NoTime THEN 0
    ELSE IF t - last_eval > MaxStep THEN MaxStep ELSE t - last_eval

WindowOpen(t) == IF window_start = NoTime THEN t ELSE window_start
DigestDue(t, g) == g.read /\ t - WindowOpen(t) >= DigestPeriod

Counted(t, g) ==
    [r \in Kinds \X Excluded |-> counted[r] + IF r[2] \in g.over[r[1]] THEN Elapsed(t) ELSE 0]

\* Mutant: the next window goes on from the counts of the last one.
EvalDigestKeeps(t, g) ==
    /\ last_eval' = t
    /\ window_start' = IF ~g.read THEN window_start
                       ELSE IF DigestDue(t, g) THEN t ELSE WindowOpen(t)
    /\ counted' = Counted(t, g)

EvalDigest(t, g) ==
    /\ last_eval' = t
    /\ window_start' = IF ~g.read THEN window_start
                       ELSE IF DigestDue(t, g) THEN t ELSE WindowOpen(t)
    /\ counted' = IF DigestDue(t, g) THEN [r \in Kinds \X Excluded |-> 0] ELSE Counted(t, g)

\* A digest with nothing to say is not sent.
Digest(t, g) ==
    IF DigestDue(t, g) THEN {r \in Kinds \X Excluded : Counted(t, g)[r] > 0} ELSE {}

GpuInit ==
    /\ gpu_missing = IdleTimer /\ gpu_count_seen = 0
    /\ thermal = [r \in Thermal |-> IdleTimer]
    /\ last_eval = NoTime /\ window_start = NoTime
    /\ counted = [r \in Kinds \X Excluded |-> 0]
    /\ gpu_out = [missing |-> "None", thermal |-> [r \in Thermal |-> "None"], digest |-> {}]
    /\ gpu_list = [read |-> FALSE, named |-> {}, over |-> [k \in Kinds |-> {}]]
    /\ cool = [r \in Thermal |-> NoTime] /\ thermal_told = {}

EvalGpus(t, g) ==
    /\ EvalMissing(t, g)
    /\ EvalThermal(t, g)
    /\ EvalDigest(t, g)
    /\ gpu_out' = [missing |-> MissingEdge(t, g), digest |-> Digest(t, g),
                   thermal |-> [r \in Thermal |-> ThermalEdge(t, r, g)]]
    /\ gpu_list' = g
    /\ cool' = [r \in Thermal |-> IF r[2] \in g.named \ g.over[r[1]] THEN t ELSE cool[r]]
    /\ thermal_told' = {r \in Thermal : \/ gpu_out'.thermal[r] = "Fire"
                                        \/ r \in thermal_told /\ gpu_out'.thermal[r] # "Recover"}

-----------------------------------------------------------------------------
GpuTypeOK ==
    /\ gpu_missing \in TimerType /\ gpu_count_seen \in 0 .. Cardinality(Devices)
    /\ thermal \in [Thermal -> TimerType]
    /\ last_eval \in OptTime /\ window_start \in OptTime
    /\ counted \in [Kinds \X Excluded -> Nat]
    /\ gpu_out \in [missing: Edges, thermal: [Thermal -> Edges], digest: SUBSET (Kinds \X Excluded)]
    /\ gpu_list \in Listing
    /\ cool \in [Thermal -> OptTime] /\ thermal_told \subseteq Thermal

\* rules.rs:1354 "No reading = no opinion: thermal state is held, never "recovered"
\* by a failed poll": a thermal alert is about a device that was just read over its
\* line and was not read under it for the hold time, and its recovery answers one and
\* is about a device just read under it.
GpuSaid ==
    \A r \in Thermal :
        /\ gpu_out'.thermal[r] = "Fire" =>
               /\ r[2] \in gpu_list'.over[r[1]]
               /\ cool'[r] # NoTime => now' - cool'[r] >= ThermalHold
        /\ gpu_out'.thermal[r] = "Recover" =>
               r \in thermal_told /\ r[2] \in gpu_list'.named \ gpu_list'.over[r[1]]
GpuSaysWhatItRead == [][GpuSaid]_<<now, gpu_vars>>

\* A digest never counts more seconds than its window had, plus the one poll that the
\* first listing of all may stand for.
DigestFitsItsWindow ==
    \A r \in DOMAIN counted :
        counted[r] <= IF window_start = NoTime THEN 0 ELSE now - window_start + MaxStep

=============================================================================

---------------------------- MODULE AlertEngine -----------------------------
(***************************************************************************)
(* The alert engine (crates/lss-core/src/rules.rs): Engine::evaluate with  *)
(* every family of rules, on one observation per poll, and the repair of   *)
(* the C1 streak when the collector starts.  The families keep separate    *)
(* state; they share the clock, the cooldown and the bench flag.           *)
(***************************************************************************)
EXTENDS Availability, LoadRules, GpuRules, WindowRules, C1Rule

engine_vars == <<vars, load_vars, gpu_vars, window_vars, c1_vars>>

EngineObservation ==
    [services: Observation, load: LoadObservation, gpus: Listing, windows: WindowObservation,
     probe: Probe \cup {NoProbe}]

EngineInit == Init /\ LoadInit /\ GpuInit /\ WindowInit /\ C1Init

EvaluateAll(t, o) ==
    /\ Evaluate(t, o.services)
    /\ EvalLoad(t, o.load)
    /\ EvalGpus(t, o.gpus)
    /\ EvalWindows(t, o.windows)
    /\ EvalC1(t, o.load.bench, o.probe)

Repair(invalid) ==
    /\ RepairStreak(invalid)
    /\ UNCHANGED <<vars, load_vars, gpu_vars, window_vars>>

EngineNext ==
    \/ \E t \in NextPoll, o \in EngineObservation : EvaluateAll(t, o)
    \/ \E invalid \in SUBSET Nat : Repair(invalid)

EngineSpec == EngineInit /\ [][EngineNext]_engine_vars

-----------------------------------------------------------------------------
\* The load and GPU rules speak of what the poll at hand read (rules.rs:1027, 1354): an
\* unread gate, a bench, a failed nvidia-smi or a device that is gone neither fires nor
\* recovers anything, and does not make a clock forget.
SaysWhatItRead == LoadSaysWhatItRead /\ GpuSaysWhatItRead

\* The points that the disk and reject rules pop (rules.rs:235, 254) are never one that
\* matters: what they report of their windows is what all readings of them would tell.
WindowsAreExact == DropIsTheLargestFall /\ GrowthWasRejected

=============================================================================

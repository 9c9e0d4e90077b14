------------------------------ MODULE Samples ------------------------------
(***************************************************************************)
(* What one poll of the collector reads, and the units it is accounted in  *)
(* (crates/lss-core/src/model.rs, series.rs).  An engine counts the tokens *)
(* it has generated since it started; a poll scrapes that counter and, on  *)
(* another thread, asks docker when the container started.                 *)
(*                                                                         *)
(* None stands for Option::None of a clock reading or a counter, and 0 for *)
(* a start time docker did not tell, as in the code.                       *)
(***************************************************************************)
EXTENDS Lists, SequencesExt

CONSTANTS
    Configs,        \* the configurations (image and launch arguments) that serve in turn
    Minute,         \* RES_1M
    TenMinutes,     \* RES_10M
    MaxStep,        \* the longest gap a counter is diffed across: 60 s
    SaveEvery       \* how often an account is saved: 60 s

ASSUME SamplesAssumption ==
    /\ {Minute, TenMinutes, MaxStep, SaveEvery} \subseteq Nat \ {0}
    /\ TenMinutes % Minute = 0

None == -1

\* A poll: its clock, whether the engine answered, its counter (None: no metrics), the
\* container's start as docker told it, the speed of the last second, and the gate's log
\* lines it brought.  No definition of the code reads "life" and "config", the run and
\* the configuration of the engine that really answered.
SampleType ==
    [ts: Nat \cup {None}, up: BOOLEAN, count: Nat \cup {None}, started: Nat, speed: Nat,
     log: {lines \in SUBSET Nat : IsFiniteSet(lines)}, life: Nat, config: Configs]

\* Option<Sample>::None
NoSample ==
    [ts |-> None, up |-> FALSE, count |-> None, started |-> 0, speed |-> 0,
     log |-> {}, life |-> 0, config |-> CHOOSE c \in Configs : TRUE]

\* The bucket of width res a clock reading falls into.
BucketOf(res, ts) == ts - (ts % res)

\* A counter may be diffed between two samples that carry it and are close together;
\* one that went backwards is an engine that restarted, and adds nothing.
Growth(prev, cur) ==
    IF /\ prev.count # None /\ cur.count # None
       /\ cur.ts - prev.ts \in 1 .. MaxStep
       /\ cur.count >= prev.count
    THEN cur.count - prev.count
    ELSE 0

=============================================================================

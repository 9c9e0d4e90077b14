----------------------------- MODULE LoadRules ------------------------------
(***************************************************************************)
(* The level rules of the alert engine that a poll may have no reading     *)
(* for: queue pressure and gate waiters, the gate's charging seen two      *)
(* ways, the cold budget, and the default model of omp.  What an unread    *)
(* value means, and what a bench run means, differs from rule to rule: a   *)
(* rule either reads it as fine or holds its timer for the next reading.   *)
(***************************************************************************)
EXTENDS PollClock

CONSTANT LoadHold   \* per rule: queue_secs, waiters_secs, charge_errors_secs, ...

Emptied == {"queue_pressure", "gate_waiters"}
Charging == {"gate_charge_errors", "gate_discount_inert"}
Budget == {"gate_cold_budget"}
Mismatch == {"omp_default_mismatch"}
LoadNames == Emptied \cup Charging \cup Budget \cup Mismatch

ASSUME LoadAssumption == LoadHold \in [LoadNames -> Nat]

VARIABLES
    load,           \* per rule: its timer
    load_out        \* per rule: the edge of the last evaluation

\* History: the last observation, the last poll that found each rule quiet, and
\* the rules whose last message was not a recovery.
VARIABLES load_seen, load_quiet, load_told

load_vars == <<load, load_out, load_seen, load_quiet, load_told>>

\* What a poll read of each rule's condition; one document holds both charging values.
LoadObservation ==
    {o \in [bench: BOOLEAN, read: [LoadNames -> {"bad", "fine", "nothing"}]] :
        \A r, s \in Charging : o.read[r] = "nothing" => o.read[s] = "nothing"}

\* Mutant: a failed read of the gate's health counts as a good one.
JudgedUnread(r, o) == r \in Budget => o.read[r] # "nothing" /\ ~o.bench

-----------------------------------------------------------------------------
\* The early returns of the eval functions: the rule's timer is not stepped.
Judged(r, o) ==
    /\ r \in Charging \cup Budget => o.read[r] # "nothing"
    /\ r \in Budget => ~o.bench

\* The condition the timer is stepped with: during a bench the queue and the
\* waiters are read as empty.
Holds(r, o) == o.read[r] = "bad" /\ (r \in Emptied => ~o.bench)

LoadEdge(t, r, o) ==
    IF Judged(r, o) THEN EdgeOf(load[r], t, Holds(r, o), LoadHold[r], Cooldown) ELSE "None"

\* A poll that may end an alert of the rule.
Quiet(r, o) ==
    \/ o.read[r] = "fine" /\ (r \in Budget => ~o.bench)
    \/ o.read[r] = "nothing" /\ r \in Emptied \cup Mismatch
    \/ o.bench /\ r \in Emptied

LoadInit ==
    /\ load = [r \in LoadNames |-> IdleTimer]
    /\ load_out = [r \in LoadNames |-> "None"]
    /\ load_seen = [bench |-> FALSE, read |-> [r \in LoadNames |-> "nothing"]]
    /\ load_quiet = [r \in LoadNames |-> NoTime]
    /\ load_told = {}

EvalLoad(t, o) ==
    /\ load' = [r \in LoadNames |-> IF Judged(r, o)
                    THEN Step(load[r], t, Holds(r, o), LoadHold[r], Cooldown) ELSE load[r]]
    /\ load_out' = [r \in LoadNames |-> LoadEdge(t, r, o)]
    /\ load_seen' = o
    /\ load_quiet' = [r \in LoadNames |-> IF Quiet(r, o) THEN t ELSE load_quiet[r]]
    /\ load_told' = {r \in LoadNames : \/ load_out'[r] = "Fire"
                                       \/ r \in load_told /\ load_out'[r] # "Recover"}

-----------------------------------------------------------------------------
LoadTypeOK ==
    /\ load \in [LoadNames -> TimerType]
    /\ load_out \in [LoadNames -> Edges]
    /\ load_seen \in LoadObservation
    /\ load_quiet \in [LoadNames -> OptTime]
    /\ load_told \subseteq LoadNames

\* Every alert of these rules is about a poll that read the condition, outside the
\* benches that excuse it and a hold time after the last quiet poll ...
FiresOnLoad(r) ==
    /\ load_seen'.read[r] = "bad"
    /\ load_seen'.bench => r \in Charging \cup Mismatch
    /\ load_quiet'[r] # NoTime => now' - load_quiet'[r] >= LoadHold[r]

\* ... and every recovery answers one and is about a quiet poll.  rules.rs:1027 "no
\* reading: NOT a reason to alert [...] and not a reason to forget either - the
\* clocks hold their state for the next real reading".
LoadSaid ==
    \A r \in LoadNames :
        /\ load_out'[r] = "Fire" => FiresOnLoad(r)
        /\ load_out'[r] = "Recover" => r \in load_told /\ Quiet(r, load_seen')
LoadSaysWhatItRead == [][LoadSaid]_<<now, load_vars>>

=============================================================================

----------------------------- MODULE MCProgress -----------------------------
(***************************************************************************)
(* What a collector must get done in the end, a world each: its bench      *)
(* runs, and the alerts that wait.  Neither touches the other's state, so  *)
(* fairness is owed in the world that moves.                               *)
(***************************************************************************)
EXTENDS AlertSpool, BenchRun

\* "bench" or "mail"
VARIABLE world

TwoAlerts == <<"page", "warn">>
Distinct2 == <<1, 2>>

MCInit ==
    /\ SpoolInit /\ BenchInit
    /\ world \in {"bench", "mail"}
    /\ world = "bench" => seat = "idle"

MCNext ==
    /\ UNCHANGED world
    /\ \/ world = "bench" /\ BenchNext /\ UNCHANGED spool_vars
       \/ world = "mail" /\ SpoolNext /\ UNCHANGED bench_vars

\* A bound: a person at a prompt or the death of the collector, not both.
OneTrouble == prompts = 0 \/ deaths = 0

\* The fairness of BenchRun and of AlertSpool, in the world that moves.
MCBenchFairness ==
    /\ \A t \in Threads : WF_bench_vars(world = "bench" /\ StartStep(t))
    /\ \A r \in RunIds : WF_bench_vars(world = "bench" /\ r \in 1 .. Len(rows) /\ RunStep(r))
    /\ \A c \in Collectors :
          /\ WF_bench_vars(world = "bench" /\ PollRead(c))
          /\ WF_bench_vars(world = "bench" /\ PollWrite(c))

MCMailFairness ==
    /\ WF_spool_vars(world = "mail" /\ Worker) /\ WF_spool_vars(world = "mail" /\ SendFlush)
    /\ WF_spool_vars(world = "mail" /\ WorkerRestarts)
    /\ \A p \in Scripts : WF_spool_vars(world = "mail" /\ Script(p))

MCSpec ==
    /\ MCInit /\ [][MCNext]_<<spool_vars, bench_vars, world>>
    /\ MCBenchFairness /\ MCMailFairness
=============================================================================

----------------------------- MODULE MCCollector ----------------------------
(***************************************************************************)
(* The parts of a collector that write to its disk: the poll loop, in the  *)
(* worlds of MCPollLoop; the alerts on their way out; and the benches, of  *)
(* two collectors that share a state directory.  In the model none touches *)
(* another's state, so in a behaviour only one of them moves.              *)
(***************************************************************************)
EXTENDS MCPollLoop, AlertSpool, BenchRun, TLC

CONSTANTS c1, c2, l1
Twins == Permutations({c1, c2})

\* "polls", "mail" or "benches"
VARIABLE part

ThreeAlerts == <<"info", "page", "warn">>
Repeated == <<1, 1, 2>>

\* The parts that do not move start in one way.
Still ==
    /\ part # "polls" => world = CHOOSE w \in Worlds : TRUE
    /\ part # "mail" => seat = "idle" /\ lock = "free"
    /\ part # "benches" => used = {CHOOSE c \in Collectors : TRUE}

MCInit ==
    /\ part \in {"polls", "mail", "benches"}
    /\ Init /\ SpoolInit /\ BenchInit /\ Still

MCNext ==
    /\ UNCHANGED part
    /\ \/ part = "polls" /\ Next /\ UNCHANGED <<spool_vars, bench_vars>>
       \/ part = "mail" /\ SpoolNext /\ UNCHANGED <<vars, bench_vars>>
       \/ part = "benches" /\ BenchNext /\ UNCHANGED <<vars, spool_vars>>

MCSpec == MCInit /\ [][MCNext]_<<vars, spool_vars, bench_vars, part>>

\* A bound: the mail meets a person at a prompt, the death of the collector, a machine without
\* flock(1), or such a person on such a machine; and but for the first only two alerts.  Beside
\* a person the third alert is of a busy seat: the other seats let no run wait for another.
\* The benches meet a failed write or a death, and the failed write of one of two collectors
\* no second row.
Bounds ==
    /\ deaths > 0 => prompts = 0 /\ lock # "missing"
    /\ sent > 2 => deaths = 0 /\ lock # "missing" /\ (prompts > 0 => seat = "busy")
    /\ failures + died <= 1
    /\ failures > 0 => Len(rows) <= 1 \/ Cardinality(used) = 1
=============================================================================

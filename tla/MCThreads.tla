----------------------------- MODULE MCThreads ------------------------------
(***************************************************************************)
(* Threads that share a little state, a world each: the mutexes of a       *)
(* collector with two listeners and a bench, the C1 probe beside other     *)
(* users of the engine, the watch of a bench beside them, and the client's *)
(* screen beside its fetch thread.  The state of the others stays as it is.*)
(***************************************************************************)
EXTENDS LockOrder, C1Probe, BenchWatch, Screen

VARIABLE world      \* the name of this behaviour's world

MCThreadSet == {"main", "listener1", "listener2", "run", "worker", "names"}

MCKind ==
    [t \in MCThreadSet |-> IF t \in {"listener1", "listener2"} THEN "listener" ELSE t]

\* What else may be asked of the engine: as much as the probe's request, less, or as many
\* tokens for a longer prompt.
RequestSizes ==
    {[tokens |-> OwnTokens, prompt |-> 0], [tokens |-> OwnTokens - 1, prompt |-> 0],
     [tokens |-> OwnTokens, prompt |-> 1]}

\* A site that tells the probe everything, and those without one of the three.
Sites ==
    {s \in [gateway: BOOLEAN, reports_load: BOOLEAN, counts: BOOLEAN] :
        Cardinality({what \in DOMAIN s : ~s[what]}) <= 1}

\* Two steps of a harness, the second a smaller one; and, without a harness, the warm-up and
\* two requests at once.
Of(kind, n) == [kind |-> kind, n |-> n]

MCPlans ==
    {<<Of("harness", 2), Of("harness", 1)>>, <<Of("request", 1), Of("parallel", 2)>>}

\* A page of each sort, a hidden one between visible ones.
MCPageIds == <<"latency", "users", "model">>

MCInit ==
    /\ world \in {"locks", "probe", "watch", "screen"}
    /\ Init /\ ScreenInit
    /\ \E where \in Sites :
          /\ world = "probe" \/ where = [gateway |-> TRUE, reports_load |-> TRUE, counts |-> TRUE]
          /\ ProbeInit(where)
    /\ \E where \in Setups, steps \in MCPlans :
          /\ \/ world = "watch"
             \/ /\ where = [gateway |-> "none", lanes |-> "none", under_load |-> FALSE]
                /\ steps[1].kind = "harness"
          /\ WatchInit(where, steps)

InOrder == SetToSeq(Others)

\* The requests of the others are alike, so they arrive in one order; the last poll matters
\* when the thread looks; the world ends with the verdict on its last probe.
ProbeEnds == pc = "asleep" /\ attempts = MaxAttempts

OneAfterAnother ==
    /\ ~ProbeEnds
    /\ \A i \in 2 .. Len(InOrder) : fate'[InOrder[i]] # "out" => fate[InOrder[i - 1]] # "out"
    /\ shared' # shared => pc = "asleep"

MCNext ==
    /\ UNCHANGED world
    /\ \/ world = "locks" /\ Next /\ UNCHANGED <<probe_vars, watch_vars, screen_vars>>
       \/ world = "probe" /\ ProbeNext /\ OneAfterAnother
          /\ UNCHANGED <<vars, watch_vars, screen_vars>>
       \/ world = "probe" /\ ProbeEnds /\ UNCHANGED <<vars, probe_vars, watch_vars, screen_vars>>
       \/ world = "watch" /\ WatchNext /\ UNCHANGED <<vars, probe_vars, screen_vars>>
       \/ world = "watch" /\ watch_pc = "ended"
          /\ UNCHANGED <<vars, probe_vars, watch_vars, screen_vars>>
       \/ world = "screen" /\ ScreenNext /\ UNCHANGED <<vars, probe_vars, watch_vars>>

MCSpec == MCInit /\ [][MCNext]_<<vars, probe_vars, watch_vars, screen_vars, world>>
=============================================================================

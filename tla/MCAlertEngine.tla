--------------------------- MODULE MCAlertEngine ----------------------------
(***************************************************************************)
(* AlertEngine on small durations.  The families of rules do not touch     *)
(* each other's state, so each world moves the readings of one family, and *)
(* the other families get readings that leave their state alone: nothing   *)
(* down, nothing listed or read, C1 stood down by a bench.                 *)
(***************************************************************************)
EXTENDS AlertEngine

VARIABLE world      \* the name of this behaviour's world

LoadHolds == [r \in LoadNames |-> 2]

AllFine(bench) == [bench |-> bench, read |-> [r \in LoadNames |-> "fine"]]
Cold == [k \in Kinds |-> {}]
Unlisted == [read |-> FALSE, named |-> {}, over |-> Cold]

\* What the polls of a world can see, how far apart they are, until when, and
\* whether the collector restarts with probes struck out.
Quietly ==
    [services |-> {[up |-> Services, running |-> Roles, restarts |-> {},
                    maintenance |-> FALSE, xids |-> {}]},
     load |-> {AllFine(TRUE)},
     gpus |-> {Unlisted},
     windows |-> {[used |-> NoReading, count |-> NoReading]},
     probes |-> {FALSE},
     probed |-> {FALSE}, repaired |-> FALSE, gaps |-> 0 .. MaxGap, until |-> 8]

\* Both services come and go.
Outages ==
    [Quietly EXCEPT !.until = 6, !.services =
        [up: SUBSET Services, running: {{}}, restarts: {{}}, maintenance: {FALSE},
         xids: {{}}]]

\* Containers restart inside and outside of windows while both services answer, and
\* the kernel log names a device now and then.
Restarts ==
    [Quietly EXCEPT !.services =
        [up: {Services}, running: SUBSET Roles, restarts: SUBSET Roles,
         maintenance: BOOLEAN, xids: SUBSET Gpus]]

\* One rule, and the other one read from the same document, with and without benches.
Load(r) ==
    [Quietly EXCEPT !.until = 6, !.gaps = 1 .. 2, !.load =
        {o \in LoadObservation : \A s \in LoadNames \ {r} :
            o.read[s] = IF {r, s} \subseteq Charging /\ o.read[r] = "nothing"
                        THEN "nothing" ELSE "fine"}]

\* Devices vanish from the listing, or the listing fails; one of them heats up.
Heat(d) ==
    [Quietly EXCEPT !.gaps = 1 .. 2, !.gpus =
        {Unlisted} \cup
        {g \in Listing : g.named # {} /\ g.over \in {Cold, [Cold EXCEPT !["thermal_temp"] = {d}]}}]

Disk ==
    [Quietly EXCEPT !.until = 6, !.gaps = 1 .. 2, !.windows =
        [used: (0 .. DiskSize) \cup {NoReading}, count: {NoReading}]]

Counts ==
    [Quietly EXCEPT !.until = 6, !.gaps = 1 .. 2, !.windows =
        [used: {NoReading}, count: (0 .. 2) \cup {NoReading}]]

\* Probes above and below the floor, and restarts that strike some out.
Streaks ==
    [Quietly EXCEPT !.until = 7, !.gaps = 1 .. 2, !.probed = BOOLEAN, !.probes = BOOLEAN,
        !.repaired = TRUE, !.load = {AllFine(FALSE)}]

\* Probes that get through now and then, benches, a measurement that flaps.
Flapping ==
    [Quietly EXCEPT !.until = MaxTime, !.gaps = {1}, !.probed = BOOLEAN,
        !.load = {AllFine(FALSE), AllFine(TRUE)}]

Worlds ==
    [w \in {"outages", "restarts", "heat", "digest", "disk", "counts", "streaks", "flapping"}
           \cup LoadNames |->
        CASE w = "outages" -> Outages
          [] w = "restarts" -> Restarts
          [] w = "heat" -> Heat("gpu0")
          [] w = "digest" -> Heat("gpu1")
          [] w = "disk" -> Disk
          [] w = "counts" -> Counts
          [] w = "streaks" -> Streaks
          [] w = "flapping" -> Flapping
          [] OTHER -> Load(w)]

MCInit == EngineInit /\ world \in DOMAIN Worlds

Poll(w) ==
    \E gap \in w.gaps, s \in w.services, l \in w.load, g \in w.gpus, d \in w.windows,
       probed \in w.probed, low \in w.probes :
        /\ now + gap <= w.until
        /\ ~probed => ~low
        /\ EvaluateAll(now + gap,
               [services |-> s, load |-> l, gpus |-> g, windows |-> d,
                probe |-> IF probed THEN [ts |-> now + gap, low |-> low] ELSE NoProbe])

Struck(w) == w.repaired /\ \E p \in ToSet(judged) : Repair({p.ts})

MCNext == (Poll(Worlds[world]) \/ Struck(Worlds[world])) /\ UNCHANGED world

MCSpec == MCInit /\ [][MCNext]_<<engine_vars, world>>
=============================================================================

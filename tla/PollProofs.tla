----------------------------- MODULE PollProofs -----------------------------
(***************************************************************************)
(* Theorems about the poll of the collector and what a restart resumes     *)
(* from (PollLoop.tla, crates/lss-collector/src/main.rs, incidents.rs).    *)
(*                                                                         *)
(* The invariant PollInv says of every state between two steps of a poll   *)
(* how four things hang together: what the loop knows, what the database   *)
(* holds, what was saved for a restart, and what the world did meanwhile.  *)
(* Its parts are kept by every step, each by itself or from the ones       *)
(* before it; the six properties of the poll follow from it.               *)
(***************************************************************************)
EXTENDS PollLoop, NumberLemmas, FiniteSetTheorems, SequenceTheorems, TLAPS

-----------------------------------------------------------------------------
(***************************************************************************)
(* The values of the variables                                             *)
(***************************************************************************)
\* What a container is called, what an incident is of, and what the words of the event of a
\* restart tell apart.
Names == {"a", "b", "none"}
Kinds == {"maintenance", "serve_down", "container_restart"}
Differences == {"replaced", "RestartCount", "StartedAt"}
Words == Names \cup Int
Details == {<<>>} \cup {<<a, b, c>> : a \in Differences, b \in Words, c \in Words}
\* Rows of the two tables, identities of a container, what a poll asks for and what is saved.
RowSet == [kind: Kinds, detail: Details, start: Nat, end: OptTime]
AlertSet == [recovered: BOOLEAN, ts: Nat]
Ids == [name: Names, restart_count: Int, started_at: Nat]
Ops == [op: {"none", "open", "close"}, at: OptTime]
Observations == [serve_up: BOOLEAN, op: Ops, event: Ops, detail: Details]
KvType == [timer: TimerType, down: DownType, seen: Ids]
Containers == [name: Names, restart_count: Int, started_at: Nat \ {0}, runs: BOOLEAN]

\* The clock only advances, and runs of the container begin at readings of it.
WorldType ==
    /\ now \in Nat \ {0} /\ world \in Worlds
    /\ container \in Containers
    /\ starts \subseteq 0 .. now
    /\ maintenance \in [active: BOOLEAN, expires_at: Nat] /\ granted \in Nat

\* A dead collector asks for nothing; what a poll asks for has a time.
LoopType ==
    /\ pc \in PollSteps \cup {"dead"}
    /\ obs \in Observations /\ (pc = "dead" => obs = Quiet)
    /\ obs.op.op \in {"open", "close"} => obs.op.at # NoTime
    /\ obs.event # NoOp => obs.event.op = "open" /\ obs.event.at # NoTime
    /\ down \in DownType /\ seen \in Ids /\ serve_down \in TimerType
    /\ window \in [now: BOOLEAN, was: BOOLEAN]

\* What is stored, and what is counted of the past.
StoreType ==
    /\ incidents \in Seq(RowSet) /\ alerts \in Seq(AlertSet) /\ kv \in KvType
    /\ crashes \in Nat /\ lost \in Nat
    /\ polls \in Seq(Nat \X BOOLEAN) /\ base \in Nat

PollType == WorldType /\ LoopType /\ StoreType

-----------------------------------------------------------------------------
\* A step of the tracker leaves a tracker.
LEMMA DownStepType ==
    ASSUME NEW d \in DownType, NEW t \in Nat, NEW up \in BOOLEAN
    PROVE  DownStep(d, t, up) \in DownType
BY DEF DownStep, DownType, UpTracker, MISSES_TO_OPEN, OptTime

\* The operation DownTracker::step asks for opens the incident the tracker then holds open.
LEMMA DownOpType ==
    ASSUME NEW d \in DownType, NEW t \in Nat, NEW up \in BOOLEAN
    PROVE  /\ DownOp(d, t, up) \in Ops
           /\ DownOp(d, t, up).op \in {"open", "close"} => DownOp(d, t, up).at # NoTime
           /\ DownOp(d, t, up).op = "open" <=>
                 /\ DownStep(d, t, up).open_since # NoTime
                 /\ DownStep(d, t, up).open_since # d.open_since
           /\ DownOp(d, t, up).op = "open" =>
                 DownOp(d, t, up).at = DownStep(d, t, up).open_since
<1> DEFINE opened == DownStep(d, t, up).open_since
<1>1. opened \in OptTime /\ t \in OptTime /\ t # NoTime /\ d.open_since \in OptTime
  BY DownStepType DEF DownType, OptTime, NoTime
<1>2. DownOp(d, t, up) = IF d.open_since = opened THEN NoOp
                         ELSE IF opened = NoTime THEN Close(t) ELSE Open(opened)
  BY DEF DownOp
<1> HIDE DEF opened
<1>3. NoOp \in Ops /\ Close(t) \in Ops /\ Open(opened) \in Ops
  BY <1>1 DEF NoOp, Close, Open, Ops, OptTime, NoTime
<1> QED
  BY <1>1, <1>2, <1>3 DEF NoOp, Close, Open, opened

\* A step of the timer of a rule leaves a timer.
LEMMA StepType ==
    ASSUME NEW s \in TimerType, NEW t \in Nat, NEW cond \in BOOLEAN, NEW hold, NEW cooldown
    PROVE  Step(s, t, cond, hold, cooldown) \in TimerType
<1>1. t \in OptTime /\ NoTime \in OptTime /\ Since(s, t) \in OptTime
  BY DEF Since, OptTime, TimerType, NoTime
<1>2. [s EXCEPT !.since = NoTime, !.announced = FALSE] \in TimerType
  BY <1>1 DEF TimerType
<1>3. [since |-> Since(s, t), announced |-> TRUE, last_sent |-> t] \in TimerType
  BY <1>1 DEF TimerType
<1>4. [s EXCEPT !.since = Since(s, t)] \in TimerType
  BY <1>1 DEF TimerType
<1> QED
  BY <1>2, <1>3, <1>4 DEF Step

\* The event of a restart has a time and words.
LEMMA EventType ==
    ASSUME NEW prev \in Ids, NEW cur \in Ids, NEW t \in Nat
    PROVE  /\ Open(EventTs(prev, cur, t)) \in Ops /\ Open(EventTs(prev, cur, t)).op = "open"
           /\ Open(EventTs(prev, cur, t)).at # NoTime
           /\ EventDetail(prev, cur) \in Details
<1>1. EventTs(prev, cur, t) \in Nat
  BY DEF EventTs, Ids
<1>2. EventDetail(prev, cur) \in Details
  <2>1. ASSUME NEW a \in Differences, NEW b \in Words, NEW c \in Words
        PROVE  <<a, b, c>> \in Details
    BY DEF Details
  <2>5. "replaced" \in Differences /\ "RestartCount" \in Differences /\ "StartedAt" \in Differences
    BY DEF Differences
  <2>2. CASE cur.name # prev.name
    <3>0. cur.name \in Names /\ prev.name \in Names
      BY DEF Ids
    <3>1. cur.name \in Words /\ prev.name \in Words
      BY <3>0, Zenon DEF Words
    <3>2. EventDetail(prev, cur) = <<"replaced", prev.name, cur.name>>
      BY <2>2 DEF EventDetail
    <3> QED
      BY <2>1, <2>5, <3>1, <3>2
  <2>3. CASE cur.name = prev.name /\ cur.restart_count # prev.restart_count
    <3>0. cur.restart_count \in Int /\ prev.restart_count \in Int
      BY DEF Ids
    <3>1. cur.restart_count \in Words /\ prev.restart_count \in Words
      BY <3>0, Zenon DEF Words
    <3>2. EventDetail(prev, cur) = <<"RestartCount", prev.restart_count, cur.restart_count>>
      BY <2>3 DEF EventDetail
    <3> QED
      BY <2>1, <2>5, <3>1, <3>2
  <2>4. CASE cur.name = prev.name /\ cur.restart_count = prev.restart_count
    <3>0. cur.started_at - prev.started_at \in Int /\ 0 \in Int
      BY DEF Ids
    <3>1. cur.started_at - prev.started_at \in Words /\ 0 \in Words
      BY <3>0, Zenon DEF Words
    <3>2. EventDetail(prev, cur) = <<"StartedAt", cur.started_at - prev.started_at, 0>>
      BY <2>4 DEF EventDetail
    <3> QED
      BY <2>1, <2>5, <3>1, <3>2
  <2> QED
    BY <2>2, <2>3, <2>4
<1> QED
  BY <1>1, <1>2 DEF Open, Ops, OptTime, NoTime

\* What is written to the table of incidents: rows stay, some end, one is added.
Kept(old, new) ==
    /\ Len(old) <= Len(new)
    /\ \A i \in 1 .. Len(old) : /\ new[i].kind = old[i].kind /\ new[i].detail = old[i].detail
                                /\ new[i].start = old[i].start

\* The rows of a kind are the same ones.
KindKept(kind, old, new) ==
    /\ \A i \in 1 .. Len(old) : old[i].kind = kind => i \in 1 .. Len(new) /\ new[i] = old[i]
    /\ \A i \in 1 .. Len(new) : new[i].kind = kind => i \in 1 .. Len(old) /\ new[i] = old[i]

\* close_incident ends the open rows of its kind and touches nothing else.
LEMMA RowsClosed ==
    ASSUME incidents \in Seq(RowSet), NEW kind, NEW at \in Nat
    PROVE  /\ CloseAll(kind, at) \in Seq(RowSet) /\ Len(CloseAll(kind, at)) = Len(incidents)
           /\ Kept(incidents, CloseAll(kind, at))
           /\ \A k : k # kind => KindKept(k, incidents, CloseAll(kind, at))
           /\ \A i \in 1 .. Len(incidents) :
                 CloseAll(kind, at)[i].end =
                     IF incidents[i].kind = kind /\ incidents[i].end = NoTime
                     THEN at ELSE incidents[i].end
<1> DEFINE r(i) == IF incidents[i].kind = kind /\ incidents[i].end = NoTime
                   THEN [incidents[i] EXCEPT !.end = at] ELSE incidents[i]
<1>1. Len(incidents) \in Nat /\ \A i \in 1 .. Len(incidents) : incidents[i] \in RowSet
  BY LenProperties, ElementOfSeq
<1>2. \A i \in 1 .. Len(incidents) :
          /\ r(i) \in RowSet /\ r(i).kind = incidents[i].kind /\ r(i).start = incidents[i].start
          /\ r(i).detail = incidents[i].detail
          /\ incidents[i].kind # kind => r(i) = incidents[i]
          /\ r(i).end = IF incidents[i].kind = kind /\ incidents[i].end = NoTime
                        THEN at ELSE incidents[i].end
  BY <1>1 DEF RowSet, OptTime
<1>3. CloseAll(kind, at) = [i \in 1 .. Len(incidents) |-> r(i)]
  BY DEF CloseAll
<1> HIDE DEF r
<1>4. CloseAll(kind, at) \in [1 .. Len(incidents) -> RowSet]
  BY <1>2, <1>3
<1>5. CloseAll(kind, at) \in Seq(RowSet)
  BY <1>1, <1>4, SeqDef
<1>6. Len(CloseAll(kind, at)) = Len(incidents)
  BY <1>1, <1>4, <1>5, LenProperties
<1> QED
  BY <1>1, <1>2, <1>3, <1>5, <1>6 DEF Kept, KindKept

\* An insert leaves every row there was.
LEMMA RowAdded ==
    ASSUME incidents \in Seq(RowSet), NEW row \in RowSet
    PROVE  /\ Append(incidents, row) \in Seq(RowSet)
           /\ Len(Append(incidents, row)) = Len(incidents) + 1
           /\ Kept(incidents, Append(incidents, row))
           /\ \A i \in 1 .. Len(incidents) : Append(incidents, row)[i] = incidents[i]
           /\ Append(incidents, row)[Len(incidents) + 1] = row
           /\ \A k : k # row.kind => KindKept(k, incidents, Append(incidents, row))
<1>1. Len(incidents) \in Nat
  BY LenProperties
<1>2. /\ Append(incidents, row) \in Seq(RowSet)
      /\ Len(Append(incidents, row)) = Len(incidents) + 1
      /\ \A i \in 1 .. Len(incidents) : Append(incidents, row)[i] = incidents[i]
      /\ Append(incidents, row)[Len(incidents) + 1] = row
  BY <1>1, AppendProperties
<1>3. Kept(incidents, Append(incidents, row))
  BY <1>1, <1>2 DEF Kept
<1>4. \A i \in 1 .. Len(Append(incidents, row)) : i \in 1 .. Len(incidents)
      \/ i = Len(incidents) + 1
  BY <1>1, <1>2
<1>5. \A i \in 1 .. Len(incidents) : i \in 1 .. Len(Append(incidents, row))
  BY <1>1, <1>2
<1> QED
  BY <1>2, <1>3, <1>4, <1>5 DEF KindKept

\* A table that is not written keeps its rows.
LEMMA KeptIsReflexive == ASSUME incidents \in Seq(RowSet) PROVE Kept(incidents, incidents)
BY LenProperties DEF Kept

-----------------------------------------------------------------------------
\* The polls steps but the first and the last, which leave the world and what was seen alone.
Writing ==
    WriteWindows \/ WriteOp \/ WriteEvent \/ Evaluate \/ SaveEngine

\* These steps go on from what the poll saw.
LEMMA WritingLeaves ==
    ASSUME Writing
    PROVE  /\ UNCHANGED <<now, container, maintenance, obs, down, seen, saved, crashes, history>>
           /\ pc \in {"windows", "incidents", "events", "alerts", "engine"}
           /\ pc' \in {"incidents", "events", "alerts", "engine", "tracker"}
BY DEF Writing, WriteWindows, WriteOp, WriteEvent, Evaluate, SaveEngine

\* A run that ends, or begins, is one of a container.
LEMMA ContainersAre ==
    ASSUME NEW c \in Containers, NEW n \in Int, NEW t \in Nat \ {0}
    PROVE  /\ [c EXCEPT !.restart_count = n, !.runs = FALSE] \in Containers
           /\ [c EXCEPT !.runs = TRUE, !.started_at = t, !.restart_count = n] \in Containers
<1>1. [c EXCEPT !.restart_count = n] \in Containers
  BY DEF Containers
<1>2. [[c EXCEPT !.restart_count = n] EXCEPT !.runs = FALSE] \in Containers
  BY <1>1 DEF Containers
<1>3. [c EXCEPT !.runs = TRUE] \in Containers
  BY DEF Containers
<1>4. [[c EXCEPT !.runs = TRUE] EXCEPT !.started_at = t] \in Containers
  BY <1>3 DEF Containers
<1>5. [[[c EXCEPT !.runs = TRUE] EXCEPT !.started_at = t] EXCEPT !.restart_count = n] \in Containers
  BY <1>4 DEF Containers
<1> QED
  BY <1>2, <1>5

\* No step leaves the values of the clock, the container and the maintenance window.
LEMMA WorldKept == ASSUME PollType, Next PROVE WorldType'
<1>0. world' = world /\ world \in Worlds
  BY DEF Next, PollType, WorldType
<1> USE PollAssumption
<1>1. CASE Writing \/ SaveTracker \/ Restart \/ \E up \in BOOLEAN : Observe(up)
  <2>1. UNCHANGED <<now, container, maintenance, starts, granted>>
    BY <1>1, WritingLeaves DEF SaveTracker, Restart, Observe, history
  <2> QED
    BY <1>0, <2>1 DEF PollType, WorldType
<1>2. CASE Crash
  <2>1. UNCHANGED <<now, container, starts, granted>> /\ maintenance' = Closed
    BY <1>2 DEF Crash, history
  <2> QED
    BY <1>0, <2>1 DEF PollType, WorldType, Closed, Window
<1>3. CASE Snapshot \/ MaintenanceStop
  <2>1. UNCHANGED <<now, container, starts, granted>> /\ maintenance' \in {maintenance, Closed}
    BY <1>3 DEF Snapshot, MaintenanceStop, history
  <2>2. Closed \in [active: BOOLEAN, expires_at: Nat]
    BY DEF Closed, Window
  <2> QED
    BY <1>0, <2>1, <2>2 DEF PollType, WorldType
<1>4. ASSUME NEW len \in world.windows, MaintenanceStart(len) PROVE WorldType'
  <2>1. len \in Nat
    BY <1>0
  <2> QED
    BY <1>0, <1>4, <2>1 DEF MaintenanceStart, PollType, WorldType, Window
<1>5. CASE End
  <2>1. UNCHANGED <<now, maintenance, starts, granted>>
    BY <1>5 DEF End, history
  <2>2. PICK n \in {0, 1} :
            container' = [container EXCEPT !.restart_count = container.restart_count + n,
                  !.runs = FALSE]
    BY <1>5 DEF End
  <2>3. container' \in Containers
    <3>1. container.restart_count + n \in Int /\ container.started_at \in Nat \ {0}
      BY DEF PollType, WorldType, Containers
    <3> QED
      BY <2>2, <3>1, ContainersAre DEF PollType, WorldType
  <2> QED
    BY <1>0, <2>1, <2>3 DEF PollType, WorldType
<1>6. CASE Begin
  <2>1. UNCHANGED <<now, maintenance, granted>> /\ starts' = starts \cup {now}
    BY <1>6 DEF Begin
  <2>2. PICK n \in {0, 1} :
            container' = [container EXCEPT !.runs = TRUE, !.started_at = now,
                                           !.restart_count = container.restart_count + n]
    BY <1>6 DEF Begin
  <2>3. container' \in Containers
    <3>1. container.restart_count + n \in Int /\ now \in Nat \ {0}
      BY DEF PollType, WorldType, Containers
    <3> QED
      BY <2>2, <3>1, ContainersAre DEF PollType, WorldType
  <2> QED
    BY <1>0, <2>1, <2>3 DEF PollType, WorldType
<1>7. CASE Replace
  <2>1. /\ UNCHANGED <<now, maintenance, granted>> /\ starts' = starts \cup {now}
        /\ container' = [name |-> "b", restart_count |-> 0, started_at |-> now, runs |-> TRUE]
    BY <1>7 DEF Replace
  <2>2. container' \in Containers
    BY <2>1 DEF PollType, WorldType, Names, Containers
  <2> QED
    BY <1>0, <2>1, <2>2 DEF PollType, WorldType
<1>8. CASE Tick \/ Bounded
  <2>1. UNCHANGED <<container, maintenance, starts, granted>> /\ now' \in {now, now + 1}
    BY <1>8 DEF Tick, Bounded, history
  <2> QED
    BY <1>0, <2>1 DEF PollType, WorldType
<1> QED
  BY <1>0, <1>1, <1>2, <1>3, <1>4, <1>5, <1>6, <1>7, <1>8 DEF Next, Environment, Loop, Writing

\* What the world does leaves the loop as it is.
Outside == End \/ Begin \/ Replace \/ (\E len \in world.windows : MaintenanceStart(len))
      \/ MaintenanceStop
           \/ Tick \/ Bounded

\* The world and the listener threads touch neither the loop nor the database.
LEMMA OutsideLeaves ==
    ASSUME PollType, Outside
    PROVE  UNCHANGED <<loop, store, harm, polls, base>> /\ now <= now'
<1>1. UNCHANGED <<loop, store, harm, polls, base>>
  BY DEF Outside, End, Begin, Replace, MaintenanceStart, MaintenanceStop, Tick, Bounded, history
<1>2. now' = now \/ now' = now + 1
  BY DEF Outside, End, Begin, Replace, MaintenanceStart, MaintenanceStop, Tick, Bounded, history
<1> QED
  BY <1>1, <1>2 DEF PollType, WorldType

\* What is seen of a container is an identity.
LEMMA IdentityType == ASSUME PollType PROVE Identity(container) \in Ids
BY DEF PollType, WorldType, Identity, Ids, Containers

\* A poll that saw nothing asks for nothing.
LEMMA QuietType == /\ Quiet \in Observations /\ Quiet.op = NoOp /\ Quiet.event = NoOp
                   /\ NoOp \in Ops /\ NoOp.at = NoTime /\ NoOp.op = "none"
BY DEF Quiet, Observations, NoOp, Ops, OptTime, NoTime, Details

\* A collector that starts for the first time starts from proper values.
LEMMA FreshTypes == UpTracker \in DownType /\ Unseen \in Ids /\ IdleTimer \in TimerType
BY DEF UpTracker, DownType, MISSES_TO_OPEN, OptTime, NoTime, Unseen, Ids, Names, IdleTimer,
      TimerType

\* No step leaves the values of the loop's own state.
LEMMA LoopKept == ASSUME PollType, Next PROVE LoopType'
<1>1. CASE Outside
  <2>1. UNCHANGED <<pc, obs, down, seen, serve_down, window>>
    BY <1>1, OutsideLeaves DEF loop
  <2> QED
    BY <2>1 DEF PollType, LoopType
<1>2. CASE Crash
  <2>1. /\ pc' = "dead" /\ obs' = Quiet /\ window' = [now |-> FALSE, was |-> FALSE]
        /\ down' = UpTracker /\ seen' = Unseen /\ serve_down' = IdleTimer
    BY <1>2 DEF Crash
  <2>2. UpTracker \in DownType /\ Unseen \in Ids /\ IdleTimer \in TimerType
    BY FreshTypes
  <2> QED
    BY <2>1, <2>2, QuietType DEF LoopType
<1>3. CASE Restart
  <2>1. /\ pc' = "poll" /\ down' = kv.down /\ seen' = kv.seen /\ serve_down' = kv.timer
        /\ UNCHANGED <<obs, window>>
    BY <1>3 DEF Restart
  <2> QED
    BY <2>1 DEF PollType, LoopType, StoreType, KvType, PollSteps
<1>4. ASSUME NEW up \in BOOLEAN, Observe(up) PROVE LoopType'
  <2> DEFINE cur == Identity(container)
             restart == IsRestart(seen, cur)
             op == DownOp(down, now, up)
             event == IF restart THEN Open(EventTs(seen, cur, now)) ELSE NoOp
             detail == IF restart THEN EventDetail(seen, cur) ELSE <<>>
  <2>1. /\ obs' = [serve_up |-> up, op |-> op, event |-> event, detail |-> detail]
        /\ seen' = cur /\ down' = DownStep(down, now, up) /\ pc' = "snapshot"
        /\ UNCHANGED <<serve_down, window>>
    BY <1>4 DEF Observe
  <2>0. now \in Nat /\ down \in DownType /\ seen \in Ids /\ cur \in Ids
    BY IdentityType DEF PollType, WorldType, LoopType
  <2>2. /\ op \in Ops /\ (op.op \in {"open", "close"} => op.at # NoTime)
        /\ DownStep(down, now, up) \in DownType
    BY <2>0, DownOpType, DownStepType
  <2>3. /\ event \in Ops /\ (event # NoOp => event.op = "open" /\ event.at # NoTime)
        /\ detail \in Details
    <3> HIDE DEF cur, restart
    <3> QED
      BY <2>0, EventType, QuietType DEF Details
  <2> HIDE DEF cur, restart, op, event, detail
  <2>4. obs' \in Observations
    BY <2>1, <2>2, <2>3 DEF Observations
  <2> QED
    BY <2>0, <2>1, <2>2, <2>3, <2>4 DEF PollType, LoopType, PollSteps
<1>5. CASE Snapshot
  <2>1. /\ pc' = "windows" /\ maintenance'.active \in BOOLEAN
        /\ window' = [window EXCEPT !.now = maintenance'.active]
        /\ UNCHANGED <<obs, down, seen, serve_down>>
    BY <1>5, WorldKept DEF Snapshot, WorldType
  <2> QED
    BY <2>1 DEF PollType, LoopType, PollSteps
<1>6. CASE Writing \/ SaveTracker
  <2>1. /\ pc' \in PollSteps /\ UNCHANGED <<down, seen>> /\ obs' \in {obs, Quiet}
    BY <1>6, WritingLeaves DEF SaveTracker, PollSteps
  <2>2. window' = window \/ window' = [window EXCEPT !.was = window.now]
    BY <1>6 DEF Writing, WriteWindows, WriteOp, WriteEvent, Evaluate, SaveEngine, SaveTracker
  <2>3. serve_down' = serve_down
        \/ serve_down' = Step(serve_down, now, ~obs.serve_up, WarnHold, Cooldown)
    BY <1>6 DEF Writing, WriteWindows, WriteOp, WriteEvent, Evaluate, SaveEngine, SaveTracker
  <2>4. serve_down' \in TimerType
    <3>1. (~obs.serve_up) \in BOOLEAN /\ now \in Nat /\ serve_down \in TimerType
      BY DEF PollType, WorldType, LoopType
    <3> QED
      BY <2>3, <3>1, StepType
  <2>5. window' \in [now: BOOLEAN, was: BOOLEAN]
    BY <2>2 DEF PollType, LoopType
  <2> QED
    BY <2>1, <2>4, <2>5, QuietType DEF PollType, LoopType, PollSteps
<1> QED
  BY <1>1, <1>2, <1>3, <1>4, <1>5, <1>6 DEF Next, Environment, Loop, Outside, Writing

\* What a step does to the table of incidents, if its write is not lost.
LEMMA WrittenRows ==
    ASSUME PollType, incidents' # incidents
    PROVE  /\ WriteWindows => incidents' = WindowRows
           /\ WriteOp => incidents' = OpRows
           /\ WriteEvent => /\ obs.event # NoOp
                            /\ incidents' = EventRows(obs.event, obs.detail)
BY DEF WriteWindows, WriteOp, WriteEvent, Write

\* Each of the three writes leaves a table of incidents, with the rows it had.
LEMMA RowsOfWrites ==
    ASSUME PollType
    PROVE  /\ WindowRows \in Seq(RowSet) /\ Kept(incidents, WindowRows)
           /\ OpRows \in Seq(RowSet) /\ Kept(incidents, OpRows)
           /\ obs.event # NoOp =>
                 /\ EventRows(obs.event, obs.detail) \in Seq(RowSet)
                 /\ Kept(incidents, EventRows(obs.event, obs.detail))
<1>0. /\ now \in Nat /\ obs.op \in Ops /\ obs.event \in Ops /\ obs.detail \in Details
      /\ incidents \in Seq(RowSet) /\ <<>> \in Details
      /\ obs.op.op \in {"open", "close"} => obs.op.at # NoTime
      /\ obs.event # NoOp => obs.event.op = "open" /\ obs.event.at # NoTime
  BY DEF PollType, WorldType, LoopType, StoreType, Observations, Details
<1>1. \A k \in Kinds : \A d \in Details : \A t \in Nat : \A e \in OptTime :
          Row(k, d, t, e) \in RowSet
  BY DEF Row, RowSet
<1>2. NoTime \in OptTime /\ \A t \in Nat : t \in OptTime
  BY DEF OptTime
<1>3. WindowRows \in Seq(RowSet) /\ Kept(incidents, WindowRows)
  <2>1. Row("maintenance", <<>>, now, NoTime) \in RowSet
    BY <1>0, <1>1, <1>2 DEF Kinds
  <2> QED
    BY <1>0, <2>1, RowsClosed, RowAdded, KeptIsReflexive DEF WindowRows
<1>4. OpRows \in Seq(RowSet) /\ Kept(incidents, OpRows)
  <2>1. CASE obs.op.op = "open"
    <3>1. obs.op.at \in Nat
      BY <1>0, <2>1 DEF Ops, OptTime, NoTime
    <3>2. Row("serve_down", <<>>, obs.op.at, NoTime) \in RowSet
      BY <1>0, <1>1, <1>2, <3>1 DEF Kinds
    <3> QED
      BY <1>0, <2>1, <3>2, RowAdded DEF OpRows
  <2>2. CASE obs.op.op = "close"
    <3>1. obs.op.at \in Nat
      BY <1>0, <2>2 DEF Ops, OptTime, NoTime
    <3> QED
      BY <1>0, <2>2, <3>1, RowsClosed DEF OpRows
  <2>3. CASE obs.op.op # "open" /\ obs.op.op # "close"
    BY <1>0, <2>3, KeptIsReflexive DEF OpRows
  <2> QED
    BY <2>1, <2>2, <2>3
<1>5. ASSUME obs.event # NoOp
      PROVE  /\ EventRows(obs.event, obs.detail) \in Seq(RowSet)
             /\ Kept(incidents, EventRows(obs.event, obs.detail))
  <2>1. obs.event.at \in Nat
    BY <1>0, <1>5 DEF Ops, OptTime, NoTime
  <2>2. Row("container_restart", obs.detail, obs.event.at, obs.event.at) \in RowSet
    BY <1>0, <1>1, <1>2, <2>1 DEF Kinds
  <2> QED
    BY <1>0, <2>2, RowAdded, KeptIsReflexive DEF EventRows
<1> QED
  BY <1>3, <1>4, <1>5

\* Only the three writes of it change the table.
LEMMA OnlyWrites ==
    ASSUME PollType, Next
    PROVE  \/ incidents' = incidents
           \/ WriteWindows /\ incidents' = WindowRows
           \/ WriteOp /\ incidents' = OpRows
           \/ WriteEvent /\ obs.event # NoOp /\ incidents' = EventRows(obs.event, obs.detail)
<1>1. CASE Outside
  BY <1>1, OutsideLeaves DEF store
<1>2. CASE Crash \/ Restart \/ (\E up \in BOOLEAN : Observe(up)) \/ Snapshot \/ Evaluate
           \/ SaveEngine \/ SaveTracker
  BY <1>2 DEF Crash, Restart, Observe, Snapshot, Evaluate, SaveEngine, SaveTracker, store
<1>3. CASE WriteWindows \/ WriteOp \/ WriteEvent
  BY <1>3, WrittenRows
<1> QED
  BY <1>1, <1>2, <1>3 DEF Next, Environment, Loop, Outside

\* No row of the table of incidents is ever lost or becomes that of something else.
LEMMA RowsKept ==
    ASSUME PollType, Next
    PROVE  incidents' \in Seq(RowSet) /\ Kept(incidents, incidents')
BY OnlyWrites, RowsOfWrites, KeptIsReflexive DEF PollType, StoreType

\* The saved state with another tracker.
WithTracker(k, d, s) == [k EXCEPT !.down = d, !.seen = s]

\* What a step does to the saved state, and to the counts of what went wrong.
LEMMA OnlySaves ==
    ASSUME PollType, Next
    PROVE  /\ \/ kv' = kv
              \/ SaveEngine /\ kv' = [kv EXCEPT !.timer = serve_down]
              \/ SaveTracker /\ kv' = WithTracker(kv, down, seen)
           /\ lost' \in {lost, lost + 1}
           /\ crashes' = IF Crash THEN crashes + 1 ELSE crashes
<1>1. CASE Outside
  <2>1. ~Crash
    BY <1>1, OutsideLeaves DEF harm, Crash, PollType, StoreType
  <2> QED
    BY <1>1, <2>1, OutsideLeaves DEF store, harm
<1>2. CASE Crash
  BY <1>2 DEF Crash, store
<1>3. CASE (Restart \/ (\E up \in BOOLEAN : Observe(up)) \/ Snapshot) /\ ~Crash
  BY <1>3 DEF Restart, Observe, Snapshot, store, harm
<1>4. CASE (WriteWindows \/ WriteOp \/ WriteEvent \/ Evaluate) /\ ~Crash
  BY <1>4 DEF WriteWindows, WriteOp, WriteEvent, Evaluate, Write
<1>5. CASE (SaveEngine \/ SaveTracker) /\ ~Crash
  BY <1>5 DEF SaveEngine, SaveTracker, Write, WithTracker
<1> QED
  BY <1>1, <1>2, <1>3, <1>4, <1>5 DEF Next, Environment, Loop, Outside

\* The entry of the engine is written alone.
LEMMA TimerSaved ==
    ASSUME NEW k \in KvType, NEW t \in TimerType, NEW f, f = [k EXCEPT !.timer = t]
    PROVE  f \in KvType /\ f.timer = t /\ f.down = k.down /\ f.seen = k.seen
BY DEF KvType

\* The entry of the tracker is written alone.
LEMMA TrackerSaved ==
    ASSUME NEW k \in KvType, NEW d \in DownType, NEW s \in Ids
    PROVE  /\ WithTracker(k, d, s) \in KvType /\ WithTracker(k, d, s).timer = k.timer
           /\ WithTracker(k, d, s).down = d /\ WithTracker(k, d, s).seen = s
<1> DEFINE e == [k EXCEPT !.down = d]
<1>1. e \in KvType /\ e.down = d /\ e.timer = k.timer
  BY DEF KvType
<1>2. WithTracker(k, d, s) = [e EXCEPT !.seen = s]
  BY DEF KvType, WithTracker
<1> HIDE DEF e
<1> QED
  BY <1>1, <1>2 DEF KvType

\* The rows of the table of alerts.
LEMMA OnlyAlerts ==
    ASSUME PollType, Next
    PROVE  \/ alerts' = alerts
           \/ /\ Evaluate /\ EdgeOf(serve_down, now, ~obs.serve_up, WarnHold, Cooldown) # "None"
              /\ alerts' = Append(alerts,
                     [recovered |->
                          EdgeOf(serve_down, now, ~obs.serve_up, WarnHold, Cooldown) = "Recover",
                      ts |-> now])
<1>1. CASE Outside
  BY <1>1, OutsideLeaves DEF store
<1>2. CASE Crash \/ Restart \/ (\E up \in BOOLEAN : Observe(up)) \/ Snapshot \/ WriteWindows
           \/ WriteOp \/ WriteEvent \/ SaveEngine \/ SaveTracker
  BY <1>2 DEF Crash, Restart, Observe, Snapshot, WriteWindows, WriteOp, WriteEvent, SaveEngine,
              SaveTracker, store
<1>3. CASE Evaluate
  BY <1>3 DEF Evaluate, Write, AlertRows
<1> QED
  BY <1>1, <1>2, <1>3 DEF Next, Environment, Loop, Outside

\* Only a poll is a poll; only the first save of the tracker sets where the history begins.
LEMMA OnlyPolls ==
    ASSUME PollType, Next
    PROVE  /\ \/ polls' = polls
              \/ \E up \in BOOLEAN : Observe(up) /\ polls' = Append(polls, <<now, up>>)
           /\ base' = base \/ (SaveTracker /\ base = 0 /\ base' = kv'.seen.started_at)
<1>1. CASE Outside
  BY <1>1, OutsideLeaves
<1>2. CASE Crash \/ Restart \/ Snapshot \/ Writing
  BY <1>2, WritingLeaves DEF Crash, Restart, Snapshot, history
<1>3. ASSUME NEW up \in BOOLEAN, Observe(up)
      PROVE  base' = base /\ polls' = Append(polls, <<now, up>>)
  BY <1>3 DEF Observe
<1>4. CASE SaveTracker
  BY <1>4 DEF SaveTracker
<1> QED
  BY <1>1, <1>2, <1>3, <1>4 DEF Next, Environment, Loop, Outside, Writing

\* No step leaves the values of what is stored.
LEMMA StoreKept == ASSUME PollType, Next PROVE StoreType'
<1>1. incidents' \in Seq(RowSet)
  BY RowsKept
<1>2. kv' \in KvType
  <2>1. kv \in KvType /\ serve_down \in TimerType /\ down \in DownType /\ seen \in Ids
    BY DEF PollType, LoopType, StoreType
  <2>2. \/ kv' = kv
        \/ kv' = [kv EXCEPT !.timer = serve_down]
        \/ kv' = WithTracker(kv, down, seen)
    BY OnlySaves
  <2> QED
    BY <2>1, <2>2, TimerSaved, TrackerSaved
<1>3. alerts' \in Seq(AlertSet)
  <2> DEFINE edge == EdgeOf(serve_down, now, ~obs.serve_up, WarnHold, Cooldown)
  <2>1. [recovered |-> edge = "Recover", ts |-> now] \in AlertSet
    <3> HIDE DEF edge
    <3> QED
      BY DEF AlertSet, PollType, WorldType
  <2>2. alerts \in Seq(AlertSet)
    BY DEF PollType, StoreType
  <2>3. \/ alerts' = alerts
        \/ alerts' = Append(alerts, [recovered |-> edge = "Recover", ts |-> now])
    BY OnlyAlerts
  <2> HIDE DEF edge
  <2> QED
    BY <2>1, <2>2, <2>3, AppendProperties
<1>4. lost' \in Nat /\ crashes' \in Nat
  BY OnlySaves DEF PollType, StoreType
<1>5. polls' \in Seq(Nat \X BOOLEAN)
  <2>1. \A up \in BOOLEAN : <<now, up>> \in Nat \X BOOLEAN
    BY DEF PollType, WorldType
  <2>2. polls \in Seq(Nat \X BOOLEAN)
    BY DEF PollType, StoreType
  <2>3. CASE polls' = polls
    BY <2>2, <2>3
  <2>4. ASSUME NEW up \in BOOLEAN, polls' = Append(polls, <<now, up>>)
        PROVE  polls' \in Seq(Nat \X BOOLEAN)
    <3> DEFINE p == <<now, up>>
               S == Nat \X BOOLEAN
    <3>1. p \in S /\ polls \in Seq(S) /\ polls' = Append(polls, p)
      BY <2>1, <2>2, <2>4
    <3> HIDE DEF p, S
    <3>2. polls' \in Seq(S)
      BY <3>1, AppendProperties
    <3> QED
      BY <3>2 DEF S
  <2> QED
    BY <2>3, <2>4, OnlyPolls
<1>6. base' \in Nat
  BY <1>2, OnlyPolls DEF PollType, StoreType, KvType, Ids
<1> QED
  BY <1>1, <1>2, <1>3, <1>4, <1>5, <1>6 DEF StoreType

\* Every variable keeps its type.
LEMMA PollTypeKept == ASSUME PollType, Next PROVE PollType'
BY WorldKept, LoopKept, StoreKept DEF PollType

\* A write that was not lost happened.
LEMMA WritesHappen ==
    ASSUME PollType, Next, lost' = 0
    PROVE  /\ lost = 0
           /\ WriteWindows => incidents' = WindowRows
           /\ WriteOp => incidents' = OpRows
           /\ WriteEvent =>
                 incidents' = IF obs.event = NoOp THEN incidents
                              ELSE EventRows(obs.event, obs.detail)
           /\ Evaluate =>
                 alerts' = AlertRows(EdgeOf(serve_down, now, ~obs.serve_up, WarnHold, Cooldown))
           /\ SaveTracker =>
                 kv' = IF EngineState = saved THEN kv ELSE WithTracker(kv, down, seen)
<1>1. lost = 0 /\ lost \in Nat
  BY OnlySaves DEF PollType, StoreType
<1> QED
  BY <1>1 DEF WriteWindows, WriteOp, WriteEvent, Evaluate, SaveTracker, Write, WithTracker

\* Each part of the saved state is as it was, or as the loop has it.
LEMMA KvMoves ==
    ASSUME PollType, Next
    PROVE  /\ kv'.timer \in {kv.timer, serve_down}
           /\ kv'.down = kv.down \/ (SaveTracker /\ kv'.down = down)
           /\ kv'.seen = kv.seen \/ (SaveTracker /\ kv'.seen = seen)
<1>1. kv \in KvType /\ serve_down \in TimerType /\ down \in DownType /\ seen \in Ids
  BY DEF PollType, LoopType, StoreType
<1>2. CASE kv' = kv
  BY <1>2
<1>3. CASE kv' = [kv EXCEPT !.timer = serve_down]
  BY <1>1, <1>3, TimerSaved
<1>4. CASE SaveTracker /\ kv' = WithTracker(kv, down, seen)
  <2>1. kv'.timer = kv.timer /\ kv'.down = down /\ kv'.seen = seen
    BY <1>1, <1>4, TrackerSaved
  <2> QED
    BY <1>4, <2>1
<1> QED
  BY <1>2, <1>3, <1>4, OnlySaves

-----------------------------------------------------------------------------
(***************************************************************************)
(* What the saved state claims                                             *)
(***************************************************************************)
\* An incident of the kind that began at the time is on record ...
Booked(rows, kind, t) == \E i \in 1 .. Len(rows) : rows[i].kind = kind /\ rows[i].start = t

\* ... or an alert sent at it.
Said(rows, t) == \E i \in 1 .. Len(rows) : ~rows[i].recovered /\ rows[i].ts = t

\* A timer's last message is on record; the incident a tracker holds open is.
TimerTrue(timer, rows) == timer.last_sent # NoTime => Said(rows, timer.last_sent)
DownTrue(d, rows) == d.open_since # NoTime => Booked(rows, "serve_down", d.open_since)

\* The row of an incident that was just opened is still to be written.
OpenAsked == pc \in {"snapshot", "windows", "incidents"} /\ obs.op = Open(down.open_since)

\* Neither what was saved nor what the loop would save claims what is not on record.
ClaimsTrue ==
    lost = 0 => /\ TimerTrue(kv.timer, alerts) /\ TimerTrue(serve_down, alerts)
                /\ DownTrue(kv.down, incidents)
                /\ DownTrue(down, incidents) \/ OpenAsked

\* What is on record stays so.
LEMMA BookedStays ==
    ASSUME NEW old \in Seq(RowSet), NEW new, Kept(old, new), Len(new) \in Nat,
           NEW kind, NEW t, Booked(old, kind, t)
    PROVE  Booked(new, kind, t)
<1>1. PICK i \in 1 .. Len(old) : old[i].kind = kind /\ old[i].start = t
  BY DEF Booked
<1>2. i \in 1 .. Len(new) /\ new[i].kind = kind /\ new[i].start = t
  BY <1>1, LenProperties DEF Kept
<1> QED
  BY <1>2 DEF Booked

\* What is on record stays so, whatever the step.
LEMMA BookedKept ==
    ASSUME PollType, Next, NEW kind, NEW t, Booked(incidents, kind, t)
    PROVE  Booked(incidents', kind, t)
<1>1. incidents \in Seq(RowSet) /\ incidents' \in Seq(RowSet) /\ Kept(incidents, incidents')
  BY RowsKept DEF PollType, StoreType
<1>2. Len(incidents') \in Nat
  BY <1>1, LenProperties
<1> QED
  BY <1>1, <1>2, BookedStays

\* A message that was said stays said.
LEMMA SaidKept ==
    ASSUME PollType, Next, NEW t, Said(alerts, t)
    PROVE  Said(alerts', t)
<1>1. PICK i \in 1 .. Len(alerts) : ~alerts[i].recovered /\ alerts[i].ts = t
  BY DEF Said
<1>2. alerts \in Seq(AlertSet) /\ Len(alerts) \in Nat
  BY LenProperties DEF PollType, StoreType
<1>3. alerts' = alerts \/ \E m : m \in AlertSet /\ alerts' = Append(alerts, m)
  <2> DEFINE edge == EdgeOf(serve_down, now, ~obs.serve_up, WarnHold, Cooldown)
  <2>1. [recovered |-> edge = "Recover", ts |-> now] \in AlertSet
    <3> HIDE DEF edge
    <3> QED
      BY DEF AlertSet, PollType, WorldType
  <2> QED
    BY <2>1, OnlyAlerts
<1>4. ASSUME NEW m \in AlertSet, alerts' = Append(alerts, m) PROVE Said(alerts', t)
  <2>1. Len(alerts') = Len(alerts) + 1 /\ alerts'[i] = alerts[i]
    BY <1>2, <1>4, AppendProperties
  <2>2. i \in 1 .. Len(alerts')
    BY <1>2, <2>1
  <2> QED
    BY <1>1, <2>1, <2>2 DEF Said
<1> QED
  BY <1>3, <1>4

\* What a step of the timer of serve_down, and its row, leave: the message it sends is said.
LEMMA EvaluateSays ==
    ASSUME PollType, Next, Evaluate, lost' = 0, TimerTrue(serve_down, alerts)
    PROVE  TimerTrue(serve_down', alerts')
<1> DEFINE edge == EdgeOf(serve_down, now, ~obs.serve_up, WarnHold, Cooldown)
<1>1. serve_down' = Step(serve_down, now, ~obs.serve_up, WarnHold, Cooldown)
      /\ alerts' = AlertRows(edge)
  BY WritesHappen DEF Evaluate
<1>2. serve_down \in TimerType /\ now \in Nat /\ alerts \in Seq(AlertSet)
  BY DEF PollType, LoopType, WorldType, StoreType
<1>3. CASE serve_down'.last_sent = serve_down.last_sent
  BY <1>3, SaidKept DEF TimerTrue
<1>4. CASE serve_down'.last_sent # serve_down.last_sent
  <2>1. edge = "Fire" /\ serve_down'.last_sent = now
    BY <1>1, <1>2, <1>4 DEF Step, EdgeOf, TimerType
  <2>2. alerts' = Append(alerts, [recovered |-> FALSE, ts |-> now])
    BY <1>1, <2>1 DEF AlertRows
  <2>3. [recovered |-> FALSE, ts |-> now] \in AlertSet
    BY <1>2 DEF AlertSet
  <2>4. /\ Len(alerts') = Len(alerts) + 1 /\ Len(alerts) \in Nat
        /\ alerts'[Len(alerts) + 1] = [recovered |-> FALSE, ts |-> now]
    BY <1>2, <2>2, <2>3, AppendProperties, LenProperties
  <2>5. Len(alerts) + 1 \in 1 .. Len(alerts')
    BY <2>4
  <2> QED
    BY <2>1, <2>4, <2>5 DEF TimerTrue, Said
<1> QED
  BY <1>3, <1>4

\* The row that was asked for is written.
LEMMA OpenBooks ==
    ASSUME PollType, Next, WriteOp, lost' = 0, DownTrue(down, incidents) \/ OpenAsked
    PROVE  DownTrue(down, incidents')
<1>1. CASE DownTrue(down, incidents)
  BY <1>1, BookedKept DEF DownTrue
<1>2. CASE OpenAsked /\ down.open_since # NoTime
  <2> DEFINE row == Row("serve_down", <<>>, down.open_since, NoTime)
  <2>1. incidents' = Append(incidents, row)
    BY <1>2, WritesHappen DEF OpenAsked, OpRows, Open
  <2>2. row \in RowSet /\ row.kind = "serve_down" /\ row.start = down.open_since
    BY <1>2 DEF PollType, LoopType, DownType, Row, RowSet, Kinds, Details, OptTime, NoTime
  <2> HIDE DEF row
  <2>3. /\ Len(incidents') = Len(incidents) + 1 /\ Len(incidents) \in Nat
        /\ incidents'[Len(incidents) + 1] = row
    BY <2>1, <2>2, RowAdded, LenProperties DEF PollType, StoreType
  <2>4. Len(incidents) + 1 \in 1 .. Len(incidents')
    BY <2>3
  <2> QED
    BY <2>2, <2>3, <2>4 DEF DownTrue, Booked
<1> QED
  BY <1>1, <1>2 DEF DownTrue

\* An incident the tracker opens is asked for.
LEMMA ObserveAsks ==
    ASSUME PollType, NEW up \in BOOLEAN, Observe(up), DownTrue(down, incidents)
    PROVE  DownTrue(down', incidents') \/ OpenAsked'
<1>1. /\ down' = DownStep(down, now, up) /\ obs'.op = DownOp(down, now, up) /\ pc' = "snapshot"
      /\ incidents' = incidents
  BY DEF Observe, store
<1>2. CASE down'.open_since \in {NoTime, down.open_since}
  BY <1>1, <1>2 DEF DownTrue
<1>3. CASE down'.open_since # NoTime /\ down'.open_since # down.open_since
  <2>1. obs'.op = Open(down'.open_since)
    BY <1>1, <1>3 DEF DownOp
  <2> QED
    BY <1>1, <2>1 DEF OpenAsked
<1> QED
  BY <1>2, <1>3

\* No step makes the saved state, or the loop's, claim what is not on record.
LEMMA ClaimsKept == ASSUME PollType, ClaimsTrue, Next PROVE ClaimsTrue'
<1> SUFFICES ASSUME lost' = 0
             PROVE  /\ TimerTrue(kv'.timer, alerts') /\ TimerTrue(serve_down', alerts')
                    /\ DownTrue(kv'.down, incidents')
                    /\ DownTrue(down', incidents') \/ OpenAsked'
  BY DEF ClaimsTrue
<1>0. /\ TimerTrue(kv.timer, alerts) /\ TimerTrue(serve_down, alerts)
      /\ DownTrue(kv.down, incidents)
      /\ DownTrue(down, incidents) \/ OpenAsked
  BY WritesHappen DEF ClaimsTrue
<1>1. /\ TimerTrue(kv.timer, alerts') /\ TimerTrue(serve_down, alerts')
      /\ DownTrue(kv.down, incidents')
      /\ DownTrue(down, incidents) => DownTrue(down, incidents')
  BY <1>0, SaidKept, BookedKept DEF TimerTrue, DownTrue
<1>3. TimerTrue(kv'.timer, alerts')
  <2>1. kv'.timer \in {kv.timer, serve_down}
    BY KvMoves
  <2> QED
    BY <1>1, <2>1
<1>4. DownTrue(kv'.down, incidents')
  <2>1. kv'.down = kv.down \/ (SaveTracker /\ kv'.down = down)
    BY KvMoves
  <2>2. SaveTracker => DownTrue(down, incidents)
    BY <1>0 DEF SaveTracker, OpenAsked
  <2> QED
    BY <1>1, <2>1, <2>2
<1>5. TimerTrue(serve_down', alerts')
  <2>1. serve_down' \in {serve_down, kv.timer, IdleTimer} \/ Evaluate
    <3>1. CASE Outside
      BY <3>1, OutsideLeaves DEF loop
    <3>2. CASE ~Outside
      BY <3>2 DEF Next, Environment, Loop, Outside, Observe, Snapshot, WriteWindows, WriteOp,
                  WriteEvent, SaveEngine, SaveTracker, Restart, Crash
    <3> QED
      BY <3>1, <3>2
  <2>2. TimerTrue(IdleTimer, alerts')
    BY DEF TimerTrue, IdleTimer
  <2> QED
    BY <1>0, <1>1, <2>1, <2>2, EvaluateSays
<1>6. DownTrue(down', incidents') \/ OpenAsked'
  <2>1. CASE Outside
    BY <1>0, <2>1, OutsideLeaves DEF loop, store, OpenAsked
  <2>2. CASE Crash
    BY <2>2 DEF Crash, DownTrue, UpTracker
  <2>3. CASE Restart
    BY <1>1, <2>3 DEF Restart
  <2>4. ASSUME NEW up \in BOOLEAN, Observe(up) PROVE DownTrue(down', incidents') \/ OpenAsked'
    BY <1>0, <2>4, ObserveAsks DEF Observe, OpenAsked
  <2>5. CASE Snapshot \/ WriteWindows
    BY <1>0, <1>1, <2>5 DEF Snapshot, WriteWindows, OpenAsked
  <2>6. CASE WriteOp
    BY <1>0, <2>6, OpenBooks DEF WriteOp
  <2>7. CASE WriteEvent \/ Evaluate \/ SaveEngine \/ SaveTracker
    BY <1>0, <1>1, <2>7 DEF WriteEvent, Evaluate, SaveEngine, SaveTracker, OpenAsked
  <2> QED
    BY <2>1, <2>2, <2>3, <2>4, <2>5, <2>6, <2>7 DEF Next, Environment, Loop, Outside
<1> QED
  BY <1>3, <1>4, <1>5, <1>6

-----------------------------------------------------------------------------
(***************************************************************************)
(* The runs of the container                                               *)
(***************************************************************************)
\* The loop is somewhere within a poll.
InPoll == pc \notin {"poll", "dead"}

\* Whatever run is known began no later than the one that is: later runs begin later, and,
\* unless polls find the container between two, runs that began at one time are the same.
RunsKnown ==
    /\ container.started_at \in starts
    /\ \A run \in {seen, kv.seen} :
          /\ run = Unseen \/ run.started_at > 0
          /\ run.started_at <= container.started_at
          /\ ~world.mid_restart /\ run.started_at = container.started_at
                => run = Identity(container)

\* What was saved last is what is stored; between polls, what is known is.
InStep ==
    lost = 0 =>
        /\ pc = "poll" => seen = kv.seen
        /\ saved = <<>> \/ \E t \in TimerType, d \in DownType : saved = <<t, d, kv.seen>>
        /\ base # 0 => kv.seen.started_at >= base
        /\ InPoll => seen # Unseen /\ seen.started_at >= kv.seen.started_at

\* The restarts that brought the run that is known, and the one that is saved, are on record
\* or about to be.
EventAsked ==
    /\ pc \in {"snapshot", "windows", "incidents", "events"}
    /\ obs.event # NoOp /\ obs.event.at = seen.started_at

\* ... whenever they are later than the first that was saved.
RestartsTrue ==
    lost = 0 /\ base # 0 =>
        /\ kv.seen.started_at > base =>
              Booked(incidents, "container_restart", kv.seen.started_at)
        /\ InPoll /\ seen.started_at > base =>
              Booked(incidents, "container_restart", seen.started_at) \/ EventAsked

\* A container that was never inspected has no start time.
LEMMA UnseenBeganNever == Unseen.started_at = 0
BY DEF Unseen

\* What Identity takes from the container.
LEMMA KnownOfContainer ==
    ASSUME PollType
    PROVE  /\ Identity(container).started_at = container.started_at
           /\ container.started_at \in Nat /\ container.started_at > 0
           /\ Identity(container) # Unseen
           /\ Identity(container).name = container.name
           /\ Identity(container).restart_count = container.restart_count
BY UnseenBeganNever DEF Identity, PollType, WorldType, Containers

\* The world changes the container's run only to one that begins now, and otherwise only
\* while the run ends.
LEMMA RunsBegin ==
    ASSUME PollType, RunsKnown, Next
    PROVE  /\ container'.started_at \in starts'
           /\ \/ Identity(container') = Identity(container)
              \/ /\ Outside /\ container'.started_at > container.started_at
              \/ /\ Outside /\ world.mid_restart /\ container'.started_at = container.started_at
<1>1. CASE End
  <2>1. PICK n \in {0, 1} :
            container' = [container EXCEPT !.restart_count = container.restart_count + n,
                  !.runs = FALSE]
    BY <1>1 DEF End
  <2>2. container'.started_at = container.started_at
    BY <2>1 DEF PollType, WorldType, Containers
  <2> QED
    BY <1>1, <2>2 DEF End, Outside, RunsKnown, history
<1>2. CASE Begin \/ Replace
  <2>1. container'.started_at = now /\ starts' = starts \cup {now} /\ now \notin starts
    <3>1. CASE Replace
      BY <3>1 DEF Replace
    <3>2. CASE Begin
      <4>1. PICK n \in {0, 1} :
                container' = [container EXCEPT !.runs = TRUE, !.started_at = now,
                                               !.restart_count = container.restart_count + n]
        BY <3>2 DEF Begin
      <4>2. container'.started_at = now
        BY <4>1 DEF PollType, WorldType, Containers
      <4> QED
        BY <3>2, <4>2 DEF Begin
    <3> QED
      BY <1>2, <3>1, <3>2
  <2>2. container.started_at < now
    <3>1. container.started_at \in starts /\ starts \subseteq 0 .. now /\ now \in Nat
      BY DEF RunsKnown, PollType, WorldType
    <3>2. container.started_at # now /\ container.started_at \in 0 .. now
      BY <2>1, <3>1
    <3> QED
      BY <3>1, <3>2
  <2> QED
    BY <1>2, <2>1, <2>2 DEF Outside, PollType, WorldType, Containers
<1>3. CASE ~(End \/ Begin \/ Replace)
  <2>1. UNCHANGED <<container, starts>>
    BY <1>3, WritingLeaves DEF Next, Environment, Loop, Writing, MaintenanceStart,
          MaintenanceStop, Crash, Tick, Bounded,
       Observe, Snapshot, SaveTracker, Restart, history
  <2> QED
    BY <2>1 DEF RunsKnown, Identity
<1> QED
  BY <1>1, <1>2, <1>3

\* What is known changes when a poll begins, is resumed after a restart, and is lost with
\* the collector.
LEMMA SeenMoves ==
    ASSUME PollType, Next
    PROVE  \/ /\ seen' = seen /\ (InPoll' => InPoll) /\ (pc' = "poll" => pc = "poll" \/ SaveTracker)
              /\ ~SaveTracker => saved' = saved
           \/ Restart /\ seen' = kv.seen /\ pc' = "poll" /\ saved' = saved
           \/ Crash /\ seen' = Unseen /\ pc' = "dead" /\ saved' = <<>>
           \/ /\ \E up \in BOOLEAN : Observe(up)
              /\ seen' = Identity(container) /\ pc = "poll" /\ pc' = "snapshot" /\ saved' = saved
<1>1. CASE Outside
  BY <1>1, OutsideLeaves DEF loop, InPoll
<1>2. CASE Crash
  BY <1>2 DEF Crash
<1>3. CASE Restart
  BY <1>3 DEF Restart
<1>4. ASSUME NEW up \in BOOLEAN, Observe(up)
      PROVE  seen' = Identity(container) /\ pc = "poll" /\ pc' = "snapshot" /\ saved' = saved
  BY <1>4 DEF Observe
<1>5. CASE Writing
  BY <1>5, WritingLeaves DEF InPoll
<1>6. CASE Snapshot
  BY <1>6 DEF Snapshot, InPoll
<1>7. CASE SaveTracker
  BY <1>7 DEF SaveTracker, InPoll
<1> QED
  BY <1>1, <1>2, <1>3, <1>4, <1>5, <1>6, <1>7 DEF Next, Environment, Loop, Outside, Writing

\* No step makes the collector know of a run that did not begin.
LEMMA RunsKnownKept == ASSUME PollType, RunsKnown, Next PROVE RunsKnown'
<1> DEFINE Of(run, ct) == /\ run = Unseen \/ run.started_at > 0
                          /\ run.started_at <= ct.started_at
                          /\ ~world.mid_restart /\ run.started_at = ct.started_at
                                => run = Identity(ct)
<1>1. Of(seen, container) /\ Of(kv.seen, container)
  BY DEF RunsKnown
<1>2. seen \in Ids /\ kv.seen \in Ids /\ Unseen \in Ids /\ Identity(container) \in Ids
  BY IdentityType, FreshTypes DEF PollType, LoopType, StoreType, KvType
<1>3. Of(Unseen, container) /\ Of(Identity(container), container)
  BY KnownOfContainer, UnseenBeganNever
<1>4. ASSUME NEW run \in Ids, Of(run, container) PROVE Of(run, container')
  <2>1. container.started_at \in Nat /\ container'.started_at \in Nat /\ run.started_at \in Nat
    BY PollTypeKept DEF PollType, WorldType, Containers, Ids
  <2>2. CASE Identity(container') = Identity(container)
    <3>1. container'.started_at = container.started_at
      BY <2>2 DEF Identity
    <3> QED
      BY <1>4, <2>2, <3>1
  <2>3. CASE container'.started_at > container.started_at
    BY <1>4, <2>1, <2>3
  <2>4. CASE world.mid_restart /\ container'.started_at = container.started_at
    BY <1>4, <2>1, <2>4
  <2> QED
    BY <2>2, <2>3, <2>4, RunsBegin
<1>5. seen' \in {seen, kv.seen, Unseen, Identity(container)} /\ kv'.seen \in {kv.seen, seen}
  BY SeenMoves, KvMoves
<1>6. /\ seen' \in Ids /\ Of(seen', container) /\ kv'.seen \in Ids /\ Of(kv'.seen, container)
  BY <1>1, <1>2, <1>3, <1>5
<1>7. Of(seen', container') /\ Of(kv'.seen, container')
  <2> HIDE DEF Of
  <2> QED
    BY <1>4, <1>6
<1>8. world' = world /\ container'.started_at \in starts'
  BY RunsBegin DEF Next
<1> QED
  BY <1>7, <1>8 DEF RunsKnown

\* The saved state after a save that was not lost.
LEMMA SavesWhatIsKnown ==
    ASSUME PollType, InStep, SaveTracker, Next, lost' = 0
    PROVE  kv'.seen = seen /\ saved' = <<serve_down, down, seen>>
<1>0. lost = 0 /\ kv' = IF EngineState = saved THEN kv ELSE WithTracker(kv, down, seen)
  BY WritesHappen
<1>1. kv \in KvType /\ down \in DownType /\ seen \in Ids
  BY DEF PollType, LoopType, StoreType
<1>2. saved' = EngineState
  BY DEF SaveTracker
<1>3. CASE EngineState = saved
  BY <1>0, <1>2, <1>3 DEF InStep, EngineState
<1>4. CASE EngineState # saved
  BY <1>0, <1>1, <1>2, <1>4, TrackerSaved DEF EngineState
<1> QED
  BY <1>3, <1>4

\* The loop and what it saved stay in step.
LEMMA InStepKept == ASSUME PollType, RunsKnown, InStep, Next PROVE InStep'
<1> SUFFICES ASSUME lost' = 0
             PROVE  /\ pc' = "poll" => seen' = kv'.seen
                    /\ saved' = <<>>
                       \/ \E t \in TimerType, d \in DownType : saved' = <<t, d, kv'.seen>>
                    /\ base' # 0 => kv'.seen.started_at >= base'
                    /\ InPoll' => seen' # Unseen /\ seen'.started_at >= kv'.seen.started_at
  BY DEF InStep
<1>1. lost = 0
  BY WritesHappen
<1>2. /\ serve_down \in TimerType /\ down \in DownType
      /\ seen.started_at \in Nat /\ kv.seen.started_at \in Nat /\ base \in Nat
  BY DEF PollType, LoopType, StoreType, KvType, Ids
<1>3. CASE SaveTracker
  <2>1. kv'.seen = seen /\ saved' = <<serve_down, down, seen>> /\ pc = "tracker" /\ pc' = "poll"
        /\ seen' = seen
    BY <1>3, SavesWhatIsKnown DEF SaveTracker
  <2>2. base' = IF base = 0 THEN kv'.seen.started_at ELSE base
    BY <1>3 DEF SaveTracker
  <2>3. InPoll /\ ~InPoll'
    BY <2>1 DEF InPoll
  <2> QED
    BY <1>1, <1>2, <2>1, <2>2, <2>3 DEF InStep
<1>4. CASE ~SaveTracker
  <2>1. kv'.seen = kv.seen /\ base' = base
    BY <1>4, KvMoves, OnlyPolls
  <2>2. saved' = <<>> \/ saved' = saved
    BY <1>4, SeenMoves
  <2>3. /\ pc' = "poll" => seen' = kv'.seen
        /\ InPoll' => seen' # Unseen /\ seen'.started_at >= kv'.seen.started_at
    <3>1. Identity(container) # Unseen /\ Identity(container).started_at >= kv.seen.started_at
      BY KnownOfContainer DEF RunsKnown
    <3> QED
      BY <1>1, <1>4, <2>1, <3>1, SeenMoves DEF InStep, InPoll
  <2> QED
    BY <1>1, <2>1, <2>2, <2>3 DEF InStep
<1> QED
  BY <1>3, <1>4

\* A poll books the run it finds if it is a later one than the run that was known.
LEMMA LaterRunIsAsked ==
    ASSUME PollType, RunsKnown, NEW up \in BOOLEAN, Observe(up), seen # Unseen,
           container.started_at > seen.started_at
    PROVE  obs'.event = Open(seen'.started_at) /\ obs'.event # NoOp /\ EventAsked'
           /\ obs'.detail = EventDetail(seen, seen')
<1> DEFINE cur == Identity(container)
<1>1. /\ obs' = [serve_up |-> up, op |-> DownOp(down, now, up),
                 event |-> IF IsRestart(seen, cur) THEN Open(EventTs(seen, cur, now)) ELSE NoOp,
                 detail |-> IF IsRestart(seen, cur) THEN EventDetail(seen, cur) ELSE <<>>]
      /\ seen' = cur /\ pc' = "snapshot"
  BY DEF Observe
<1>2. cur.started_at = container.started_at /\ cur.started_at \in Nat /\ cur.started_at > 0
      /\ seen.started_at \in Nat
  BY KnownOfContainer DEF PollType, LoopType, Ids
<1> HIDE DEF cur
<1>3. IsRestart(seen, cur)
  BY <1>2 DEF IsRestart
<1>4. EventTs(seen, cur, now) = cur.started_at
  BY <1>2 DEF EventTs
<1>5. obs'.event = Open(cur.started_at) /\ obs'.detail = EventDetail(seen, cur)
  BY <1>1, <1>3, <1>4
<1>6. Open(cur.started_at).at = cur.started_at /\ Open(cur.started_at) # NoOp
  BY DEF Open, NoOp
<1> QED
  BY <1>1, <1>5, <1>6 DEF EventAsked

\* The row that was asked for is there once it is written.
LEMMA EventBooks ==
    ASSUME PollType, Next, WriteEvent, lost' = 0, obs.event # NoOp
    PROVE  Booked(incidents', "container_restart", obs.event.at)
<1> DEFINE row == Row("container_restart", obs.detail, obs.event.at, obs.event.at)
<1>1. incidents' = EventRows(obs.event, obs.detail)
  BY WritesHappen
<1>2. row \in RowSet /\ row.kind = "container_restart" /\ row.start = obs.event.at
  BY DEF PollType, LoopType, Observations, Ops, Row, RowSet, Kinds, OptTime, NoTime
<1>3. incidents' = IF \E i \in 1 .. Len(incidents) : incidents[i] = row THEN incidents
                   ELSE Append(incidents, row)
  BY <1>1 DEF EventRows
<1> HIDE DEF row
<1>4. CASE \E i \in 1 .. Len(incidents) : incidents[i] = row
  BY <1>2, <1>3, <1>4 DEF Booked
<1>5. CASE ~\E i \in 1 .. Len(incidents) : incidents[i] = row
  <2>1. incidents' = Append(incidents, row)
    BY <1>3, <1>5
  <2>2. /\ Len(incidents') = Len(incidents) + 1 /\ Len(incidents) \in Nat
        /\ incidents'[Len(incidents) + 1] = row
    BY <1>2, <2>1, RowAdded, LenProperties DEF PollType, StoreType
  <2>3. Len(incidents) + 1 \in 1 .. Len(incidents')
    BY <2>2
  <2> QED
    BY <1>2, <2>2, <2>3 DEF Booked
<1> QED
  BY <1>4, <1>5

\* No restart that was seen goes missing.
LEMMA RestartsTrueKept ==
    ASSUME PollType, RunsKnown, InStep, RestartsTrue, Next PROVE RestartsTrue'
<1> DEFINE known(id) == Booked(incidents, "container_restart", id.started_at)
           knownNext(id) == Booked(incidents', "container_restart", id.started_at)
<1> SUFFICES ASSUME lost' = 0, base' # 0
             PROVE  /\ kv'.seen.started_at > base' => knownNext(kv'.seen)
                    /\ InPoll' /\ seen'.started_at > base' => knownNext(seen') \/ EventAsked'
  BY DEF RestartsTrue
<1>1. lost = 0
  BY WritesHappen
<1>2. /\ seen.started_at \in Nat /\ kv.seen.started_at \in Nat /\ base \in Nat
  BY DEF PollType, LoopType, StoreType, KvType, Ids
<1>3. \A id : known(id) => knownNext(id)
  BY BookedKept
<1>4. CASE SaveTracker
  <2>1. kv'.seen = seen /\ pc = "tracker" /\ pc' = "poll"
    BY <1>4, SavesWhatIsKnown DEF SaveTracker
  <2>2. base' = IF base = 0 THEN kv'.seen.started_at ELSE base
    BY <1>4 DEF SaveTracker
  <2>3. InPoll /\ ~InPoll' /\ ~EventAsked
    BY <2>1 DEF InPoll, EventAsked
  <2>4. base # 0 /\ seen.started_at > base => known(seen)
    BY <1>1, <2>3 DEF RestartsTrue
  <2> HIDE DEF known, knownNext
  <2> QED
    BY <1>2, <1>3, <2>1, <2>2, <2>3, <2>4
<1>5. ASSUME NEW up \in BOOLEAN, Observe(up)
      PROVE  seen'.started_at > base' => knownNext(seen') \/ EventAsked'
  <2>1. /\ seen = kv.seen /\ base' = base /\ seen' = Identity(container)
        /\ seen'.started_at = container.started_at
    BY <1>1, <1>5, KnownOfContainer DEF InStep, Observe
  <2>2. seen # Unseen
    BY <1>1, <1>2, <2>1, UnseenBeganNever DEF InStep
  <2>3. CASE container.started_at > seen.started_at
    BY <1>5, <2>2, <2>3, LaterRunIsAsked
  <2>4. CASE container.started_at = seen.started_at
    BY <1>1, <1>3, <2>1, <2>4 DEF RestartsTrue
  <2>5. seen.started_at <= container.started_at /\ container.started_at \in Nat
    BY KnownOfContainer DEF RunsKnown
  <2> QED
    BY <1>2, <2>3, <2>4, <2>5
<1>6. CASE ~SaveTracker
  <2>1. kv'.seen = kv.seen /\ base' = base
    BY <1>6, KvMoves, OnlyPolls
  <2>2. kv.seen.started_at > base => knownNext(kv.seen)
    BY <1>1, <1>3, <2>1 DEF RestartsTrue
  <2>3. ASSUME InPoll', seen'.started_at > base' PROVE knownNext(seen') \/ EventAsked'
    <3>1. CASE \E up \in BOOLEAN : Observe(up)
      BY <1>5, <2>3, <3>1
    <3>2. CASE seen' = seen /\ InPoll
      <4>1. known(seen) \/ EventAsked
        BY <1>1, <2>1, <2>3, <3>2 DEF RestartsTrue
      <4>2. CASE known(seen)
        BY <1>3, <3>2, <4>2
      <4>3. CASE EventAsked /\ WriteEvent
        BY <3>2, <4>3, EventBooks DEF EventAsked
      <4>4. CASE EventAsked /\ ~WriteEvent
        <5>1. CASE Outside
          BY <4>4, <5>1, OutsideLeaves DEF loop, EventAsked
        <5>2. CASE Snapshot \/ WriteWindows \/ WriteOp
          BY <4>4, <5>2 DEF Snapshot, WriteWindows, WriteOp, EventAsked
        <5>3. CASE Crash \/ Restart
          BY <2>3, <5>3 DEF Crash, Restart, InPoll
        <5>4. CASE Evaluate \/ SaveEngine \/ SaveTracker \/ \E up \in BOOLEAN : Observe(up)
          BY <4>4, <5>4 DEF Evaluate, SaveEngine, SaveTracker, Observe, EventAsked
        <5> QED
          BY <4>4, <5>1, <5>2, <5>3, <5>4 DEF Next, Environment, Loop, Outside
      <4> QED
        BY <4>1, <4>2, <4>3, <4>4
    <3> QED
      BY <2>3, <3>1, <3>2, SeenMoves DEF InPoll
  <2> QED
    BY <2>1, <2>2, <2>3
<1> QED
  BY <1>4, <1>6

\* The three writes of the table keep to the rows of their kind.
LEMMA KindsApart ==
    ASSUME PollType, Next
    PROVE  /\ ~WriteWindows => KindKept("maintenance", incidents, incidents')
           /\ ~WriteOp => KindKept("serve_down", incidents, incidents')
           /\ ~WriteEvent => KindKept("container_restart", incidents, incidents')
<1>0. /\ now \in Nat /\ obs.op \in Ops /\ obs.event \in Ops /\ obs.detail \in Details
      /\ incidents \in Seq(RowSet) /\ <<>> \in Details
      /\ obs.op.op \in {"open", "close"} => obs.op.at # NoTime
      /\ obs.event # NoOp => obs.event.op = "open" /\ obs.event.at # NoTime
  BY DEF PollType, WorldType, LoopType, StoreType, Observations, Details
<1>1. \A k \in Kinds : \A d \in Details : \A t \in Nat : \A e \in OptTime :
          Row(k, d, t, e) \in RowSet /\ Row(k, d, t, e).kind = k
  BY DEF Row, RowSet
<1>2. NoTime \in OptTime /\ \A t \in Nat : t \in OptTime
  BY DEF OptTime
<1>3. \A k : KindKept(k, incidents, incidents)
  BY DEF KindKept
<1>4. \A k : k # "maintenance" => KindKept(k, incidents, WindowRows)
  <2>1. Row("maintenance", <<>>, now, NoTime) \in RowSet
        /\ Row("maintenance", <<>>, now, NoTime).kind = "maintenance"
    BY <1>0, <1>1, <1>2 DEF Kinds
  <2> QED
    BY <1>0, <1>3, <2>1, RowsClosed, RowAdded DEF WindowRows
<1>5. \A k : k # "serve_down" => KindKept(k, incidents, OpRows)
  <2>1. CASE obs.op.op = "open"
    <3>1. obs.op.at \in Nat
      BY <1>0, <2>1 DEF Ops, OptTime, NoTime
    <3>2. Row("serve_down", <<>>, obs.op.at, NoTime) \in RowSet
          /\ Row("serve_down", <<>>, obs.op.at, NoTime).kind = "serve_down"
      BY <1>0, <1>1, <1>2, <3>1 DEF Kinds
    <3> QED
      BY <1>0, <2>1, <3>2, RowAdded DEF OpRows
  <2>2. CASE obs.op.op = "close"
    <3>1. obs.op.at \in Nat
      BY <1>0, <2>2 DEF Ops, OptTime, NoTime
    <3> QED
      BY <1>0, <2>2, <3>1, RowsClosed DEF OpRows
  <2>3. CASE obs.op.op # "open" /\ obs.op.op # "close"
    BY <1>3, <2>3 DEF OpRows
  <2> QED
    BY <2>1, <2>2, <2>3
<1>6. obs.event # NoOp =>
          \A k : k # "container_restart" => KindKept(k, incidents, EventRows(obs.event, obs.detail))
  <2>1. SUFFICES ASSUME obs.event # NoOp
                 PROVE  \A k : k # "container_restart" =>
                            KindKept(k, incidents, EventRows(obs.event, obs.detail))
    OBVIOUS
  <2>2. obs.event.at \in Nat
    BY <1>0, <2>1 DEF Ops, OptTime, NoTime
  <2> DEFINE row == Row("container_restart", obs.detail, obs.event.at, obs.event.at)
  <2>3. row \in RowSet /\ row.kind = "container_restart"
    BY <1>0, <1>1, <1>2, <2>2 DEF Kinds
  <2>4. EventRows(obs.event, obs.detail) \in {incidents, Append(incidents, row)}
    BY DEF EventRows
  <2> HIDE DEF row
  <2> QED
    BY <1>0, <1>3, <2>3, <2>4, RowAdded
<1> QED
  BY <1>3, <1>4, <1>5, <1>6, OnlyWrites

\* The row of a restart that a step added.
LEMMA RestartRow ==
    ASSUME PollType, Next, NEW i \in 1 .. Len(incidents'), incidents'[i].kind = "container_restart",
           ~(i \in 1 .. Len(incidents) /\ incidents'[i] = incidents[i])
    PROVE  /\ WriteEvent /\ obs.event # NoOp /\ i = Len(incidents) + 1
           /\ incidents'[i] = Row("container_restart", obs.detail, obs.event.at, obs.event.at)
           /\ \A j \in 1 .. Len(incidents) :
                 incidents[j] # Row("container_restart", obs.detail, obs.event.at, obs.event.at)
<1> DEFINE row == Row("container_restart", obs.detail, obs.event.at, obs.event.at)
<1>1. WriteEvent
  BY KindsApart DEF KindKept
<1>2. obs.event # NoOp /\ incidents' = EventRows(obs.event, obs.detail)
  <2>1. incidents' # incidents
    OBVIOUS
  <2> QED
    BY <1>1, <2>1, WrittenRows
<1>3. incidents' = IF \E j \in 1 .. Len(incidents) : incidents[j] = row THEN incidents
                   ELSE Append(incidents, row)
  BY <1>2 DEF EventRows
<1>4. row \in RowSet
  BY <1>2 DEF PollType, LoopType, Observations, Ops, Row, RowSet, Kinds, OptTime, NoTime
<1> HIDE DEF row
<1>5. /\ ~\E j \in 1 .. Len(incidents) : incidents[j] = row
      /\ incidents' = Append(incidents, row)
  BY <1>3
<1>6. /\ Len(incidents') = Len(incidents) + 1 /\ Len(incidents) \in Nat
      /\ incidents'[Len(incidents) + 1] = row
      /\ \A j \in 1 .. Len(incidents) : incidents'[j] = incidents[j]
  BY <1>4, <1>5, RowAdded, LenProperties DEF PollType, StoreType
<1>7. i = Len(incidents) + 1
  BY <1>6
<1> QED
  BY <1>1, <1>2, <1>5, <1>6, <1>7 DEF row

-----------------------------------------------------------------------------
\* A poll that asks for the event of a restart found a later run than the one saved.
EventIsLater ==
    /\ pc = "poll" => obs = Quiet
    /\ obs.event # NoOp =>
          /\ obs.event = Open(seen.started_at) /\ obs.detail = EventDetail(kv.seen, seen)
          /\ seen.started_at > kv.seen.started_at

\* A restart on record is one of a run that began; one that is not yet saved is in the words
\* a poll that finds it again would put it in.
RestartRowIs(row, ct, polling, known, booked) ==
    /\ row.end = row.start
    /\ row.start <= ct.started_at
    /\ polling => row.start <= known.started_at
    /\ row.start > booked.started_at =>
          /\ row.start = ct.started_at => row.detail = EventDetail(booked, Identity(ct))
          /\ polling /\ row.start = known.started_at => row.detail = EventDetail(booked, known)

\* It is such a row now, and after a step.
RestartIs(row) == RestartRowIs(row, container, InPoll, seen, kv.seen)
RestartWillBe(row) == RestartRowIs(row, container', InPoll', seen', kv'.seen)

\* No two rows are of one run.
RunsOnce ==
    (~world.mid_restart /\ lost = 0) =>
        /\ EventIsLater
        /\ \A i \in 1 .. Len(incidents) :
              incidents[i].kind = "container_restart" => RestartIs(incidents[i])
        /\ \A i, j \in 1 .. Len(incidents) :
              /\ incidents[i].kind = "container_restart"
              /\ incidents[j].kind = "container_restart"
              /\ incidents[i].start = incidents[j].start
              => i = j

\* An event that is asked for is of a later run than the one saved, until it is saved.
LEMMA EventIsLaterKept ==
    ASSUME PollType, RunsKnown, InStep, RunsOnce, Next, ~world.mid_restart, lost' = 0
    PROVE  EventIsLater'
<1>1. lost = 0 /\ EventIsLater
  BY WritesHappen DEF RunsOnce
<1>2. CASE Crash \/ Restart \/ SaveTracker
  BY <1>1, <1>2, QuietType DEF Crash, Restart, SaveTracker, EventIsLater, PollType, LoopType
<1>3. ASSUME NEW up \in BOOLEAN, Observe(up) PROVE EventIsLater'
  <2>1. seen = kv.seen /\ kv' = kv /\ pc' = "snapshot" /\ seen' = Identity(container)
    BY <1>1, <1>3 DEF InStep, Observe, store
  <2>2. CASE IsRestart(seen, Identity(container))
    <3>1. seen # Unseen /\ seen # Identity(container)
      BY <2>2 DEF IsRestart
    <3>2. container.started_at > seen.started_at
      BY <3>1, KnownOfContainer DEF RunsKnown, PollType, LoopType, Ids
    <3>3. obs'.event = Open(seen'.started_at) /\ obs'.detail = EventDetail(seen, seen')
      BY <1>3, <3>1, <3>2, LaterRunIsAsked
    <3>4. seen'.started_at > kv'.seen.started_at
      BY <2>1, <3>2, KnownOfContainer
    <3> QED
      BY <2>1, <3>3, <3>4 DEF EventIsLater
  <2>3. CASE ~IsRestart(seen, Identity(container))
    <3>1. obs'.event = NoOp
      BY <1>3, <2>3 DEF Observe
    <3> QED
      BY <2>1, <3>1 DEF EventIsLater
  <2> QED
    BY <2>2, <2>3
<1>4. CASE ~Crash /\ ~Restart /\ ~SaveTracker /\ ~\E up \in BOOLEAN : Observe(up)
  <2>1. seen' = seen /\ kv'.seen = kv.seen
    BY <1>4, SeenMoves, KvMoves
  <2>2. UNCHANGED obs /\ (pc' = "poll" => pc = "poll")
    <3>1. CASE Outside
      BY <3>1, OutsideLeaves DEF loop
    <3>2. CASE Writing
      BY <3>2, WritingLeaves
    <3>3. CASE Snapshot
      BY <3>3 DEF Snapshot
    <3> QED
      BY <1>4, <3>1, <3>2, <3>3 DEF Next, Environment, Loop, Outside, Writing
  <2> QED
    BY <1>1, <2>1, <2>2 DEF EventIsLater
<1> QED
  BY <1>2, <1>3, <1>4

\* A restart on record stays as it should be, whatever the step.
LEMMA RestartRowStays ==
    ASSUME PollType, RunsKnown, InStep, Next, ~world.mid_restart, lost' = 0,
           NEW row \in RowSet, RestartIs(row)
    PROVE  RestartWillBe(row)
<1>0. /\ seen.started_at \in Nat /\ kv.seen.started_at \in Nat /\ row.start \in Nat
      /\ container.started_at \in Nat /\ container'.started_at \in Nat
      /\ Identity(container).started_at = container.started_at
  BY PollTypeKept, KnownOfContainer DEF PollType, WorldType, LoopType, StoreType, KvType, Ids,
        RowSet,
     Containers
<1>1. lost = 0
  BY WritesHappen
<1>2. /\ row.end = row.start /\ row.start <= container.started_at
      /\ InPoll => row.start <= seen.started_at
      /\ row.start > kv.seen.started_at =>
            /\ row.start = container.started_at =>
                  row.detail = EventDetail(kv.seen, Identity(container))
            /\ InPoll /\ row.start = seen.started_at => row.detail = EventDetail(kv.seen, seen)
  BY DEF RestartIs, RestartWillBe, RestartRowIs
<1>3. container'.started_at > container.started_at \/ Identity(container') = Identity(container)
  BY RunsBegin
<1>4. container'.started_at >= container.started_at
      /\ (row.start = container'.started_at =>
            row.start = container.started_at /\ Identity(container') = Identity(container))
  <2>1. Identity(container') = Identity(container) => container'.started_at = container.started_at
    BY DEF Identity
  <2> QED
    BY <1>0, <1>2, <1>3, <2>1
<1>5. CASE SaveTracker
  <2>1. kv'.seen = seen /\ pc = "tracker" /\ pc' = "poll"
    BY <1>5, SavesWhatIsKnown DEF SaveTracker
  <2>2. InPoll /\ ~InPoll'
    BY <2>1 DEF InPoll
  <2> QED
    BY <1>0, <1>2, <1>4, <2>1, <2>2 DEF RestartIs, RestartWillBe, RestartRowIs
<1>6. CASE ~SaveTracker
  <2>1. kv'.seen = kv.seen
    BY <1>6, KvMoves
  <2>2. row.start > kv.seen.started_at =>
            (row.start = container'.started_at =>
                row.detail = EventDetail(kv.seen, Identity(container')))
    BY <1>2, <1>4
  <2>3. InPoll' => /\ row.start <= seen'.started_at
                   /\ row.start > kv.seen.started_at /\ row.start = seen'.started_at =>
                         row.detail = EventDetail(kv.seen, seen')
    <3>1. CASE ~InPoll'
      BY <3>1
    <3>2. CASE seen' = seen /\ (InPoll' => InPoll)
      BY <1>2, <3>2
    <3>3. CASE seen' = Identity(container)
      BY <1>0, <1>2, <3>3
    <3> QED
      BY <1>6, <3>1, <3>2, <3>3, SeenMoves DEF InPoll
  <2> QED
    BY <1>2, <1>0, <1>4, <2>1, <2>2, <2>3 DEF RestartIs, RestartWillBe, RestartRowIs
<1> QED
  BY <1>5, <1>6

\* The row a poll books is as it should be, and the first of its run.
LEMMA RestartRowIsNew ==
    ASSUME PollType, RunsKnown, InStep, RunsOnce, Next, ~world.mid_restart, lost' = 0,
           WriteEvent, obs.event # NoOp,
           NEW row, row = Row("container_restart", obs.detail, obs.event.at, obs.event.at)
    PROVE  /\ RestartWillBe(row) /\ row.start = seen.started_at
           /\ \A j \in 1 .. Len(incidents) :
                 /\ incidents[j].kind = "container_restart" /\ incidents[j].start = row.start
                 => incidents[j] = row
<1>1. lost = 0
  BY WritesHappen
<1>2. /\ obs.event = Open(seen.started_at) /\ obs.detail = EventDetail(kv.seen, seen)
      /\ seen.started_at > kv.seen.started_at
      /\ \A i \in 1 .. Len(incidents) :
            incidents[i].kind = "container_restart" => RestartIs(incidents[i])
  BY <1>1 DEF RunsOnce, EventIsLater
<1>3. /\ row.kind = "container_restart" /\ row.detail = EventDetail(kv.seen, seen)
      /\ row.start = seen.started_at /\ row.end = seen.started_at
  BY <1>2 DEF Row, Open
<1>4. UNCHANGED <<container, seen>> /\ kv'.seen = kv.seen /\ InPoll /\ InPoll'
  BY KvMoves DEF WriteEvent, InPoll, SaveTracker
<1>5. seen.started_at <= container.started_at
      /\ (seen.started_at = container.started_at => seen = Identity(container))
  BY DEF RunsKnown
<1>6. RestartWillBe(row)
  <2>1. seen.started_at \in Nat
    BY DEF PollType, LoopType, Ids
  <2> QED
    BY <1>3, <1>4, <1>5, <2>1 DEF RestartIs, RestartWillBe, RestartRowIs
<1>7. ASSUME NEW j \in 1 .. Len(incidents), incidents[j].kind = "container_restart",
             incidents[j].start = row.start
      PROVE  incidents[j] = row
  <2>1. incidents[j] \in RowSet
    BY ElementOfSeq DEF PollType, StoreType
  <2>2. RestartIs(incidents[j])
    BY <1>2, <1>7
  <2>3. incidents[j].end = row.end /\ incidents[j].detail = row.detail
    BY <1>2, <1>3, <1>4, <1>7, <2>2 DEF RestartIs, RestartWillBe, RestartRowIs
  <2>4. row \in RowSet
    BY <1>2 DEF PollType, LoopType, Observations, Ops, Row, RowSet, Kinds, OptTime, NoTime
  <2> QED
    BY <1>3, <1>7, <2>1, <2>3, <2>4 DEF RowSet
<1> QED
  BY <1>3, <1>6, <1>7

\* No run is booked twice.
LEMMA RunsOnceKept == ASSUME PollType, RunsKnown, InStep, RunsOnce, Next PROVE RunsOnce'
<1> SUFFICES ASSUME ~world.mid_restart, lost' = 0
             PROVE  /\ EventIsLater'
                    /\ \A i \in 1 .. Len(incidents') :
                          incidents'[i].kind = "container_restart" => RestartWillBe(incidents'[i])
                    /\ \A i, j \in 1 .. Len(incidents') :
                          /\ incidents'[i].kind = "container_restart"
                          /\ incidents'[j].kind = "container_restart"
                          /\ incidents'[i].start = incidents'[j].start
                          => i = j
  <2>1. world' = world
    BY DEF Next
  <2> QED
    BY <2>1 DEF RunsOnce, RestartIs, RestartWillBe
<1> DEFINE new(i) == WriteEvent /\ obs.event # NoOp /\ i = Len(incidents) + 1
                     /\ incidents'[i] =
                           Row("container_restart", obs.detail, obs.event.at, obs.event.at)
                     /\ \A j \in 1 .. Len(incidents) : incidents[j] # incidents'[i]
           old(i) == i \in 1 .. Len(incidents) /\ incidents'[i] = incidents[i]
<1>1. \A i \in 1 .. Len(incidents') : incidents'[i].kind = "container_restart" => old(i) \/ new(i)
  BY RestartRow
<1>2. lost = 0
  BY WritesHappen
<1>3. /\ \A i \in 1 .. Len(incidents) :
            incidents[i].kind = "container_restart" => RestartIs(incidents[i])
      /\ \A i, j \in 1 .. Len(incidents) :
            /\ incidents[i].kind = "container_restart"
            /\ incidents[j].kind = "container_restart"
            /\ incidents[i].start = incidents[j].start
            => i = j
  BY <1>2 DEF RunsOnce
<1>4. ASSUME NEW i \in 1 .. Len(incidents'), incidents'[i].kind = "container_restart"
      PROVE  RestartWillBe(incidents'[i])
  <2>1. CASE old(i)
    <3>1. incidents[i] \in RowSet /\ RestartIs(incidents[i])
      BY <1>3, <1>4, <2>1, ElementOfSeq DEF PollType, StoreType
    <3>2. RestartWillBe(incidents[i])
      BY <3>1, RestartRowStays
    <3> QED
      BY <2>1, <3>2
  <2>2. CASE new(i)
    BY <2>2, RestartRowIsNew
  <2> QED
    BY <1>1, <1>4, <2>1, <2>2
<1>5. ASSUME NEW i \in 1 .. Len(incidents'), NEW j \in 1 .. Len(incidents'),
             incidents'[i].kind = "container_restart", incidents'[j].kind = "container_restart",
             incidents'[i].start = incidents'[j].start
      PROVE  i = j
  <2>1. ASSUME NEW k \in 1 .. Len(incidents'), NEW m \in 1 .. Len(incidents'), old(k), new(m),
               incidents'[k].kind = "container_restart", incidents'[k].start = incidents'[m].start
        PROVE  FALSE
    <3>1. incidents[k] = incidents'[m]
      BY <2>1, RestartRowIsNew
    <3> QED
      BY <2>1, <3>1
  <2>2. old(i) /\ old(j) => i = j
    BY <1>3, <1>5
  <2>3. new(i) /\ new(j) => i = j
    OBVIOUS
  <2> HIDE DEF old, new
  <2> QED
    BY <1>1, <1>5, <2>1, <2>2, <2>3
<1>6. EventIsLater'
  BY EventIsLaterKept
<1> QED
  BY <1>4, <1>5, <1>6

-----------------------------------------------------------------------------
(***************************************************************************)
(* The maintenance window                                                  *)
(***************************************************************************)
\* An incident of the kind is open.
Unended(rows, kind) == \E i \in 1 .. Len(rows) : rows[i].kind = kind /\ rows[i].end = NoTime

\* A window ends no later than was granted; the flag a poll took is of an open one, and but
\* between taking it and writing it down it is the one on record.
WindowTrue ==
    /\ maintenance.active => maintenance.expires_at <= granted
    /\ InPoll /\ pc # "snapshot" /\ window.now => now < granted
    /\ pc # "windows" => window.now = window.was
    /\ lost = 0 /\ window.was => Unended(incidents, "maintenance")
    /\ lost = 0 /\ crashes = 0 /\ Unended(incidents, "maintenance") => window.was

\* An open row of a kind the step does not write stays, and none comes.
LEMMA UnendedKept ==
    ASSUME NEW rows, NEW newer, NEW kind, KindKept(kind, rows, newer)
    PROVE  Unended(newer, kind) <=> Unended(rows, kind)
BY DEF Unended, KindKept

\* The maintenance row follows the edges of the flag.
LEMMA WindowRowsAre ==
    ASSUME PollType
    PROVE  /\ window.now = window.was => WindowRows = incidents
           /\ window.now /\ ~window.was => Unended(WindowRows, "maintenance")
           /\ ~window.now /\ window.was => ~Unended(WindowRows, "maintenance")
<1>0. now \in Nat /\ now # NoTime /\ incidents \in Seq(RowSet)
      /\ window \in [now: BOOLEAN, was: BOOLEAN]
  BY DEF PollType, WorldType, LoopType, StoreType, NoTime
<1>1. CASE window.now = window.was
  BY <1>0, <1>1 DEF WindowRows
<1>2. CASE window.now /\ ~window.was
  <2> DEFINE row == Row("maintenance", <<>>, now, NoTime)
  <2>1. row \in RowSet /\ row.kind = "maintenance" /\ row.end = NoTime
    BY <1>0 DEF Row, RowSet, Kinds, Details, OptTime
  <2>2. WindowRows = Append(incidents, row)
    BY <1>2 DEF WindowRows
  <2> HIDE DEF row
  <2>3. /\ Len(WindowRows) = Len(incidents) + 1 /\ Len(incidents) \in Nat
        /\ WindowRows[Len(incidents) + 1] = row
    BY <1>0, <2>1, <2>2, RowAdded, LenProperties
  <2>4. Len(incidents) + 1 \in 1 .. Len(WindowRows)
    BY <2>3
  <2> QED
    BY <1>2, <2>1, <2>3, <2>4 DEF Unended
<1>3. CASE ~window.now /\ window.was
  <2>1. WindowRows = CloseAll("maintenance", now)
    BY <1>3 DEF WindowRows
  <2>2. /\ Len(WindowRows) = Len(incidents)
        /\ \A i \in 1 .. Len(incidents) :
              /\ WindowRows[i].kind = incidents[i].kind
              /\ WindowRows[i].end =
                    IF incidents[i].kind = "maintenance" /\ incidents[i].end = NoTime
                    THEN now ELSE incidents[i].end
    BY <1>0, <2>1, RowsClosed DEF Kept
  <2> QED
    BY <1>0, <1>3, <2>2 DEF Unended
<1> QED
  BY <1>0, <1>1, <1>2, <1>3

\* The window that restarts are graded by stays the one on record.
LEMMA WindowTrueKept == ASSUME PollType, WindowTrue, Next PROVE WindowTrue'
<1>0. /\ now \in Nat /\ granted \in Nat /\ lost \in Nat /\ crashes \in Nat
      /\ window \in [now: BOOLEAN, was: BOOLEAN]
      /\ maintenance \in [active: BOOLEAN, expires_at: Nat]
  BY DEF PollType, WorldType, LoopType, StoreType
<1>1. lost' = 0 => lost = 0
  BY WritesHappen
<1>2. ~WriteWindows => (Unended(incidents', "maintenance") <=> Unended(incidents, "maintenance"))
  BY KindsApart, UnendedKept
<1>3. CASE WriteWindows
  <2>1. /\ UNCHANGED <<now, maintenance, granted, crashes>> /\ pc = "windows" /\ pc' = "incidents"
        /\ window' = [window EXCEPT !.was = window.now]
    BY <1>3 DEF WriteWindows, history
  <2>2. window'.now = window.now /\ window'.was = window.now
    BY <1>0, <2>1
  <2>3. lost' = 0 => incidents' = WindowRows
    BY <1>3, WritesHappen
  <2>4. lost' = 0 => /\ window'.was => Unended(incidents', "maintenance")
                     /\ crashes' = 0 /\ Unended(incidents', "maintenance") => window'.was
    BY <1>0, <1>1, <2>1, <2>2, <2>3, WindowRowsAre DEF WindowTrue
  <2> QED
    BY <2>1, <2>2, <2>4 DEF WindowTrue, InPoll
<1>4. CASE Snapshot
  <2>1. /\ UNCHANGED <<now, granted, lost, crashes>> /\ pc = "snapshot" /\ pc' = "windows"
        /\ maintenance' = IF maintenance.active /\ now >= maintenance.expires_at
                          THEN Closed ELSE maintenance
        /\ window' = [window EXCEPT !.now = maintenance'.active]
    BY <1>4 DEF Snapshot, harm, history
  <2>2. window'.now = maintenance'.active /\ window'.was = window.was
    BY <1>0, <2>1
  <2>3. maintenance'.active => maintenance' = maintenance /\ now < maintenance.expires_at
    BY <1>0, <2>1 DEF Closed, Window
  <2>4. ~WriteWindows
    BY <2>1 DEF WriteWindows
  <2> QED
    BY <1>0, <1>2, <2>1, <2>2, <2>3, <2>4 DEF WindowTrue, InPoll
<1>5. ASSUME NEW len \in world.windows, MaintenanceStart(len) PROVE WindowTrue'
  <2>1. /\ maintenance' = Window(TRUE, now + len)
        /\ UNCHANGED <<now, pc, window, lost, crashes, incidents>>
        /\ granted' = IF now + len > granted THEN now + len ELSE granted
    BY <1>5 DEF MaintenanceStart, loop, store, harm
  <2>2. len \in Nat
    BY PollAssumption DEF PollType, WorldType
  <2>3. granted' >= granted /\ maintenance'.expires_at = now + len /\ granted' >= now + len
        /\ granted' \in Nat
    BY <1>0, <2>1, <2>2 DEF Window
  <2>4. /\ InPoll' /\ pc' # "snapshot" /\ window'.now => now' < granted'
        /\ maintenance'.active => maintenance'.expires_at <= granted'
    <3>1. InPoll /\ pc # "snapshot" /\ window.now => now < granted
      BY DEF WindowTrue
    <3>2. (now < granted => now' < granted') /\ pc' = pc /\ window' = window
      BY <1>0, <2>1, <2>3
    <3>3. InPoll' /\ pc' # "snapshot" /\ window'.now => now' < granted'
      BY <3>1, <3>2 DEF InPoll
    <3> QED
      BY <2>1, <2>3, <3>3
  <2> QED
    BY <2>1, <2>4 DEF WindowTrue
<1>6. CASE MaintenanceStop
  <2>1. maintenance' = Closed /\ UNCHANGED <<now, pc, window, lost, crashes, incidents, granted>>
    BY <1>6 DEF MaintenanceStop, loop, store, harm, history
  <2> QED
    BY <2>1 DEF WindowTrue, InPoll, Closed, Window
<1>7. CASE Crash
  <2>1. /\ maintenance' = Closed /\ window' = [now |-> FALSE, was |-> FALSE]
        /\ crashes' = crashes + 1
    BY <1>7 DEF Crash
  <2> QED
    BY <1>0, <2>1 DEF WindowTrue, Closed, Window
<1>8. CASE Tick
  <2>1. /\ pc \in {"poll", "dead"}
        /\ UNCHANGED <<pc, window, maintenance, lost, crashes, incidents, granted>>
    BY <1>8 DEF Tick, loop, store, harm, history
  <2> QED
    BY <2>1 DEF WindowTrue, InPoll
<1>9. CASE End \/ Begin \/ Replace \/ Bounded
  <2>1. UNCHANGED <<now, maintenance, granted, pc, window, lost, crashes, incidents>>
    BY <1>9 DEF End, Begin, Replace, Bounded, loop, store, harm, history
  <2> QED
    BY <2>1 DEF WindowTrue, InPoll
<1>10. CASE Restart \/ (\E up \in BOOLEAN : Observe(up)) \/ WriteOp \/ WriteEvent \/ Evaluate
            \/ SaveEngine \/ SaveTracker
  <2>1. /\ UNCHANGED <<now, maintenance, granted, window, crashes>>
        /\ pc # "windows" /\ (InPoll' /\ pc' # "snapshot" => InPoll /\ pc # "snapshot")
    BY <1>10 DEF Restart, Observe, WriteOp, WriteEvent, Evaluate, SaveEngine, SaveTracker, history,
                 harm, InPoll
  <2>2. ~WriteWindows
    BY <2>1 DEF WriteWindows
  <2> QED
    BY <1>1, <1>2, <2>1, <2>2 DEF WindowTrue
<1> QED
  BY <1>3, <1>4, <1>5, <1>6, <1>7, <1>8, <1>9, <1>10 DEF Next, Environment, Loop

-----------------------------------------------------------------------------
(***************************************************************************)
(* Alerts and recoveries                                                   *)
(***************************************************************************)
\* The places of a table at which a message repeats the one before.
SlipsOf(rows) == {i \in 1 .. Len(rows) : rows[i].recovered <=> (i = 1 \/ rows[i - 1].recovered)}

\* What the table says last.
SaysUp(rows) == Len(rows) = 0 \/ rows[Len(rows)].recovered

\* The timer the next message follows from.
Timer == IF pc = "dead" THEN kv.timer ELSE serve_down

\* The table and the timer disagree on what was announced: the next message will repeat.
Amiss == SaysUp(alerts) <=> Timer.announced

\* What went wrong pays for the repetitions, and for the one to come.
SlipsCounted ==
    /\ Amiss => Cardinality(SlipsOf(alerts)) + 1 <= crashes + lost
    /\ Cardinality(SlipsOf(alerts)) <= crashes + lost

\* The repetitions of a table can be counted.
LEMMA SlipsAreFinite ==
    ASSUME NEW rows \in Seq(AlertSet)
    PROVE  IsFiniteSet(SlipsOf(rows)) /\ Cardinality(SlipsOf(rows)) \in Nat
<1>1. IsFiniteSet(1 .. Len(rows))
  BY LenProperties, FS_Interval
<1>2. SlipsOf(rows) \subseteq 1 .. Len(rows)
  BY DEF SlipsOf
<1> QED
  BY <1>1, <1>2, FS_Subset, FS_CardinalityType

\* A message more is a repetition more exactly if it says what was said last.
LEMMA SlipAdded ==
    ASSUME NEW rows \in Seq(AlertSet), NEW m \in AlertSet
    PROVE  /\ SaysUp(Append(rows, m)) <=> m.recovered
           /\ Cardinality(SlipsOf(Append(rows, m))) =
                 Cardinality(SlipsOf(rows)) + IF m.recovered <=> SaysUp(rows) THEN 1 ELSE 0
<1> DEFINE n == Len(rows)
           more == Append(rows, m)
<1>1. /\ n \in Nat /\ Len(more) = n + 1 /\ more[n + 1] = m
      /\ \A i \in 1 .. n : more[i] = rows[i]
  BY LenProperties, AppendProperties
<1>2. SaysUp(more) <=> m.recovered
  BY <1>1 DEF SaysUp
<1>3. (n + 1 \in SlipsOf(more)) <=> (m.recovered <=> SaysUp(rows))
  <2>1. n + 1 \in 1 .. Len(more) /\ (n + 1 = 1 <=> n = 0) /\ n + 1 - 1 = n
    BY <1>1
  <2>2. n # 0 => more[n] = rows[n]
    BY <1>1
  <2>3. (n + 1 \in SlipsOf(more)) <=> (m.recovered <=> (n = 0 \/ more[n].recovered))
    <3> HIDE DEF n, more
    <3>1. ASSUME NEW i \in 1 .. Len(more)
          PROVE  i \in SlipsOf(more) <=> (more[i].recovered <=> (i = 1 \/ more[i - 1].recovered))
      BY Zenon DEF SlipsOf
    <3> QED
      BY <1>1, <2>1, <3>1
  <2>4. SaysUp(rows) <=> (n = 0 \/ more[n].recovered)
    BY <2>2 DEF SaysUp
  <2> QED
    BY <2>3, <2>4
<1>4. \A i \in 1 .. n : i \in SlipsOf(more) <=> i \in SlipsOf(rows)
  <2> TAKE i \in 1 .. n
  <2>1. i \in 1 .. Len(more) /\ more[i] = rows[i] /\ (i # 1 => more[i - 1] = rows[i - 1])
    BY <1>1
  <2> QED
    BY <2>1 DEF SlipsOf
<1>5. SlipsOf(more) = IF m.recovered <=> SaysUp(rows)
                      THEN SlipsOf(rows) \cup {n + 1} ELSE SlipsOf(rows)
  <2>1. SlipsOf(more) \subseteq 1 .. n + 1 /\ SlipsOf(rows) \subseteq 1 .. n
    BY <1>1 DEF SlipsOf
  <2>2. 1 .. n + 1 = (1 .. n) \cup {n + 1}
    BY <1>1
  <2> HIDE DEF n, more
  <2>3. ASSUME NEW i
        PROVE  i \in SlipsOf(more) <=> i \in SlipsOf(rows) \/ (i = n + 1 /\ i \in SlipsOf(more))
    <3>1. CASE i \in 1 .. n
      BY <1>1, <1>4, <3>1
    <3>2. CASE i \notin 1 .. n
      BY <2>1, <2>2, <3>2
    <3> QED
      BY <3>1, <3>2
  <2>4. CASE m.recovered <=> SaysUp(rows)
    <3>1. n + 1 \in SlipsOf(more)
      BY <1>3, <2>4
    <3> QED
      BY <2>3, <2>4, <3>1
  <2>5. CASE ~(m.recovered <=> SaysUp(rows))
    <3>1. n + 1 \notin SlipsOf(more)
      BY <1>3, <2>5
    <3>2. \A i : i \in SlipsOf(more) <=> i \in SlipsOf(rows)
      BY <2>3, <3>1
    <3>3. SlipsOf(more) = SlipsOf(rows)
      BY <3>2
    <3> QED
      BY <2>5, <3>3
  <2> QED
    BY <2>4, <2>5
<1>6. n + 1 \notin SlipsOf(rows)
  BY <1>1 DEF SlipsOf
<1>7. IsFiniteSet(SlipsOf(rows)) /\ Cardinality(SlipsOf(rows)) \in Nat
  BY SlipsAreFinite
<1>8. Cardinality(SlipsOf(rows) \cup {n + 1}) = Cardinality(SlipsOf(rows)) + 1
  BY <1>6, <1>7, FS_AddElement
<1> QED
  BY <1>2, <1>5, <1>7, <1>8

\* A timer announces with an alert and stops announcing with a recovery.
LEMMA EdgeTurns ==
    ASSUME NEW s \in TimerType, NEW t \in Nat, NEW cond \in BOOLEAN,
           NEW hold \in Nat, NEW cooldown \in Nat
    PROVE  LET edge == EdgeOf(s, t, cond, hold, cooldown)
               next == Step(s, t, cond, hold, cooldown)
           IN  /\ edge = "Fire" => ~s.announced /\ next.announced
               /\ edge = "Recover" => s.announced /\ ~next.announced
               /\ edge \notin {"Fire", "Recover"} => edge = "None" /\ next.announced = s.announced
<1> DEFINE due == Due(s, t, hold, cooldown)
<1>1. EdgeOf(s, t, cond, hold, cooldown) =
          IF cond THEN IF due THEN "Fire" ELSE "None"
          ELSE IF s.announced THEN "Recover" ELSE "None"
  BY DEF EdgeOf
<1>2. due => ~s.announced
  BY DEF Due
<1>3. [s EXCEPT !.since = NoTime, !.announced = FALSE].announced = FALSE
  BY DEF TimerType
<1>4. [s EXCEPT !.since = Since(s, t)].announced = s.announced
  BY DEF TimerType
<1>5. Step(s, t, cond, hold, cooldown) =
          IF ~cond THEN [s EXCEPT !.since = NoTime, !.announced = FALSE]
          ELSE IF due THEN [since |-> Since(s, t), announced |-> TRUE, last_sent |-> t]
               ELSE [s EXCEPT !.since = Since(s, t)]
  BY DEF Step
<1> HIDE DEF due
<1>6. CASE cond
  BY <1>1, <1>2, <1>4, <1>5, <1>6
<1>7. CASE ~cond
  <2>1. Step(s, t, cond, hold, cooldown).announced = FALSE
    BY <1>3, <1>5, <1>7
  <2>2. CASE s.announced
    BY <1>1, <1>7, <2>1, <2>2
  <2>3. CASE s.announced = FALSE
    BY <1>1, <1>7, <2>1, <2>3
  <2>4. s.announced \in BOOLEAN
    BY DEF TimerType
  <2> QED
    BY <2>2, <2>3, <2>4
<1> QED
  BY <1>6, <1>7

\* No step but a death or a lost write makes a message repeat.
LEMMA SlipsCountedKept == ASSUME PollType, SlipsCounted, Next PROVE SlipsCounted'
<1>0. /\ alerts \in Seq(AlertSet) /\ lost \in Nat /\ crashes \in Nat /\ lost' \in {lost, lost + 1}
      /\ serve_down \in TimerType /\ kv.timer \in TimerType /\ now \in Nat
            /\ obs.serve_up \in BOOLEAN
      /\ Cardinality(SlipsOf(alerts)) \in Nat
  BY SlipsAreFinite, OnlySaves DEF PollType, WorldType, LoopType, StoreType, KvType, Observations
<1>1. CASE Evaluate
  <2> DEFINE edge == EdgeOf(serve_down, now, ~obs.serve_up, WarnHold, Cooldown)
             m == [recovered |-> edge = "Recover", ts |-> now]
  <2>1. /\ pc = "alerts" /\ pc' = "engine" /\ crashes' = crashes
        /\ serve_down' = Step(serve_down, now, ~obs.serve_up, WarnHold, Cooldown)
        /\ \/ alerts' = AlertRows(edge) /\ lost' = lost
           \/ alerts' = alerts /\ lost' = lost + 1
    BY <1>1 DEF Evaluate, Write
  <2>2. /\ edge = "Fire" => ~serve_down.announced /\ serve_down'.announced
        /\ edge = "Recover" => serve_down.announced /\ ~serve_down'.announced
        /\ edge \notin {"Fire", "Recover"} => edge = "None"
              /\ serve_down'.announced = serve_down.announced
    <3>1. (~obs.serve_up) \in BOOLEAN
      OBVIOUS
    <3> QED
      BY <1>0, <2>1, <3>1, EdgeTurns, PollAssumption
  <2>3. Timer = serve_down /\ Timer' = serve_down'
    BY <2>1 DEF Timer
  <2>4. CASE alerts' = alerts /\ lost' = lost + 1
    BY <1>0, <2>1, <2>4 DEF SlipsCounted
  <2>5. CASE alerts' = AlertRows(edge) /\ lost' = lost /\ edge = "None"
    <3>1. alerts' = alerts /\ serve_down'.announced = serve_down.announced
      BY <2>2, <2>5 DEF AlertRows
    <3> QED
      BY <2>1, <2>3, <2>5, <3>1 DEF SlipsCounted, Amiss
  <2>6. CASE alerts' = AlertRows(edge) /\ lost' = lost /\ edge # "None"
    <3>1. alerts' = Append(alerts, m) /\ m \in AlertSet /\ (m.recovered <=> edge = "Recover")
      BY <1>0, <2>6 DEF AlertRows, AlertSet
    <3>2. (m.recovered <=> serve_down.announced) /\ (m.recovered <=> ~serve_down'.announced)
      BY <2>2, <2>6, <3>1
    <3> HIDE DEF m
    <3>3. /\ SaysUp(alerts') <=> m.recovered
          /\ Cardinality(SlipsOf(alerts')) =
                Cardinality(SlipsOf(alerts)) + IF m.recovered <=> SaysUp(alerts) THEN 1 ELSE 0
      BY <1>0, <3>1, SlipAdded
    <3>4. ~Amiss'
      BY <2>3, <3>2, <3>3 DEF Amiss
    <3>5. Amiss <=> (m.recovered <=> SaysUp(alerts))
      BY <2>3, <3>2 DEF Amiss
    <3> QED
      BY <1>0, <2>1, <2>6, <3>3, <3>4, <3>5 DEF SlipsCounted
  <2> QED
    BY <2>1, <2>4, <2>5, <2>6
<1>2. CASE Crash
  <2>1. alerts' = alerts /\ crashes' = crashes + 1 /\ lost' = lost
    BY <1>2 DEF Crash, store
  <2> QED
    BY <1>0, <2>1 DEF SlipsCounted
<1>3. CASE ~Evaluate /\ ~Crash
  <2>1. alerts' = alerts /\ crashes' = crashes
    BY <1>3, OnlyAlerts, OnlySaves
  <2>2. Timer' = Timer
    <3>1. CASE Outside
      BY <3>1, OutsideLeaves DEF loop, store, Timer
    <3>2. CASE Restart
      BY <3>2 DEF Restart, Timer
    <3>3. CASE Snapshot \/ WriteWindows \/ WriteOp \/ WriteEvent \/ SaveEngine \/ SaveTracker
               \/ \E up \in BOOLEAN : Observe(up)
      BY <3>3 DEF Snapshot, WriteWindows, WriteOp, WriteEvent, SaveEngine, SaveTracker, Observe,
            Timer
    <3> QED
      BY <1>3, <3>1, <3>2, <3>3 DEF Next, Environment, Loop, Outside
  <2>3. Amiss' <=> Amiss
    BY <2>1, <2>2 DEF Amiss
  <2> QED
    BY <1>0, <2>1, <2>3 DEF SlipsCounted
<1> QED
  BY <1>1, <1>2, <1>3

-----------------------------------------------------------------------------
(***************************************************************************)
(* Incidents and outages                                                   *)
(***************************************************************************)
\* Tables of polls: the time of each and whether it found the service up.
PollSeqs == Seq(Nat \X BOOLEAN)

\* One poll, of a table of them.
Up(p, i) == p[i][2]
At(p, i) == p[i][1]

\* The polls at which an outage of two polls or more begins, and the time it ends.
StartsOf(p) == {i \in 1 .. Len(p) - 1 : ~Up(p, i) /\ ~Up(p, i + 1) /\ (i = 1 \/ Up(p, i - 1))}

\* The polls from one on that found it up.
UpsFrom(p, i) == {j \in i .. Len(p) : Up(p, j)}
EndOf(p, i) == IF UpsFrom(p, i) = {} THEN NoTime
               ELSE At(p, CHOOSE j \in UpsFrom(p, i) : \A k \in UpsFrom(p, i) : j <= k)

\* The table with one poll more.
Longer(p, t, up) == Append(p, <<t, up>>)

\* The table with one poll more has the polls it had.
LEMMA PollAppended ==
    ASSUME NEW p \in PollSeqs, NEW t \in Nat, NEW up \in BOOLEAN
    PROVE  /\ Longer(p, t, up) \in PollSeqs /\ Len(p) \in Nat /\ Len(Longer(p, t, up)) = Len(p) + 1
           /\ At(Longer(p, t, up), Len(p) + 1) = t /\ Up(Longer(p, t, up), Len(p) + 1) = up
           /\ \A i \in 1 .. Len(p) : At(Longer(p, t, up), i) = At(p, i)
                 /\ Up(Longer(p, t, up), i) = Up(p, i) /\ At(p, i) \in Nat
<1> DEFINE q == Longer(p, t, up)
           S == Nat \X BOOLEAN
           x == <<t, up>>
<1>1. x \in S /\ p \in Seq(S) /\ q = Append(p, x)
  BY DEF PollSeqs, Longer
<1>2. x[1] = t /\ x[2] = up /\ \A y \in S : y[1] \in Nat
  OBVIOUS
<1> HIDE DEF S, x
<1>3. /\ q \in Seq(S) /\ Len(q) = Len(p) + 1
      /\ q[Len(p) + 1] = x
      /\ \A i \in 1 .. Len(p) : q[i] = p[i] /\ p[i] \in S
      /\ Len(p) \in Nat
  BY <1>1, AppendProperties, LenProperties, ElementOfSeq
<1> QED
  BY <1>2, <1>3 DEF PollSeqs, S, At, Up

\* The end is the time of the first poll that found the service up, if there is one.
LEMMA EndIs ==
    ASSUME NEW p \in PollSeqs, NEW i \in 1 .. Len(p)
    PROVE  /\ (\A j \in i .. Len(p) : ~Up(p, j)) => EndOf(p, i) = NoTime
           /\ \A m \in i .. Len(p) : (Up(p, m) /\ \A j \in i .. m - 1 : ~Up(p, j))
                 => EndOf(p, i) = At(p, m)
           /\ (\E j \in i .. Len(p) : Up(p, j)) =>
                 \E m \in i .. Len(p) : Up(p, m) /\ \A j \in i .. m - 1 : ~Up(p, j)
<1> DEFINE ups == UpsFrom(p, i)
<1>0. Len(p) \in Nat /\ \A j : j \in ups <=> j \in i .. Len(p) /\ Up(p, j)
  BY LenProperties, Zenon DEF PollSeqs, UpsFrom
<1>1. (\A j \in i .. Len(p) : ~Up(p, j)) => EndOf(p, i) = NoTime
  BY <1>0 DEF EndOf
<1>2. ASSUME NEW m \in i .. Len(p), Up(p, m), \A j \in i .. m - 1 : ~Up(p, j)
      PROVE  EndOf(p, i) = At(p, m)
  <2>1. m \in ups /\ \A k \in ups : m <= k
    <3>1. m \in ups
      BY <1>0, <1>2
    <3>2. ASSUME NEW k \in ups, k < m PROVE FALSE
      <4>1. k \in i .. m - 1 /\ Up(p, k)
        BY <1>0, <3>2
      <4> QED
        BY <1>2, <4>1
    <3>3. \A k \in ups : k \in Int
      BY <1>0
    <3> QED
      BY <1>0, <3>1, <3>2, <3>3
  <2> DEFINE c == CHOOSE j \in ups : \A k \in ups : j <= k
  <2>2. c \in ups /\ \A k \in ups : c <= k
    BY <2>1
  <2>3. c = m
    <3>1. c <= m /\ m <= c /\ c \in Int /\ m \in Int
      BY <1>0, <2>1, <2>2
    <3> QED
      BY <3>1
  <2>4. EndOf(p, i) = At(p, c)
    BY <2>1 DEF EndOf
  <2> QED
    BY <2>3, <2>4
<1>3. ASSUME NEW j \in i .. Len(p), Up(p, j)
      PROVE  \E m \in i .. Len(p) : Up(p, m) /\ \A k \in i .. m - 1 : ~Up(p, k)
  <2>1. ups \subseteq Nat /\ ups # {}
    BY <1>0, <1>3
  <2>2. PICK m \in ups : \A k \in ups : m <= k
    BY <2>1, LeastExists
  <2>3. m \in i .. Len(p) /\ Up(p, m)
    BY <1>0, <2>2
  <2>4. ASSUME NEW k \in i .. m - 1, Up(p, k) PROVE FALSE
    <3>1. k \in ups
      BY <1>0, <2>3, <2>4
    <3> QED
      BY <2>2, <2>3, <2>4, <3>1
  <2> QED
    BY <2>3, <2>4
<1> QED
  BY <1>1, <1>2, <1>3

\* An outage after which a poll found the service up has ended.
LEMMA EndsOnce ==
    ASSUME NEW p \in PollSeqs, NEW i \in 1 .. Len(p), NEW j \in i .. Len(p), Up(p, j)
    PROVE  EndOf(p, i) # NoTime
<1>1. PICK m \in i .. Len(p) : Up(p, m) /\ \A k \in i .. m - 1 : ~Up(p, k)
  BY EndIs
<1>2. EndOf(p, i) = At(p, m)
  BY <1>1, EndIs
<1>3. p[m] \in Nat \X BOOLEAN
  BY LenProperties, ElementOfSeq DEF PollSeqs
<1>4. At(p, m) \in Nat
  BY <1>3 DEF At
<1> QED
  BY <1>2, <1>4 DEF NoTime

\* A poll more ends the outages that had not ended, if it found the service up.
LEMMA EndAdded ==
    ASSUME NEW p \in PollSeqs, NEW t \in Nat, NEW up \in BOOLEAN,
           NEW i \in 1 .. Len(p)
    PROVE  /\ EndOf(p, i) = NoTime <=> \A j \in i .. Len(p) : ~Up(p, j)
           /\ EndOf(Longer(p, t, up), i) = IF up /\ EndOf(p, i) = NoTime THEN t ELSE EndOf(p, i)
<1> DEFINE q == Longer(p, t, up)
<1>1. /\ q \in PollSeqs /\ Len(p) \in Nat /\ Len(q) = Len(p) + 1
      /\ At(q, Len(p) + 1) = t /\ Up(q, Len(p) + 1) = up
      /\ \A j \in 1 .. Len(p) : At(q, j) = At(p, j)
            /\ Up(q, j) = Up(p, j) /\ At(p, j) \in Nat
  BY PollAppended
<1>2. i \in 1 .. Len(q)
  BY <1>1
<1>3. CASE \A j \in i .. Len(p) : ~Up(p, j)
  <2>1. EndOf(p, i) = NoTime
    BY <1>3, EndIs
  <2>2. \A j \in i .. Len(p) : ~Up(q, j)
    BY <1>1, <1>3
  <2>3. CASE up
    <3>0. Len(p) + 1 \in i .. Len(q) /\ Len(p) + 1 - 1 = Len(p)
      BY <1>1
    <3>1. Up(q, Len(p) + 1)
      BY <1>1, <2>3, Zenon
    <3>2. EndOf(q, i) = At(q, Len(p) + 1)
      BY <1>1, <1>2, <2>2, <3>0, <3>1, EndIs
    <3> QED
      BY <1>1, <1>3, <2>1, <2>3, <3>2
  <2>4. CASE ~up
    <3>1. \A j \in i .. Len(q) : j \in i .. Len(p) \/ j = Len(p) + 1
      BY <1>1
    <3>2. \A j \in i .. Len(q) : ~Up(q, j)
      BY <1>1, <2>2, <2>4, <3>1
    <3> QED
      BY <1>1, <1>2, <1>3, <2>1, <2>4, <3>2, EndIs
  <2> QED
    BY <2>3, <2>4
<1>4. CASE \E j \in i .. Len(p) : Up(p, j)
  <2>1. PICK m \in i .. Len(p) : Up(p, m) /\ \A j \in i .. m - 1 : ~Up(p, j)
    BY <1>4, EndIs
  <2>2. EndOf(p, i) = At(p, m) /\ At(p, m) \in Nat
    BY <1>1, <2>1, EndIs
  <2>3. m \in i .. Len(q) /\ Up(q, m)
        /\ At(q, m) = At(p, m)
    BY <1>1, <2>1
  <2>4. \A j \in i .. m - 1 : ~Up(q, j)
    BY <1>1, <2>1
  <2>5. EndOf(q, i) = At(q, m)
    BY <1>1, <1>2, <2>3, <2>4, EndIs
  <2>6. EndOf(p, i) # NoTime
    BY <2>2 DEF NoTime
  <2> QED
    BY <1>4, <2>2, <2>3, <2>5, <2>6
<1> QED
  BY <1>3, <1>4

\* A poll more begins an outage at the poll before it, if both missed and the one before did not.
LEMMA StartAdded ==
    ASSUME NEW p \in PollSeqs, NEW t \in Nat, NEW up \in BOOLEAN
    PROVE  LET n == Len(p)
           IN  /\ StartsOf(p) \subseteq 1 .. n - 1
               /\ StartsOf(Longer(p, t, up)) =
                     IF n # 0 /\ ~up /\ ~Up(p, n) /\ (n = 1 \/ Up(p, n - 1))
                     THEN StartsOf(p) \cup {n} ELSE StartsOf(p)
<1> DEFINE q == Longer(p, t, up)
           n == Len(p)
           begins == n # 0 /\ ~up /\ ~Up(p, n) /\ (n = 1 \/ Up(p, n - 1))
<1>1. /\ n \in Nat /\ Len(q) = n + 1 /\ Up(q, n + 1) = up
      /\ \A j \in 1 .. n : Up(q, j) = Up(p, j)
  BY PollAppended
<1> HIDE DEF n
<1>2. \A i : i \in StartsOf(p) <=>
          i \in 1 .. n - 1 /\ ~Up(p, i) /\ ~Up(p, i + 1) /\ (i = 1 \/ Up(p, i - 1))
  BY Zenon DEF StartsOf, n
<1>3. \A i : i \in StartsOf(q) <=>
          i \in 1 .. Len(q) - 1 /\ ~Up(q, i)
                /\ ~Up(q, i + 1) /\ (i = 1 \/ Up(q, i - 1))
  BY Zenon DEF StartsOf
<1>4. \A i \in 1 .. n - 1 : i \in StartsOf(q) <=> i \in StartsOf(p)
  <2> TAKE i \in 1 .. n - 1
  <2>1. /\ i \in 1 .. n /\ i + 1 \in 1 .. n /\ (i # 1 => i - 1 \in 1 .. n)
        /\ i \in 1 .. Len(q) - 1
    BY <1>1
  <2>2. Up(q, i) = Up(p, i) /\ Up(q, i + 1) = Up(p, i + 1)
        /\ (i # 1 => Up(q, i - 1) = Up(p, i - 1))
    BY <1>1, <2>1
  <2> QED
    BY <1>2, <1>3, <2>1, <2>2
<1>5. n # 0 => (n \in StartsOf(q) <=> begins)
  <2> SUFFICES ASSUME n # 0 PROVE n \in StartsOf(q) <=> begins
    OBVIOUS
  <2>1. n \in 1 .. Len(q) - 1 /\ n \in 1 .. n /\ (n # 1 => n - 1 \in 1 .. n)
    BY <1>1
  <2>2. Up(q, n) = Up(p, n) /\ (n # 1 => Up(q, n - 1) = Up(p, n - 1))
    BY <1>1, <2>1
  <2> QED
    BY <1>1, <1>3, <2>1, <2>2
<1>6. \A i : i \in StartsOf(q) => i \in 1 .. n - 1 \/ (i = n /\ n # 0)
  <2> TAKE i
  <2> HAVE i \in StartsOf(q)
  <2>1. i \in 1 .. Len(q) - 1
    BY <1>3
  <2> QED
    BY <1>1, <2>1
<1>7. \A i : i \in StartsOf(p) => i \in 1 .. n - 1
  BY <1>2
<1>8. \A i : i \in StartsOf(q) <=> i \in StartsOf(p) \/ (i = n /\ begins)
  BY <1>4, <1>5, <1>6, <1>7
<1>9. StartsOf(q) = IF begins THEN StartsOf(p) \cup {n} ELSE StartsOf(p)
  <2> HIDE DEF begins
  <2>1. CASE begins
    BY <1>8, <2>1
  <2>2. CASE ~begins
    <3>1. \A i : i \in StartsOf(q) <=> i \in StartsOf(p)
      BY <1>8, <2>2
    <3>2. StartsOf(q) = StartsOf(p)
      BY <3>1
    <3> QED
      BY <2>2, <3>2
  <2> QED
    BY <2>1, <2>2
<1> QED
  BY <1>7, <1>9 DEF n

\* The outages of a table of polls, and the rows of a table of incidents, as spans of time.
Spans(p) == {<<At(p, i), EndOf(p, i)>> : i \in StartsOf(p)}
DownRows(rows) == {i \in 1 .. Len(rows) : rows[i].kind = "serve_down"}
RowSpans(rows) == {<<rows[i].start, rows[i].end>> : i \in DownRows(rows)}

\* Spans, of which those without an end end now.
EndedAt(t, x) == <<x[1], IF x[2] = NoTime THEN t ELSE x[2]>>
Ended(spans, t) == {EndedAt(t, x) : x \in spans}

\* What the tracker remembers of the polls.
Follows(d, p) ==
    /\ d.open_since # NoTime <=> d.misses = 2
    /\ d.misses = 0 => d.first_miss = NoTime /\ (Len(p) = 0 \/ Up(p, Len(p)))
    /\ d.misses = 1 => /\ Len(p) # 0 /\ ~Up(p, Len(p)) /\ (Len(p) = 1 \/ Up(p, Len(p) - 1))
                       /\ d.first_miss = At(p, Len(p))
    /\ d.misses = 2 => Len(p) > 1 /\ ~Up(p, Len(p)) /\ ~Up(p, Len(p) - 1)

\* The table is that of the polls once the operation the tracker asked for is done.
AsAsked(rows, op, p) ==
    /\ op.op = "open" => /\ Cardinality(DownRows(rows)) + 1 = Cardinality(StartsOf(p))
                         /\ RowSpans(rows) \cup {<<op.at, NoTime>>} = Spans(p)
    /\ op.op = "close" => /\ Cardinality(DownRows(rows)) = Cardinality(StartsOf(p))
                          /\ Ended(RowSpans(rows), op.at) = Spans(p)
    /\ op.op = "none" => /\ Cardinality(DownRows(rows)) = Cardinality(StartsOf(p))
                         /\ RowSpans(rows) = Spans(p)

\* The outages of a table of polls can be counted.
LEMMA StartsAreFinite ==
    ASSUME NEW p \in PollSeqs
    PROVE  IsFiniteSet(StartsOf(p)) /\ Cardinality(StartsOf(p)) \in Nat
<1>1. Len(p) \in Nat
  BY LenProperties DEF PollSeqs
<1>2. IsFiniteSet(1 .. Len(p)) /\ StartsOf(p) \subseteq 1 .. Len(p)
  BY <1>1, FS_Interval DEF StartsOf
<1> QED
  BY <1>2, FS_Subset, FS_CardinalityType

\* The poll before the last.
LEMMA LastButOne ==
    ASSUME NEW n \in Nat, NEW i \in 1 .. n - 1
    PROVE  i \in 1 .. n /\ n - 1 \in i .. n /\ n # 1 /\ n # 0 /\ n \in i .. n
OBVIOUS

\* Two polls are not one.
LEMMA MoreThanOne == ASSUME NEW n \in Nat, n > 1 PROVE n # 1
OBVIOUS

\* An outage that has not ended goes on at the last poll, and the tracker holds it open.
LEMMA OpenOutage ==
    ASSUME NEW p \in PollSeqs, NEW d \in DownType, Follows(d, p), d.misses # 2,
           NEW i \in StartsOf(p)
    PROVE  EndOf(p, i) # NoTime
<1>1. Len(p) \in Nat /\ i \in 1 .. Len(p) - 1 /\ ~Up(p, i) /\ ~Up(p, i + 1)
  <2>1. i \in 1 .. Len(p) - 1 /\ ~Up(p, i) /\ ~Up(p, i + 1)
    BY Zenon DEF StartsOf
  <2> QED
    BY <2>1, LenProperties DEF PollSeqs
<1>0. Len(p) \in Nat /\ i \in Nat /\ i <= Len(p) - 1 /\ i >= 1
  BY <1>1
<1>2. d.misses \in {0, 1}
  BY DEF DownType, MISSES_TO_OPEN
<1>3. CASE d.misses = 0
  <2>1. i \in 1 .. Len(p) /\ Len(p) \in i .. Len(p) /\ Len(p) # 0
    BY <1>1
  <2>2. Up(p, Len(p))
    BY <1>3, <2>1 DEF Follows
  <2> QED
    BY <2>1, <2>2, EndsOnce
<1>4. CASE d.misses = 1
  <2>1. i \in 1 .. Len(p) /\ Len(p) - 1 \in i .. Len(p) /\ Len(p) # 1
    BY <1>0, <1>1, LastButOne
  <2>2. Up(p, Len(p) - 1)
    BY <1>4, <2>1 DEF Follows
  <2> QED
    BY <2>1, <2>2, EndsOnce
<1> QED
  BY <1>2, <1>3, <1>4

\* The spans of one poll more.
LEMMA SpansAdded ==
    ASSUME NEW p \in PollSeqs, NEW t \in Nat, NEW up \in BOOLEAN
    PROVE  LET n == Len(p)
               begins == n # 0 /\ ~up /\ ~Up(p, n) /\ (n = 1 \/ Up(p, n - 1))
               q == Longer(p, t, up)
           IN  /\ up => StartsOf(q) = StartsOf(p) /\ Spans(q) = Ended(Spans(p), t)
               /\ ~up /\ ~begins => StartsOf(q) = StartsOf(p) /\ Spans(q) = Spans(p)
               /\ begins => /\ Cardinality(StartsOf(q)) = Cardinality(StartsOf(p)) + 1
                            /\ Spans(q) = Spans(p) \cup {<<At(p, n), NoTime>>}
<1> DEFINE n == Len(p)
           begins == n # 0 /\ ~up /\ ~Up(p, n) /\ (n = 1 \/ Up(p, n - 1))
           q == Longer(p, t, up)
<1>0. n \in Nat /\ \A i \in 1 .. n : At(q, i) = At(p, i)
  BY PollAppended
<1>1. /\ StartsOf(p) \subseteq 1 .. n - 1
      /\ StartsOf(q) = IF begins THEN StartsOf(p) \cup {n} ELSE StartsOf(p)
  BY StartAdded
<1>2. \A i \in StartsOf(p) : /\ i \in 1 .. n /\ At(q, i) = At(p, i)
                             /\ EndOf(q, i) = IF up /\ EndOf(p, i) = NoTime THEN t ELSE EndOf(p, i)
  <2> TAKE i \in StartsOf(p)
  <2>1. i \in 1 .. n
    BY <1>0, <1>1
  <2> QED
    BY <1>0, <2>1, EndAdded
<1>3. CASE up
  <2>1. StartsOf(q) = StartsOf(p)
    BY <1>1, <1>3
  <2>2. \A i \in StartsOf(p) : <<At(q, i), EndOf(q, i)>> = EndedAt(t, <<At(p, i), EndOf(p, i)>>)
    BY <1>2, <1>3 DEF EndedAt
  <2> HIDE DEF q, n
  <2>3. Spans(q) = Ended(Spans(p), t)
    BY <2>1, <2>2 DEF Spans, Ended
  <2> QED
    BY <1>3, <2>1, <2>3 DEF q, n
<1>4. CASE ~up
  <2>1. \A i \in StartsOf(p) : <<At(q, i), EndOf(q, i)>> = <<At(p, i), EndOf(p, i)>>
    BY <1>2, <1>4
  <2>2. CASE ~begins
    <3>1. StartsOf(q) = StartsOf(p)
      BY <1>1, <2>2
    <3>2. Spans(q) = Spans(p)
      <4> HIDE DEF q, n
      <4> QED
        BY <2>1, <3>1 DEF Spans
    <3> QED
      BY <1>4, <2>2, <3>1, <3>2
  <2>3. CASE begins
    <3>1. StartsOf(q) = StartsOf(p) \cup {n} /\ n \in 1 .. n /\ n \notin StartsOf(p)
      BY <1>0, <1>1, <2>3
    <3>2. EndOf(q, n) = NoTime /\ At(q, n) = At(p, n)
      <4>1. ~Up(p, n) /\ \A j \in n .. n : j = n
        BY <1>0, <2>3
      <4>2. EndOf(p, n) = NoTime
        BY <1>0, <3>1, <4>1, EndAdded
      <4> QED
        BY <1>0, <1>4, <3>1, <4>2, EndAdded
    <3>3. Spans(q) = Spans(p) \cup {<<At(p, n), NoTime>>}
      <4> HIDE DEF q, n
      <4> QED
        BY <2>1, <3>1, <3>2 DEF Spans
    <3>4. Cardinality(StartsOf(q)) = Cardinality(StartsOf(p)) + 1
      BY <3>1, StartsAreFinite, FS_AddElement
    <3> QED
      BY <2>3, <3>3, <3>4
  <2> QED
    BY <2>2, <2>3
<1> QED
  BY <1>3, <1>4

\* Nothing that has an end is ended again.
LEMMA EndedIsEnded ==
    ASSUME NEW p, NEW t, \A i \in StartsOf(p) : EndOf(p, i) # NoTime
    PROVE  Ended(Spans(p), t) = Spans(p)
<1>1. \A i \in StartsOf(p) : EndedAt(t, <<At(p, i), EndOf(p, i)>>) = <<At(p, i), EndOf(p, i)>>
  BY DEF EndedAt
<1> QED
  BY <1>1 DEF Spans, Ended

\* What the tracker remembers after one poll more.
LEMMA FollowsOn ==
    ASSUME NEW p \in PollSeqs, NEW t \in Nat, NEW up \in BOOLEAN, NEW d \in DownType, Follows(d, p)
    PROVE  Follows(DownStep(d, t, up), Longer(p, t, up))
<1> DEFINE n == Len(p)
           q == Longer(p, t, up)
           e == DownStep(d, t, up)
<1>1. /\ n \in Nat /\ Len(q) = n + 1 /\ At(q, n + 1) = t /\ Up(q, n + 1) = up
      /\ \A i \in 1 .. n : Up(q, i) = Up(p, i)
  BY PollAppended
<1>2. d.misses \in 0 .. 2 /\ t # NoTime /\ (d.first_miss \in Nat \/ d.first_miss = NoTime)
  BY DEF DownType, MISSES_TO_OPEN, OptTime, NoTime
<1> SUFFICES Follows(e, q)
  OBVIOUS
<1>3. CASE up
  <2>1. e = UpTracker
    BY <1>3 DEF DownStep
  <2>2. e.misses = 0 /\ e.open_since = NoTime /\ e.first_miss = NoTime
    BY <2>1 DEF UpTracker
  <2>3. Up(q, Len(q))
    BY <1>1, <1>3, Zenon
  <2> QED
    BY <2>2, <2>3 DEF Follows
<1>4. CASE ~up
  <2>0. Len(q) = n + 1 /\ ~Up(q, n + 1) /\ n + 1 - 1 = n /\ n + 1 # 0
    <3>1. ~Up(q, n + 1)
      BY <1>1, <1>4, Zenon
    <3> QED
      BY <1>1, <3>1
  <2>1. CASE d.misses = 0
    <3>1. e.misses = 1 /\ e.open_since = NoTime /\ e.first_miss = t
      BY <1>4, <2>1 DEF DownStep, MISSES_TO_OPEN, Follows
    <3>2. n = 0 \/ (n \in 1 .. n /\ Up(q, n))
      BY <1>1, <2>1 DEF Follows
    <3>3. Len(q) = 1 \/ Up(q, Len(q) - 1)
      BY <2>0, <3>2
    <3>4. At(q, Len(q)) = t
      BY <1>1, <2>0
    <3> HIDE DEF e, q, n
    <3> QED
      BY <2>0, <3>1, <3>3, <3>4 DEF Follows
  <2>2. CASE d.misses = 1
    <3>1. e.misses = 2 /\ e.open_since # NoTime
      BY <1>2, <1>4, <2>2 DEF DownStep, MISSES_TO_OPEN, Follows
    <3>2. n # 0 /\ n \in 1 .. n /\ ~Up(q, n)
      BY <1>1, <2>2 DEF Follows
    <3> QED
      BY <1>1, <2>0, <3>1, <3>2 DEF Follows
  <2>3. CASE d.misses = 2
    <3>1. e.misses = 2 /\ e.open_since # NoTime
      BY <1>4, <2>3 DEF DownStep, MISSES_TO_OPEN, Follows
    <3>2. n # 0 /\ n \in 1 .. n /\ ~Up(q, n)
      BY <1>1, <2>3 DEF Follows
    <3> QED
      BY <1>1, <2>0, <3>1, <3>2 DEF Follows
  <2> QED
    BY <1>2, <2>1, <2>2, <2>3
<1> QED
  BY <1>3, <1>4

\* The operation a poll asks for is the one the table lacks.
LEMMA PollAsks ==
    ASSUME NEW p \in PollSeqs, NEW t \in Nat, NEW up \in BOOLEAN, NEW d \in DownType, Follows(d, p),
           NEW rows, Cardinality(DownRows(rows)) = Cardinality(StartsOf(p)),
           RowSpans(rows) = Spans(p)
    PROVE  AsAsked(rows, DownOp(d, t, up), Longer(p, t, up))
<1> DEFINE n == Len(p)
           q == Longer(p, t, up)
           begins == n # 0 /\ ~up /\ ~Up(p, n) /\ (n = 1 \/ Up(p, n - 1))
           e == DownStep(d, t, up)
           op == DownOp(d, t, up)
<1>1. /\ up => StartsOf(q) = StartsOf(p) /\ Spans(q) = Ended(Spans(p), t)
      /\ ~up /\ ~begins => StartsOf(q) = StartsOf(p) /\ Spans(q) = Spans(p)
      /\ begins => /\ Cardinality(StartsOf(q)) = Cardinality(StartsOf(p)) + 1
                   /\ Spans(q) = Spans(p) \cup {<<At(p, n), NoTime>>}
  BY SpansAdded
<1>2. d.misses \in 0 .. 2 /\ t # NoTime
  BY DEF DownType, MISSES_TO_OPEN, NoTime
<1>3. op = IF d.open_since = e.open_since THEN NoOp
           ELSE IF e.open_since = NoTime THEN Close(t) ELSE Open(e.open_since)
  BY DEF DownOp
<1>0. n \in Nat
  BY LenProperties DEF PollSeqs
<1> SUFFICES AsAsked(rows, op, q)
  OBVIOUS
<1>4. CASE up
  <2>1. e.open_since = NoTime
    BY <1>4 DEF DownStep, UpTracker
  <2>2. CASE d.misses = 2
    <3>1. op = Close(t)
      BY <1>3, <2>1, <2>2 DEF Follows
    <3>2. op.op = "close" /\ op.at = t
      BY <3>1 DEF Close
    <3> HIDE DEF op, q
    <3> QED
      BY <1>1, <1>4, <3>2 DEF AsAsked
  <2>3. CASE d.misses # 2
    <3>1. op = NoOp
      BY <1>3, <2>1, <2>3 DEF Follows
    <3>2. op.op = "none"
      BY <3>1 DEF NoOp
    <3>3. \A i \in StartsOf(p) : EndOf(p, i) # NoTime
      BY <2>3, OpenOutage
    <3>4. Spans(q) = Spans(p)
      BY <1>1, <1>4, <3>3, EndedIsEnded
    <3> HIDE DEF op, q
    <3> QED
      BY <1>1, <1>4, <3>2, <3>4 DEF AsAsked
  <2> QED
    BY <2>2, <2>3
<1>5. CASE ~up
  <2>1. CASE d.misses = 1
    <3>1. begins
      BY <1>5, <2>1 DEF Follows
    <3>3. At(p, n) # NoTime
      <4>1. n \in 1 .. n
        BY <1>0, <3>1
      <4>2. At(p, n) \in Nat
        BY <4>1, PollAppended
      <4> QED
        BY <4>2 DEF NoTime
    <3>2. e.open_since = At(p, n)
      <4>1. d.open_since = NoTime /\ d.first_miss = At(p, n)
        BY <2>1 DEF Follows
      <4> QED
        BY <1>5, <2>1, <3>3, <4>1 DEF DownStep, MISSES_TO_OPEN
    <3>4. op = Open(At(p, n))
      BY <1>3, <2>1, <3>2, <3>3 DEF Follows
    <3>5. op.op = "open" /\ op.at = At(p, n)
      BY <3>4 DEF Open
    <3> HIDE DEF op, q, n, begins
    <3> QED
      BY <1>1, <3>1, <3>5 DEF AsAsked
  <2>2. CASE d.misses # 1
    <3>1. e.open_since = d.open_since
      BY <1>2, <1>5, <2>2 DEF Follows, DownStep, MISSES_TO_OPEN
    <3>2. op.op = "none"
      BY <1>3, <3>1 DEF NoOp
    <3>3. ~begins
      <4>1. CASE d.misses = 0
        BY <4>1 DEF Follows
      <4>2. CASE d.misses = 2
        <5>1. n > 1 /\ ~Up(p, n - 1)
          BY <4>2 DEF Follows
        <5>2. n # 1
          BY <1>0, <5>1, MoreThanOne
        <5> QED
          BY <5>1, <5>2
      <4> QED
        BY <1>2, <2>2, <4>1, <4>2
    <3> HIDE DEF op, q, n, begins
    <3> QED
      BY <1>1, <1>5, <3>2, <3>3 DEF AsAsked
  <2> QED
    BY <2>1, <2>2
<1> QED
  BY <1>4, <1>5

\* The rows of the service can be counted.
LEMMA DownRowsAreFinite ==
    ASSUME PollType
    PROVE  /\ IsFiniteSet(DownRows(incidents)) /\ Cardinality(DownRows(incidents)) \in Nat
           /\ Len(incidents) \in Nat
<1>1. Len(incidents) \in Nat
  BY LenProperties DEF PollType, StoreType
<1>2. IsFiniteSet(1 .. Len(incidents)) /\ DownRows(incidents) \subseteq 1 .. Len(incidents)
  BY <1>1, FS_Interval DEF DownRows
<1> QED
  BY <1>1, <1>2, FS_Subset, FS_CardinalityType

\* Rows of the other kinds are no spans.
LEMMA SpansKept ==
    ASSUME NEW rows, NEW newer, KindKept("serve_down", rows, newer)
    PROVE  DownRows(newer) = DownRows(rows) /\ RowSpans(newer) = RowSpans(rows)
<1>1. \A i : i \in DownRows(newer) <=> i \in DownRows(rows)
  BY DEF KindKept, DownRows
<1>2. \A i \in DownRows(rows) : newer[i] = rows[i]
  BY DEF KindKept, DownRows
<1>3. DownRows(newer) = DownRows(rows)
  BY <1>1
<1> QED
  BY <1>2, <1>3 DEF RowSpans

\* The operation that was asked for leaves the table that of the polls.
LEMMA OpIsDone ==
    ASSUME PollType, NEW p, AsAsked(incidents, obs.op, p)
    PROVE  AsAsked(OpRows, NoOp, p)
<1>0. /\ incidents \in Seq(RowSet) /\ Len(incidents) \in Nat /\ obs.op \in Ops
      /\ obs.op.op \in {"open", "close"} => obs.op.at # NoTime
  BY DownRowsAreFinite DEF PollType, LoopType, StoreType, Observations
<1> SUFFICES /\ Cardinality(DownRows(OpRows)) = Cardinality(StartsOf(p))
             /\ RowSpans(OpRows) = Spans(p)
  BY QuietType DEF AsAsked
<1>1. CASE obs.op.op = "open"
  <2> DEFINE n == Len(incidents)
             at == obs.op.at
             row == Row("serve_down", <<>>, at, NoTime)
  <2>1. at \in Nat /\ OpRows = Append(incidents, row)
    BY <1>0, <1>1 DEF Ops, OptTime, NoTime, OpRows
  <2>2. row \in RowSet /\ row.kind = "serve_down" /\ row.start = at /\ row.end = NoTime
    BY <2>1 DEF Row, RowSet, Kinds, Details, OptTime
  <2> HIDE DEF row
  <2>3. /\ Len(OpRows) = n + 1 /\ OpRows[n + 1] = row
        /\ \A i \in 1 .. n : OpRows[i] = incidents[i]
    BY <1>0, <2>1, <2>2, RowAdded
  <2>4. \A i : i \in DownRows(OpRows) <=> i \in DownRows(incidents) \/ i = n + 1
    <3>1. \A i : i \in 1 .. n + 1 <=> i \in 1 .. n \/ i = n + 1
      BY <1>0
    <3>2. n + 1 \notin 1 .. n
      BY <1>0
    <3> HIDE DEF n
    <3> QED
      BY <2>2, <2>3, <3>1, <3>2 DEF DownRows, n
  <2>5. DownRows(OpRows) = DownRows(incidents) \cup {n + 1}
    BY <2>4
  <2>6. n + 1 \notin DownRows(incidents)
    BY <1>0 DEF DownRows
  <2>7. Cardinality(DownRows(OpRows)) = Cardinality(DownRows(incidents)) + 1
    BY <2>5, <2>6, DownRowsAreFinite, FS_AddElement
  <2>8. \A i \in DownRows(incidents) : OpRows[i] = incidents[i]
    BY <2>3 DEF DownRows
  <2>9. RowSpans(OpRows) = RowSpans(incidents) \cup {<<at, NoTime>>}
    <3> HIDE DEF n, at
    <3> QED
      BY <2>2, <2>3, <2>5, <2>8 DEF RowSpans
  <2> QED
    BY <1>1, <2>7, <2>9 DEF AsAsked
<1>2. CASE obs.op.op = "close"
  <2> DEFINE at == obs.op.at
  <2>1. at \in Nat /\ OpRows = CloseAll("serve_down", at)
    BY <1>0, <1>2 DEF Ops, OptTime, NoTime, OpRows
  <2>2. /\ Len(OpRows) = Len(incidents)
        /\ \A i \in 1 .. Len(incidents) :
              /\ OpRows[i].kind = incidents[i].kind /\ OpRows[i].start = incidents[i].start
              /\ OpRows[i].end = IF incidents[i].kind = "serve_down" /\ incidents[i].end = NoTime
                                 THEN at ELSE incidents[i].end
    BY <1>0, <2>1, RowsClosed DEF Kept
  <2> HIDE DEF at
  <2>3. DownRows(OpRows) = DownRows(incidents)
    BY <2>2 DEF DownRows
  <2>4. \A i \in DownRows(incidents) :
            <<OpRows[i].start, OpRows[i].end>> =
                EndedAt(at, <<incidents[i].start, incidents[i].end>>)
    BY <2>2 DEF DownRows, EndedAt
  <2>5. RowSpans(OpRows) = Ended(RowSpans(incidents), at)
    BY <2>3, <2>4 DEF RowSpans, Ended
  <2> QED
    BY <1>2, <2>3, <2>5 DEF AsAsked, at
<1>3. CASE obs.op.op = "none"
  <2>1. OpRows = incidents
    BY <1>3 DEF OpRows
  <2> QED
    BY <1>3, <2>1 DEF AsAsked
<1>4. obs.op.op \in {"none", "open", "close"}
  BY <1>0 DEF Ops
<1> QED
  BY <1>1, <1>2, <1>3, <1>4

\* The operation that is still to be done.
OpLeft == IF pc \in {"snapshot", "windows", "incidents"} THEN obs.op ELSE NoOp

\* While the collector lives and nothing it wrote is lost, its tracker follows the polls, and
\* the table is that of the polls but for the operation that is still to be done.
OutagesTrue ==
    /\ pc = "dead" => crashes > 0
    /\ crashes = 0 /\ lost = 0 => Follows(down, polls) /\ AsAsked(incidents, OpLeft, polls)

\* The table stays that of the polls.
LEMMA OutagesTrueKept == ASSUME PollType, OutagesTrue, Next PROVE OutagesTrue'
<1>0. /\ crashes \in Nat /\ polls \in PollSeqs /\ now \in Nat /\ down \in DownType
      /\ crashes' = IF Crash THEN crashes + 1 ELSE crashes
  BY OnlySaves DEF PollType, WorldType, LoopType, StoreType, PollSeqs
<1>1. pc' = "dead" => crashes' > 0
  <2>1. CASE Crash
    BY <1>0, <2>1
  <2>2. CASE Outside
    BY <2>2, OutsideLeaves DEF OutagesTrue, loop, harm
  <2>3. CASE ~Crash /\ ~Outside
    <3>1. pc' # "dead"
      BY <2>3, WritingLeaves DEF Next, Environment, Loop, Outside, Writing, Observe, Snapshot,
            SaveTracker, Restart
    <3> QED
      BY <3>1
  <2> QED
    BY <2>1, <2>2, <2>3
<1>2. ASSUME crashes' = 0, lost' = 0
      PROVE  Follows(down', polls') /\ AsAsked(incidents', OpLeft', polls')
  <2>1. crashes = 0 /\ lost = 0 /\ ~Crash /\ pc # "dead"
    BY <1>0, <1>2, WritesHappen DEF OutagesTrue
  <2>2. Follows(down, polls) /\ AsAsked(incidents, OpLeft, polls)
    BY <2>1 DEF OutagesTrue
  <2>3. ASSUME NEW up \in BOOLEAN, Observe(up)
        PROVE  Follows(down', polls') /\ AsAsked(incidents', OpLeft', polls')
    <3>1. /\ down' = DownStep(down, now, up) /\ polls' = Longer(polls, now, up)
          /\ incidents' = incidents /\ OpLeft' = DownOp(down, now, up) /\ OpLeft = NoOp
      BY <2>3 DEF Observe, store, Longer, OpLeft
    <3>2. Cardinality(DownRows(incidents)) = Cardinality(StartsOf(polls))
          /\ RowSpans(incidents) = Spans(polls)
      BY <2>2, <3>1, QuietType DEF AsAsked
    <3>3. Follows(DownStep(down, now, up), Longer(polls, now, up))
      BY <1>0, <2>2, FollowsOn
    <3>4. AsAsked(incidents, DownOp(down, now, up), Longer(polls, now, up))
      BY <1>0, <2>2, <3>2, PollAsks
    <3> QED
      BY <3>1, <3>3, <3>4
  <2>4. CASE WriteOp
    <3>1. /\ incidents' = OpRows /\ UNCHANGED <<down, polls>> /\ OpLeft = obs.op /\ OpLeft' = NoOp
      BY <1>2, <2>4, WritesHappen DEF WriteOp, history, OpLeft
    <3> QED
      BY <2>2, <3>1, OpIsDone
  <2>5. CASE ~WriteOp /\ ~\E up \in BOOLEAN : Observe(up)
    <3>1. UNCHANGED <<down, polls, OpLeft>>
      <4>1. CASE Outside
        BY <4>1, OutsideLeaves DEF loop, OpLeft
      <4>2. CASE Snapshot \/ WriteWindows \/ WriteEvent \/ Evaluate \/ SaveEngine \/ SaveTracker
        BY <4>2 DEF Snapshot, WriteWindows, WriteEvent, Evaluate, SaveEngine, SaveTracker,
              history, OpLeft
      <4>3. ~Restart
        BY <2>1 DEF Restart
      <4> QED
        BY <2>1, <2>5, <4>1, <4>2, <4>3 DEF Next, Environment, Loop, Outside
    <3>2. KindKept("serve_down", incidents, incidents')
      BY <2>5, KindsApart
    <3>3. DownRows(incidents') = DownRows(incidents) /\ RowSpans(incidents') = RowSpans(incidents)
      BY <3>2, SpansKept
    <3> QED
      BY <2>2, <3>1, <3>3 DEF AsAsked
  <2> QED
    BY <2>3, <2>4, <2>5
<1> QED
  BY <1>1, <1>2 DEF OutagesTrue

-----------------------------------------------------------------------------
(***************************************************************************)
(* The theorems                                                            *)
(***************************************************************************)
\* All of it: no part but the types is inductive alone.
PollInv ==
    /\ PollType /\ ClaimsTrue /\ RunsKnown /\ InStep /\ RestartsTrue /\ RunsOnce
    /\ WindowTrue /\ SlipsCounted /\ OutagesTrue

\* Every part of the invariant is kept, by the parts it needs.
LEMMA PollInvKept == ASSUME PollInv, [Next]_vars PROVE PollInv'
<1>1. CASE Next
  BY <1>1, PollTypeKept, ClaimsKept, RunsKnownKept, InStepKept, RestartsTrueKept, RunsOnceKept,
     WindowTrueKept, SlipsCountedKept, OutagesTrueKept DEF PollInv
<1>2. CASE vars' = vars
  <2>1. UNCHANGED <<now, container, maintenance, pc, obs, down, seen, serve_down, window, incidents,
                    alerts, kv, saved, crashes, lost, world, polls, starts, base, granted>>
    BY <1>2 DEF vars, loop, store, history, harm
  <2>2. PollType'
    BY <2>1 DEF PollInv, PollType, WorldType, LoopType, StoreType
  <2>3. ClaimsTrue'
    BY <2>1 DEF PollInv, ClaimsTrue, OpenAsked
  <2>4. RunsKnown' /\ InStep'
    BY <2>1 DEF PollInv, RunsKnown, InStep, InPoll
  <2>5. RestartsTrue'
    BY <2>1 DEF PollInv, RestartsTrue, EventAsked, InPoll
  <2>6. RunsOnce'
    BY <2>1 DEF PollInv, RunsOnce, EventIsLater, RestartIs, InPoll
  <2>7. WindowTrue'
    BY <2>1 DEF PollInv, WindowTrue, InPoll
  <2>8. SlipsCounted'
    BY <2>1 DEF PollInv, SlipsCounted, Amiss, Timer
  <2>9. OutagesTrue'
    BY <2>1 DEF PollInv, OutagesTrue, OpLeft
  <2> QED
    BY <2>2, <2>3, <2>4, <2>5, <2>6, <2>7, <2>8, <2>9 DEF PollInv
<1> QED
  BY <1>1, <1>2

\* The state a collector first starts in has it.
LEMMA PollBegins == ASSUME Init PROVE PollInv
<1>1. /\ incidents = <<>> /\ alerts = <<>> /\ polls = <<>> /\ pc = "poll" /\ obs = Quiet
      /\ down = UpTracker /\ seen = Unseen /\ serve_down = IdleTimer /\ lost = 0 /\ crashes = 0
      /\ kv = [timer |-> IdleTimer, down |-> UpTracker, seen |-> Unseen]
      /\ container = [name |-> "a", restart_count |-> 0, started_at |-> 1, runs |-> TRUE]
      /\ now = 1 /\ maintenance = Closed /\ window = [now |-> FALSE, was |-> FALSE]
      /\ saved = <<>> /\ starts = {1} /\ base = 0 /\ granted = 0 /\ world \in Worlds
  BY DEF Init
<1>2. Len(incidents) = 0 /\ Len(alerts) = 0 /\ Len(polls) = 0
  BY <1>1
<1>3. PollType
  <2>1. WorldType
    BY <1>1 DEF WorldType, Containers, Names, Closed, Window
  <2>2. LoopType
    BY <1>1, QuietType, FreshTypes DEF LoopType, PollSteps
  <2>3. StoreType
    BY <1>1, FreshTypes DEF StoreType, KvType
  <2> QED
    BY <2>1, <2>2, <2>3 DEF PollType
<1>4. ClaimsTrue
  BY <1>1 DEF ClaimsTrue, TimerTrue, DownTrue, IdleTimer, UpTracker
<1>5. RunsKnown
  BY <1>1, UnseenBeganNever DEF RunsKnown
<1>6. InStep /\ RestartsTrue
  BY <1>1 DEF InStep, RestartsTrue, InPoll
<1>7. RunsOnce
  BY <1>1, <1>2, QuietType DEF RunsOnce, EventIsLater
<1>8. WindowTrue
  BY <1>1, <1>2 DEF WindowTrue, InPoll, Closed, Window, Unended
<1>9. SlipsCounted
  <2>1. SlipsOf(alerts) = {}
    BY <1>2 DEF SlipsOf
  <2>2. ~Amiss
    BY <1>1, <1>2 DEF Amiss, SaysUp, Timer, IdleTimer
  <2> QED
    <3>1. Cardinality(SlipsOf(alerts)) = 0
      BY <2>1, FS_EmptySet
    <3> QED
      BY <1>1, <2>2, <3>1 DEF SlipsCounted
<1>10. OutagesTrue
  <2>1. Follows(down, polls)
    BY <1>1, <1>2 DEF Follows, UpTracker
  <2>2. DownRows(incidents) = {} /\ StartsOf(polls) = {}
    BY <1>2 DEF DownRows, StartsOf
  <2>3. RowSpans(incidents) = {} /\ Spans(polls) = {}
    BY <2>2 DEF RowSpans, Spans
  <2>4. OpLeft = NoOp
    BY <1>1 DEF OpLeft
  <2>5. AsAsked(incidents, NoOp, polls)
    BY <2>2, <2>3, QuietType DEF AsAsked
  <2> QED
    BY <1>1, <2>1, <2>4, <2>5 DEF OutagesTrue
<1> QED
  BY <1>3, <1>4, <1>5, <1>6, <1>7, <1>8, <1>9, <1>10 DEF PollInv

\* What is seen, what is on record and what is saved agree, in every state of the poll loop and
\* of a restart from what it saved (main.rs, incidents.rs).
THEOREM PollIsConsistent == Spec => []PollInv
<1>1. Init => PollInv
  BY PollBegins
<1>2. PollInv /\ [Next]_vars => PollInv'
  BY PollInvKept
<1> QED
  BY <1>1, <1>2, PTL DEF Spec

\* A collector never resumes from a message or an incident that is not on record (save_state
\* after the writes of the poll it is about).
THEOREM ClaimsAreTrue == Spec => []PersistedClaimsAreTrue
<1>1. PollInv => PersistedClaimsAreTrue
  <2> SUFFICES ASSUME PollInv, lost = 0
               PROVE  /\ kv.timer.last_sent # NoTime =>
                            \E i \in 1 .. Len(alerts) :
                                ~alerts[i].recovered /\ alerts[i].ts = kv.timer.last_sent
                      /\ kv.down.open_since # NoTime =>
                            \E i \in Rows("serve_down") : incidents[i].start = kv.down.open_since
    BY DEF PersistedClaimsAreTrue
  <2>1. TimerTrue(kv.timer, alerts) /\ DownTrue(kv.down, incidents)
    BY DEF PollInv, ClaimsTrue
  <2> QED
    BY <2>1 DEF TimerTrue, DownTrue, Said, Booked, Rows
<1> QED
  BY <1>1, PollIsConsistent, PTL

\* Every run of the container the collector came to know of is on record, and on record once
\* (event_incident looks for the row before it inserts it).
THEOREM RestartsBookedOnce == Spec => []RestartsAreBooked
<1>1. PollInv => RestartBooked
  <2> SUFFICES ASSUME PollInv, pc = "poll", base # 0, seen.started_at > base, lost = 0
               PROVE  \E i \in Rows("container_restart") : incidents[i].start = seen.started_at
    BY DEF RestartBooked
  <2>1. seen = kv.seen
    BY DEF PollInv, InStep
  <2>2. Booked(incidents, "container_restart", seen.started_at)
    BY <2>1 DEF PollInv, RestartsTrue
  <2> QED
    BY <2>2 DEF Booked, Rows
<1>2. PollInv => BookedOnce
  BY DEF PollInv, RunsOnce, BookedOnce, Rows
<1> QED
  BY <1>1, <1>2, PollIsConsistent, PTL DEF RestartsAreBooked

\* The window restarts are graded by is one that was granted and is not over, and it is the
\* maintenance incident that is open on record (the flag is read once in a poll).
THEOREM WindowOnRecord == Spec => []WindowIsOnRecord
<1>1. PollInv => WindowIsOnRecord
  <2> SUFFICES ASSUME PollInv, pc = "alerts"
               PROVE  /\ window.now => now < granted /\ (lost = 0 => OpenRows("maintenance") # {})
                      /\ crashes = 0 /\ lost = 0 => (window.now <=> OpenRows("maintenance") # {})
    BY DEF WindowIsOnRecord, PlannedIsOnRecord, OpenExactlyWhile
  <2>1. Unended(incidents, "maintenance") <=> OpenRows("maintenance") # {}
    BY DEF Unended, OpenRows, Rows
  <2> QED
    BY <2>1 DEF PollInv, WindowTrue, InPoll
<1> QED
  BY <1>1, PollIsConsistent, PTL

\* Alerts and recoveries alternate but for one repetition for each death or lost write.
THEOREM RepeatsAreOfDeaths == Spec => []RepeatsAreDeaths
<1>1. PollInv => RepeatsAreDeaths
  <2>1. Slips = SlipsOf(alerts)
    BY DEF Slips, SlipsOf
  <2> QED
    BY <2>1 DEF PollInv, SlipsCounted, RepeatsAreDeaths
<1> QED
  BY <1>1, PollIsConsistent, PTL

\* The incidents of a service are its outages of two polls and more, from the first poll that
\* missed to the first that did not, for any number of polls (DownTracker::step).
THEOREM OutagesAreIncidents == Spec => []IncidentsAreOutages
<1>1. PollInv => IncidentsAreOutages
  <2> SUFFICES ASSUME PollInv, pc = "poll", crashes = 0, lost = 0
               PROVE  /\ Cardinality(Rows("serve_down")) = Cardinality(OutageStarts)
                      /\ {<<incidents[i].start, incidents[i].end>> : i \in Rows("serve_down")}
                           = {<<polls[i][1], OutageEnd(i)>> : i \in OutageStarts}
    BY DEF IncidentsAreOutages
  <2>1. AsAsked(incidents, NoOp, polls)
    BY DEF PollInv, OutagesTrue, OpLeft
  <2>2. Cardinality(DownRows(incidents)) = Cardinality(StartsOf(polls))
        /\ RowSpans(incidents) = Spans(polls)
    BY <2>1, QuietType DEF AsAsked
  <2>3. Rows("serve_down") = DownRows(incidents) /\ OutageStarts = StartsOf(polls)
    BY DEF Rows, DownRows, OutageStarts, StartsOf, Up
  <2>4. \A i : OutageEnd(i) = EndOf(polls, i) /\ polls[i][1] = At(polls, i)
    BY DEF OutageEnd, EndOf, UpsFrom, Up, At
  <2> QED
    BY <2>2, <2>3, <2>4 DEF RowSpans, Spans
<1> QED
  BY <1>1, PollIsConsistent, PTL

=============================================================================

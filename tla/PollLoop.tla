------------------------------ MODULE PollLoop ------------------------------
(***************************************************************************)
(* One poll of the collector (crates/lss-collector/src/main.rs), as far as *)
(* it keeps incidents, alerts and the state a restart resumes from: the    *)
(* tracker is stepped, the maintenance window is read, the incident rows,  *)
(* the alert rows and then the two kv entries are written, each a write of *)
(* its own.  The listener threads open and close the maintenance window    *)
(* meanwhile; the serve and its container do what they like; the collector *)
(* may die between any two steps and starts again from the kv entries.     *)
(***************************************************************************)
EXTENDS Tracker

CONSTANTS
    Cooldown, WarnHold,     \* cooldown_secs and serve_down_secs
    Worlds                  \* what can happen while the collector is watched

ASSUME PollAssumption ==
    /\ Cooldown \in Nat /\ WarnHold \in Nat
    /\ Worlds \subseteq [
          serve_fails: BOOLEAN,       \* the serve can stop answering
          mid_restart: BOOLEAN,       \* a poll can find a container between two runs
          windows: SUBSET (Nat \ {0}),    \* the lengths a maintenance window is asked for
          max_restarts: Nat,          \* bound: how often the container starts again
          max_crashes: Nat,           \* bound: how often the collector dies
          max_lost: Nat,              \* bound: how many writes of the database fail
          max_polls: Nat,             \* bound: how many polls are made
          max_time: Nat]              \* bound: the last clock reading

VARIABLES
    now,
    container,      \* the serve's container, and whether it runs (the world)
    maintenance,    \* Shared.maintenance: active and expires_at
    pc,             \* the step of the poll the loop is at; "dead" when it died
    obs,            \* what this poll saw: serve_up, and the operations it asks for
    down, seen,     \* the incident tracker: the serve, its container
    serve_down,     \* the alert engine's timer of that rule
    window,         \* the maintenance flag of this poll, and of the last one
    incidents,      \* the table of that name: kind, detail, start, end
    alerts,         \* the table of that name: recovered, ts
    kv,             \* the saved engine and tracker
    saved,          \* the state the loop last tried to save
    crashes,
    lost,           \* the writes of the database that failed
    world           \* the one of Worlds it runs in

\* History: the polls made, when the container's runs began, the first of them the
\* tracker saved, and the latest end a maintenance window was granted.
VARIABLES polls, starts, base, granted

loop == <<pc, obs, down, seen, serve_down, window, saved>>
store == <<incidents, alerts, kv>>
history == <<polls, starts, base, granted>>
harm == <<crashes, lost>>
vars == <<now, container, maintenance, loop, store, harm, world, history>>

Window(active, expires_at) == [active |-> active, expires_at |-> expires_at]
Closed == Window(FALSE, 0)
Quiet == [serve_up |-> TRUE, op |-> NoOp, event |-> NoOp, detail |-> <<>>]
Identity(ct) == [name |-> ct.name, restart_count |-> ct.restart_count, started_at |-> ct.started_at]
EngineState == <<serve_down, down, seen>>

Init ==
    /\ now = 1
    /\ container = [name |-> "a", restart_count |-> 0, started_at |-> 1, runs |-> TRUE]
    /\ maintenance = Closed
    /\ pc = "poll" /\ obs = Quiet
    /\ down = UpTracker /\ seen = Unseen /\ serve_down = IdleTimer
    /\ window = [now |-> FALSE, was |-> FALSE]
    /\ incidents = <<>> /\ alerts = <<>>
    /\ kv = [timer |-> IdleTimer, down |-> UpTracker, seen |-> Unseen]
    /\ saved = <<>>
    /\ crashes = 0 /\ lost = 0 /\ world \in Worlds
    /\ polls = <<>> /\ starts = {1} /\ base = 0 /\ granted = 0

\* A write of the database: it happens, or fails and is only logged.
Write(table, new) ==
    \/ table' = new /\ UNCHANGED lost
    \/ table # new /\ lost < world.max_lost /\ lost' = lost + 1 /\ UNCHANGED table

\* Mutant: a row ends with the last second before it was closed.
CloseAllBefore(kind, at) ==
    [i \in 1 .. Len(incidents) |->
        IF incidents[i].kind = kind /\ incidents[i].end = NoTime
        THEN [incidents[i] EXCEPT !.end = at - 1] ELSE incidents[i]]

\* close_incident: every open row of the kind.
CloseAll(kind, at) ==
    [i \in 1 .. Len(incidents) |->
        IF incidents[i].kind = kind /\ incidents[i].end = NoTime
        THEN [incidents[i] EXCEPT !.end = at] ELSE incidents[i]]

Row(kind, detail, start, end) == [kind |-> kind, detail |-> detail, start |-> start, end |-> end]

-----------------------------------------------------------------------------
(***************************************************************************)
(* Mutants.                                                                *)
(***************************************************************************)
\* The tracker is saved as soon as it is stepped.
ObserveSaves(up) ==
    /\ pc = "poll" /\ Len(polls) < world.max_polls
    /\ obs' = [serve_up |-> up, op |-> DownOp(down, now, up), event |-> NoOp, detail |-> <<>>]
    /\ down' = DownStep(down, now, up)
    /\ seen' = Identity(container)
    /\ kv' = [kv EXCEPT !.down = down', !.seen = seen']
    /\ polls' = Append(polls, <<now, up>>)
    /\ pc' = "snapshot"
    /\ UNCHANGED <<now, container, maintenance, serve_down, window, saved, incidents, alerts,
                   harm, starts, base, granted>>

\* The event of a restart is inserted without looking for it first.
EventAlwaysInserts(e, detail) == Append(incidents, Row("container_restart", detail, e.at, e.at))

\* Nothing is written on the poll that first sees a window, only the flag kept.
WindowRowsOnClose ==
    IF window.now /\ ~window.was THEN incidents
    ELSE IF window.was /\ ~window.now THEN CloseAll("maintenance", now) ELSE incidents

\* An alert and its recovery are one row each poll the condition holds.
AlertEachPoll(edge) ==
    IF edge = "None" /\ obs.serve_up THEN alerts
    ELSE Append(alerts, [recovered |-> obs.serve_up, ts |-> now])

\* A window is read before it is expired.
SnapshotThenExpire ==
    /\ pc = "snapshot"
    /\ maintenance' = IF maintenance.active /\ now >= maintenance.expires_at
                      THEN Closed ELSE maintenance
    /\ window' = [window EXCEPT !.now = maintenance.active]
    /\ pc' = "windows"
    /\ UNCHANGED <<now, container, obs, down, seen, serve_down, saved, store, harm, history>>

-----------------------------------------------------------------------------
(***************************************************************************)
(* The world: the serve's container restarts (its restart count moves when *)
(* the run ends, its start time when the next one begins), or is replaced. *)
(***************************************************************************)
End ==
    /\ world.mid_restart /\ container.runs /\ container.restart_count < world.max_restarts
    /\ \E n \in {0, 1} : container' = [container EXCEPT !.restart_count = @ + n, !.runs = FALSE]
    /\ UNCHANGED <<now, maintenance, loop, store, harm, history>>

Begin ==
    /\ ~container.runs \/ (~world.mid_restart /\ container.restart_count < world.max_restarts)
    /\ now \notin starts
    /\ \E n \in IF world.mid_restart THEN {0} ELSE {0, 1} :
          container' = [container EXCEPT !.runs = TRUE, !.started_at = now, !.restart_count = @ + n]
    /\ starts' = starts \cup {now}
    /\ UNCHANGED <<now, maintenance, loop, store, harm, polls, base, granted>>

Replace ==
    /\ container.name = "a" /\ world.max_restarts > 0 /\ now \notin starts
    /\ container' = [name |-> "b", restart_count |-> 0, started_at |-> now, runs |-> TRUE]
    /\ starts' = starts \cup {now}
    /\ UNCHANGED <<now, maintenance, loop, store, harm, polls, base, granted>>

(***************************************************************************)
(* POST /maintenance/start and /stop, on a listener thread.  Starting      *)
(* again extends the window that is open.                                  *)
(***************************************************************************)
MaintenanceStart(len) ==
    /\ pc # "dead"
    /\ maintenance' = Window(TRUE, now + len)
    /\ granted' = IF now + len > granted THEN now + len ELSE granted
    /\ UNCHANGED <<now, container, loop, store, harm, polls, starts, base>>

MaintenanceStop ==
    /\ pc # "dead" /\ maintenance.active
    /\ maintenance' = Closed
    /\ UNCHANGED <<now, container, loop, store, harm, history>>

-----------------------------------------------------------------------------
(***************************************************************************)
(* The poll.                                                               *)
(***************************************************************************)
\* The poller's reading, and IncidentTracker::step on it.
Observe(up) ==
    /\ pc = "poll" /\ Len(polls) < world.max_polls
    /\ LET cur == Identity(container)
           restart == IsRestart(seen, cur)
       IN  /\ obs' = [serve_up |-> up,
                      op |-> DownOp(down, now, up),
                      event |-> IF restart THEN Open(EventTs(seen, cur, now)) ELSE NoOp,
                      detail |-> IF restart THEN EventDetail(seen, cur) ELSE <<>>]
           /\ seen' = cur
    /\ down' = DownStep(down, now, up)
    /\ polls' = Append(polls, <<now, up>>)
    /\ pc' = "snapshot"
    /\ UNCHANGED <<now, container, maintenance, serve_down, window, saved, store, harm, starts,
                   base, granted>>

\* In one section of `shared`: a window past its end is closed, and the flag read.
Snapshot ==
    /\ pc = "snapshot"
    /\ maintenance' = IF maintenance.active /\ now >= maintenance.expires_at
                      THEN Closed ELSE maintenance
    /\ window' = [window EXCEPT !.now = maintenance'.active]
    /\ pc' = "windows"
    /\ UNCHANGED <<now, container, obs, down, seen, serve_down, saved, store, harm, history>>

\* The maintenance incident follows the edges of the flag.
WindowRows ==
    IF window.now = window.was THEN incidents
    ELSE IF window.now THEN Append(incidents, Row("maintenance", <<>>, now, NoTime))
    ELSE CloseAll("maintenance", now)

WriteWindows ==
    /\ pc = "windows"
    /\ Write(incidents, WindowRows)
    /\ window' = [window EXCEPT !.was = window.now]
    /\ pc' = "incidents"
    /\ UNCHANGED <<now, container, maintenance, obs, down, seen, serve_down, saved, alerts, kv,
                   crashes, history>>

\* open_incident, close_incident.
OpRows ==
    CASE obs.op.op = "open" -> Append(incidents, Row("serve_down", <<>>, obs.op.at, NoTime))
      [] obs.op.op = "close" -> CloseAll("serve_down", obs.op.at)
      [] OTHER -> incidents

WriteOp ==
    /\ pc = "incidents"
    /\ Write(incidents, OpRows)
    /\ pc' = "events"
    /\ UNCHANGED <<now, container, maintenance, obs, down, seen, serve_down, window, saved, alerts,
                   kv, crashes, history>>

\* event_incident: a restart already booked at that time in those words is not
\* booked again.
EventRows(e, detail) ==
    IF \E i \in 1 .. Len(incidents) : incidents[i] = Row("container_restart", detail, e.at, e.at)
    THEN incidents
    ELSE Append(incidents, Row("container_restart", detail, e.at, e.at))

WriteEvent ==
    /\ pc = "events"
    /\ Write(incidents,
             IF obs.event = NoOp THEN incidents ELSE EventRows(obs.event, obs.detail))
    /\ pc' = "alerts"
    /\ UNCHANGED <<now, container, maintenance, obs, down, seen, serve_down, window, saved, alerts,
                   kv, crashes, history>>

\* Engine::evaluate for the rule serve_down, and a row for the message it returns;
\* the job for the alert worker follows a row that was written.
AlertRows(edge) ==
    IF edge = "None" THEN alerts
    ELSE Append(alerts, [recovered |-> edge = "Recover", ts |-> now])

Evaluate ==
    /\ pc = "alerts"
    /\ serve_down' = Step(serve_down, now, ~obs.serve_up, WarnHold, Cooldown)
    /\ Write(alerts, AlertRows(EdgeOf(serve_down, now, ~obs.serve_up, WarnHold, Cooldown)))
    /\ pc' = "engine"
    /\ UNCHANGED <<now, container, maintenance, obs, down, seen, window, saved, incidents, kv,
                   crashes, history>>

\* Both entries are written when either changed; the loop takes them for saved
\* whether they were or not.
SaveEngine ==
    /\ pc = "engine"
    /\ Write(kv, IF EngineState = saved THEN kv ELSE [kv EXCEPT !.timer = serve_down])
    /\ pc' = "tracker"
    /\ UNCHANGED <<now, container, maintenance, obs, down, seen, serve_down, window, saved,
                   incidents, alerts, crashes, history>>

SaveTracker ==
    /\ pc = "tracker"
    /\ Write(kv, IF EngineState = saved THEN kv
                 ELSE [kv EXCEPT !.down = down, !.seen = seen])
    /\ saved' = EngineState
    /\ base' = IF base = 0 THEN kv'.seen.started_at ELSE base
    /\ obs' = Quiet
    /\ pc' = "poll"
    /\ UNCHANGED <<now, container, maintenance, down, seen, serve_down, window, incidents, alerts,
                   crashes, polls, starts, granted>>

Crash ==
    /\ pc # "dead" /\ crashes < world.max_crashes
    /\ crashes' = crashes + 1
    /\ pc' = "dead" /\ obs' = Quiet
    /\ maintenance' = Closed
    /\ window' = [now |-> FALSE, was |-> FALSE]
    /\ down' = UpTracker /\ seen' = Unseen /\ serve_down' = IdleTimer /\ saved' = <<>>
    /\ UNCHANGED <<now, container, store, lost, history>>

\* load_state: the engine and the tracker as they were last saved.
Restart ==
    /\ pc = "dead"
    /\ pc' = "poll"
    /\ down' = kv.down /\ seen' = kv.seen /\ serve_down' = kv.timer
    /\ UNCHANGED <<now, container, maintenance, obs, window, saved, store, harm, history>>

\* The clock moves while the collector sleeps or is down.
Tick ==
    /\ pc \in {"poll", "dead"} /\ now < world.max_time
    /\ now' = now + 1
    /\ UNCHANGED <<container, maintenance, loop, store, harm, history>>

\* The bound of the model: no more polls are looked at.
Bounded ==
    /\ pc = "poll" /\ Len(polls) = world.max_polls
    /\ UNCHANGED <<now, container, maintenance, loop, store, harm, history>>

Environment ==
    \/ End \/ Begin \/ Replace
    \/ (\E len \in world.windows : MaintenanceStart(len)) \/ MaintenanceStop
    \/ Crash \/ Tick \/ Bounded

Loop ==
    \/ \E up \in {TRUE} \cup {~world.serve_fails} : Observe(up)
    \/ Snapshot \/ WriteWindows \/ WriteOp \/ WriteEvent \/ Evaluate
    \/ SaveEngine \/ SaveTracker
    \/ Restart

Next == (Environment \/ Loop) /\ UNCHANGED world

Spec == Init /\ [][Next]_vars

-----------------------------------------------------------------------------
Rows(kind) == {i \in 1 .. Len(incidents) : incidents[i].kind = kind}
OpenRows(kind) == {i \in Rows(kind) : incidents[i].end = NoTime}

PollSteps == {"poll", "snapshot", "windows", "incidents", "events", "alerts", "engine", "tracker"}

\* Every variable keeps its type.
TypeOK ==
    /\ now \in 1 .. world.max_time
    /\ container.started_at \in starts /\ starts \subseteq 1 .. world.max_time
    /\ maintenance.active \in BOOLEAN /\ maintenance.expires_at \in Nat
    /\ pc \in PollSteps \cup {"dead"}
    /\ down \in DownType /\ kv.down \in DownType
    /\ serve_down \in TimerType /\ kv.timer \in TimerType
    /\ window \in [now: BOOLEAN, was: BOOLEAN]
    /\ \A i \in 1 .. Len(incidents) :
          /\ incidents[i].start \in Nat /\ incidents[i].end \in OptTime
          /\ incidents[i].end = NoTime \/ incidents[i].end >= incidents[i].start
    /\ \A i \in 1 .. Len(alerts) : alerts[i] \in [recovered: BOOLEAN, ts: Nat]

\* The polls at which an outage of at least two polls begins.
OutageStarts ==
    {i \in 1 .. Len(polls) - 1 :
        /\ ~polls[i][2] /\ ~polls[i + 1][2]
        /\ i = 1 \/ polls[i - 1][2]}

\* The first poll that found the serve answering after poll i.
OutageEnd(i) ==
    LET ups == {j \in i .. Len(polls) : polls[j][2]}
    IN  IF ups = {} THEN NoTime ELSE polls[CHOOSE j \in ups : \A k \in ups : j <= k][1]

\* The serve_down incidents are the outages of two polls and more, one row each,
\* from the first poll that missed to the first that did not: whatever the polls
\* were and however they were spaced.
IncidentsAreOutages ==
    (pc = "poll" /\ crashes = 0 /\ lost = 0) =>
        /\ Cardinality(Rows("serve_down")) = Cardinality(OutageStarts)
        /\ {<<incidents[i].start, incidents[i].end>> : i \in Rows("serve_down")}
             = {<<polls[i][1], OutageEnd(i)>> : i \in OutageStarts}

\* What the collector would resume from never claims a message or an incident
\* that is not on record, wherever it died: a restart may do something twice, it
\* never takes for done what was not.  A write that failed is taken for done.
PersistedClaimsAreTrue ==
    lost = 0 =>
        /\ kv.timer.last_sent # NoTime =>
              \E i \in 1 .. Len(alerts) :
                  ~alerts[i].recovered /\ alerts[i].ts = kv.timer.last_sent
        /\ kv.down.open_since # NoTime =>
              \E i \in Rows("serve_down") : incidents[i].start = kv.down.open_since

\* The run of the container the tracker knows is the one it was first saved with,
\* or its beginning is on record: also when the collector was down at the time, or
\* when polls found the container between two runs.
RestartBooked ==
    (pc = "poll" /\ base # 0 /\ seen.started_at > base /\ lost = 0) =>
        \E i \in Rows("container_restart") : incidents[i].start = seen.started_at

\* ... and no run is on record twice, although a collector that dies between booking
\* it and saving that it did finds it again.  A poll that finds the container between
\* two runs books the one that ended, and the next poll the one that began; and after a lost
\* write of the tracker a restart is booked again in other words.
BookedOnce ==
    (~world.mid_restart /\ lost = 0) =>
        \A i, j \in Rows("container_restart") :
            incidents[i].start = incidents[j].start => i = j

\* Every restart is booked, once.
RestartsAreBooked == RestartBooked /\ BookedOnce

\* Restarts are graded as planned only while a maintenance incident is open and
\* only inside a window that was asked for, whatever start, stop, expiry and the
\* poll's own steps do in between.
PlannedIsOnRecord ==
    (pc = "alerts" /\ window.now) =>
        /\ now < granted
        /\ lost = 0 => OpenRows("maintenance") # {}

\* The maintenance incident is "open exactly while `lss maintenance start` is in
\* effect" (main.rs:802) as long as the collector lives: what a poll read of the
\* window is what it grades restarts by and what is on record.
OpenExactlyWhile ==
    (pc = "alerts" /\ crashes = 0 /\ lost = 0) => (window.now <=> OpenRows("maintenance") # {})

\* The window restarts are graded by is the window on record.
WindowIsOnRecord == PlannedIsOnRecord /\ OpenExactlyWhile

\* Alerts and recoveries alternate in the table, but that a collector that dies
\* between writing one and saving that it did may say it again, or never answer it,
\* and that a row that could not be written is missing: one slip at the most for a
\* death or a lost write, whichever of a poll's writes it was, and none without.
Slips == {i \in 1 .. Len(alerts) :
            alerts[i].recovered <=> (i = 1 \/ alerts[i - 1].recovered)}

RepeatsAreDeaths == Cardinality(Slips) <= crashes + lost

\* incidents.rs:2 "The tracker is serialisable so an incident that is open across a
\* collector restart is closed by the new process": an open row is one the tracker
\* knows it has to close.
OpenRowIsTracked ==
    (pc = "engine" /\ OpenRows("serve_down") # {}) => down.open_since # NoTime

\* main.rs:802 "open exactly while `lss maintenance start` is in effect": no incident
\* of a window is open when restarts are graded outside one.
OpenOnlyInEffect ==
    (pc = "alerts" /\ ~window.now) => OpenRows("maintenance") = {}

=============================================================================

------------------------------ MODULE BenchRun ------------------------------
(***************************************************************************)
(* `lss bench`, the collector's half (crates/lss-collector/src/bench_run): *)
(* a listener thread checks, locks, records and activates a run; the run's *)
(* own thread watches it and finishes it; the poll loop keeps the bench    *)
(* incident; another listener request cancels it; the collector may die at *)
(* any step and recover at its next start.  Several collectors may share   *)
(* one state directory: the lock file and the database are theirs in       *)
(* common, everything else is each one's own.                              *)
(*                                                                         *)
(* One action is one step between two points where another thread can see  *)
(* the difference: a file operation, or a section under a mutex.           *)
(***************************************************************************)
EXTENDS Integers, FiniteSets, Sequences

CONSTANTS
    Collectors,     \* the collector processes that share the state directory
    Listeners,      \* the loopback listener threads of each of them
    Nobody,         \* no process: what a lock file names before it is written
    MaxRuns,        \* bound: the rows bench_runs can hold
    MaxFailures,    \* bound: how many writes of the database fail
    MaxCrashes      \* bound: how often a collector dies

ASSUME BenchAssumption ==
    /\ Nobody \notin Collectors
    /\ MaxRuns \in Nat /\ MaxFailures \in Nat /\ MaxCrashes \in Nat

Threads == Collectors \X Listeners
Owner(t) == t[1]
RunIds == 1 .. MaxRuns

NoFile == [ino |-> Nobody, pid |-> Nobody]

VARIABLES
    alive,          \* per collector: the process runs
    active, cancel, \* per collector: Shared.bench.active and .cancel
    lockfile,       \* bench.lock: which thread created it, which process it names
    starter,        \* per listener thread: where request_start is
    rows,           \* bench_runs: who started each run, and its status
    runner,         \* per run: where its thread is
    bench_open,     \* the open bench incidents
    poll,           \* per collector: the poll loop's bench_active and bench_was_active
    failures,       \* the writes of the database that failed
    died

\* History: the runs a cancel was accepted for, what ended each run, and the
\* collectors that have ever run.
VARIABLES asked, ended, used

bench_vars == <<alive, active, cancel, lockfile, starter, rows, runner, bench_open,
                poll, failures, died, asked, ended, used>>
faults == <<failures, died>>
bench_history == <<asked, ended, used>>

Idle == [pc |-> "idle", seen |-> Nobody, tries |-> 0]
At(t, pc) == starter[t].pc = pc
Goto(t, pc) == starter' = [starter EXCEPT ![t].pc = pc]
Refuse(t) == starter' = [starter EXCEPT ![t] = Idle]
Unfinished == {"running", "stopped", "stored", "unlocked"}
RunsOf(c) == {r \in 1 .. Len(rows) : rows[r].by = c}
InState(pcs) == {r \in 1 .. Len(rows) : runner[r] \in pcs}

BenchInit ==
    /\ \E c \in Collectors : used = {c}
    /\ alive = [c \in Collectors |-> c \in used]
    /\ active = [c \in Collectors |-> FALSE] /\ cancel = [c \in Collectors |-> FALSE]
    /\ lockfile = NoFile
    /\ starter = [t \in Threads |-> Idle]
    /\ rows = <<>> /\ runner = [r \in RunIds |-> "none"]
    /\ bench_open = {}
    /\ poll = [c \in Collectors |-> [snap |-> FALSE, pc |-> "read", was |-> FALSE]]
    /\ failures = 0 /\ died = 0
    /\ asked = {} /\ ended = [r \in RunIds |-> "not yet"]

\* A write of the database: it may fail, and then only the log hears of it.
Fails == failures < MaxFailures /\ failures' = failures + 1
Written == UNCHANGED failures

PidAlive(pid) == pid \in Collectors /\ alive[pid]

(***************************************************************************)
(* Mutants.                                                                *)
(***************************************************************************)
\* A failed insert refuses the request and keeps the lock.
RecordFailsLocked(t) ==
    /\ At(t, "locked") /\ Fails
    /\ Refuse(t)
    /\ UNCHANGED <<alive, active, cancel, lockfile, rows, runner, bench_open, poll, died,
                   bench_history>>

\* The row is written before the outcome of the run is known.
StoreEarly(r) ==
    /\ alive[rows[r].by] /\ runner[r] \in {"running", "stopped"}
    /\ rows' = [rows EXCEPT ![r].status = ended[r]]
    /\ runner' = [runner EXCEPT ![r] = "stored"]
    /\ UNCHANGED <<alive, active, cancel, lockfile, starter, bench_open, poll, faults,
                   bench_history>>

\* The flag goes down with the harness, before the run is stored and unlocked.
StoreClears(r) ==
    /\ alive[rows[r].by] /\ runner[r] = "stopped"
    /\ rows' = [rows EXCEPT ![r].status = ended[r]]
    /\ active' = [active EXCEPT ![rows[r].by] = FALSE]
    /\ runner' = [runner EXCEPT ![r] = "stored"]
    /\ UNCHANGED <<alive, cancel, lockfile, starter, bench_open, poll, faults, bench_history>>

\* A restarted collector leaves the rows alone.
RecoverDbIncidentOnly ==
    /\ Written /\ bench_open' = {}
    /\ UNCHANGED rows

\* The incident follows the level of the flag, not its edge.
PollWriteLevel(c) ==
    /\ alive[c] /\ poll[c].pc = "write"
    /\ bench_open' = IF poll[c].snap THEN bench_open \cup {<<c, Cardinality(bench_open)>>} ELSE {}
    /\ poll' = [poll EXCEPT ![c] = [snap |-> FALSE, pc |-> "read", was |-> poll[c].snap]]
    /\ UNCHANGED <<alive, active, cancel, lockfile, starter, rows, runner, faults, bench_history>>

\* The watch only ends a run that was cancelled.
WatchWithoutDeadline(r) ==
    /\ alive[rows[r].by] /\ runner[r] = "running"
    /\ cancel[rows[r].by]
    /\ ended' = [ended EXCEPT ![r] = "cancelled"]
    /\ runner' = [runner EXCEPT ![r] = "stopped"]
    /\ UNCHANGED <<alive, active, cancel, lockfile, starter, rows, bench_open, poll, faults,
                   asked, used>>

\* A second cancel takes the first one back.
CancelToggles(t) ==
    /\ alive[Owner(t)] /\ At(t, "idle") /\ active[Owner(t)]
    /\ cancel' = [cancel EXCEPT ![Owner(t)] = ~@]
    /\ asked' = asked \cup {r \in RunsOf(Owner(t)) : runner[r] \in Unfinished}
    /\ UNCHANGED <<alive, active, lockfile, starter, rows, runner, bench_open, poll, faults,
                   ended, used>>

-----------------------------------------------------------------------------
(***************************************************************************)
(* request_start, on a listener thread.                                    *)
(***************************************************************************)

\* The flag, the idle gate and the model are read in one section of `shared`;
\* any of them may refuse the request, which then never happened.
Check(t) ==
    /\ alive[Owner(t)] /\ At(t, "idle") /\ Len(rows) < MaxRuns
    /\ ~active[Owner(t)]
    /\ Goto(t, "checked")
    /\ UNCHANGED <<alive, active, cancel, lockfile, rows, runner, bench_open, poll, faults,
                   bench_history>>

\* take_lock: create_new ...
CreateLock(t) ==
    /\ At(t, "checked") /\ lockfile = NoFile /\ starter[t].tries < 2
    /\ lockfile' = [ino |-> t, pid |-> Nobody]
    /\ Goto(t, "created")
    /\ UNCHANGED <<alive, active, cancel, rows, runner, bench_open, poll, faults, bench_history>>

\* ... then the pid is written, to the file this thread created even when another
\* thread has removed its name since.
WriteLock(t) ==
    /\ At(t, "created")
    /\ lockfile' = IF lockfile.ino = t THEN [lockfile EXCEPT !.pid = Owner(t)] ELSE lockfile
    /\ Goto(t, "locked")
    /\ UNCHANGED <<alive, active, cancel, rows, runner, bench_open, poll, faults, bench_history>>

\* The file is there: whose is it?
ReadLock(t) ==
    /\ At(t, "checked") /\ lockfile # NoFile /\ starter[t].tries < 2
    /\ starter' = [starter EXCEPT ![t] = [@ EXCEPT !.pc = "judging", !.seen = lockfile.pid]]
    /\ UNCHANGED <<alive, active, cancel, lockfile, rows, runner, bench_open, poll, faults,
                   bench_history>>

\* A live holder refuses the request; a dead one, or none, is taken over by
\* removing the file of that name and trying once more.
JudgeLock(t) ==
    /\ At(t, "judging")
    /\ IF PidAlive(starter[t].seen)
       THEN Refuse(t) /\ UNCHANGED lockfile
       ELSE /\ lockfile' = NoFile
            /\ starter' = [starter EXCEPT ![t] =
                              [pc |-> "checked", seen |-> Nobody, tries |-> @.tries + 1]]
    /\ UNCHANGED <<alive, active, cancel, rows, runner, bench_open, poll, faults, bench_history>>

\* "cannot take the bench lock"
GiveUpLock(t) ==
    /\ At(t, "checked") /\ starter[t].tries = 2
    /\ Refuse(t)
    /\ UNCHANGED <<alive, active, cancel, lockfile, rows, runner, bench_open, poll, faults,
                   bench_history>>

\* db.bench_start, in a section of `db`.
RecordRow(t) ==
    /\ At(t, "locked") /\ Len(rows) < MaxRuns
    /\ rows' = Append(rows, [by |-> Owner(t), status |-> "running"])
    /\ starter' = [starter EXCEPT ![t] = [pc |-> "recorded", seen |-> Len(rows) + 1, tries |-> 0]]
    /\ UNCHANGED <<alive, active, cancel, lockfile, runner, bench_open, poll, faults,
                   bench_history>>

RecordFails(t) ==
    /\ At(t, "locked") /\ (Fails \/ (Len(rows) = MaxRuns /\ Written))
    /\ lockfile' = NoFile
    /\ Refuse(t)
    /\ UNCHANGED <<alive, active, cancel, rows, runner, bench_open, poll, died, bench_history>>

\* The flags, in a section of `shared`, and the run's thread.
Activate(t) ==
    /\ At(t, "recorded")
    /\ active' = [active EXCEPT ![Owner(t)] = TRUE]
    /\ cancel' = [cancel EXCEPT ![Owner(t)] = FALSE]
    /\ runner' = [runner EXCEPT ![starter[t].seen] = "running"]
    /\ Refuse(t)
    /\ UNCHANGED <<alive, lockfile, rows, bench_open, poll, faults, bench_history>>

\* request_cancel: refused when no run is active.
RequestCancel(t) ==
    /\ alive[Owner(t)] /\ At(t, "idle") /\ active[Owner(t)]
    /\ cancel' = [cancel EXCEPT ![Owner(t)] = TRUE]
    /\ asked' = asked \cup {r \in RunsOf(Owner(t)) : runner[r] \in Unfinished}
    /\ UNCHANGED <<alive, active, lockfile, starter, rows, runner, bench_open, poll, faults,
                   ended, used>>

-----------------------------------------------------------------------------
(***************************************************************************)
(* The run's thread.  Watch is the last poll of its safety watch: the run  *)
(* ends cancelled when it finds the flag, else done, or aborted for real   *)
(* traffic, a failed step or the profile's deadline.                       *)
(***************************************************************************)
Watch(r) ==
    /\ alive[rows[r].by] /\ runner[r] = "running"
    /\ \/ /\ cancel[rows[r].by]
          /\ ended' = [ended EXCEPT ![r] = "cancelled"]
       \/ ended' = [ended EXCEPT ![r] = "done"]
       \/ /\ ~cancel[rows[r].by]
          /\ ended' = [ended EXCEPT ![r] = "aborted"]
    /\ runner' = [runner EXCEPT ![r] = "stopped"]
    /\ UNCHANGED <<alive, active, cancel, lockfile, starter, rows, bench_open, poll, faults,
                   asked, used>>

\* finish: db.bench_finish (a failed write is only logged) ...
Store(r) ==
    /\ alive[rows[r].by] /\ runner[r] = "stopped"
    /\ \/ Written /\ rows' = [rows EXCEPT ![r].status = ended[r]]
       \/ Fails /\ UNCHANGED rows
    /\ runner' = [runner EXCEPT ![r] = "stored"]
    /\ UNCHANGED <<alive, active, cancel, lockfile, starter, bench_open, poll, died, bench_history>>

\* ... release_lock, whoever's file has that name now ...
Unlock(r) ==
    /\ alive[rows[r].by] /\ runner[r] = "stored"
    /\ lockfile' = NoFile
    /\ runner' = [runner EXCEPT ![r] = "unlocked"]
    /\ UNCHANGED <<alive, active, cancel, starter, rows, bench_open, poll, faults, bench_history>>

\* ... and the flags.
Clear(r) ==
    /\ alive[rows[r].by] /\ runner[r] = "unlocked"
    /\ active' = [active EXCEPT ![rows[r].by] = FALSE]
    /\ cancel' = [cancel EXCEPT ![rows[r].by] = FALSE]
    /\ runner' = [runner EXCEPT ![r] = "ended"]
    /\ UNCHANGED <<alive, lockfile, starter, rows, bench_open, poll, faults, bench_history>>

-----------------------------------------------------------------------------
(***************************************************************************)
(* The poll loop keeps the bench incident on the edges of the flag, which  *)
(* it reads in a section of `shared` before it takes `db`.                 *)
(***************************************************************************)
PollRead(c) ==
    /\ alive[c] /\ poll[c].pc = "read"
    /\ poll' = [poll EXCEPT ![c] = [@ EXCEPT !.pc = "write", !.snap = active[c]]]
    /\ UNCHANGED <<alive, active, cancel, lockfile, starter, rows, runner, bench_open, faults,
                   bench_history>>

\* A failed write is only logged: the edge is not tried again.
PollWrite(c) ==
    /\ alive[c] /\ poll[c].pc = "write"
    /\ \/ /\ Written
          /\ bench_open' = IF poll[c].snap = poll[c].was THEN bench_open
                          ELSE IF poll[c].snap THEN bench_open \cup {<<c, Cardinality(bench_open)>>}
                          ELSE {}
       \/ poll[c].snap # poll[c].was /\ Fails /\ UNCHANGED bench_open
    /\ poll' = [poll EXCEPT ![c] = [snap |-> FALSE, pc |-> "read", was |-> poll[c].snap]]
    /\ UNCHANGED <<alive, active, cancel, lockfile, starter, rows, runner, died, bench_history>>

\* The process dies: its threads and its Shared with it, and its harness.
Dies(c) ==
    /\ alive[c] /\ died < MaxCrashes
    /\ died' = died + 1
    /\ alive' = [alive EXCEPT ![c] = FALSE]
    /\ active' = [active EXCEPT ![c] = FALSE] /\ cancel' = [cancel EXCEPT ![c] = FALSE]
    /\ starter' = [t \in Threads |-> IF Owner(t) = c THEN Idle ELSE starter[t]]
    /\ runner' = [r \in RunIds |-> IF r \in RunsOf(c) THEN "dead" ELSE runner[r]]
    /\ poll' = [poll EXCEPT ![c] = [snap |-> FALSE, pc |-> "read", was |-> FALSE]]
    \* the next incarnation has another pid
    /\ lockfile' = IF lockfile.pid = c THEN [lockfile EXCEPT !.pid = Nobody] ELSE lockfile
    /\ UNCHANGED <<rows, bench_open, failures, bench_history>>

\* bench_close_stale closes every row still `running`; close_incident.
CloseStale == [r \in 1 .. Len(rows) |-> IF rows[r].status = "running"
                                        THEN [rows[r] EXCEPT !.status = "closed"] ELSE rows[r]]
RecoverDb ==
    \/ Written /\ rows' = CloseStale /\ bench_open' = {}
    \/ Fails /\ rows' = rows /\ bench_open' = {}
    \/ Fails /\ rows' = CloseStale /\ bench_open' = bench_open

\* recover, at the first start and the next ones, before any listener runs.
Recover(c) ==
    /\ ~alive[c]
    /\ alive' = [alive EXCEPT ![c] = TRUE]
    /\ lockfile' = IF PidAlive(lockfile.pid) THEN lockfile ELSE NoFile
    /\ RecoverDb
    /\ used' = used \cup {c}
    /\ UNCHANGED <<active, cancel, starter, runner, poll, died, asked, ended>>

StartStep(t) ==
    \/ CreateLock(t) \/ WriteLock(t) \/ ReadLock(t) \/ JudgeLock(t) \/ GiveUpLock(t)
    \/ RecordRow(t) \/ RecordFails(t) \/ Activate(t)

RunStep(r) == Watch(r) \/ Store(r) \/ Unlock(r) \/ Clear(r)

BenchNext ==
    \/ \E t \in Threads : Check(t) \/ StartStep(t) \/ RequestCancel(t)
    \/ \E r \in 1 .. Len(rows) : RunStep(r)
    \/ \E c \in Collectors : PollRead(c) \/ PollWrite(c) \/ Dies(c) \/ Recover(c)

BenchSpec == BenchInit /\ [][BenchNext]_bench_vars

\* A thread that can run does.  Watch ends because every profile has a deadline
\* and every wait of the watch has a timeout; nobody need ever start a run,
\* cancel one, or restart a dead collector.
Fairness ==
    /\ \A t \in Threads : WF_bench_vars(StartStep(t))
    /\ \A r \in RunIds : WF_bench_vars(r \in 1 .. Len(rows) /\ RunStep(r))
    /\ \A c \in Collectors : WF_bench_vars(PollRead(c)) /\ WF_bench_vars(PollWrite(c))

FairSpec == BenchSpec /\ Fairness

-----------------------------------------------------------------------------
Statuses == {"running", "done", "cancelled", "aborted", "closed"}

\* Every variable keeps its type.
BenchTypeOK ==
    /\ alive \in [Collectors -> BOOLEAN]
    /\ active \in [Collectors -> BOOLEAN] /\ cancel \in [Collectors -> BOOLEAN]
    /\ lockfile \in [ino: Threads \cup {Nobody}, pid: Collectors \cup {Nobody}]
    /\ \A t \in Threads : starter[t].pc \in
          {"idle", "checked", "created", "judging", "locked", "recorded"}
    /\ rows \in Seq([by: Collectors, status: Statuses]) /\ Len(rows) <= MaxRuns
    /\ runner \in [RunIds -> Unfinished \cup {"none", "ended", "dead"}]
    /\ poll \in [Collectors -> [snap: BOOLEAN, pc: {"read", "write"}, was: BOOLEAN]]
    /\ asked \subseteq RunIds

\* bench_run.rs:40 "a bench is running: the incident window is open, the C1 probe
\* is paused, the queue / C1 rules stand down": the flag is up from before the
\* first load of a run until the run is stored and its lock released.
LoadIsAnnounced ==
    \A r \in InState({"running", "stopped", "stored"}) : active[rows[r].by]

\* bench_run.rs:7 "one bench at a time: an in-process flag AND a lock file (a
\* second collector, a stale run)".
OneRun == Cardinality(InState({"running"})) <= 1

\* No row says `running` once its collector is up and no thread works on the run,
\* unless the write that ends it failed.
NoOrphanRow ==
    failures = 0 => \A r \in 1 .. Len(rows) :
        (rows[r].status = "running" /\ alive[rows[r].by]) =>
            \/ runner[r] \in {"running", "stopped"}
            \/ \E t \in Threads : At(t, "recorded") /\ starter[t].seen = r

\* A refused start, a failed insert, a finished or dead run leaves no lock behind
\* that would refuse the next one.
NoLeakedLock ==
    (/\ \A c \in Collectors : alive[c] /\ ~active[c]
     /\ \A t \in Threads : At(t, "idle")) => lockfile = NoFile

\* The open bench incident of a collector that has the database to itself is exactly
\* what its poll loop last saw, as long as no write failed: an edge is written once
\* and never tried again.
IncidentIsTheBench ==
    (failures = 0 /\ Cardinality(used) = 1) => \A c \in Collectors : alive[c] =>
        Cardinality(bench_open) = IF poll[c].was THEN 1 ELSE 0

\* What the database says is running is running.
RecordsAreLive == NoOrphanRow /\ IncidentIsTheBench

\* A cancel that was accepted stays up as long as its run can see it.
CancelStays ==
    \A r \in asked : runner[r] = "running" => cancel[rows[r].by]

\* A run ends, whatever it waits for, and then its incident closes, unless its
\* collector dies, the next run has begun, the write that closes it failed, or the
\* incident is another collector's.
Settled(c) ==
    \/ bench_open = {} \/ ~alive[c] \/ poll[c].was
    \/ failures > 0 \/ Cardinality(used) > 1
EveryRunEnds == \A c \in Collectors : active[c] ~> (~active[c] /\ Settled(c))

=============================================================================

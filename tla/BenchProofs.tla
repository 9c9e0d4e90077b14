---------------------------- MODULE BenchProofs -----------------------------
(***************************************************************************)
(* Proofs about BenchRun.tla for every number of collectors, runs, deaths  *)
(* and failed writes, when each collector has the one loopback listener of *)
(* the default configuration.                                              *)
(***************************************************************************)
EXTENDS BenchRun, FiniteSetTheorems, TLAPS

\* One listener thread a collector: `listen` is one loopback address (config.rs:243).
OneListener == \A l, m \in Listeners : l = m

PCs == {"idle", "checked", "created", "judging", "locked", "recorded"}
\* From the file's creation to the run's activation.
Holding == {"created", "locked", "recorded"}
Outcomes == {"done", "cancelled", "aborted"}
RowType == [by: Collectors, status: Statuses]
RunnerStates == Unfinished \cup {"none", "ended", "dead"}

-----------------------------------------------------------------------------
(***************************************************************************)
(* The invariant                                                           *)
(***************************************************************************)
FlagTypes ==
    /\ alive \in [Collectors -> BOOLEAN]
    /\ active \in [Collectors -> BOOLEAN] /\ cancel \in [Collectors -> BOOLEAN]
    /\ starter \in [Threads -> [pc: PCs, seen: Collectors \cup {Nobody} \cup Nat, tries: Nat]]
    /\ lockfile \in [ino: Threads \cup {Nobody}, pid: Collectors \cup {Nobody}]

RunTypes ==
    /\ rows \in Seq(RowType)
    /\ runner \in [RunIds -> RunnerStates]
    /\ ended \in [RunIds -> Outcomes \cup {"not yet"}]
    /\ Len(rows) <= MaxRuns

PollTypes ==
    /\ poll \in [Collectors -> [snap: BOOLEAN, pc: {"read", "write"}, was: BOOLEAN]]
    /\ failures \in Nat
    /\ used \subseteq Collectors /\ IsFiniteSet(used)

\* A dead collector does nothing, and nothing is active in it.
DeadIsStill ==
    /\ \A c \in Collectors : ~alive[c] => ~active[c] /\ ~poll[c].was
    /\ \A t \in Threads : ~At(t, "idle") => alive[Owner(t)]

\* A run that is being worked on has the flag up, and no listener of its collector
\* gets past the check meanwhile; so it is the only one of its collector.
FlagCovers ==
    /\ \A r \in 1 .. Len(rows) : runner[r] \in Unfinished => active[rows[r].by]
    /\ \A t \in Threads : ~At(t, "idle") => ~active[Owner(t)]
    /\ \A r, s \in 1 .. Len(rows) :
          (runner[r] \in Unfinished /\ runner[s] \in Unfinished /\ rows[r].by = rows[s].by)
              => r = s

\* A row that was just recorded has no thread yet, and nobody asked to cancel it.
RecordedIsNew ==
    /\ \A t \in Threads : At(t, "recorded") =>
          /\ starter[t].seen \in 1 .. Len(rows)
          /\ rows[starter[t].seen].by = Owner(t) /\ runner[starter[t].seen] = "none"
    /\ \A r \in RunIds : r > Len(rows) => runner[r] = "none"
    /\ \A r \in asked : r \in 1 .. Len(rows) /\ runner[r] # "none"

\* The file is of a thread that is about to record a run, of an active run, or of
\* a collector that is dead, and then no other's restart takes it for alive.
LockIsHeld ==
    lockfile # NoFile =>
        /\ lockfile.ino \in Threads
        /\ lockfile.pid \in {Nobody, Owner(lockfile.ino)}
        /\ \/ starter[lockfile.ino].pc \in Holding
           \/ active[Owner(lockfile.ino)]
           \/ ~alive[Owner(lockfile.ino)] /\ lockfile.pid = Nobody

\* A run that has been unlocked has left nothing of its collector's to be released.
UnlockedIsFree ==
    \A r \in 1 .. Len(rows) : runner[r] = "unlocked" =>
        lockfile = NoFile \/ Owner(lockfile.ino) # rows[r].by

\* What ended a run is known from the watch on.
EndIsKnown ==
    \A r \in 1 .. Len(rows) : runner[r] \in {"stopped", "stored"} => ended[r] \in Outcomes

\* The incident of a collector that has the database to itself, written or read.
IncidentMirror ==
    /\ \A c \in Collectors : alive[c] => c \in used
    /\ failures = 0 => \A c \in Collectors : (used = {c} /\ alive[c]) =>
          IF poll[c].was THEN \E x : bench_open = {x} ELSE bench_open = {}

BenchTypes == FlagTypes /\ RunTypes /\ PollTypes

BenchInv ==
    /\ BenchTypes /\ DeadIsStill /\ FlagCovers /\ RecordedIsNew
    /\ LockIsHeld /\ UnlockedIsFree /\ CancelStays
    /\ EndIsKnown /\ NoOrphanRow /\ IncidentMirror

-----------------------------------------------------------------------------
\* Every thread is a collector's.
LEMMA OwnerType == \A t \in Threads : Owner(t) \in Collectors
BY DEF Threads, Owner

\* With one listener in a collector a collector has one thread.
LEMMA Solo ==
    ASSUME OneListener
    PROVE  \A t, u \in Threads : Owner(t) = Owner(u) => t = u
BY DEF OneListener, Threads, Owner

\* The rows of the table, and what they are made of.
LEMMA RowFacts ==
    ASSUME RunTypes
    PROVE  /\ Len(rows) \in Nat /\ MaxRuns \in Nat /\ 1 .. Len(rows) \subseteq RunIds
           /\ \A r \in 1 .. Len(rows) : rows[r].by \in Collectors /\ rows[r].status \in Statuses
           /\ \A r \in 1 .. Len(rows) : rows[r] \in RowType
<1>1. rows \in Seq(RowType) /\ Len(rows) <= MaxRuns /\ MaxRuns \in Nat
  BY BenchAssumption DEF RunTypes
<1>2. Len(rows) \in Nat /\ \A r \in 1 .. Len(rows) : rows[r] \in RowType
  BY <1>1
<1> QED
  BY <1>1, <1>2 DEF RunIds, RowType

\* What a write of one row's status leaves of the others.
LEMMA RowsKeep ==
    ASSUME rows \in Seq(RowType), NEW r \in 1 .. Len(rows), NEW s \in Statuses,
           rows' = [rows EXCEPT ![r].status = s]
    PROVE  /\ rows' \in Seq(RowType) /\ Len(rows') = Len(rows)
           /\ \A i \in 1 .. Len(rows) : /\ rows'[i].by = rows[i].by
                                        /\ rows'[i].status = IF i = r THEN s ELSE rows[i].status
<1>1. /\ Len(rows) \in Nat /\ DOMAIN rows = 1 .. Len(rows) /\ DOMAIN rows' = 1 .. Len(rows)
      /\ \A i \in 1 .. Len(rows) : rows[i] \in RowType
  OBVIOUS
<1>2. \A i \in 1 .. Len(rows) : rows'[i] = IF i = r THEN [rows[i] EXCEPT !.status = s] ELSE rows[i]
  BY <1>1
<1>3. \A i \in 1 .. Len(rows) : /\ rows'[i] \in RowType /\ rows'[i].by = rows[i].by
                                /\ rows'[i].status = IF i = r THEN s ELSE rows[i].status
  BY <1>1, <1>2 DEF RowType
<1>4. rows' = [i \in 1 .. Len(rows) |-> rows'[i]]
  BY <1>1
<1>5. rows' \in [1 .. Len(rows) -> RowType]
  BY <1>3, <1>4
<1> QED
  BY <1>1, <1>3, <1>5

\* A restart closes what is running, and leaves the rest.
LEMMA RowsClose ==
    ASSUME rows \in Seq(RowType), rows' = CloseStale
    PROVE  /\ rows' \in Seq(RowType) /\ Len(rows') = Len(rows)
           /\ \A i \in 1 .. Len(rows) : rows'[i].by = rows[i].by /\ rows'[i].status # "running"
<1>1. /\ Len(rows) \in Nat /\ DOMAIN rows' = 1 .. Len(rows)
      /\ \A i \in 1 .. Len(rows) : rows[i] \in RowType
  BY DEF CloseStale
<1>2. \A i \in 1 .. Len(rows) :
          rows'[i] = IF rows[i].status = "running" THEN [rows[i] EXCEPT !.status = "closed"]
                     ELSE rows[i]
  BY DEF CloseStale
<1>3. \A i \in 1 .. Len(rows) :
          rows'[i] \in RowType /\ rows'[i].by = rows[i].by /\ rows'[i].status # "running"
  BY <1>1, <1>2 DEF RowType, Statuses
<1>4. rows' = [i \in 1 .. Len(rows) |-> rows'[i]]
  BY <1>1 DEF CloseStale
<1>5. rows' \in [1 .. Len(rows) -> RowType]
  BY <1>3, <1>4
<1> QED
  BY <1>1, <1>3, <1>5

\* A recorded run is one row more.
LEMMA RowsGrow ==
    ASSUME rows \in Seq(RowType), NEW c \in Collectors,
           rows' = Append(rows, [by |-> c, status |-> "running"])
    PROVE  /\ rows' \in Seq(RowType) /\ Len(rows') = Len(rows) + 1
           /\ \A i \in 1 .. Len(rows) : rows'[i] = rows[i]
           /\ rows'[Len(rows) + 1] = [by |-> c, status |-> "running"]
<1>1. [by |-> c, status |-> "running"] \in RowType
  BY DEF RowType, Statuses
<1> QED
  BY <1>1

-----------------------------------------------------------------------------
(***************************************************************************)
(* One step                                                                *)
(***************************************************************************)
LEMMA FlagTypesStep ==
    ASSUME FlagTypes, RunTypes, BenchNext
    PROVE  FlagTypes'
<1> USE DEF FlagTypes, PCs, NoFile
<1>1. ASSUME NEW t \in Threads, Check(t) \/ StartStep(t) \/ RequestCancel(t)
      PROVE  FlagTypes'
  <2>1. CASE Check(t)
    BY <2>1, OwnerType DEF Check, At, Goto
  <2>2. CASE CreateLock(t)
    BY <2>2, OwnerType DEF CreateLock, At, Goto
  <2>3. CASE WriteLock(t)
    BY <2>3, OwnerType DEF WriteLock, At, Goto
  <2>4. CASE ReadLock(t)
    BY <2>4, OwnerType DEF ReadLock, At
  <2>5. CASE JudgeLock(t)
    BY <2>5, OwnerType DEF JudgeLock, At, Refuse, Idle
  <2>6. CASE GiveUpLock(t)
    BY <2>6, OwnerType DEF GiveUpLock, At, Refuse, Idle
  <2>7. CASE RecordRow(t)
    <3>1. Len(rows) + 1 \in Nat
      BY RowFacts
    <3> QED
      BY <2>7, <3>1, OwnerType DEF RecordRow, At
  <2>8. CASE RecordFails(t)
    BY <2>8, OwnerType DEF RecordFails, At, Refuse, Idle
  <2>9. CASE Activate(t)
    BY <2>9, OwnerType DEF Activate, At, Refuse, Idle
  <2>10. CASE RequestCancel(t)
    BY <2>10, OwnerType DEF RequestCancel, At
  <2> QED
    BY <1>1, <2>1, <2>2, <2>3, <2>4, <2>5, <2>6, <2>7, <2>8, <2>9, <2>10 DEF StartStep
<1>2. ASSUME NEW r \in 1 .. Len(rows), RunStep(r)
      PROVE  FlagTypes'
  <2>1. rows[r].by \in Collectors
    BY RowFacts
  <2>2. CASE Clear(r)
    BY <2>1, <2>2 DEF Clear
  <2>3. CASE Watch(r)
    BY <2>3 DEF Watch
  <2>4. CASE Store(r)
    BY <2>4 DEF Store
  <2>5. CASE Unlock(r)
    BY <2>5 DEF Unlock
  <2> QED
    BY <1>2, <2>2, <2>3, <2>4, <2>5 DEF RunStep
<1>3. ASSUME NEW c \in Collectors, PollRead(c) \/ PollWrite(c) \/ Dies(c) \/ Recover(c)
      PROVE  FlagTypes'
  <2>1. CASE Dies(c)
    BY <2>1 DEF Dies, Idle
  <2>2. CASE PollRead(c)
    BY <2>2 DEF PollRead
  <2>3. CASE PollWrite(c)
    BY <2>3 DEF PollWrite
  <2>4. CASE Recover(c)
    BY <2>4 DEF Recover
  <2> QED
    BY <1>3, <2>1, <2>2, <2>3, <2>4
<1> QED
  BY <1>1, <1>2, <1>3 DEF BenchNext

\* The types of the runs are kept ...
LEMMA RunTypesStep ==
    ASSUME FlagTypes, RunTypes, EndIsKnown, BenchNext
    PROVE  RunTypes'
<1> USE DEF RunTypes
<1>1. ASSUME NEW t \in Threads, Check(t) \/ StartStep(t) \/ RequestCancel(t)
      PROVE  RunTypes'
  <2>1. CASE RecordRow(t)
    <3>1. rows' = Append(rows, [by |-> Owner(t), status |-> "running"]) /\ Len(rows) < MaxRuns
      BY <2>1 DEF RecordRow
    <3>2. rows' \in Seq(RowType) /\ Len(rows') = Len(rows) + 1
      BY <3>1, OwnerType, RowsGrow
    <3>3. Len(rows') <= MaxRuns
      <4>1. Len(rows) \in Nat /\ MaxRuns \in Nat
        BY RowFacts
      <4> QED
        BY ONLY <3>1, <3>2, <4>1
    <3>4. UNCHANGED <<runner, ended>>
      BY <2>1 DEF RecordRow, bench_history
    <3> QED
      BY <3>2, <3>3, <3>4
  <2>2. CASE Activate(t)
    <3>1. runner' \in [RunIds -> RunnerStates] /\ UNCHANGED <<rows, ended>>
      BY <2>2 DEF Activate, RunnerStates, Unfinished, bench_history
    <3> QED
      BY <3>1
  <2>3. CASE Check(t) \/ CreateLock(t) \/ WriteLock(t) \/ ReadLock(t) \/ JudgeLock(t)
             \/ GiveUpLock(t) \/ RecordFails(t) \/ RequestCancel(t)
    <3>1. UNCHANGED <<rows, runner, ended>>
      BY <2>3 DEF Check, CreateLock, WriteLock, ReadLock, JudgeLock, GiveUpLock, RecordFails,
                  RequestCancel, bench_history
    <3> QED
      BY <3>1
  <2> QED
    BY <1>1, <2>1, <2>2, <2>3 DEF StartStep
<1>2. ASSUME NEW r \in 1 .. Len(rows), RunStep(r)
      PROVE  RunTypes'
  <2>1. runner' \in [RunIds -> RunnerStates]
    BY <1>2 DEF RunStep, Watch, Store, Unlock, Clear, RunnerStates, Unfinished
  <2>2. ended' \in [RunIds -> Outcomes \cup {"not yet"}]
    BY <1>2 DEF RunStep, Watch, Store, Unlock, Clear, Outcomes, bench_history
  <2>3. rows' \in Seq(RowType) /\ Len(rows') = Len(rows)
    <3>1. CASE Store(r) /\ rows' # rows
      <4>1. rows' = [rows EXCEPT ![r].status = ended[r]] /\ ended[r] \in Statuses
        BY <3>1 DEF Store, EndIsKnown, Outcomes, Statuses
      <4> QED
        BY <4>1, RowsKeep
    <3>2. CASE rows' = rows
      BY <3>2
    <3> QED
      BY <1>2, <3>1, <3>2 DEF RunStep, Watch, Store, Unlock, Clear
  <2> QED
    BY <2>1, <2>2, <2>3
<1>3. ASSUME NEW c \in Collectors, PollRead(c) \/ PollWrite(c) \/ Dies(c) \/ Recover(c)
      PROVE  RunTypes'
  <2>1. CASE Dies(c)
    <3>1. runner' \in [RunIds -> RunnerStates] /\ UNCHANGED <<rows, ended>>
      BY <2>1 DEF Dies, RunnerStates, bench_history
    <3> QED
      BY <3>1
  <2>2. CASE Recover(c)
    <3>1. UNCHANGED <<runner, ended>> /\ (rows' = rows \/ rows' = CloseStale)
      BY <2>2 DEF Recover, RecoverDb
    <3>2. rows' \in Seq(RowType) /\ Len(rows') = Len(rows)
      BY <3>1, RowsClose
    <3> QED
      BY <3>1, <3>2
  <2>3. CASE PollRead(c) \/ PollWrite(c)
    <3>1. UNCHANGED <<rows, runner, ended>>
      BY <2>3 DEF PollRead, PollWrite, bench_history
    <3> QED
      BY <3>1
  <2> QED
    BY <1>3, <2>1, <2>2, <2>3
<1> QED
  BY <1>1, <1>2, <1>3 DEF BenchNext

\* The rows of a step are the rows before it, one more, or with other statuses.
LEMMA RowsStep ==
    ASSUME FlagTypes, RunTypes, EndIsKnown, BenchNext
    PROVE  /\ Len(rows') \in Nat /\ Len(rows) \in Nat /\ Len(rows) <= Len(rows')
           /\ \A i \in 1 .. Len(rows) : rows'[i].by = rows[i].by
           /\ Len(rows') # Len(rows) =>
                  \E t \in Threads : RecordRow(t) /\ Len(rows') = Len(rows) + 1
                                     /\ rows'[Len(rows) + 1].by = Owner(t)
<1>1. Len(rows) \in Nat
  BY RowFacts
<1>2. CASE rows' = rows
  BY <1>1, <1>2
<1>3. ASSUME NEW t \in Threads, RecordRow(t)
      PROVE  /\ Len(rows') = Len(rows) + 1 /\ rows'[Len(rows) + 1].by = Owner(t)
             /\ \A i \in 1 .. Len(rows) : rows'[i].by = rows[i].by
  <2>1. rows' = Append(rows, [by |-> Owner(t), status |-> "running"]) /\ rows \in Seq(RowType)
    BY <1>3 DEF RecordRow, RunTypes
  <2>2. /\ Len(rows') = Len(rows) + 1 /\ \A i \in 1 .. Len(rows) : rows'[i] = rows[i]
        /\ rows'[Len(rows) + 1] = [by |-> Owner(t), status |-> "running"]
    BY <2>1, OwnerType, RowsGrow
  <2> QED
    BY <2>2
<1>4. ASSUME NEW r \in 1 .. Len(rows), Store(r), rows' # rows
      PROVE  Len(rows') = Len(rows) /\ \A i \in 1 .. Len(rows) : rows'[i].by = rows[i].by
  <2>1. rows' = [rows EXCEPT ![r].status = ended[r]] /\ ended[r] \in Statuses
    BY <1>4 DEF Store, EndIsKnown, Outcomes, Statuses
  <2> QED
    BY <2>1, RowsKeep DEF RunTypes
<1>5. ASSUME NEW c \in Collectors, Recover(c), rows' # rows
      PROVE  Len(rows') = Len(rows) /\ \A i \in 1 .. Len(rows) : rows'[i].by = rows[i].by
  BY <1>5, RowsClose DEF Recover, RecoverDb, RunTypes
<1>6. \/ rows' = rows
      \/ \E t \in Threads : RecordRow(t)
      \/ \E r \in 1 .. Len(rows) : Store(r)
      \/ \E c \in Collectors : Recover(c)
  BY DEF BenchNext, StartStep, RunStep, Check, CreateLock, WriteLock, ReadLock, JudgeLock, GiveUpLock,
         RecordFails, Activate, RequestCancel, Watch, Unlock, Clear, PollRead, PollWrite, Dies
<1> QED
  BY <1>1, <1>2, <1>3, <1>4, <1>5, <1>6

\* ... and those of the poll.
LEMMA PollTypesStep ==
    ASSUME FlagTypes, PollTypes, BenchNext
    PROVE  PollTypes'
<1>1. failures' \in Nat
  <2>1. failures' = failures \/ failures' = failures + 1
    BY DEF BenchNext, StartStep, RunStep, Check, CreateLock, WriteLock, ReadLock, JudgeLock, GiveUpLock,
           RecordRow, RecordFails, Activate, RequestCancel, Watch, Store, Unlock, Clear, PollRead,
           PollWrite, Dies, Recover, RecoverDb, faults, Fails, Written
  <2> QED
    BY <2>1 DEF PollTypes
<1>2. used' \subseteq Collectors /\ IsFiniteSet(used')
  <2>1. used' = used \/ \E c \in Collectors : used' = used \cup {c}
    BY DEF BenchNext, StartStep, RunStep, Check, CreateLock, WriteLock, ReadLock, JudgeLock, GiveUpLock,
           RecordRow, RecordFails, Activate, RequestCancel, Watch, Store, Unlock, Clear, PollRead,
           PollWrite, Dies, Recover, bench_history
  <2> QED
    BY <2>1, FS_AddElement DEF PollTypes
<1>3. poll' \in [Collectors -> [snap: BOOLEAN, pc: {"read", "write"}, was: BOOLEAN]]
  <2>1. CASE poll' = poll
    BY <2>1 DEF PollTypes
  <2>2. ASSUME NEW c \in Collectors, PollRead(c) \/ PollWrite(c) \/ Dies(c)
        PROVE  poll' \in [Collectors -> [snap: BOOLEAN, pc: {"read", "write"}, was: BOOLEAN]]
    <3> DEFINE Idles == [snap: BOOLEAN, pc: {"read", "write"}, was: BOOLEAN]
    <3>1. poll \in [Collectors -> Idles] /\ poll[c] \in Idles /\ active[c] \in BOOLEAN
      BY DEF FlagTypes, PollTypes
    <3>2. CASE PollRead(c)
      <4>1. [poll[c] EXCEPT !.pc = "write", !.snap = active[c]] \in Idles
        BY <3>1
      <4>2. poll' = [poll EXCEPT ![c] = [poll[c] EXCEPT !.pc = "write", !.snap = active[c]]]
        BY <3>2 DEF PollRead
      <4> HIDE DEF Idles
      <4> QED
        BY <3>1, <4>1, <4>2 DEF Idles
    <3>3. CASE PollWrite(c)
      BY <3>1, <3>3 DEF PollWrite
    <3>4. CASE Dies(c)
      BY <3>1, <3>4 DEF Dies
    <3> QED
      BY <2>2, <3>2, <3>3, <3>4
  <2> QED
    BY <2>1, <2>2 DEF BenchNext, StartStep, RunStep, Check, CreateLock, WriteLock, ReadLock, JudgeLock,
       GiveUpLock, RecordRow, RecordFails, Activate, RequestCancel, Watch, Store, Unlock, Clear, Recover
<1> QED
  BY <1>1, <1>2, <1>3 DEF PollTypes

-----------------------------------------------------------------------------
(***************************************************************************)
(* What a step changes, and which action it is then                        *)
(***************************************************************************)
\* A listener thread moves by its own steps, or dies with its collector.
LEMMA StarterStep ==
    ASSUME FlagTypes, BenchNext, NEW u \in Threads
    PROVE  \/ starter'[u] = starter[u]
           \/ Check(u) \/ StartStep(u)
           \/ Dies(Owner(u)) /\ starter'[u] = Idle
<1>1. ASSUME NEW t \in Threads, t # u, Check(t) \/ StartStep(t)
      PROVE  starter'[u] = starter[u]
  <2>1. \E new : starter' = [starter EXCEPT ![t] = new]
    <3>1. ASSUME NEW pc, Goto(t, pc) PROVE \E new : starter' = [starter EXCEPT ![t] = new]
      <4>1. starter' = [starter EXCEPT ![t] = [starter[t] EXCEPT !.pc = pc]]
        BY <3>1 DEF Goto
      <4> QED
        BY <4>1
    <3>2. CASE Refuse(t)
      BY <3>2 DEF Refuse
    <3>3. CASE Check(t) \/ CreateLock(t) \/ WriteLock(t)
      BY <3>1, <3>3 DEF Check, CreateLock, WriteLock
    <3>4. CASE ReadLock(t)
      <4>1. starter' = [starter EXCEPT ![t] =
                           [starter[t] EXCEPT !.pc = "judging", !.seen = lockfile.pid]]
        BY <3>4 DEF ReadLock
      <4> QED
        BY <4>1
    <3>5. CASE JudgeLock(t)
      BY <3>2, <3>5 DEF JudgeLock
    <3>6. CASE GiveUpLock(t) \/ RecordFails(t) \/ Activate(t)
      BY <3>2, <3>6 DEF GiveUpLock, RecordFails, Activate
    <3>7. CASE RecordRow(t)
      BY <3>7 DEF RecordRow
    <3> QED
      BY <1>1, <3>3, <3>4, <3>5, <3>6, <3>7 DEF StartStep
  <2> QED
    BY <1>1, <2>1 DEF FlagTypes
<1>2. ASSUME NEW c \in Collectors, Dies(c)
      PROVE  starter'[u] = starter[u] \/ (c = Owner(u) /\ starter'[u] = Idle)
  BY <1>2 DEF Dies
<1>3. CASE starter' = starter
  BY <1>3
<1>4. \/ starter' = starter
      \/ \E t \in Threads : Check(t) \/ StartStep(t)
      \/ \E c \in Collectors : Dies(c)
  BY DEF BenchNext, RunStep, RequestCancel, Watch, Store, Unlock, Clear, PollRead, PollWrite, Recover
<1> QED
  BY <1>1, <1>2, <1>3, <1>4

\* A run goes on by its activation and its own thread's steps, or dies with its collector.
LEMMA RunnerStep ==
    ASSUME FlagTypes, RunTypes, BenchNext, NEW i \in RunIds
    PROVE  \/ runner'[i] = runner[i]
           \/ \E t \in Threads : Activate(t) /\ starter[t].seen = i /\ runner'[i] = "running"
           \/ i \in 1 .. Len(rows) /\ RunStep(i)
              /\ <<runner[i], runner'[i]>> \in {<<"running", "stopped">>, <<"stopped", "stored">>,
                                                <<"stored", "unlocked">>, <<"unlocked", "ended">>}
           \/ \E c \in Collectors : Dies(c) /\ i \in RunsOf(c) /\ runner'[i] = "dead"
<1>1. CASE runner' = runner
  BY <1>1
<1>2. ASSUME NEW t \in Threads, Activate(t), runner'[i] # runner[i]
      PROVE  starter[t].seen = i /\ runner'[i] = "running"
  <2>1. runner' = [runner EXCEPT ![starter[t].seen] = "running"]
    BY <1>2 DEF Activate
  <2> QED
    BY <1>2, <2>1 DEF RunTypes
<1>3. ASSUME NEW r \in 1 .. Len(rows), RunStep(r), runner'[i] # runner[i]
      PROVE  /\ i = r
             /\ <<runner[i], runner'[i]>> \in {<<"running", "stopped">>, <<"stopped", "stored">>,
                                               <<"stored", "unlocked">>, <<"unlocked", "ended">>}
  BY <1>3 DEF RunStep, Watch, Store, Unlock, Clear, RunTypes
<1>4. ASSUME NEW c \in Collectors, Dies(c), runner'[i] # runner[i]
      PROVE  i \in RunsOf(c) /\ runner'[i] = "dead"
  BY <1>4 DEF Dies, RunTypes
<1>5. \/ runner' = runner
      \/ \E t \in Threads : Activate(t)
      \/ \E r \in 1 .. Len(rows) : RunStep(r)
      \/ \E c \in Collectors : Dies(c)
  BY DEF BenchNext, StartStep, Check, CreateLock, WriteLock, ReadLock, JudgeLock, GiveUpLock, RecordRow,
         RecordFails, RequestCancel, PollRead, PollWrite, Recover
<1> QED
  BY <1>1, <1>2, <1>3, <1>4, <1>5

\* The flags go up with an activation and a cancel, and down with the end of a run, of
\* its collector, or, that of cancel, with the next activation.
LEMMA FlagStep ==
    ASSUME FlagTypes, RunTypes, BenchNext, NEW c \in Collectors
    PROVE  /\ active'[c] => active[c] \/ \E t \in Threads : Activate(t) /\ Owner(t) = c
           /\ active[c] => \/ active'[c] \/ Dies(c)
                           \/ \E r \in 1 .. Len(rows) : Clear(r) /\ rows[r].by = c
           /\ cancel[c] => \/ cancel'[c] \/ Dies(c)
                           \/ \E t \in Threads : Activate(t) /\ Owner(t) = c
                           \/ \E r \in 1 .. Len(rows) : Clear(r) /\ rows[r].by = c
           /\ alive'[c] => alive[c] \/ Recover(c)
           /\ alive[c] => alive'[c] \/ Dies(c)
<1>1. CASE UNCHANGED <<active, cancel, alive>>
  BY <1>1
<1>2. ASSUME NEW t \in Threads, Activate(t)
      PROVE  /\ active'[c] => active[c] \/ Owner(t) = c
             /\ active[c] => active'[c]
             /\ cancel[c] => cancel'[c] \/ Owner(t) = c
             /\ alive' = alive
  BY <1>2, OwnerType DEF Activate, FlagTypes
<1>3. ASSUME NEW t \in Threads, RequestCancel(t)
      PROVE  cancel[c] => cancel'[c]
  BY <1>3, OwnerType DEF RequestCancel, FlagTypes
<1>4. ASSUME NEW r \in 1 .. Len(rows), Clear(r)
      PROVE  /\ active'[c] => active[c]
             /\ active[c] => active'[c] \/ rows[r].by = c
             /\ cancel[c] => cancel'[c] \/ rows[r].by = c
             /\ alive' = alive
  BY <1>4, RowFacts DEF Clear, FlagTypes
<1>5. ASSUME NEW d \in Collectors, Dies(d)
      PROVE  /\ active'[c] => active[c]
             /\ active[c] => active'[c] \/ c = d
             /\ cancel[c] => cancel'[c] \/ c = d
             /\ alive'[c] => alive[c]
             /\ alive[c] => alive'[c] \/ c = d
  BY <1>5 DEF Dies, FlagTypes
<1>6. ASSUME NEW d \in Collectors, Recover(d)
      PROVE  /\ UNCHANGED <<active, cancel>>
             /\ alive'[c] => alive[c] \/ c = d
             /\ alive[c] => alive'[c]
  BY <1>6 DEF Recover, FlagTypes
<1>7. \/ UNCHANGED <<active, cancel, alive>>
      \/ \E t \in Threads : Activate(t)
      \/ \E t \in Threads : RequestCancel(t) /\ UNCHANGED <<active, alive>>
      \/ \E r \in 1 .. Len(rows) : Clear(r)
      \/ \E d \in Collectors : Dies(d) \/ Recover(d)
  BY DEF BenchNext, StartStep, RunStep, Check, CreateLock, WriteLock, ReadLock, JudgeLock, GiveUpLock,
         RecordRow, RecordFails, RequestCancel, Watch, Store, Unlock, PollRead, PollWrite
<1> QED
  BY <1>1, <1>2, <1>3, <1>4, <1>5, <1>6, <1>7

\* The lock file appears, is written, is emptied of a dead process, or goes.
LEMMA LockStep ==
    ASSUME FlagTypes, BenchNext
    PROVE  \/ lockfile' = lockfile \/ lockfile' = NoFile
           \/ \E t \in Threads : CreateLock(t) /\ lockfile' = [ino |-> t, pid |-> Nobody]
           \/ \E t \in Threads : WriteLock(t) /\ lockfile.ino = t
                                 /\ lockfile' = [ino |-> t, pid |-> Owner(t)]
           \/ \E c \in Collectors : Dies(c) /\ lockfile.pid = c
                                 /\ lockfile' = [ino |-> lockfile.ino, pid |-> Nobody]
<1>1. ASSUME NEW t \in Threads, WriteLock(t), lockfile' # lockfile
      PROVE  lockfile.ino = t /\ lockfile' = [ino |-> t, pid |-> Owner(t)]
  BY <1>1 DEF WriteLock, FlagTypes
<1>2. ASSUME NEW c \in Collectors, Dies(c), lockfile' # lockfile
      PROVE  lockfile.pid = c /\ lockfile' = [ino |-> lockfile.ino, pid |-> Nobody]
  BY <1>2 DEF Dies, FlagTypes
<1>3. \/ lockfile' = lockfile \/ lockfile' = NoFile
      \/ \E t \in Threads : CreateLock(t) \/ WriteLock(t)
      \/ \E c \in Collectors : Dies(c)
  BY DEF BenchNext, StartStep, RunStep, Check, ReadLock, JudgeLock, GiveUpLock, RecordRow, RecordFails,
         Activate, RequestCancel, Watch, Store, Unlock, Clear, PollRead, PollWrite, Recover
<1> QED
  BY <1>1, <1>2, <1>3 DEF CreateLock

-----------------------------------------------------------------------------
(***************************************************************************)
(* What one step keeps                                                     *)
(***************************************************************************)
LEMMA DeadIsStillStep ==
    ASSUME BenchTypes, DeadIsStill, BenchNext
    PROVE  DeadIsStill'
<1> USE DEF BenchTypes
<1>1. ASSUME NEW c \in Collectors, ~alive'[c]
      PROVE  ~active'[c] /\ ~poll'[c].was
  <2>1. CASE Dies(c)
    BY <2>1 DEF Dies, FlagTypes, PollTypes
  <2>2. CASE ~Dies(c)
    <3>1. ~alive[c] /\ ~active[c] /\ ~poll[c].was
      BY <1>1, <2>2, FlagStep DEF DeadIsStill
    <3>2. ASSUME NEW t \in Threads, Activate(t) PROVE Owner(t) # c
      BY <3>1, <3>2 DEF Activate, At, DeadIsStill
    <3>3. ~active'[c]
      BY <3>1, <3>2, FlagStep
    <3>4. ASSUME NEW d \in Collectors, PollRead(d) \/ PollWrite(d) \/ Dies(d)
          PROVE  poll'[c] = poll[c]
      BY <2>2, <3>1, <3>4 DEF PollRead, PollWrite, Dies, PollTypes
    <3>5. poll' = poll \/ \E d \in Collectors : PollRead(d) \/ PollWrite(d) \/ Dies(d)
      BY DEF BenchNext, StartStep, RunStep, Check, CreateLock, WriteLock, ReadLock, JudgeLock,
             GiveUpLock, RecordRow, RecordFails, Activate, RequestCancel, Watch, Store, Unlock,
             Clear, Recover
    <3> QED
      BY <3>1, <3>3, <3>4, <3>5
  <2> QED
    BY <2>1, <2>2
<1>2. ASSUME NEW u \in Threads, ~At(u, "idle")'
      PROVE  alive'[Owner(u)]
  <2>1. Owner(u) \in Collectors
    BY OwnerType
  <2>2. alive[Owner(u)] /\ ~Dies(Owner(u))
    <3>1. CASE starter'[u] = starter[u]
      <4>1. ~Dies(Owner(u))
        <5>1. ASSUME Dies(Owner(u)) PROVE starter'[u] = Idle
          BY <5>1 DEF Dies
        <5> QED
          BY <1>2, <5>1 DEF At, Idle
      <4> QED
        BY <1>2, <3>1, <4>1 DEF At, DeadIsStill
    <3>2. CASE Check(u)
      BY <3>2, <2>1 DEF Check, Dies, FlagTypes
    <3>3. CASE StartStep(u)
      <4>1. ~At(u, "idle") /\ alive' = alive
        BY <3>3 DEF StartStep, At, CreateLock, WriteLock, ReadLock, JudgeLock, GiveUpLock,
                    RecordRow, RecordFails, Activate
      <4> QED
        BY <4>1, <2>1 DEF DeadIsStill, Dies, FlagTypes
    <3>4. starter'[u] # Idle
      BY <1>2 DEF At, Idle
    <3> QED
      BY <3>1, <3>2, <3>3, <3>4, StarterStep
  <2> QED
    BY <2>1, <2>2, FlagStep
<1> QED
  BY <1>1, <1>2 DEF DeadIsStill

\* A thread is past the check, and has recorded a run, by its own steps.
LEMMA BusyStep ==
    ASSUME BenchTypes, BenchNext, NEW u \in Threads
    PROVE  /\ ~At(u, "idle")' => ~At(u, "idle") \/ Check(u)
           /\ At(u, "recorded")' => \/ RecordRow(u) /\ starter'[u].seen = Len(rows) + 1
                                    \/ starter'[u] = starter[u]
<1>1. CASE StartStep(u)
  <2>1. ~At(u, "idle")
    BY <1>1 DEF StartStep, At, CreateLock, WriteLock, ReadLock, JudgeLock, GiveUpLock, RecordRow,
                RecordFails, Activate
  <2>2. At(u, "recorded")' => RecordRow(u)
    <3> USE DEF BenchTypes, FlagTypes
    <3>1. CASE CreateLock(u) \/ WriteLock(u)
      <4>1. starter'[u].pc \in {"created", "locked"}
        BY <3>1 DEF CreateLock, WriteLock, Goto
      <4> QED
        BY <4>1 DEF At
    <3>2. CASE ReadLock(u)
      <4>1. starter'[u].pc = "judging"
        BY <3>2 DEF ReadLock
      <4> QED
        BY <4>1 DEF At
    <3>3. CASE JudgeLock(u)
      <4>1. starter'[u].pc \in {"idle", "checked"}
        BY <3>3 DEF JudgeLock, Refuse, Idle
      <4> QED
        BY <4>1 DEF At
    <3>4. CASE GiveUpLock(u) \/ RecordFails(u) \/ Activate(u)
      <4>1. starter'[u].pc = "idle"
        BY <3>4 DEF GiveUpLock, RecordFails, Activate, Refuse, Idle
      <4> QED
        BY <4>1 DEF At
    <3> QED
      BY <1>1, <3>1, <3>2, <3>3, <3>4 DEF StartStep
  <2>3. RecordRow(u) => starter'[u].seen = Len(rows) + 1
    BY DEF RecordRow, BenchTypes, FlagTypes
  <2> QED
    BY <2>1, <2>2, <2>3
<1>2. CASE Check(u)
  <2>1. starter'[u].pc = "checked"
    BY <1>2 DEF Check, Goto, BenchTypes, FlagTypes
  <2> QED
    BY <1>2, <2>1 DEF At
<1>3. CASE starter'[u] = starter[u]
  BY <1>3 DEF At
<1>4. CASE starter'[u] = Idle
  BY <1>4 DEF At, Idle
<1> QED
  BY <1>1, <1>2, <1>3, <1>4, StarterStep DEF BenchTypes

\* A run that is being worked on was so before, or is the one now activated.
LEMMA UnfinishedStep ==
    ASSUME BenchTypes, RecordedIsNew, EndIsKnown, BenchNext,
           NEW i \in 1 .. Len(rows'), runner'[i] \in Unfinished
    PROVE  /\ i \in 1 .. Len(rows) /\ i \in RunIds /\ rows'[i].by = rows[i].by
           /\ \/ runner[i] \in Unfinished
              \/ \E t \in Threads : Activate(t) /\ starter[t].seen = i
<1> USE DEF BenchTypes
<1>1. i \in RunIds
  <2>1. RunTypes'
    BY RunTypesStep
  <2>2. Len(rows') \in Nat /\ Len(rows') <= MaxRuns /\ MaxRuns \in Nat
    BY <2>1, RowsStep, BenchAssumption DEF RunTypes
  <2> QED
    BY <2>2 DEF RunIds
<1>2. \/ runner[i] \in Unfinished
      \/ \E t \in Threads : Activate(t) /\ starter[t].seen = i
  BY <1>1, RunnerStep DEF Unfinished
<1>3. i \in 1 .. Len(rows)
  <2>1. CASE runner[i] \in Unfinished
    <3>1. runner[i] # "none"
      BY <2>1 DEF Unfinished
    <3> QED
      BY <1>1, <3>1, RowsStep DEF RecordedIsNew
  <2>2. ASSUME NEW t \in Threads, Activate(t), starter[t].seen = i
        PROVE  i \in 1 .. Len(rows)
    BY <2>2 DEF Activate, RecordedIsNew
  <2> QED
    BY <1>2, <2>1, <2>2
<1> QED
  BY <1>1, <1>2, <1>3, RowsStep

\* Each part of the invariant is kept: the flag is set while a run goes on ...
LEMMA FlagCoversStep ==
    ASSUME OneListener, BenchTypes, FlagCovers, RecordedIsNew, EndIsKnown, BenchNext
    PROVE  FlagCovers'
<1> USE DEF BenchTypes
<1>1. ASSUME NEW t \in Threads, Activate(t)
      PROVE  /\ rows[starter[t].seen].by = Owner(t) /\ ~active[Owner(t)] /\ active'[Owner(t)]
             /\ At(t, "idle")' /\ starter[t].seen \in 1 .. Len(rows)
  <2>1. At(t, "recorded") /\ ~At(t, "idle")
    BY <1>1 DEF Activate, At
  <2>2. active'[Owner(t)] /\ starter'[t] = Idle
    BY <1>1, OwnerType DEF Activate, Refuse, FlagTypes
  <2> QED
    BY <2>1, <2>2 DEF FlagCovers, RecordedIsNew, At, Idle
<1>2. ASSUME NEW i \in 1 .. Len(rows'), runner'[i] \in Unfinished
      PROVE  active'[rows'[i].by]
  <2>1. i \in 1 .. Len(rows) /\ i \in RunIds /\ rows'[i].by = rows[i].by
    BY <1>2, UnfinishedStep
  <2>2. rows[i].by \in Collectors
    BY <2>1, RowFacts
  <2>3. CASE runner[i] \in Unfinished
    <3>1. active[rows[i].by]
      BY <2>1, <2>3 DEF FlagCovers
    <3>2. ~Dies(rows[i].by)
      <4>1. Dies(rows[i].by) => runner'[i] = "dead"
        BY <2>1 DEF Dies, RunsOf
      <4> QED
        BY <1>2, <4>1 DEF Unfinished
    <3>3. ASSUME NEW r \in 1 .. Len(rows), Clear(r) PROVE rows[r].by # rows[i].by
      <4>1. runner[r] \in Unfinished /\ runner'[r] = "ended"
        BY <3>3, RowFacts DEF Clear, Unfinished, RunTypes
      <4>2. r # i
        BY <1>2, <4>1 DEF Unfinished
      <4> QED
        BY <2>1, <2>3, <4>1, <4>2 DEF FlagCovers
    <3> QED
      BY <2>1, <2>2, <3>1, <3>2, <3>3, FlagStep
  <2>4. CASE \E t \in Threads : Activate(t) /\ starter[t].seen = i
    BY <1>1, <2>1, <2>4
  <2> QED
    BY <1>2, <2>3, <2>4, UnfinishedStep
<1>3. ASSUME NEW u \in Threads, ~At(u, "idle")'
      PROVE  ~active'[Owner(u)]
  <2>1. ~active[Owner(u)]
    BY <1>3, BusyStep DEF Check, FlagCovers
  <2>2. ASSUME NEW t \in Threads, Activate(t) PROVE Owner(t) # Owner(u)
    BY <1>1, <1>3, <2>2, Solo
  <2> QED
    BY <2>1, <2>2, FlagStep, OwnerType
<1>4. ASSUME NEW i \in 1 .. Len(rows'), NEW j \in 1 .. Len(rows'),
             runner'[i] \in Unfinished, runner'[j] \in Unfinished, rows'[i].by = rows'[j].by
      PROVE  i = j
  <2>1. /\ i \in 1 .. Len(rows) /\ rows'[i].by = rows[i].by
        /\ j \in 1 .. Len(rows) /\ rows'[j].by = rows[j].by
    BY <1>4, UnfinishedStep
  <2>2. CASE runner[i] \in Unfinished /\ runner[j] \in Unfinished
    BY <1>4, <2>1, <2>2 DEF FlagCovers
  <2>3. ASSUME NEW t \in Threads, Activate(t), starter[t].seen = i PROVE i = j
    <3>1. rows[i].by = Owner(t) /\ ~active[rows[j].by]
      BY <1>1, <1>4, <2>1, <2>3
    <3>2. runner[j] \notin Unfinished
      BY <2>1, <3>1 DEF FlagCovers
    <3>3. PICK u \in Threads : Activate(u) /\ starter[u].seen = j
      BY <1>4, <3>2, UnfinishedStep
    <3>4. rows[j].by = Owner(u) /\ rows[i].by = rows[j].by
      BY <1>1, <1>4, <2>1, <3>3
    <3>5. t = u
      BY <3>1, <3>4, Solo
    <3> QED
      BY <2>3, <3>3, <3>5
  <2>4. ASSUME NEW t \in Threads, Activate(t), starter[t].seen = j PROVE i = j
    <3>1. rows[j].by = Owner(t) /\ ~active[rows[i].by]
      BY <1>1, <1>4, <2>1, <2>4
    <3>2. runner[i] \notin Unfinished
      BY <2>1, <3>1 DEF FlagCovers
    <3>3. PICK u \in Threads : Activate(u) /\ starter[u].seen = i
      BY <1>4, <3>2, UnfinishedStep
    <3>4. rows[i].by = Owner(u) /\ rows[i].by = rows[j].by
      BY <1>1, <1>4, <2>1, <3>3
    <3>5. t = u
      BY <3>1, <3>4, Solo
    <3> QED
      BY <2>4, <3>3, <3>5
  <2> QED
    BY <1>4, <2>2, <2>3, <2>4, UnfinishedStep
<1> QED
  BY <1>2, <1>3, <1>4 DEF FlagCovers

\* ... a run that was just recorded has no thread yet ...
LEMMA RecordedIsNewStep ==
    ASSUME OneListener, BenchTypes, RecordedIsNew, EndIsKnown, BenchNext
    PROVE  RecordedIsNew'
<1> USE DEF BenchTypes
<1>1. ASSUME NEW i \in RunIds, runner[i] = "none", runner'[i] # "none"
      PROVE  \/ \E t \in Threads : Activate(t) /\ starter[t].seen = i
             \/ \E c \in Collectors : Dies(c) /\ i \in RunsOf(c)
  BY <1>1, RunnerStep
<1>2. ASSUME NEW i \in RunIds, runner[i] # "none" PROVE runner'[i] # "none"
  BY <1>2, RunnerStep
<1>3. /\ Len(rows) \in Nat /\ Len(rows') \in Nat /\ Len(rows) <= Len(rows')
      /\ Len(rows') <= MaxRuns /\ MaxRuns \in Nat
  BY RowsStep, RunTypesStep, BenchAssumption DEF RunTypes
<1>4. ASSUME NEW i \in RunIds, i > Len(rows) PROVE runner'[i] = "none"
  <2>1. runner[i] = "none"
    BY <1>4 DEF RecordedIsNew
  <2>2. ASSUME NEW t \in Threads, Activate(t) PROVE starter[t].seen # i
    BY <1>3, <1>4, <2>2 DEF Activate, RecordedIsNew, RunIds
  <2>3. ASSUME NEW c \in Collectors PROVE i \notin RunsOf(c)
    BY <1>3, <1>4 DEF RunsOf, RunIds
  <2> QED
    BY <1>1, <2>1, <2>2, <2>3
<1>5. ASSUME NEW u \in Threads, At(u, "recorded")'
      PROVE  /\ starter'[u].seen \in 1 .. Len(rows')
             /\ rows'[starter'[u].seen].by = Owner(u) /\ runner'[starter'[u].seen] = "none"
  <2>1. CASE RecordRow(u) /\ starter'[u].seen = Len(rows) + 1
    <3>1. Len(rows') = Len(rows) + 1 /\ rows'[Len(rows) + 1].by = Owner(u)
      <4>1. rows' = Append(rows, [by |-> Owner(u), status |-> "running"])
        BY <2>1 DEF RecordRow
      <4>2. rows \in Seq(RowType) /\ Owner(u) \in Collectors
        BY OwnerType DEF RunTypes
      <4>3. /\ Len(rows') = Len(rows) + 1
            /\ rows'[Len(rows) + 1] = [by |-> Owner(u), status |-> "running"]
        BY <4>1, <4>2, RowsGrow
      <4> QED
        BY <4>3
    <3>2. Len(rows) + 1 \in RunIds /\ Len(rows) + 1 > Len(rows)
      BY <1>3, <3>1 DEF RunIds
    <3>3. Len(rows) + 1 \in 1 .. Len(rows')
      BY <1>3, <3>1
    <3> QED
      BY <1>4, <2>1, <3>1, <3>2, <3>3
  <2>2. CASE starter'[u] = starter[u]
    <3> DEFINE i == starter[u].seen
    <3>1. /\ At(u, "recorded") /\ i \in 1 .. Len(rows) /\ rows[i].by = Owner(u)
          /\ runner[i] = "none"
      BY <1>5, <2>2 DEF At, RecordedIsNew
    <3>2. rows'[i].by = Owner(u) /\ i \in 1 .. Len(rows') /\ i \in RunIds
      <4> HIDE DEF i
      <4> QED
        BY <1>3, <3>1, RowsStep DEF RunIds
    <3>3. ASSUME NEW t \in Threads, Activate(t) PROVE starter[t].seen # i
      <4>1. SUFFICES ASSUME starter[t].seen = i PROVE FALSE
        OBVIOUS
      <4>2. rows[i].by = Owner(t) /\ starter'[t] = Idle
        BY <3>3, <4>1 DEF Activate, RecordedIsNew, Refuse, FlagTypes
      <4>3. t = u
        BY <3>1, <4>2, Solo
      <4> QED
        BY <1>5, <4>2, <4>3 DEF At, Idle
    <3>4. ASSUME NEW c \in Collectors, Dies(c) PROVE i \notin RunsOf(c)
      <4>1. SUFFICES ASSUME i \in RunsOf(c) PROVE FALSE
        OBVIOUS
      <4>2. c = Owner(u)
        BY <3>1, <4>1 DEF RunsOf
      <4>3. starter'[u] = Idle
        BY <3>4, <4>2 DEF Dies
      <4> QED
        BY <1>5, <4>3 DEF At, Idle
    <3>5. runner'[i] = "none"
      <4> HIDE DEF i
      <4> QED
        BY <1>1, <3>1, <3>2, <3>3, <3>4
    <3> QED
      BY <2>2, <3>2, <3>5
  <2> QED
    BY <1>5, <2>1, <2>2, BusyStep
<1>6. ASSUME NEW i \in RunIds, i > Len(rows') PROVE runner'[i] = "none"
  <2>1. i > Len(rows)
    BY <1>3, <1>6 DEF RunIds
  <2> QED
    BY <1>4, <2>1
<1>7. ASSUME NEW i \in asked' PROVE i \in 1 .. Len(rows') /\ runner'[i] # "none"
  <2>1. i \in 1 .. Len(rows) /\ runner[i] # "none"
    <3>1. CASE i \in asked
      BY <3>1 DEF RecordedIsNew
    <3>2. ASSUME NEW t \in Threads, RequestCancel(t), i \notin asked
          PROVE  i \in 1 .. Len(rows) /\ runner[i] # "none"
      BY <1>7, <3>2 DEF RequestCancel, RunsOf, Unfinished
    <3>3. asked' = asked \/ \E t \in Threads : RequestCancel(t)
      BY DEF BenchNext, StartStep, RunStep, Check, CreateLock, WriteLock, ReadLock, JudgeLock,
             GiveUpLock, RecordRow, RecordFails, Activate, Watch, Store, Unlock, Clear, PollRead,
             PollWrite, Dies, Recover, bench_history
    <3> QED
      BY <1>7, <3>1, <3>2, <3>3
  <2>2. i \in RunIds /\ i \in 1 .. Len(rows')
    BY <1>3, <2>1 DEF RunIds
  <2> QED
    BY <1>2, <2>1, <2>2
<1> QED
  BY <1>5, <1>6, <1>7 DEF RecordedIsNew

\* ... the lock file is of somebody who is at work, or who is dead ...
LEMMA LockIsHeldStep ==
    ASSUME BenchTypes, DeadIsStill, LockIsHeld, UnlockedIsFree, BenchNext
    PROVE  LockIsHeld'
<1> USE DEF BenchTypes
<1> SUFFICES ASSUME lockfile' # NoFile
             PROVE  /\ lockfile'.ino \in Threads
                    /\ lockfile'.pid \in {Nobody, Owner(lockfile'.ino)}
                    /\ \/ starter'[lockfile'.ino].pc \in Holding
                       \/ active'[Owner(lockfile'.ino)]
                       \/ ~alive'[Owner(lockfile'.ino)] /\ lockfile'.pid = Nobody
  BY DEF LockIsHeld
<1> DEFINE t == lockfile.ino
<1>1. ASSUME NEW u \in Threads, CreateLock(u), lockfile' = [ino |-> u, pid |-> Nobody]
      PROVE  lockfile'.ino = u /\ lockfile'.pid = Nobody /\ starter'[u].pc \in Holding
  BY <1>1 DEF CreateLock, Goto, FlagTypes, Holding
<1>2. ASSUME NEW u \in Threads, WriteLock(u), lockfile' = [ino |-> u, pid |-> Owner(u)]
      PROVE  lockfile'.ino = u /\ lockfile'.pid = Owner(u) /\ starter'[u].pc \in Holding
  BY <1>2 DEF WriteLock, Goto, FlagTypes, Holding
<1>3. ASSUME lockfile # NoFile, lockfile'.ino = t, t \in Threads,
             lockfile' # NoFile, lockfile'.pid = lockfile.pid \/ lockfile'.pid = Nobody, ~Dies(Owner(t)),
             \A u \in Threads : ~(WriteLock(u) /\ u = t)
      PROVE  \/ starter'[t].pc \in Holding
             \/ active'[Owner(t)]
             \/ ~alive'[Owner(t)] /\ lockfile'.pid = Nobody
  <2>1. Owner(t) \in Collectors
    BY <1>3, OwnerType
  <2>2. CASE starter[t].pc \in Holding
    <3>1. CASE starter'[t] = starter[t]
      BY <2>2, <3>1
    <3>2. CASE RecordRow(t)
      BY <1>3, <3>2 DEF RecordRow, FlagTypes, Holding
    <3>3. CASE Activate(t)
      BY <2>1, <3>3 DEF Activate, FlagTypes
    <3>4. ~Check(t)
      BY <2>2 DEF Check, At, Holding
    <3>5. StartStep(t) => RecordRow(t) \/ Activate(t)
      BY <1>3, <2>2 DEF StartStep, CreateLock, ReadLock, JudgeLock, GiveUpLock, RecordFails, At,
                        Holding, NoFile
    <3> QED
      BY <1>3, <3>1, <3>2, <3>3, <3>4, <3>5, StarterStep
  <2>3. CASE active[Owner(t)]
    <3>1. ASSUME NEW r \in 1 .. Len(rows), Clear(r) PROVE rows[r].by # Owner(t)
      BY <1>3, <3>1 DEF Clear, UnlockedIsFree
    <3> QED
      BY <1>3, <2>1, <2>3, <3>1, FlagStep
  <2>4. CASE ~alive[Owner(t)] /\ lockfile.pid = Nobody
    <3>1. ~Recover(Owner(t))
      BY <2>4, BenchAssumption DEF Recover, PidAlive
    <3> QED
      BY <1>3, <2>1, <2>4, <3>1, FlagStep
  <2> QED
    BY <1>3, <2>2, <2>3, <2>4 DEF LockIsHeld
<1>4. CASE lockfile' = lockfile
  <2>1. /\ lockfile # NoFile /\ t \in Threads /\ lockfile.pid \in {Nobody, Owner(t)}
    BY <1>4 DEF LockIsHeld
  <2>2. CASE Dies(Owner(t))
    <3>1. ~alive'[Owner(t)]
      BY <2>1, <2>2, OwnerType DEF Dies, FlagTypes
    <3>2. lockfile.pid = Nobody
      <4>1. lockfile.pid = Owner(t) => lockfile'.pid = Nobody
        BY <2>2 DEF Dies, FlagTypes
      <4> QED
        BY <1>4, <2>1, <4>1
    <3> QED
      BY <1>4, <2>1, <3>1, <3>2
  <2>3. CASE WriteLock(t)
    <3>1. starter'[t].pc \in Holding
      BY <2>1, <2>3 DEF WriteLock, Goto, FlagTypes, Holding
    <3> QED
      BY <1>4, <2>1, <3>1
  <2>4. CASE ~Dies(Owner(t)) /\ ~WriteLock(t)
    <3>1. \/ starter'[t].pc \in Holding \/ active'[Owner(t)]
          \/ ~alive'[Owner(t)] /\ lockfile'.pid = Nobody
      BY <1>3, <1>4, <2>1, <2>4
    <3> QED
      BY <1>4, <2>1, <3>1
  <2> QED
    BY <2>2, <2>3, <2>4
<1>5. ASSUME NEW c \in Collectors, Dies(c), lockfile.pid = c,
             lockfile' = [ino |-> lockfile.ino, pid |-> Nobody]
      PROVE  /\ lockfile'.ino \in Threads /\ lockfile'.pid = Nobody
             /\ ~alive'[Owner(lockfile'.ino)]
  <2>1. lockfile # NoFile
    BY <1>5, BenchAssumption DEF NoFile
  <2>2. t \in Threads /\ c = Owner(t)
    BY <1>5, <2>1, BenchAssumption DEF LockIsHeld
  <2>3. ~alive'[c]
    BY <1>5 DEF Dies, FlagTypes
  <2> QED
    BY <1>5, <2>2, <2>3
<1> QED
  BY <1>1, <1>2, <1>4, <1>5, LockStep

\* ... a run that has unlocked has left nothing of its collector's ...
LEMMA UnlockedIsFreeStep ==
    ASSUME BenchTypes, FlagCovers, RecordedIsNew, EndIsKnown, UnlockedIsFree, BenchNext
    PROVE  UnlockedIsFree'
<1> USE DEF BenchTypes
<1> SUFFICES ASSUME NEW i \in 1 .. Len(rows'), runner'[i] = "unlocked"
             PROVE  lockfile' = NoFile \/ Owner(lockfile'.ino) # rows'[i].by
  BY DEF UnlockedIsFree
<1>1. i \in 1 .. Len(rows) /\ i \in RunIds /\ rows'[i].by = rows[i].by
  BY UnfinishedStep DEF Unfinished
<1>2. CASE RunStep(i) /\ runner[i] = "stored"
  <2>1. Unlock(i)
    BY <1>2 DEF RunStep, Watch, Store, Clear
  <2> QED
    BY <2>1 DEF Unlock
<1>3. CASE runner[i] = "unlocked"
  <2>1. active[rows[i].by]
    BY <1>1, <1>3 DEF FlagCovers, Unfinished
  <2>2. ASSUME NEW t \in Threads, CreateLock(t) \/ WriteLock(t)
        PROVE  Owner(t) # rows[i].by
    BY <2>1, <2>2 DEF FlagCovers, CreateLock, WriteLock, At
  <2>3. lockfile = NoFile \/ Owner(lockfile.ino) # rows[i].by
    BY <1>1, <1>3 DEF UnlockedIsFree
  <2>4. ASSUME NEW c \in Collectors, lockfile.pid = c PROVE lockfile # NoFile
    BY <2>4, BenchAssumption DEF NoFile
  <2> QED
    BY <1>1, <2>2, <2>3, <2>4, LockStep
<1>4. runner[i] = "unlocked" \/ (RunStep(i) /\ runner[i] = "stored")
  BY <1>1, RunnerStep
<1> QED
  BY <1>2, <1>3, <1>4

\* ... a request to cancel stays until the run has ended ...
LEMMA CancelStaysStep ==
    ASSUME BenchTypes, FlagCovers, RecordedIsNew, EndIsKnown, CancelStays, BenchNext
    PROVE  CancelStays'
<1> USE DEF BenchTypes
<1> SUFFICES ASSUME NEW i \in asked', runner'[i] = "running" PROVE cancel'[rows'[i].by]
  BY DEF CancelStays
<1>1. ASSUME NEW t \in Threads, RequestCancel(t), i \notin asked
      PROVE  cancel'[rows'[i].by]
  <2>1. i \in RunsOf(Owner(t)) /\ UNCHANGED rows /\ cancel' = [cancel EXCEPT ![Owner(t)] = TRUE]
    BY <1>1 DEF RequestCancel
  <2> QED
    BY <2>1, OwnerType DEF RunsOf, FlagTypes
<1>2. CASE i \in asked
  <2>1. i \in 1 .. Len(rows) /\ runner[i] # "none" /\ i \in RunIds
    BY <1>2, RowFacts DEF RecordedIsNew
  <2>2. ASSUME NEW t \in Threads, Activate(t) PROVE starter[t].seen # i
    BY <2>1, <2>2 DEF Activate, RecordedIsNew
  <2>3. runner[i] = "running"
    BY <2>1, <2>2, RunnerStep
  <2>4. cancel[rows[i].by] /\ active[rows[i].by] /\ rows[i].by \in Collectors
    BY <1>2, <2>1, <2>3, RowFacts DEF CancelStays, FlagCovers, Unfinished
  <2>5. ASSUME NEW t \in Threads, Activate(t) PROVE Owner(t) # rows[i].by
    BY <2>4, <2>5 DEF Activate, At, FlagCovers
  <2>6. ASSUME NEW r \in 1 .. Len(rows), Clear(r) PROVE rows[r].by # rows[i].by
    <3>1. runner[r] = "unlocked"
      BY <2>6 DEF Clear
    <3> QED
      BY <2>1, <2>3, <3>1 DEF FlagCovers, Unfinished
  <2>7. ~Dies(rows[i].by)
    <3>1. Dies(rows[i].by) => runner'[i] = "dead"
      BY <2>1 DEF Dies, RunsOf
    <3> QED
      BY <3>1
  <2> QED
    BY <2>1, <2>4, <2>5, <2>6, <2>7, FlagStep, RowsStep
<1>3. asked' = asked \/ \E t \in Threads : RequestCancel(t)
  BY DEF BenchNext, StartStep, RunStep, Check, CreateLock, WriteLock, ReadLock, JudgeLock, GiveUpLock,
         RecordRow, RecordFails, Activate, Watch, Store, Unlock, Clear, PollRead, PollWrite, Dies,
         Recover, bench_history
<1> QED
  BY <1>1, <1>2, <1>3

\* ... a run that has ended says how ...
LEMMA EndIsKnownStep ==
    ASSUME BenchTypes, RecordedIsNew, EndIsKnown, BenchNext
    PROVE  EndIsKnown'
<1> USE DEF BenchTypes
<1> SUFFICES ASSUME NEW i \in 1 .. Len(rows'), runner'[i] \in {"stopped", "stored"}
             PROVE  ended'[i] \in Outcomes
  BY DEF EndIsKnown
<1>1. i \in 1 .. Len(rows) /\ i \in RunIds
  BY UnfinishedStep DEF Unfinished
<1>2. CASE Watch(i)
  BY <1>1, <1>2 DEF Watch, RunTypes, Outcomes
<1>3. CASE runner[i] \in {"stopped", "stored"}
  <2>1. ASSUME NEW r \in 1 .. Len(rows), Watch(r) PROVE ended'[i] = ended[i]
    <3>1. r # i
      BY <1>3, <2>1 DEF Watch
    <3>2. \E e : ended' = [ended EXCEPT ![r] = e]
      BY <2>1 DEF Watch
    <3> QED
      BY <1>1, <3>1, <3>2 DEF RunTypes
  <2>2. ended' = ended \/ \E r \in 1 .. Len(rows) : Watch(r)
    BY DEF BenchNext, StartStep, RunStep, Check, CreateLock, WriteLock, ReadLock, JudgeLock, GiveUpLock,
           RecordRow, RecordFails, Activate, RequestCancel, Store, Unlock, Clear, PollRead, PollWrite,
           Dies, Recover, bench_history
  <2> QED
    BY <1>1, <1>3, <2>1, <2>2 DEF EndIsKnown
<1>4. runner[i] = "running" /\ RunStep(i) => Watch(i)
  BY DEF RunStep, Store, Unlock, Clear
<1> QED
  BY <1>1, <1>2, <1>3, <1>4, RunnerStep

\* A write that does not fail is one that is written.
LEMMA FailuresStep ==
    ASSUME BenchTypes, BenchNext, failures' = 0
    PROVE  failures = 0
<1>1. failures' = failures \/ failures' = failures + 1
  BY DEF BenchNext, StartStep, RunStep, Check, CreateLock, WriteLock, ReadLock, JudgeLock, GiveUpLock,
         RecordRow, RecordFails, Activate, RequestCancel, Watch, Store, Unlock, Clear, PollRead,
         PollWrite, Dies, Recover, RecoverDb, faults, Fails, Written
<1> QED
  BY <1>1 DEF BenchTypes, PollTypes

\* ... no row is left running without a run ...
LEMMA NoOrphanRowStep ==
    ASSUME BenchTypes, RecordedIsNew, EndIsKnown, NoOrphanRow, BenchNext
    PROVE  NoOrphanRow'
<1> USE DEF BenchTypes
<1> SUFFICES ASSUME failures' = 0, NEW i \in 1 .. Len(rows'), rows'[i].status = "running",
                    alive'[rows'[i].by]
             PROVE  \/ runner'[i] \in {"running", "stopped"}
                    \/ \E t \in Threads : starter'[t].pc = "recorded" /\ starter'[t].seen = i
  BY DEF NoOrphanRow, At
<1>1. failures = 0 /\ failures \in Nat
  BY FailuresStep DEF PollTypes
<1>2. /\ Len(rows) \in Nat /\ Len(rows') \in Nat /\ Len(rows) <= Len(rows')
  BY RowsStep
<1>3. CASE i \notin 1 .. Len(rows)
  <2>1. PICK t \in Threads : RecordRow(t) /\ Len(rows') = Len(rows) + 1
    BY <1>2, <1>3, RowsStep
  <2>2. i = Len(rows) + 1
    BY <1>2, <1>3, <2>1
  <2>3. starter'[t].pc = "recorded" /\ starter'[t].seen = Len(rows) + 1
    BY <2>1 DEF RecordRow, FlagTypes
  <2> QED
    BY <2>2, <2>3
<1>4. CASE i \in 1 .. Len(rows)
  <2>1. rows'[i].by = rows[i].by /\ rows[i].by \in Collectors /\ i \in RunIds
    BY <1>4, RowsStep, RowFacts
  \* No start closed it, and its thread has not stored how it ended.
  <2>2. ASSUME NEW c \in Collectors, Recover(c) PROVE FALSE
    <3>1. rows' = CloseStale
      BY <1>1, <2>2 DEF Recover, RecoverDb, Fails
    <3> QED
      BY <1>4, <3>1, RowsClose DEF RunTypes
  <2>3. ASSUME Store(i) PROVE FALSE
    <3>1. rows' = [rows EXCEPT ![i].status = ended[i]]
      BY <1>1, <2>3 DEF Store, Fails
    <3>2. ended[i] \in Outcomes /\ ended[i] \in Statuses
      BY <1>4, <2>3 DEF Store, EndIsKnown, Outcomes, Statuses
    <3>3. rows'[i].status = ended[i]
      <4>1. rows \in Seq(RowType)
        BY DEF RunTypes
      <4> QED
        BY <1>4, <3>1, <3>2, <4>1, RowsKeep
    <3> QED
      BY <3>2, <3>3 DEF Outcomes
  <2>4. rows[i].status = "running"
    <3>1. ASSUME NEW r \in 1 .. Len(rows), Store(r), r # i, rows' # rows
          PROVE  rows'[i].status = rows[i].status
      <4>1. rows' = [rows EXCEPT ![r].status = ended[r]] /\ ended[r] \in Statuses
        BY <3>1 DEF Store, EndIsKnown, Outcomes, Statuses
      <4>2. rows \in Seq(RowType)
        BY DEF RunTypes
      <4> QED
        BY <1>4, <3>1, <4>1, <4>2, RowsKeep
    <3>2. ASSUME NEW t \in Threads, RecordRow(t) PROVE rows'[i].status = rows[i].status
      <4>1. rows' = Append(rows, [by |-> Owner(t), status |-> "running"]) /\ rows \in Seq(RowType)
        BY <3>2 DEF RecordRow, RunTypes
      <4> QED
        BY <1>4, <4>1, OwnerType, RowsGrow
    <3>3. \/ rows' = rows
          \/ \E t \in Threads : RecordRow(t)
          \/ \E r \in 1 .. Len(rows) : Store(r)
          \/ \E c \in Collectors : Recover(c)
      BY DEF BenchNext, StartStep, RunStep, Check, CreateLock, WriteLock, ReadLock, JudgeLock,
             GiveUpLock, RecordFails, Activate, RequestCancel, Watch, Unlock, Clear, PollRead,
             PollWrite, Dies
    <3> QED
      BY <2>2, <2>3, <3>1, <3>2, <3>3
  <2>5. alive[rows[i].by] /\ ~Dies(rows[i].by)
    <3>1. Dies(rows[i].by) => ~alive'[rows[i].by]
      BY <2>1 DEF Dies, FlagTypes
    <3> QED
      BY <2>1, <2>2, <3>1, FlagStep
  <2>6. CASE runner[i] \in {"running", "stopped"}
    <3>1. ASSUME NEW c \in Collectors, Dies(c) PROVE i \notin RunsOf(c)
      BY <2>5, <3>1 DEF RunsOf
    <3>2. RunStep(i) => runner'[i] = "stopped"
      BY <2>1, <2>3, <2>6 DEF RunStep, Watch, Unlock, Clear, RunTypes
    <3> QED
      BY <2>1, <2>6, <3>1, <3>2, RunnerStep
  <2>7. ASSUME NEW t \in Threads, At(t, "recorded"), starter[t].seen = i
        PROVE  runner'[i] = "running" \/ starter'[t] = starter[t]
    <3>1. rows[i].by = Owner(t)
      BY <2>7 DEF RecordedIsNew
    <3>2. ~Dies(Owner(t)) /\ ~Check(t)
      BY <2>5, <2>7, <3>1 DEF Check, At
    <3>3. StartStep(t) => Activate(t)
      BY <2>7 DEF StartStep, CreateLock, WriteLock, ReadLock, JudgeLock, GiveUpLock, RecordRow,
                  RecordFails, At
    <3>4. Activate(t) => runner'[i] = "running"
      BY <2>1, <2>7 DEF Activate, RunTypes
    <3> QED
      BY <3>2, <3>3, <3>4, StarterStep
  <2> QED
    BY <1>1, <1>4, <2>4, <2>5, <2>6, <2>7 DEF NoOrphanRow, At
<1> QED
  BY <1>3, <1>4

\* ... and what a poll remembers of the incident is what is stored.
LEMMA IncidentMirrorStep ==
    ASSUME BenchTypes, DeadIsStill, IncidentMirror, BenchNext
    PROVE  IncidentMirror'
<1> USE DEF BenchTypes
<1>1. ASSUME NEW c \in Collectors, alive'[c] PROVE c \in used'
  <2>1. used \subseteq used' /\ (Recover(c) => c \in used')
    BY DEF BenchNext, StartStep, RunStep, Check, CreateLock, WriteLock, ReadLock, JudgeLock, GiveUpLock,
           RecordRow, RecordFails, Activate, RequestCancel, Watch, Store, Unlock, Clear, PollRead,
           PollWrite, Dies, Recover, bench_history
  <2> QED
    BY <1>1, <2>1, FlagStep DEF IncidentMirror
<1>2. ASSUME failures' = 0, NEW c \in Collectors, used' = {c}, alive'[c]
      PROVE  IF poll'[c].was THEN \E x : bench_open' = {x} ELSE bench_open' = {}
  <2>1. failures = 0 /\ failures \in Nat
    BY <1>2, FailuresStep DEF PollTypes
  <2>2. ASSUME NEW d \in Collectors, alive[d] PROVE d = c /\ used = {c}
    <3>1. used \subseteq used'
      BY DEF BenchNext, StartStep, RunStep, Check, CreateLock, WriteLock, ReadLock, JudgeLock,
             GiveUpLock, RecordRow, RecordFails, Activate, RequestCancel, Watch, Store, Unlock, Clear,
             PollRead, PollWrite, Dies, Recover, bench_history
    <3> QED
      BY <1>2, <2>2, <3>1 DEF IncidentMirror
  <2>3. ASSUME NEW d \in Collectors, Recover(d)
        PROVE  bench_open' = {} /\ ~poll'[c].was
    <3>1. d = c
      BY <1>2, <2>3 DEF Recover
    <3>2. bench_open' = {}
      BY <1>2, <2>1, <2>3 DEF Recover, RecoverDb, Fails
    <3>3. ~alive[c] /\ poll' = poll
      BY <2>3, <3>1 DEF Recover
    <3> QED
      BY <3>2, <3>3 DEF DeadIsStill
  <2>4. ASSUME NEW d \in Collectors, Dies(d) PROVE FALSE
    <3>1. alive[d]
      BY <2>4 DEF Dies
    <3>2. ~alive'[d]
      BY <2>4 DEF Dies, FlagTypes
    <3> QED
      BY <1>2, <2>2, <3>1, <3>2
  <2>5. CASE \A d \in Collectors : ~Recover(d)
    <3>1. alive[c] /\ used = {c}
      BY <1>2, <2>2, <2>5, FlagStep
    <3>2. IF poll[c].was THEN \E x : bench_open = {x} ELSE bench_open = {}
      BY <2>1, <3>1 DEF IncidentMirror
    <3>3. CASE UNCHANGED bench_open /\ poll'[c].was = poll[c].was
      BY <3>2, <3>3
    <3>4. ASSUME NEW d \in Collectors, PollRead(d)
          PROVE  UNCHANGED bench_open /\ poll'[c].was = poll[c].was
      BY <3>4 DEF PollRead, PollTypes
    <3>5. ASSUME NEW d \in Collectors, PollWrite(d)
          PROVE  IF poll'[c].was THEN \E x : bench_open' = {x} ELSE bench_open' = {}
      <4>1. d = c
        BY <2>2, <3>5 DEF PollWrite
      <4>2. /\ poll'[c].was = poll[c].snap
            /\ bench_open' = IF poll[c].snap = poll[c].was THEN bench_open
                            ELSE IF poll[c].snap THEN bench_open \cup {<<c, Cardinality(bench_open)>>}
                            ELSE {}
        BY <1>2, <2>1, <3>5, <4>1 DEF PollWrite, PollTypes, Fails
      <4>3. poll[c].snap \in BOOLEAN /\ poll[c].was \in BOOLEAN
        BY DEF PollTypes
      <4>4. CASE poll[c].snap /\ ~poll[c].was
        <5>1. bench_open' = {<<c, Cardinality(bench_open)>>}
          BY <3>2, <4>2, <4>4
        <5> QED
          BY <4>2, <4>4, <5>1
      <4> QED
        BY <3>2, <4>2, <4>3, <4>4
    <3>6. \/ UNCHANGED <<bench_open, poll>>
          \/ \E d \in Collectors : PollRead(d) \/ PollWrite(d) \/ Dies(d)
      BY <2>5 DEF BenchNext, StartStep, RunStep, Check, CreateLock, WriteLock, ReadLock, JudgeLock,
             GiveUpLock, RecordRow, RecordFails, Activate, RequestCancel, Watch, Store, Unlock, Clear
    <3> QED
      BY <2>4, <3>3, <3>4, <3>5, <3>6
  <2> QED
    BY <2>3, <2>5
<1> QED
  BY <1>1, <1>2 DEF IncidentMirror

-----------------------------------------------------------------------------
(***************************************************************************)
(* Theorems                                                                *)
(***************************************************************************)
LEMMA BenchInvInit == BenchInit => BenchInv
<1> SUFFICES ASSUME BenchInit PROVE BenchInv
  OBVIOUS
<1>1. PICK d \in Collectors : used = {d}
  BY DEF BenchInit
<1>2. /\ rows = <<>> /\ Len(rows) = 0 /\ 1 .. Len(rows) = {} /\ asked = {} /\ bench_open = {}
      /\ lockfile = NoFile /\ failures = 0
  <2>1. rows = <<>> /\ asked = {} /\ bench_open = {} /\ lockfile = NoFile /\ failures = 0
    BY DEF BenchInit
  <2>2. Len(rows) = 0 /\ 1 .. Len(rows) = {}
    BY <2>1
  <2> QED
    BY <2>1, <2>2
<1>3. FlagTypes
  <2>1. Idle \in [pc: PCs, seen: Collectors \cup {Nobody} \cup Nat, tries: Nat]
    BY DEF Idle, PCs
  <2>2. NoFile \in [ino: Threads \cup {Nobody}, pid: Collectors \cup {Nobody}]
    BY DEF NoFile
  <2>3. alive \in [Collectors -> BOOLEAN]
    <3>1. alive = [c \in Collectors |-> c \in used]
      BY DEF BenchInit
    <3>2. \A c \in Collectors : (c \in used) \in BOOLEAN
      OBVIOUS
    <3> QED
      BY <3>1, <3>2, Zenon
  <2> QED
    BY <2>1, <2>2, <2>3 DEF BenchInit, FlagTypes
<1>4. RunTypes
  <2>1. rows \in Seq(RowType) /\ Len(rows) <= MaxRuns
    BY <1>2, BenchAssumption
  <2> QED
    BY <2>1 DEF BenchInit, RunTypes, RunnerStates
<1>5. PollTypes
  <2>1. IsFiniteSet(used)
    BY <1>1, FS_Singleton
  <2>2. poll = [c \in Collectors |-> [snap |-> FALSE, pc |-> "read", was |-> FALSE]]
    BY DEF BenchInit
  <2>3. poll \in [Collectors -> [snap: BOOLEAN, pc: {"read", "write"}, was: BOOLEAN]]
    BY <2>2
  <2> QED
    BY <1>1, <1>2, <2>1, <2>3 DEF PollTypes
<1>6. \A t \in Threads : starter[t] = Idle /\ At(t, "idle")
  BY DEF BenchInit, At, Idle
<1>7. DeadIsStill
  BY <1>6 DEF BenchInit, DeadIsStill
<1>8. FlagCovers /\ UnlockedIsFree /\ EndIsKnown
  BY <1>2, <1>6 DEF FlagCovers, UnlockedIsFree, EndIsKnown
<1>9. RecordedIsNew
  BY <1>2, <1>6 DEF BenchInit, RecordedIsNew, At, Idle
<1>10. LockIsHeld /\ CancelStays /\ NoOrphanRow
  BY <1>2 DEF LockIsHeld, CancelStays, NoOrphanRow
<1>11. IncidentMirror
  BY <1>1, <1>2 DEF BenchInit, IncidentMirror
<1> QED
  BY <1>3, <1>4, <1>5, <1>7, <1>8, <1>9, <1>10, <1>11 DEF BenchInv, BenchTypes

\* The invariant does not depend on anything else.
LEMMA BenchInvStutters == BenchInv /\ UNCHANGED bench_vars => BenchInv'
<1> SUFFICES ASSUME BenchInv, UNCHANGED bench_vars PROVE BenchInv'
  OBVIOUS
<1> USE DEF BenchInv, BenchTypes, bench_vars
<1>1. FlagTypes'
  BY DEF FlagTypes
<1>2. RunTypes'
  BY DEF RunTypes
<1>3. PollTypes'
  BY DEF PollTypes
<1>4. DeadIsStill'
  BY DEF DeadIsStill, At
<1>5. FlagCovers'
  BY DEF FlagCovers, At
<1>6. RecordedIsNew'
  BY DEF RecordedIsNew, At
<1>7. LockIsHeld' /\ UnlockedIsFree'
  BY DEF LockIsHeld, UnlockedIsFree
<1>8. CancelStays' /\ EndIsKnown'
  BY DEF CancelStays, EndIsKnown
<1>9. NoOrphanRow'
  BY DEF NoOrphanRow, At
<1>10. IncidentMirror'
  BY DEF IncidentMirror
<1> QED
  BY <1>1, <1>2, <1>3, <1>4, <1>5, <1>6, <1>7, <1>8, <1>9, <1>10

\* So the invariant is kept by every step.
LEMMA BenchInvStep == OneListener /\ BenchInv /\ [BenchNext]_bench_vars => BenchInv'
<1> SUFFICES ASSUME OneListener, BenchInv, BenchNext PROVE BenchInv'
  BY BenchInvStutters
<1> USE DEF BenchInv
<1>1. BenchTypes'
  BY FlagTypesStep, RunTypesStep, PollTypesStep DEF BenchTypes
<1>2. DeadIsStill' /\ IncidentMirror'
  BY DeadIsStillStep, IncidentMirrorStep
<1>3. FlagCovers' /\ RecordedIsNew' /\ EndIsKnown' /\ NoOrphanRow'
  BY FlagCoversStep, RecordedIsNewStep, EndIsKnownStep, NoOrphanRowStep
<1>4. LockIsHeld' /\ UnlockedIsFree' /\ CancelStays'
  BY LockIsHeldStep, UnlockedIsFreeStep, CancelStaysStep
<1> QED
  BY <1>1, <1>2, <1>3, <1>4

\* What flags, lock file, rows, threads and incident of a bench have to do with each other.
THEOREM BenchIsConsistent == OneListener /\ BenchSpec => []BenchInv
<1> SUFFICES ASSUME OneListener PROVE BenchSpec => []BenchInv
  OBVIOUS
<1>1. BenchInv /\ [BenchNext]_bench_vars => BenchInv'
  BY BenchInvStep
<1> QED
  BY <1>1, BenchInvInit, PTL DEF BenchSpec

\* No load is on the engine that the poll loop and the probe do not know of
\* (bench_run.rs:40).
THEOREM LoadIsAlwaysAnnounced == OneListener /\ BenchSpec => []LoadIsAnnounced
<1>1. BenchInv => LoadIsAnnounced
  BY DEF BenchInv, FlagCovers, LoadIsAnnounced, InState, Unfinished
<1> QED
  BY <1>1, BenchIsConsistent, PTL

\* However a start is refused, a write fails, a run ends or a collector dies, its lock
\* does not outlive it to refuse the next one.
THEOREM NoLockLeaks == OneListener /\ BenchSpec => []NoLeakedLock
<1>1. BenchInv => NoLeakedLock
  <2> SUFFICES ASSUME BenchInv, lockfile # NoFile,
                      \A c \in Collectors : alive[c] /\ ~active[c],
                      \A t \in Threads : At(t, "idle")
               PROVE  FALSE
    BY DEF NoLeakedLock
  <2> QED
    BY OwnerType DEF BenchInv, LockIsHeld, At, Holding
<1> QED
  BY <1>1, BenchIsConsistent, PTL

\* What the database says is running is running, and its incident is the one that the
\* poll loop last saw.
THEOREM RecordsAreAlwaysLive == OneListener /\ BenchSpec => []RecordsAreLive
<1>1. BenchInv => RecordsAreLive
  <2> SUFFICES ASSUME BenchInv PROVE IncidentIsTheBench
    BY DEF BenchInv, RecordsAreLive
  <2> SUFFICES ASSUME failures = 0, Cardinality(used) = 1, NEW c \in Collectors, alive[c]
               PROVE  Cardinality(bench_open) = IF poll[c].was THEN 1 ELSE 0
    BY DEF IncidentIsTheBench
  <2>1. used = {c}
    <3>1. PICK x : used = {x}
      BY FS_Singleton DEF BenchInv, BenchTypes, PollTypes
    <3> QED
      BY <3>1 DEF BenchInv, IncidentMirror
  <2>2. IF poll[c].was THEN \E x : bench_open = {x} ELSE bench_open = {}
    BY <2>1 DEF BenchInv, IncidentMirror
  <2> QED
    BY <2>2, FS_Singleton, FS_EmptySet
<1> QED
  BY <1>1, BenchIsConsistent, PTL

\* No activation and no end of another run takes back a cancel that was accepted.
THEOREM CancelAlwaysStays == OneListener /\ BenchSpec => []CancelStays
<1>1. BenchInv => CancelStays
  BY DEF BenchInv
<1> QED
  BY <1>1, BenchIsConsistent, PTL

\* The half of bench_run.rs:7 "one bench at a time" that holds: within a process.
OneRunAProcess ==
    \A r, s \in 1 .. Len(rows) :
        (runner[r] \in Unfinished /\ runner[s] \in Unfinished /\ rows[r].by = rows[s].by) => r = s

\* A collector works on one run at a time, from its activation until it is cleared.
THEOREM OneRunIsUnfinished == OneListener /\ BenchSpec => []OneRunAProcess
<1>1. BenchInv => OneRunAProcess
  BY DEF BenchInv, FlagCovers, OneRunAProcess
<1> QED
  BY <1>1, BenchIsConsistent, PTL

=============================================================================

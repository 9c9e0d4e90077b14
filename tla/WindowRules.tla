---------------------------- MODULE WindowRules -----------------------------
(***************************************************************************)
(* The rules of the alert engine that look back over a window: the disk's  *)
(* level with its hysteresis and its pace, and the growth of the gate's    *)
(* count of rejected requests.  A poll without a reading steps none of     *)
(* them.  The two reject codes have a window and a timer each and are      *)
(* alike; one is modelled.                                                 *)
(***************************************************************************)
EXTENDS PollClock, SequencesExt

CONSTANTS
    DiskSize,           \* the space the disk has
    WarnLine, PageLine, \* disk_warn_pct, disk_page_pct: space used
    Margin,             \* disk_recover_margin_pct
    DiskHold,           \* disk_secs
    GrowthLine,         \* disk_growth_gb: space lost ...
    GrowthSecs,         \* ... within disk_growth_secs
    RejectLine,         \* reject_growth: more requests than this ...
    RejectSecs          \* ... within reject_window_secs

ASSUME WindowAssumption ==
    {DiskSize, WarnLine, PageLine, Margin, DiskHold, GrowthLine, GrowthSecs,
     RejectLine, RejectSecs} \subseteq Nat

NoReading == -1

VARIABLES
    disk_full, disk_full_page,      \* the timers of the level
    disk_points, disk_growth,       \* DiskGrowth: its points, newest last, and its timer
    reject_points, rejects,         \* GrowthWindow: likewise
    disk_out, reject_out            \* the last evaluation's edges, drop and growth

\* History: every reading of the free space, and every reading of the count.
VARIABLES disk_read, count_read

window_vars == <<disk_full, disk_full_page, disk_points, disk_growth, reject_points,
                 rejects, disk_out, reject_out, disk_read, count_read>>

WindowObservation == [used: (0 .. DiskSize) \cup {NoReading}, count: Nat \cup {NoReading}]

(***************************************************************************)
(* Mutants.                                                                *)
(***************************************************************************)
\* Every point as old as the window goes.
PrunedToYoung(points, t, window) ==
    SelectSeq(points, LAMBDA p : p[1] > t - window)

\* A counter that went backwards is measured against its old points.
CountPointsGoOn(t, count) == Append(reject_points, <<t, count>>)

\* The warn stands down where the page takes over.
OverBelowPage(timer, used, line) ==
    /\ used >= IF timer.announced THEN line - Margin ELSE line
    /\ line = WarnLine => used < PageLine

-----------------------------------------------------------------------------
\* The points of which a later one is old enough for the window are popped.
Pruned(points, t, window) ==
    LET old == {i \in 1 .. Len(points) : points[i][1] <= t - window}
    IN  SubSeq(points, Max(old \cup {1}), Len(points))

(***************************************************************************)
(* eval_disk.                                                              *)
(***************************************************************************)
\* Once announced, a rule stays over until the margin below its line.
Over(timer, used, line) == used >= IF timer.announced THEN line - Margin ELSE line

DiskPoints(t, used) == Pruned(Append(disk_points, <<t, DiskSize - used>>), t, GrowthSecs)

Drop(t, used) ==
    Max({0} \cup {p[2] - (DiskSize - used) : p \in ToSet(DiskPoints(t, used))})

NoDisk == [full |-> "None", page |-> "None", growth |-> "None", drop |-> NoReading]

ReadDisk(t, used) ==
    LET full == Over(disk_full, used, WarnLine)
        page == Over(disk_full_page, used, PageLine)
        fast == Drop(t, used) >= GrowthLine
    IN  /\ disk_full' = Step(disk_full, t, full, DiskHold, Cooldown)
        /\ disk_full_page' = Step(disk_full_page, t, page, DiskHold, Cooldown)
        /\ disk_points' = DiskPoints(t, used)
        /\ disk_growth' = Step(disk_growth, t, fast, DiskHold, Cooldown)
        /\ disk_out' = [full |-> EdgeOf(disk_full, t, full, DiskHold, Cooldown),
                        page |-> EdgeOf(disk_full_page, t, page, DiskHold, Cooldown),
                        growth |-> EdgeOf(disk_growth, t, fast, DiskHold, Cooldown),
                        drop |-> Drop(t, used)]
        /\ disk_read' = Append(disk_read, <<t, DiskSize - used>>)

\* "No reading holds both rules as they are", and the window as well.
EvalDisk(t, used) ==
    IF used = NoReading
    THEN /\ disk_out' = NoDisk
         /\ UNCHANGED <<disk_full, disk_full_page, disk_points, disk_growth, disk_read>>
    ELSE ReadDisk(t, used)

(***************************************************************************)
(* eval_rejects.                                                           *)
(***************************************************************************)
Backwards(count) == reject_points # <<>> /\ count < Last(reject_points)[2]

CountPoints(t, count) == Append(IF Backwards(count) THEN <<>> ELSE reject_points, <<t, count>>)

ReadRejects(t, count) ==
    LET points == Pruned(CountPoints(t, count), t, RejectSecs)
        growth == count - points[1][2]
    IN  /\ reject_points' = points
        /\ rejects' = Step(rejects, t, growth > RejectLine, 0, Cooldown)
        /\ reject_out' = [edge |-> EdgeOf(rejects, t, growth > RejectLine, 0, Cooldown),
                          growth |-> growth]
        /\ count_read' = Append(count_read, <<t, count>>)

EvalRejects(t, count) ==
    IF count = NoReading
    THEN /\ reject_out' = [edge |-> "None", growth |-> NoReading]
         /\ UNCHANGED <<reject_points, rejects, count_read>>
    ELSE ReadRejects(t, count)

WindowInit ==
    /\ disk_full = IdleTimer /\ disk_full_page = IdleTimer /\ disk_growth = IdleTimer
    /\ disk_points = <<>> /\ disk_out = NoDisk /\ disk_read = <<>>
    /\ rejects = IdleTimer /\ reject_points = <<>> /\ count_read = <<>>
    /\ reject_out = [edge |-> "None", growth |-> NoReading]

EvalWindows(t, w) == EvalDisk(t, w.used) /\ EvalRejects(t, w.count)

-----------------------------------------------------------------------------
Points == Seq(Nat \X Nat)

WindowTypeOK ==
    /\ disk_full \in TimerType /\ disk_full_page \in TimerType
    /\ disk_growth \in TimerType /\ rejects \in TimerType
    /\ disk_points \in Points /\ reject_points \in Points
    /\ disk_out \in [full: Edges, page: Edges, growth: Edges, drop: Nat \cup {NoReading}]
    /\ reject_out \in [edge: Edges, growth: Nat \cup {NoReading}]
    /\ disk_read \in Points /\ count_read \in Points

\* A disk the reader was paged about is also one he was warned about, unless the
\* warn's own cooldown held it back at the last reading: the two hystereses do not
\* let the warn go while the page stays, when the lines are further apart than the
\* margin.
PageHasItsWarn ==
    (disk_full_page.announced /\ WarnLine <= PageLine - Margin) =>
        \/ disk_full.announced
        \/ ~Cooled(disk_full.last_sent, Last(disk_read)[1], Cooldown)

\* The readings that were the newest one at some time of the window.
InEffect(readings, window) ==
    {readings[i] : i \in {j \in 1 .. Len(readings) :
        j = Len(readings) \/ readings[j + 1][1] > Last(readings)[1] - window}}

\* rules.rs:235 "the biggest drop across it: how much MORE space was available at some
\* point in the window than now": the pruned points lose none that matters.
DropIsTheLargestFall ==
    disk_out.drop # NoReading =>
        disk_out.drop = Max({p[2] - Last(disk_read)[2] : p \in InEffect(disk_read, GrowthSecs)})

\* The requests rejected between two readings: a count that went backwards began again.
RejectedFrom(i) ==
    LET before == count_read[i][2]  after == count_read[i + 1][2]
    IN  IF after < before THEN after ELSE after - before

\* rules.rs:254 "A counter that went backwards (the gate restarted) resets the window
\* instead of reporting nonsense": the growth that is reported happened within the
\* window, whatever the gate did in it.
GrowthWasRejected ==
    reject_out.growth # NoReading =>
        LET recent == {i \in 1 .. Len(count_read) - 1 :
                          count_read[i + 1][1] > Last(count_read)[1] - RejectSecs}
        IN  reject_out.growth \in 0 .. MapThenSumSet(RejectedFrom, recent)

=============================================================================

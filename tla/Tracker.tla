------------------------------ MODULE Tracker ------------------------------
(***************************************************************************)
(* The incident tracker (crates/lss-core/src/incidents.rs): what one poll  *)
(* does to the down tracker of a service and to the last seen identity of  *)
(* a container, and which incident operation it asks for.                  *)
(***************************************************************************)
EXTENDS Sustained, FiniteSets

\* Consecutive failed polls before a down incident opens.
MISSES_TO_OPEN == 2

\* The struct DownTracker.  Misses are only ever compared with MISSES_TO_OPEN,
\* so the saturating counter stops there.
DownType == [misses: 0 .. MISSES_TO_OPEN, first_miss: OptTime, open_since: OptTime]

UpTracker == [misses |-> 0, first_miss |-> NoTime, open_since |-> NoTime]

NoOp == [op |-> "none", at |-> NoTime]
Open(start) == [op |-> "open", at |-> start]
Close(end) == [op |-> "close", at |-> end]

\* A container that was never inspected.
Unseen == [name |-> "none", restart_count |-> 0, started_at |-> 0]

(***************************************************************************)
(* Mutants.                                                                *)
(***************************************************************************)
\* The incident is dated from the poll that opened it.
DownOpensNow(d, now, up) ==
    LET misses == IF d.misses = MISSES_TO_OPEN THEN d.misses ELSE d.misses + 1
    IN  IF up THEN UpTracker
        ELSE [misses |-> misses, first_miss |-> Since([since |-> d.first_miss], now),
              open_since |-> IF d.open_since = NoTime /\ misses >= MISSES_TO_OPEN
                             THEN now ELSE d.open_since]

\* Only the restart count tells two runs apart.
IsRestartByCount(prev, cur) ==
    prev # Unseen /\ (cur.name # prev.name \/ cur.restart_count # prev.restart_count)

-----------------------------------------------------------------------------
\* DownTracker::step: the tracker it leaves ...
DownStep(d, now, up) ==
    LET misses == IF d.misses = MISSES_TO_OPEN THEN d.misses ELSE d.misses + 1
        first == IF d.first_miss = NoTime THEN now ELSE d.first_miss
    IN  IF up THEN UpTracker
        ELSE [misses |-> misses, first_miss |-> first,
              open_since |-> IF d.open_since = NoTime /\ misses >= MISSES_TO_OPEN
                             THEN first ELSE d.open_since]

\* ... and the operation it asks for: the tracker opened or closed.
DownOp(d, now, up) ==
    LET opened == DownStep(d, now, up).open_since
    IN  IF d.open_since = opened THEN NoOp
        ELSE IF opened = NoTime THEN Close(now) ELSE Open(opened)

\* restart_detail: cur is a different run of the container than prev.
IsRestart(prev, cur) ==
    /\ prev # Unseen
    /\ \/ cur.name # prev.name
       \/ cur.restart_count # prev.restart_count
       \/ cur.started_at # prev.started_at /\ cur.started_at # 0

\* The time the restart is booked at.
EventTs(prev, cur, now) ==
    IF cur.started_at > prev.started_at THEN cur.started_at ELSE now

\* What the wording of the event tells apart: which of the three differences it
\* names, and its numbers.
EventDetail(prev, cur) ==
    CASE cur.name # prev.name -> <<"replaced", prev.name, cur.name>>
      [] cur.name = prev.name /\ cur.restart_count # prev.restart_count ->
             <<"RestartCount", prev.restart_count, cur.restart_count>>
      [] OTHER -> <<"StartedAt", cur.started_at - prev.started_at, 0>>

=============================================================================

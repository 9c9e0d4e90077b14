----------------------------- MODULE PollClock -----------------------------
(***************************************************************************)
(* What every family of alert rules shares: the clock of the poll that is  *)
(* being evaluated, the cooldown of repeated messages (cooldown_secs), and *)
(* the bounds on the clock that TLC needs.                                 *)
(***************************************************************************)
EXTENDS Sustained

CONSTANTS
    Cooldown,       \* cooldown_secs
    MaxGap,         \* bound: the longest time between two polls
    MaxTime         \* bound: the last clock reading

ASSUME ClockAssumption == Cooldown \in Nat /\ MaxGap \in Nat /\ MaxTime \in Nat

VARIABLE now

\* The clock of the next poll.  A gap of zero is a clock that reads the same
\* second again.
NextPoll == {t \in now .. now + MaxGap : t <= MaxTime}

=============================================================================

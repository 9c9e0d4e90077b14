----------------------------- MODULE Sustained -----------------------------
(***************************************************************************)
(* The hold-and-cooldown timer behind every level rule of the alert engine *)
(* (crates/lss-core/src/rules.rs).  It is stepped once per poll with the   *)
(* poll's clock, the rule's condition and the rule's two durations, and    *)
(* answers with an edge.                                                   *)
(*                                                                         *)
(* Clock readings are natural numbers; NoTime stands for Option::None.     *)
(***************************************************************************)
EXTENDS Integers, Sequences

NoTime == -1

OptTime == Nat \cup {NoTime}

\* The struct Sustained: when the condition became true, whether a message was
\* sent for it, and when the last message was sent.
TimerType == [since: OptTime, announced: BOOLEAN, last_sent: OptTime]

IdleTimer == [since |-> NoTime, announced |-> FALSE, last_sent |-> NoTime]

Edges == {"None", "Fire", "Recover"}

(***************************************************************************)
(* Mutants of the definitions below: each is a plausible slip in the code. *)
(***************************************************************************)
CooledAlways(last, now, cooldown) == TRUE

SinceEveryPoll(s, now) == now

\* A timer that is still pending recovers too.
EdgeRecoversPending(s, now, cond, hold, cooldown) ==
    IF ~cond /\ s.since # NoTime THEN "Recover" ELSE "None"

\* The start of the run of true readings outlives the run.
StepKeepsSince(s, now, cond, hold, cooldown) ==
    LET since == IF s.since = NoTime THEN now ELSE s.since
    IN  IF ~cond THEN [s EXCEPT !.announced = FALSE]
        ELSE IF /\ now - since >= hold /\ ~s.announced
                /\ s.last_sent = NoTime \/ now - s.last_sent >= cooldown
             THEN [since |-> since, announced |-> TRUE, last_sent |-> now]
             ELSE [s EXCEPT !.since = since]

-----------------------------------------------------------------------------

\* Sustained::cooled and Engine::event_cooled: enough time since the last one.
Cooled(last, now, cooldown) == last = NoTime \/ now - last >= cooldown

\* get_or_insert: the start of the current run of true readings.
Since(s, now) == IF s.since = NoTime THEN now ELSE s.since

\* The guard of a Fire: held long enough, not yet announced, cooldown over.
Due(s, now, hold, cooldown) ==
    /\ now - Since(s, now) >= hold
    /\ ~s.announced
    /\ Cooled(s.last_sent, now, cooldown)

\* What Sustained::step returns ...
EdgeOf(s, now, cond, hold, cooldown) ==
    IF cond
    THEN IF Due(s, now, hold, cooldown) THEN "Fire" ELSE "None"
    ELSE IF s.announced THEN "Recover" ELSE "None"

\* ... and the timer it leaves behind.
Step(s, now, cond, hold, cooldown) ==
    IF ~cond
    THEN [s EXCEPT !.since = NoTime, !.announced = FALSE]
    ELSE IF Due(s, now, hold, cooldown)
         THEN [since |-> Since(s, now), announced |-> TRUE, last_sent |-> now]
         ELSE [s EXCEPT !.since = Since(s, now)]

=============================================================================

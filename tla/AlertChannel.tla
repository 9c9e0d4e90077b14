---------------------------- MODULE AlertChannel ----------------------------
(***************************************************************************)
(* What the reader of the alerts is promised, whatever the rules behind    *)
(* them are (the header of crates/lss-core/src/rules.rs): alerts of one    *)
(* topic are a cooldown apart, a condition is told once, and a recovery    *)
(* answers something that was told, and all that was told under its name.  *)
(* Nothing here knows of timers, hold times, restarts or polls.            *)
(***************************************************************************)
EXTENDS Integers

CONSTANTS
    Topics,     \* what is alerted
    Conditions, \* ... the topics that hold for a while, and are told once in it
    OneOff,     \* ... those that nothing answers
    Names,      \* the names a recovery goes by
    Name,       \* the name that answers each topic
    Never,      \* the time of an alert that was not sent
    Spacing     \* the cooldown

VARIABLES
    clock,
    told,       \* the topics the reader was told of and waits for an answer to
    sent,       \* per topic: when its last alert was sent
    said        \* the messages of the last poll: the topics alerted, the names answered

channel_vars == <<clock, told, sent, said>>

Init ==
    /\ clock \in Nat
    /\ told = {} /\ sent = [k \in Topics |-> Never]
    /\ said = [alerts |-> {}, over |-> {}]

Spaced(k) == sent[k] = Never \/ clock' - sent[k] >= Spacing

\* A condition is not told again while it waits for its answer, nor with one.
MayAlert(k) ==
    /\ Spaced(k)
    /\ k \in Conditions => k \notin told /\ Name[k] \notin said'.over

\* An answer is owed.
MayAnswer(n) == \E k \in (told \cup said'.alerts) \ OneOff : Name[k] = n

Next ==
    /\ clock' \in Nat /\ clock' >= clock
    /\ said' \in [alerts: SUBSET Topics, over: SUBSET Names]
    /\ \A k \in said'.alerts : MayAlert(k)
    /\ \A n \in said'.over : MayAnswer(n)
    /\ told' = {k \in told \cup (said'.alerts \ OneOff) : Name[k] \notin said'.over}
    /\ sent' = [k \in Topics |-> IF k \in said'.alerts THEN clock' ELSE sent[k]]

Spec == Init /\ [][Next]_channel_vars
=============================================================================

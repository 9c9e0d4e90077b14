---------------------------- MODULE Availability ----------------------------
(***************************************************************************)
(* The rules of the alert engine about the two services (rules.rs):        *)
(* serve_down with its page escalation, gate_down, container_restart with  *)
(* the "stable again" message it owes, and the Xid alerts, evaluated in    *)
(* this order once per poll.  One step of the specification is one call of *)
(* Engine::evaluate for these rules, on any observation.                   *)
(***************************************************************************)
EXTENDS PollClock

CONSTANTS
    WarnHold,       \* serve_down_secs
    PageHold,       \* serve_down_page_secs
    GateHold,       \* gate_down_secs
    StableSecs,     \* restart_stable_secs
    Gpus,           \* the devices an Xid line can name
    Roles           \* the container roles watched for restarts

ASSUME TimesAssumption ==
    /\ WarnHold \in Nat /\ PageHold \in Nat /\ GateHold \in Nat
    /\ StableSecs \in Nat

LevelRules == {"serve_down", "serve_down_page", "gate_down"}

ASSUME KeysAssumption ==
    /\ Roles \subseteq {"serve", "gate"}
    /\ Gpus \cap (Roles \cup LevelRules) = {}

\* The state of the engine.
VARIABLES
    serve_down, serve_down_page, gate_down,
    event_last_sent,    \* per role or device: when its last event alert was sent
    restart_pending,    \* per role: the restart a "stable again" is owed for
    restart_planned,    \* per role: that restart was inside a maintenance window
    out                 \* the messages of the last evaluation

\* History: what the observations and the messages of the past were.
VARIABLES
    serve_up,           \* the serve answered the last poll
    down_since,         \* the first poll of the serve outage it is in
    last_down,          \* the last poll the serve did not answer
    told,               \* the rules whose last message was not a recovery
    last_fire,          \* per rule and key: when its last alert was sent
    last_sev,           \* per role: the severity of that alert
    restarted           \* per role: the time and planned flag of the last restart

engine == <<now, serve_down, serve_down_page, gate_down, event_last_sent,
            restart_pending, restart_planned, out>>
history == <<serve_up, down_since, last_down, told, last_fire, last_sev, restarted>>
vars == <<engine, history>>

Services == {"serve", "gate"}
Keys == Roles \cup Gpus

Msg(rule, sev, recovered) == [rule |-> rule, sev |-> sev, recovered |-> recovered]

\* One poll's observation: the services that answer, the roles whose container
\* is running, the roles a restart was detected for, whether a maintenance
\* window is open, and the devices the kernel log named an Xid for.
Observation == [up: SUBSET Services, running: SUBSET Roles, restarts: SUBSET Roles,
                maintenance: BOOLEAN, xids: SUBSET Gpus]

Severity(planned) == IF planned THEN "info" ELSE "warn"

(***************************************************************************)
(* Mutants.                                                                *)
(***************************************************************************)
\* Only the end of the warn is told: a page whose warn was held back stays up.
NoPageRecovery(t, o) ==
    LET down == "serve" \notin o.up
        warn == EdgeOf(serve_down, t, down, WarnHold, Cooldown)
        page == EdgeOf(serve_down_page, t, down, PageHold, Cooldown)
    IN  (IF page = "Fire" THEN {Msg("serve_down_page", "page", FALSE)} ELSE {})
          \cup (IF warn = "None" THEN {} ELSE {Msg("serve_down", "warn", warn = "Recover")})

\* The restart clock is restarted only by a restart that is itself alerted.
PendingWhenAlerted(t, o) ==
    [r \in Roles |-> IF r \in o.restarts /\ Cooled(event_last_sent[r], t, Cooldown)
                     THEN t ELSE restart_pending[r]]

\* The label of every restart observed, not only of an alerted one.
PlannedByTheLatest(t, o) ==
    [r \in Roles |-> IF r \in o.restarts THEN o.maintenance ELSE restart_planned[r]]

\* A restart inside a maintenance window is not alerted at all.
AlertedOutsideWindows(t, o) ==
    IF o.maintenance THEN {} ELSE {k \in o.restarts \cup o.xids :
                                      Cooled(event_last_sent[k], t, Cooldown)}

-----------------------------------------------------------------------------
(***************************************************************************)
(* serve_down: the page escalation is a rule of its own, and ONE recovery  *)
(* is sent for the pair, at the severity of what had been sent.            *)
(***************************************************************************)
ServeMessages(t, o) ==
    LET down == "serve" \notin o.up
        warn == EdgeOf(serve_down, t, down, WarnHold, Cooldown)
        page == EdgeOf(serve_down_page, t, down, PageHold, Cooldown)
    IN  (IF warn = "Fire" THEN {Msg("serve_down", "warn", FALSE)} ELSE {})
          \cup (IF page = "Fire" THEN {Msg("serve_down_page", "page", FALSE)} ELSE {})
          \cup (IF "Recover" \in {warn, page}
                THEN {Msg("serve_down", IF page = "Recover" THEN "page" ELSE "warn", TRUE)}
                ELSE {})

EvalServeDown(t, o) ==
    /\ serve_down' = Step(serve_down, t, "serve" \notin o.up, WarnHold, Cooldown)
    /\ serve_down_page' = Step(serve_down_page, t, "serve" \notin o.up, PageHold, Cooldown)

GateMessages(t, o) ==
    LET e == EdgeOf(gate_down, t, "gate" \notin o.up, GateHold, Cooldown)
    IN  IF e = "None" THEN {} ELSE {Msg("gate_down", "warn", e = "Recover")}

EvalGateDown(t, o) ==
    gate_down' = Step(gate_down, t, "gate" \notin o.up, GateHold, Cooldown)

(***************************************************************************)
(* Event rules.  A restart or an Xid is alerted once per cooldown of its   *)
(* key.  A restart inside the cooldown still restarts the stability clock  *)
(* of a role that is owed a message, and keeps that message's label.       *)
(***************************************************************************)
Alerted(t, o) ==
    {k \in o.restarts \cup o.xids : Cooled(event_last_sent[k], t, Cooldown)}

Pending(t, o) ==
    [r \in Roles |->
        IF r \in o.restarts /\ (r \in Alerted(t, o) \/ restart_pending[r] # NoTime)
        THEN t ELSE restart_pending[r]]

Planned(t, o) ==
    [r \in Roles |-> IF r \in o.restarts \cap Alerted(t, o)
                     THEN o.maintenance ELSE restart_planned[r]]

Stable(t, o) ==
    {r \in o.running \cap o.up :
        Pending(t, o)[r] # NoTime /\ t - Pending(t, o)[r] >= StableSecs}

EventMessages(t, o) ==
    {Msg(r, Severity(o.maintenance), FALSE) : r \in o.restarts \cap Alerted(t, o)}
      \cup {Msg(r, Severity(Planned(t, o)[r]), TRUE) : r \in Stable(t, o)}
      \cup {Msg(g, "hardware", FALSE) : g \in o.xids \cap Alerted(t, o)}

EvalEvents(t, o) ==
    /\ event_last_sent' = [k \in Keys |-> IF k \in Alerted(t, o) THEN t ELSE event_last_sent[k]]
    /\ restart_pending' = [r \in Roles |-> IF r \in Stable(t, o) THEN NoTime ELSE Pending(t, o)[r]]
    /\ restart_planned' = [r \in Roles |-> r \notin Stable(t, o) /\ Planned(t, o)[r]]

-----------------------------------------------------------------------------
Fired(msgs) == {m.rule : m \in {x \in msgs : ~x.recovered}}
Cleared(msgs) == {m.rule : m \in {x \in msgs : x.recovered}}

Record(t, o) ==
    /\ serve_up' = ("serve" \in o.up)
    /\ down_since' = IF "serve" \in o.up THEN NoTime
                     ELSE IF down_since = NoTime THEN t ELSE down_since
    /\ last_down' = IF "serve" \in o.up THEN last_down ELSE t
    /\ told' = LET cleared == Cleared(out')
                       \* the serve's one recovery answers both of its rules
                       answered == IF "serve_down" \in cleared
                                   THEN cleared \cup {"serve_down_page"} ELSE cleared
               IN  (told \cup (Fired(out') \ Gpus)) \ answered
    /\ last_fire' = [k \in LevelRules \cup Keys |-> IF k \in Fired(out') THEN t ELSE last_fire[k]]
    /\ last_sev' = [r \in Roles |-> IF r \in Fired(out') THEN Severity(o.maintenance)
                                    ELSE last_sev[r]]
    /\ restarted' = [r \in Roles |-> IF r \in o.restarts THEN <<t, o.maintenance>>
                                     ELSE restarted[r]]

Init ==
    /\ now = 0
    /\ serve_down = IdleTimer /\ serve_down_page = IdleTimer /\ gate_down = IdleTimer
    /\ event_last_sent = [k \in Keys |-> NoTime]
    /\ restart_pending = [r \in Roles |-> NoTime]
    /\ restart_planned = [r \in Roles |-> FALSE]
    /\ out = {}
    /\ serve_up = TRUE /\ down_since = NoTime /\ last_down = NoTime /\ told = {}
    /\ last_fire = [k \in LevelRules \cup Keys |-> NoTime]
    /\ last_sev = [r \in Roles |-> "warn"]
    /\ restarted = [r \in Roles |-> <<NoTime, FALSE>>]

\* Engine::evaluate on the observation of one poll.
Evaluate(t, o) ==
    /\ now' = t
    /\ EvalServeDown(t, o)
    /\ EvalGateDown(t, o)
    /\ EvalEvents(t, o)
    /\ out' = ServeMessages(t, o) \cup GateMessages(t, o) \cup EventMessages(t, o)
    /\ Record(t, o)

Next == \E t \in NextPoll, o \in Observation : Evaluate(t, o)

Spec == Init /\ [][Next]_vars

-----------------------------------------------------------------------------
MsgType == [rule: LevelRules \cup Keys, sev: {"info", "warn", "page", "hardware"},
            recovered: BOOLEAN]

\* Every variable keeps its type.
TypeOK ==
    /\ now \in Nat
    /\ serve_down \in TimerType /\ serve_down_page \in TimerType /\ gate_down \in TimerType
    /\ event_last_sent \in [Keys -> OptTime]
    /\ restart_pending \in [Roles -> OptTime]
    /\ restart_planned \in [Roles -> BOOLEAN]
    /\ out \in SUBSET MsgType
    /\ serve_up \in BOOLEAN /\ down_since \in OptTime /\ last_down \in OptTime
    /\ told \in SUBSET (LevelRules \cup Roles)
    /\ last_fire \in [LevelRules \cup Keys -> OptTime]
    /\ last_sev \in [Roles -> {"info", "warn"}]
    /\ restarted \in [Roles -> OptTime \X BOOLEAN]

ServeRules == {"serve_down", "serve_down_page"}
Unanswered(rule) == last_fire[rule] # NoTime /\ now - last_fire[rule] < Cooldown

\* A reader of the messages is never left with an outage that is over: once the
\* serve answers, whatever was sent about it (a warn, a page, a page whose warn
\* was held back by its own cooldown) has been answered by a recovery.
NoStaleOutage == serve_up => told \cap ServeRules = {}

\* ... nor without one that lasts: an outage older than a rule's hold time has
\* been told unless that rule's cooldown is still running.
NoSilentOutage ==
    \A h \in {<<"serve_down", WarnHold>>, <<"serve_down_page", PageHold>>} :
        (down_since # NoTime /\ now - down_since >= h[2] /\ h[1] \notin told)
            => Unanswered(h[1])

\* A restart that was observed was alerted then, or less than a cooldown before.
RestartHeard ==
    \A r \in Roles : restarted[r][1] # NoTime =>
        /\ last_fire[r] # NoTime
        /\ \/ last_fire[r] = restarted[r][1]
           \/ restarted[r][1] - last_fire[r] < Cooldown

\* A role whose alert has no "stable again" yet is owed one, and its clock runs
\* from the LAST restart observed, alerted or not: a crash loop is never called
\* stable because its first crash is old enough.
StableOwedFromTheLast ==
    \A r \in Roles : restart_pending[r] = IF r \in told THEN restarted[r][1] ELSE NoTime

\* Alerts of one rule, role or device are a cooldown apart.
Spaced ==
    \A k \in LevelRules \cup Keys :
        (k \in Fired(out') /\ last_fire[k] # NoTime) => now' - last_fire[k] >= Cooldown
AlertsSpaced == [][Spaced]_vars

\* A page is sent only for an outage seen by every poll for the page hold time.
Earned ==
    "serve_down_page" \in Fired(out')
        => down_since' # NoTime /\ now' - down_since' >= PageHold
PageEarned == [][Earned]_vars

\* A recovery answers an alert that was sent, and the serve's one recovery has
\* the severity of the worst message it answers.
Answers(m) ==
    IF m.rule = "serve_down"
    THEN /\ told \cap ServeRules # {}
         /\ (m.sev = "page") <=> ("serve_down_page" \in told)
    ELSE m.rule \in told
Answering == \A m \in out' : (m.recovered /\ m.rule \in LevelRules) => Answers(m)
RecoveryAnswers == [][Answering]_vars

\* "Stable again" carries the label of its own alert, also when the maintenance
\* window has been closed or opened since.
SameLabel == \A m \in out' : (m.recovered /\ m.rule \in Roles) => m.sev = last_sev'[m.rule]
StableKeepsLabel == [][SameLabel]_vars

-----------------------------------------------------------------------------
(***************************************************************************)
(* The refinement: the timers keep the promise of AlertChannel.  What a    *)
(* reader waits for is what a timer has announced, or a pending restart.   *)
(***************************************************************************)
TimerOf(rule) ==
    IF rule = "serve_down" THEN serve_down
    ELSE IF rule = "serve_down_page" THEN serve_down_page ELSE gate_down

Topics == LevelRules \cup Keys

Outstanding ==
    {k \in LevelRules : TimerOf(k).announced} \cup {r \in Roles : restart_pending[r] # NoTime}

LastSent == [k \in Topics |-> IF k \in LevelRules THEN TimerOf(k).last_sent ELSE event_last_sent[k]]

Said == [alerts |-> Fired(out), over |-> Cleared(out)]

\* One recovery answers both rules of the serve.
NameOf == [k \in Topics |-> IF k = "serve_down_page" THEN "serve_down" ELSE k]

Channel ==
    INSTANCE AlertChannel WITH
        Conditions <- LevelRules, OneOff <- Gpus, Names <- Topics \ Gpus, Name <- NameOf,
        Never <- NoTime, Spacing <- Cooldown,
        clock <- now, told <- Outstanding, sent <- LastSent, said <- Said

\* Every message of these rules keeps the promise (rules.rs:1 to 12): two timers share one
\* recovery, a page may be told without its warn, a restart inside a cooldown is owed an
\* answer all the same, and no outage, cooldown or death of a page makes an answer
\* unowed or a condition told twice.
ImplementsChannel == Channel!Spec

-----------------------------------------------------------------------------
(***************************************************************************)
(* The inductive invariants: what the engine keeps mirrors what was seen   *)
(* and sent, which is what the properties above speak of.                  *)
(***************************************************************************)
Mirrors(timer, rule) ==
    /\ timer.announced <=> rule \in told
    /\ timer.last_sent = last_fire[rule]

\* Each level timer mirrors its own rule, and the two timers of the serve run
\* from the first poll of the outage.
LevelMirror ==
    /\ Mirrors(serve_down, "serve_down")
    /\ Mirrors(serve_down_page, "serve_down_page")
    /\ Mirrors(gate_down, "gate_down")
    /\ serve_down.since = down_since /\ serve_down_page.since = down_since
    /\ serve_up <=> down_since = NoTime

\* The cooldown of each key runs from its last alert, and what is kept for a
\* role that is owed a message is about the alert it answers.
EventMirror ==
    /\ \A k \in Keys : event_last_sent[k] = last_fire[k]
    /\ \A r \in Roles :
        /\ r \in told => restarted[r][1] # NoTime
        /\ restart_pending[r] # NoTime => last_sev[r] = Severity(restart_planned[r])

-----------------------------------------------------------------------------
\* lss-core/tests/rules.rs:176 "maintenance mode never leaks past the window it
\* was actually open for": a message labelled planned is about a restart inside a
\* window.
PlannedMeansPlanned ==
    [][\A m \in out' : (m.rule \in Roles /\ m.sev = "info") => restarted'[m.rule][2]]_vars

\* docs/RUNBOOK.md:89 "RECOVERED follows once the container has been up and
\* answering for 120 s": no poll of those seconds found the serve not answering.
StableMeansAnswering ==
    [][\A m \in out' : (m.recovered /\ m.rule = "serve") =>
         last_down' = NoTime \/ now' - last_down' >= StableSecs]_vars

=============================================================================

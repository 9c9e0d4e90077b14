----------------------------- MODULE RuleProofs -----------------------------
(***************************************************************************)
(* Proofs about the rules of the alert engine, for every value of their    *)
(* durations and lines, every set of devices and roles, and every history  *)
(* of polls: the outages of Availability.tla, then the families of         *)
(* AlertEngine.tla that read levels, devices, windows and probes.          *)
(*                                                                         *)
(* The engine decides from what it keeps (the timers, the pending          *)
(* restarts, the points of a window); the properties speak of what was     *)
(* observed and sent.  Each inductive invariant says that the first        *)
(* mirrors the second.                                                     *)
(***************************************************************************)
EXTENDS AlertEngine, NumberLemmas, FiniteSetTheorems, SequenceTheorems, TLAPS


\* All that evaluate returns for one observation.
Messages(t, o) == ServeMessages(t, o) \cup GateMessages(t, o) \cup EventMessages(t, o)

ServeDown(o) == "serve" \notin o.up
GateDown(o) == "gate" \notin o.up

WarnEdge(t, o) == EdgeOf(serve_down, t, ServeDown(o), WarnHold, Cooldown)
PageEdge(t, o) == EdgeOf(serve_down_page, t, ServeDown(o), PageHold, Cooldown)
GateEdge(t, o) == EdgeOf(gate_down, t, GateDown(o), GateHold, Cooldown)

-----------------------------------------------------------------------------
(***************************************************************************)
(* The timer.                                                              *)
(***************************************************************************)

\* Sustained::step keeps a timer a timer.
LEMMA StepType ==
    ASSUME NEW s \in TimerType, NEW t \in Nat, NEW cond \in BOOLEAN,
           NEW hold \in Nat, NEW cooldown \in Nat
    PROVE  Step(s, t, cond, hold, cooldown) \in TimerType
BY DEF Step, Since, TimerType, OptTime, NoTime

\* What one poll does to a timer s, which becomes n and answers with the edge e:
\* while the condition holds the run of true readings goes on, and the timer
\* fires exactly when it is due; when it does not hold, the timer answers the
\* alert it had announced and goes idle.
Advances(s, n, e, t, cond, hold) ==
    /\ cond =>
        /\ e \in {"None", "Fire"}
        /\ e = "Fire" <=> Due(s, t, hold, Cooldown)
        /\ n.since = Since(s, t)
        /\ n.announced <=> (s.announced \/ e = "Fire")
    /\ ~cond =>
        /\ e \in {"None", "Recover"}
        /\ e = "Recover" <=> s.announced
        /\ n.since = NoTime
        /\ ~n.announced
    /\ n.last_sent = IF e = "Fire" THEN t ELSE s.last_sent

\* Sustained::step does to a timer what Advances says, whatever is read.
LEMMA StepAdvances ==
    ASSUME NEW s \in TimerType, NEW t \in Nat, NEW cond \in BOOLEAN, NEW hold \in Nat
    PROVE  Advances(s, Step(s, t, cond, hold, Cooldown),
                   EdgeOf(s, t, cond, hold, Cooldown), t, cond, hold)
<1>1. CASE cond = TRUE
  BY <1>1 DEF Advances, Step, EdgeOf, TimerType
<1>2. CASE cond = FALSE
  BY <1>2 DEF Advances, Step, EdgeOf, TimerType
<1> QED
  BY <1>1, <1>2

\* A run of true readings that was held long enough and is not announced waits
\* for its cooldown.
LEMMA HeldBack ==
    ASSUME NEW s \in TimerType, NEW n, NEW e, NEW t \in Nat, NEW cond \in BOOLEAN,
           NEW hold \in Nat, Advances(s, n, e, t, cond, hold),
           n.since # NoTime, t - n.since >= hold, ~n.announced
    PROVE  n.last_sent # NoTime /\ t - n.last_sent < Cooldown
<1>1. cond /\ n.since = Since(s, t)
  BY DEF Advances
<1>2. e # "Fire" /\ ~s.announced
  BY <1>1 DEF Advances
<1>3. ~Cooled(s.last_sent, t, Cooldown) /\ n.last_sent = s.last_sent
  BY <1>1, <1>2 DEF Advances, Due
<1>4. s.last_sent \in OptTime
  BY DEF TimerType
<1> QED
  BY <1>3, <1>4, TimesAssumption, ClockAssumption DEF Cooled, OptTime, NoTime

-----------------------------------------------------------------------------
(***************************************************************************)
(* Which rules the messages of one evaluation fire and clear.              *)
(***************************************************************************)

\* The names of the roles, the devices and the level rules never collide.
LEMMA Names ==
    /\ \A r \in Roles : r \notin LevelRules /\ r \notin Gpus
    /\ \A g \in Gpus : g \notin LevelRules /\ g \notin Roles
BY KeysAssumption DEF LevelRules

\* What Fired, Cleared and the three sources of messages are, element by element.
LEMMA Members ==
    ASSUME NEW t, NEW o, NEW k
    PROVE  /\ k \in Fired(Messages(t, o)) <=>
                \E m \in Messages(t, o) : ~m.recovered /\ m.rule = k
           /\ k \in Cleared(Messages(t, o)) <=>
                \E m \in Messages(t, o) : m.recovered /\ m.rule = k
           /\ \A m : m \in Messages(t, o) <=> \/ m \in ServeMessages(t, o)
                                             \/ m \in GateMessages(t, o)
                                             \/ m \in EventMessages(t, o)
BY DEF Fired, Cleared, Messages

\* The messages of the event rules: who is in them, and what they say.
LEMMA EventShape ==
    ASSUME NEW t, NEW o \in Observation, NEW m \in EventMessages(t, o)
    PROVE  \/ /\ ~m.recovered /\ m.rule \in o.restarts \cap Alerted(t, o)
              /\ m.sev = Severity(o.maintenance)
           \/ /\ m.recovered /\ m.rule \in Stable(t, o)
              /\ m.sev = Severity(Planned(t, o)[m.rule])
           \/ /\ ~m.recovered /\ m.rule \in o.xids \cap Alerted(t, o)
              /\ m.sev = "hardware"
BY DEF EventMessages, Msg

\* eval_restarts speaks of roles, eval_xids of devices, and neither of a level rule.
LEMMA EventKeys ==
    ASSUME NEW t, NEW o \in Observation
    PROVE  /\ o.restarts \subseteq Roles /\ o.xids \subseteq Gpus
           /\ Stable(t, o) \subseteq Roles
           /\ \A m \in EventMessages(t, o) : m.rule \notin LevelRules
<1>1. o.restarts \subseteq Roles /\ o.xids \subseteq Gpus /\ o.running \subseteq Roles
  BY DEF Observation
<1>2. Stable(t, o) \subseteq Roles
  BY <1>1 DEF Stable
<1> QED
  BY <1>1, <1>2, EventShape, Names

\* The messages of the serve's two rules, and of the gate's one.
LEMMA ServeShape ==
    ASSUME NEW t, NEW o, NEW m \in ServeMessages(t, o)
    PROVE  \/ m = Msg("serve_down", "warn", FALSE) /\ WarnEdge(t, o) = "Fire"
           \/ m = Msg("serve_down_page", "page", FALSE) /\ PageEdge(t, o) = "Fire"
           \/ m = Msg("serve_down", "page", TRUE) /\ PageEdge(t, o) = "Recover"
           \/ /\ m = Msg("serve_down", "warn", TRUE)
              /\ WarnEdge(t, o) = "Recover" /\ PageEdge(t, o) # "Recover"
BY DEF ServeMessages, WarnEdge, PageEdge, ServeDown

\* eval_gate_down says that the gate is down or that it is back, on its timer's edge.
LEMMA GateShape ==
    ASSUME NEW t, NEW o, NEW m \in GateMessages(t, o)
    PROVE  \/ m = Msg("gate_down", "warn", FALSE) /\ GateEdge(t, o) = "Fire"
           \/ m = Msg("gate_down", "warn", TRUE) /\ GateEdge(t, o) = "Recover"
BY DEF GateMessages, GateEdge, GateDown, EdgeOf

\* A level rule is alerted by an evaluation exactly when its timer fires.
LEMMA FiredLevel ==
    ASSUME NEW t, NEW o \in Observation
    PROVE  /\ "serve_down" \in Fired(Messages(t, o)) <=> WarnEdge(t, o) = "Fire"
           /\ "serve_down_page" \in Fired(Messages(t, o)) <=> PageEdge(t, o) = "Fire"
           /\ "gate_down" \in Fired(Messages(t, o)) <=> GateEdge(t, o) = "Fire"
<1>1. \A m \in EventMessages(t, o) : m.rule \notin LevelRules
  BY EventKeys
<1>2. \A m \in ServeMessages(t, o) :
        ~m.recovered => \/ m.rule = "serve_down" /\ WarnEdge(t, o) = "Fire"
                        \/ m.rule = "serve_down_page" /\ PageEdge(t, o) = "Fire"
  BY ServeShape DEF Msg
<1>3. \A m \in GateMessages(t, o) :
        m.rule = "gate_down" /\ (~m.recovered => GateEdge(t, o) = "Fire")
  BY GateShape DEF Msg
<1>4. WarnEdge(t, o) = "Fire" => Msg("serve_down", "warn", FALSE) \in ServeMessages(t, o)
  BY DEF ServeMessages, WarnEdge, ServeDown
<1>5. PageEdge(t, o) = "Fire" => Msg("serve_down_page", "page", FALSE) \in ServeMessages(t, o)
  BY DEF ServeMessages, PageEdge, ServeDown
<1>6. GateEdge(t, o) = "Fire" => Msg("gate_down", "warn", FALSE) \in GateMessages(t, o)
  BY DEF GateMessages, GateEdge, GateDown
<1> QED
  BY <1>1, <1>2, <1>3, <1>4, <1>5, <1>6 DEF Fired, Messages, Msg, LevelRules

\* A level rule is answered exactly when its timer recovers; the page's recovery
\* (eval_serve_down) answers the warn too.
LEMMA ClearedLevel ==
    ASSUME NEW t, NEW o \in Observation
    PROVE  /\ "serve_down" \in Cleared(Messages(t, o))
                <=> WarnEdge(t, o) = "Recover" \/ PageEdge(t, o) = "Recover"
           /\ "serve_down_page" \notin Cleared(Messages(t, o))
           /\ "gate_down" \in Cleared(Messages(t, o)) <=> GateEdge(t, o) = "Recover"
<1>1. \A m \in EventMessages(t, o) : m.rule \notin LevelRules
  BY EventKeys
<1>2. \A m \in ServeMessages(t, o) :
        m.recovered => /\ m.rule = "serve_down"
                       /\ WarnEdge(t, o) = "Recover" \/ PageEdge(t, o) = "Recover"
  BY ServeShape DEF Msg
<1>3. \A m \in GateMessages(t, o) :
        m.rule = "gate_down" /\ (m.recovered => GateEdge(t, o) = "Recover")
  BY GateShape DEF Msg
<1>4. WarnEdge(t, o) = "Recover" \/ PageEdge(t, o) = "Recover"
        => \E sev : Msg("serve_down", sev, TRUE) \in ServeMessages(t, o)
  BY DEF ServeMessages, WarnEdge, PageEdge, ServeDown
<1>5. GateEdge(t, o) = "Recover" => Msg("gate_down", "warn", TRUE) \in GateMessages(t, o)
  BY DEF GateMessages, GateEdge, GateDown
<1> QED
  BY <1>1, <1>2, <1>3, <1>4, <1>5 DEF Cleared, Messages, Msg, LevelRules

\* A restart, or an Xid, is alerted exactly when it was observed and is not cooled.
LEMMA FiredEvents ==
    ASSUME NEW t, NEW o \in Observation
    PROVE  /\ \A r \in Roles :
                r \in Fired(Messages(t, o)) <=> r \in o.restarts /\ r \in Alerted(t, o)
           /\ \A g \in Gpus :
                g \in Fired(Messages(t, o)) <=> g \in o.xids /\ g \in Alerted(t, o)
<1>1. \A m : m \in ServeMessages(t, o) \/ m \in GateMessages(t, o) => m.rule \in LevelRules
  BY ServeShape, GateShape DEF Msg, LevelRules
<1>2. \A m \in EventMessages(t, o) : ~m.recovered =>
        \/ m.rule \in o.restarts /\ m.rule \in Alerted(t, o) /\ m.rule \in Roles
        \/ m.rule \in o.xids /\ m.rule \in Alerted(t, o) /\ m.rule \in Gpus
  BY EventShape, EventKeys
<1>3. ASSUME NEW r \in Roles
      PROVE  r \in Fired(Messages(t, o)) <=> r \in o.restarts /\ r \in Alerted(t, o)
  <2>1. ASSUME r \in o.restarts, r \in Alerted(t, o)
        PROVE  r \in Fired(Messages(t, o))
    <3>1. Msg(r, Severity(o.maintenance), FALSE) \in EventMessages(t, o)
      BY <2>1 DEF EventMessages
    <3> QED  BY <3>1, Members DEF Msg
  <2> QED  BY <1>1, <1>2, <2>1, Members, Names
<1>4. ASSUME NEW g \in Gpus
      PROVE  g \in Fired(Messages(t, o)) <=> g \in o.xids /\ g \in Alerted(t, o)
  <2>1. ASSUME g \in o.xids, g \in Alerted(t, o)
        PROVE  g \in Fired(Messages(t, o))
    <3>1. Msg(g, "hardware", FALSE) \in EventMessages(t, o)
      BY <2>1 DEF EventMessages
    <3> QED  BY <3>1, Members DEF Msg
  <2> QED  BY <1>1, <1>2, <2>1, Members, Names
<1> QED
  BY <1>3, <1>4

\* A role is told to be stable again exactly when eval_restarts finds it settled.
LEMMA ClearedEvents ==
    ASSUME NEW t, NEW o \in Observation, NEW r \in Roles
    PROVE  r \in Cleared(Messages(t, o)) <=> r \in Stable(t, o)
<1>1. \A m : m \in ServeMessages(t, o) \/ m \in GateMessages(t, o) => m.rule \in LevelRules
  BY ServeShape, GateShape DEF Msg, LevelRules
<1>2. \A m \in EventMessages(t, o) : m.recovered => m.rule \in Stable(t, o)
  BY EventShape
<1>3. ASSUME r \in Stable(t, o)
      PROVE  r \in Cleared(Messages(t, o))
  <2>1. Msg(r, Severity(Planned(t, o)[r]), TRUE) \in EventMessages(t, o)
    BY <1>3 DEF EventMessages
  <2> QED  BY <2>1, Members DEF Msg
<1> QED
  BY <1>1, <1>2, <1>3, Members, Names

-----------------------------------------------------------------------------
(***************************************************************************)
(* Types.                                                                  *)
(***************************************************************************)

\* What an evaluation returns are messages.
LEMMA MessagesType ==
    ASSUME NEW t, NEW o \in Observation
    PROVE  Messages(t, o) \in SUBSET MsgType
<1>1. \A r \in LevelRules \cup Keys, b \in BOOLEAN :
        /\ Msg(r, "info", b) \in MsgType /\ Msg(r, "warn", b) \in MsgType
        /\ Msg(r, "page", b) \in MsgType /\ Msg(r, "hardware", b) \in MsgType
  BY DEF Msg, MsgType
<1>2. /\ "serve_down" \in LevelRules \cup Keys /\ "serve_down_page" \in LevelRules \cup Keys
      /\ "gate_down" \in LevelRules \cup Keys
  BY DEF LevelRules
<1>3. \A m : m \in ServeMessages(t, o) \/ m \in GateMessages(t, o) => m \in MsgType
  BY <1>1, <1>2, ServeShape, GateShape
<1>4. \A p : Severity(p) \in {"info", "warn"}
  BY DEF Severity
<1>5. \A m \in EventMessages(t, o) : m \in MsgType
  <2>1. \A r \in o.restarts : Msg(r, Severity(o.maintenance), FALSE) \in MsgType
    BY <1>1, <1>4, EventKeys DEF Keys
  <2>2. \A r \in Stable(t, o) : Msg(r, Severity(Planned(t, o)[r]), TRUE) \in MsgType
    BY <1>1, <1>4, EventKeys DEF Keys
  <2>3. \A g \in o.xids : Msg(g, "hardware", FALSE) \in MsgType
    BY <1>1, EventKeys DEF Keys
  <2> QED  BY <2>1, <2>2, <2>3 DEF EventMessages
<1> QED
  BY <1>3, <1>5, Members

\* Engine::evaluate, whatever the poll observed, keeps every variable's type.
LEMMA EvaluateType ==
    ASSUME TypeOK, NEW t \in Nat, NEW o \in Observation, Evaluate(t, o)
    PROVE  TypeOK'
<1> USE TimesAssumption, ClockAssumption
<1>1. now' \in Nat
  BY DEF Evaluate
<1>2. /\ serve_down' \in TimerType /\ serve_down_page' \in TimerType
      /\ gate_down' \in TimerType
  <2>1. ("serve" \notin o.up) \in BOOLEAN /\ ("gate" \notin o.up) \in BOOLEAN
    OBVIOUS
  <2> QED  BY <2>1, StepType DEF TypeOK, Evaluate, EvalServeDown, EvalGateDown
<1>3. event_last_sent' \in [Keys -> OptTime]
  BY DEF TypeOK, Evaluate, EvalEvents, OptTime
<1>4. Pending(t, o) \in [Roles -> OptTime] /\ Planned(t, o) \in [Roles -> BOOLEAN]
  BY DEF TypeOK, Pending, Planned, OptTime, Observation
<1>5. restart_pending' \in [Roles -> OptTime] /\ restart_planned' \in [Roles -> BOOLEAN]
  BY <1>4 DEF Evaluate, EvalEvents, OptTime
<1>6. out' = Messages(t, o) /\ out' \in SUBSET MsgType
  BY MessagesType DEF Evaluate, Messages
<1>7. serve_up' \in BOOLEAN /\ down_since' \in OptTime /\ last_down' \in OptTime
  BY DEF TypeOK, Evaluate, Record, OptTime
<1>8. told' \in SUBSET (LevelRules \cup Roles)
  <2>1. Fired(out') \subseteq LevelRules \cup Keys
    BY <1>6 DEF Fired, MsgType
  <2>2. told' \subseteq told \cup (Fired(out') \ Gpus)
    BY DEF Evaluate, Record
  <2> QED  BY <2>1, <2>2 DEF TypeOK, Keys
<1>9. last_fire' \in [LevelRules \cup Keys -> OptTime]
  BY DEF TypeOK, Evaluate, Record, OptTime
<1>10. last_sev' \in [Roles -> {"info", "warn"}]
  BY DEF TypeOK, Evaluate, Record, Severity
<1>11. restarted' \in [Roles -> OptTime \X BOOLEAN]
  BY DEF TypeOK, Evaluate, Record, OptTime, Observation
<1> QED
  BY <1>1, <1>2, <1>3, <1>5, <1>6, <1>7, <1>8, <1>9, <1>10, <1>11 DEF TypeOK

\* Every step is an evaluation at a later or equal clock reading.
LEMMA NextEvaluates ==
    ASSUME TypeOK, Next
    PROVE  \E t \in Nat, o \in Observation : t >= now /\ Evaluate(t, o)
BY ClockAssumption DEF Next, NextPoll, TypeOK

\* A new engine has the type.
LEMMA InitType == Init => TypeOK
<1>1. IdleTimer \in TimerType
  BY DEF IdleTimer, TimerType, OptTime
<1>2. NoTime \in OptTime
  BY DEF OptTime
<1> SUFFICES ASSUME Init PROVE TypeOK
  OBVIOUS
<1>3. /\ now \in Nat /\ serve_up \in BOOLEAN /\ out \in SUBSET MsgType
      /\ told \in SUBSET (LevelRules \cup Roles)
  BY DEF Init
<1>4. last_sev \in [Roles -> {"info", "warn"}] /\ restart_planned \in [Roles -> BOOLEAN]
  BY DEF Init
<1>5. /\ event_last_sent \in [Keys -> OptTime] /\ restart_pending \in [Roles -> OptTime]
      /\ last_fire \in [LevelRules \cup Keys -> OptTime]
  BY <1>2 DEF Init
<1>6. restarted \in [Roles -> OptTime \X BOOLEAN]
  BY <1>2 DEF Init
<1> QED
  BY <1>1, <1>2, <1>3, <1>4, <1>5, <1>6 DEF Init, TypeOK

\* The engine keeps the type of all it persists and sends, on every history of
\* polls.
THEOREM TypeCorrect == Spec => []TypeOK
<1>1. Init => TypeOK
  BY InitType
<1>2. TypeOK /\ [Next]_vars => TypeOK'
  <2> SUFFICES ASSUME TypeOK, [Next]_vars PROVE TypeOK'
    OBVIOUS
  <2>1. CASE Next
    BY <2>1, NextEvaluates, EvaluateType
  <2>2. CASE UNCHANGED vars
    BY <2>2 DEF TypeOK, vars, engine, history
  <2> QED  BY <2>1, <2>2
<1> QED
  BY <1>1, <1>2, PTL DEF Spec

-----------------------------------------------------------------------------
(***************************************************************************)
(* The level rules.                                                        *)
(***************************************************************************)

\* What evaluate returns is what is sent.
LEMMA SentMessages ==
    ASSUME NEW t, NEW o, Evaluate(t, o)
    PROVE  out' = Messages(t, o)
BY DEF Evaluate, Messages

\* What one evaluation adds to the record of messages, edge by edge.
LEMMA LevelRecord ==
    ASSUME NEW t \in Nat, NEW o \in Observation, Evaluate(t, o)
    PROVE  LET answered == WarnEdge(t, o) = "Recover" \/ PageEdge(t, o) = "Recover"
           IN  /\ "serve_down" \in told' <=>
                     ("serve_down" \in told \/ WarnEdge(t, o) = "Fire") /\ ~answered
               /\ "serve_down_page" \in told' <=>
                     ("serve_down_page" \in told \/ PageEdge(t, o) = "Fire") /\ ~answered
               /\ "gate_down" \in told' <=>
                     /\ "gate_down" \in told \/ GateEdge(t, o) = "Fire"
                     /\ GateEdge(t, o) # "Recover"
               /\ last_fire'["serve_down"] =
                     IF WarnEdge(t, o) = "Fire" THEN t ELSE last_fire["serve_down"]
               /\ last_fire'["serve_down_page"] =
                     IF PageEdge(t, o) = "Fire" THEN t ELSE last_fire["serve_down_page"]
               /\ last_fire'["gate_down"] =
                     IF GateEdge(t, o) = "Fire" THEN t ELSE last_fire["gate_down"]
<1>1. /\ "serve_down" \notin Gpus /\ "serve_down_page" \notin Gpus /\ "gate_down" \notin Gpus
  BY KeysAssumption DEF LevelRules
<1>2. /\ "serve_down" \in LevelRules /\ "serve_down_page" \in LevelRules
      /\ "gate_down" \in LevelRules
  BY DEF LevelRules
<1>3. \A k \in LevelRules :
        last_fire'[k] = IF k \in Fired(Messages(t, o)) THEN t ELSE last_fire[k]
  BY SentMessages DEF Evaluate, Record
<1>4. told' = LET cleared == Cleared(Messages(t, o))
                  answered == IF "serve_down" \in cleared
                              THEN cleared \cup {"serve_down_page"} ELSE cleared
              IN  (told \cup (Fired(Messages(t, o)) \ Gpus)) \ answered
  BY SentMessages DEF Evaluate, Record
<1> QED
  BY <1>1, <1>2, <1>3, <1>4, FiredLevel, ClearedLevel

\* One evaluation steps each of the three timers on its own condition.
LEMMA LevelSteps ==
    ASSUME TypeOK, NEW t \in Nat, NEW o \in Observation, Evaluate(t, o)
    PROVE  /\ Advances(serve_down, serve_down', WarnEdge(t, o), t, ServeDown(o), WarnHold)
           /\ Advances(serve_down_page, serve_down_page', PageEdge(t, o), t, ServeDown(o), PageHold)
           /\ Advances(gate_down, gate_down', GateEdge(t, o), t, GateDown(o), GateHold)
<1>1. ServeDown(o) \in BOOLEAN /\ GateDown(o) \in BOOLEAN
  BY DEF ServeDown, GateDown
<1>2. /\ serve_down' = Step(serve_down, t, ServeDown(o), WarnHold, Cooldown)
      /\ serve_down_page' = Step(serve_down_page, t, ServeDown(o), PageHold, Cooldown)
      /\ gate_down' = Step(gate_down, t, GateDown(o), GateHold, Cooldown)
  BY DEF Evaluate, EvalServeDown, EvalGateDown, ServeDown, GateDown
<1> QED
  BY <1>1, <1>2, TimesAssumption, ClockAssumption, StepAdvances DEF TypeOK, WarnEdge, PageEdge, GateEdge

\* Engine::evaluate keeps the level timers and the record of messages in step.
LEMMA EvaluateLevel ==
    ASSUME TypeOK, LevelMirror, NEW t \in Nat, NEW o \in Observation, Evaluate(t, o)
    PROVE  LevelMirror'
<1>1. Mirrors(serve_down, "serve_down")'
  BY LevelRecord, LevelSteps DEF LevelMirror, Mirrors, Advances
<1>2. Mirrors(serve_down_page, "serve_down_page")'
  BY LevelRecord, LevelSteps DEF LevelMirror, Mirrors, Advances
<1>3. Mirrors(gate_down, "gate_down")'
  BY LevelRecord, LevelSteps DEF LevelMirror, Mirrors, Advances
<1>4. /\ serve_up' = ~ServeDown(o)
      /\ down_since' = IF ~ServeDown(o) THEN NoTime
                       ELSE IF down_since = NoTime THEN t ELSE down_since
      /\ down_since \in OptTime
  BY DEF Evaluate, Record, ServeDown, TypeOK
<1>5. serve_down'.since = down_since' /\ serve_down_page'.since = down_since'
  BY <1>4, LevelSteps DEF LevelMirror, Since, Advances
<1>6. ServeDown(o) <=> down_since' # NoTime
  BY <1>4 DEF NoTime, OptTime
<1>7. serve_up' <=> down_since' = NoTime
  BY <1>4, <1>6, Zenon
<1> QED
  BY <1>1, <1>2, <1>3, <1>5, <1>7 DEF LevelMirror

\* A new engine has announced nothing and has seen no outage.
LEMMA InitLevel == Init => LevelMirror
<1> SUFFICES ASSUME Init PROVE LevelMirror
  OBVIOUS
<1>1. \A k \in LevelRules : last_fire[k] = NoTime /\ k \notin told
  BY DEF Init
<1>2. /\ "serve_down" \in LevelRules /\ "serve_down_page" \in LevelRules
      /\ "gate_down" \in LevelRules
  BY DEF LevelRules
<1>3. serve_up /\ down_since = NoTime
  BY DEF Init
<1> QED
  BY <1>1, <1>2, <1>3 DEF Init, LevelMirror, Mirrors, IdleTimer

\* The level timers mirror the polls and the messages, always.
THEOREM LevelMirrors == Spec => []LevelMirror
<1>1. Init => LevelMirror
  BY InitLevel
<1>2. TypeOK /\ LevelMirror /\ [Next]_vars => LevelMirror'
  <2> SUFFICES ASSUME TypeOK, LevelMirror, [Next]_vars PROVE LevelMirror'
    OBVIOUS
  <2>1. CASE Next
    BY <2>1, NextEvaluates, EvaluateLevel
  <2>2. CASE UNCHANGED vars
    BY <2>2 DEF LevelMirror, Mirrors, vars, engine, history
  <2> QED  BY <2>1, <2>2
<1> QED
  BY <1>1, <1>2, TypeCorrect, PTL DEF Spec

\* serve_down: once the serve answers, every message about its outage has been
\* answered by the one recovery, also a page whose warn was held back.
THEOREM OutageAnswered == Spec => []NoStaleOutage
<1>1. Init => NoStaleOutage
  BY DEF Init, NoStaleOutage
<1>2. TypeOK /\ LevelMirror /\ NoStaleOutage /\ [Next]_vars => NoStaleOutage'
  <2> SUFFICES ASSUME TypeOK, LevelMirror, NoStaleOutage, [Next]_vars PROVE NoStaleOutage'
    OBVIOUS
  <2>1. ASSUME NEW t \in Nat, NEW o \in Observation, Evaluate(t, o)
        PROVE  NoStaleOutage'
    <3>1. serve_up' = ~ServeDown(o)
      BY <2>1 DEF Evaluate, Record, ServeDown
    <3>2. ~ServeDown(o) => "serve_down" \notin told' /\ "serve_down_page" \notin told'
      BY <2>1, LevelRecord, LevelSteps DEF Advances, LevelMirror, Mirrors
    <3> QED  BY <3>1, <3>2, Zenon DEF NoStaleOutage, ServeRules
  <2>2. CASE Next
    BY <2>1, <2>2, NextEvaluates
  <2>3. CASE UNCHANGED vars
    BY <2>3 DEF NoStaleOutage, vars, engine, history
  <2> QED  BY <2>2, <2>3
<1> QED
  BY <1>1, <1>2, TypeCorrect, LevelMirrors, PTL DEF Spec

\* An outage older than a hold time was told, or that rule's cooldown runs.
LEMMA EvaluateNotSilent ==
    ASSUME TypeOK, LevelMirror, NEW t \in Nat, NEW o \in Observation, Evaluate(t, o)
    PROVE  NoSilentOutage'
<1> DEFINE Heard(rule, hold) ==
        (down_since' # NoTime /\ now' - down_since' >= hold /\ rule \notin told')
            => last_fire'[rule] # NoTime /\ now' - last_fire'[rule] < Cooldown
<1>1. now' = t /\ LevelMirror'
  BY EvaluateLevel DEF Evaluate
<1>2. ServeDown(o) \in BOOLEAN
  BY DEF ServeDown
<1>3. Heard("serve_down", WarnHold)
  BY <1>1, <1>2, HeldBack, LevelSteps, TimesAssumption, ClockAssumption DEF LevelMirror, Mirrors, TypeOK
<1>4. Heard("serve_down_page", PageHold)
  BY <1>1, <1>2, HeldBack, LevelSteps, TimesAssumption, ClockAssumption DEF LevelMirror, Mirrors, TypeOK
<1> QED
  BY <1>3, <1>4 DEF NoSilentOutage, Unanswered

\* eval_serve_down, eval_gate_down: an outage that lasts as long as a rule's hold time
\* has been told, or the rule's cooldown is running: none goes by in silence.
THEOREM OutageTold == Spec => []NoSilentOutage
<1>1. Init => NoSilentOutage
  BY DEF Init, NoSilentOutage
<1>2. TypeOK /\ LevelMirror /\ NoSilentOutage /\ [Next]_vars => NoSilentOutage'
  <2> SUFFICES ASSUME TypeOK, LevelMirror, NoSilentOutage, [Next]_vars
               PROVE  NoSilentOutage'
    OBVIOUS
  <2>1. CASE Next
    BY <2>1, NextEvaluates, EvaluateNotSilent
  <2>2. CASE UNCHANGED vars
    BY <2>2 DEF NoSilentOutage, Unanswered, vars, engine, history
  <2> QED  BY <2>1, <2>2
<1> QED
  BY <1>1, <1>2, TypeCorrect, LevelMirrors, PTL DEF Spec

\* A page is earned: every poll of the page hold time found the serve down.
LEMMA EvaluateEarned ==
    ASSUME TypeOK, LevelMirror, NEW t \in Nat, NEW o \in Observation, Evaluate(t, o)
    PROVE  Earned
<1> SUFFICES ASSUME "serve_down_page" \in Fired(out')
             PROVE  down_since' # NoTime /\ now' - down_since' >= PageHold
  BY DEF Earned
<1>1. PageEdge(t, o) = "Fire" /\ now' = t /\ LevelMirror'
  BY SentMessages, FiredLevel, EvaluateLevel DEF Evaluate
<1>2. ServeDown(o) \in BOOLEAN
  BY DEF ServeDown
<1>3. ServeDown(o) /\ Due(serve_down_page, t, PageHold, Cooldown)
  BY <1>1, <1>2, LevelSteps DEF Advances
<1>4. down_since' = Since(serve_down_page, t)
  BY <1>1, <1>3, LevelSteps DEF Advances, LevelMirror
<1> QED
  BY <1>1, <1>3, <1>4 DEF Due, Since, TypeOK, TimerType, OptTime, NoTime

\* eval_serve_down: the page is sent only after every poll of its hold time found the
\* serve down.
THEOREM PagesEarned == Spec => PageEarned
<1>1. TypeOK /\ LevelMirror /\ [Next]_vars => [Earned]_vars
  BY NextEvaluates, EvaluateEarned
<1> QED
  BY <1>1, TypeCorrect, LevelMirrors, PTL DEF Spec, PageEarned

\* A recovery answers an alert, at the severity of the worst one it answers.
LEMMA EvaluateAnswering ==
    ASSUME TypeOK, LevelMirror, NEW t \in Nat, NEW o \in Observation, Evaluate(t, o)
    PROVE  Answering
<1> SUFFICES ASSUME NEW m \in Messages(t, o), m.recovered, m.rule \in LevelRules
             PROVE  Answers(m)
  BY SentMessages DEF Answering
<1>1. m \in ServeMessages(t, o) \/ m \in GateMessages(t, o)
  BY Members, EventKeys
<1>2. CASE m \in ServeMessages(t, o)
  <2>1. m.rule = "serve_down"
    BY <1>2, ServeShape DEF Msg
  <2>2. \/ m.sev = "page" /\ PageEdge(t, o) = "Recover"
        \/ m.sev = "warn" /\ WarnEdge(t, o) = "Recover" /\ PageEdge(t, o) # "Recover"
    BY <1>2, ServeShape DEF Msg
  <2>3. ServeDown(o) \in BOOLEAN
    BY DEF ServeDown
  <2>4. ~ServeDown(o)
    BY <2>2, <2>3, LevelSteps DEF Advances
  <2>5. /\ WarnEdge(t, o) = "Recover" <=> "serve_down" \in told
        /\ PageEdge(t, o) = "Recover" <=> "serve_down_page" \in told
    BY <2>4, LevelSteps DEF Advances, LevelMirror, Mirrors
  <2> QED  BY <2>1, <2>2, <2>5 DEF Answers, ServeRules
<1>3. CASE m \in GateMessages(t, o)
  <2>1. m.rule = "gate_down" /\ GateEdge(t, o) = "Recover"
    BY <1>3, GateShape DEF Msg
  <2>2. GateDown(o) \in BOOLEAN
    BY DEF GateDown
  <2>3. "gate_down" \in told
    BY <2>1, <2>2, LevelSteps DEF Advances, LevelMirror, Mirrors
  <2> QED  BY <2>1, <2>3 DEF Answers
<1> QED
  BY <1>1, <1>2, <1>3

\* Every recovery the three rules send answers an alert that was sent and has not been
\* answered, at the severity of the worst one it answers.
THEOREM RecoveriesAnswer == Spec => RecoveryAnswers
<1>1. TypeOK /\ LevelMirror /\ [Next]_vars => [Answering]_vars
  BY NextEvaluates, EvaluateAnswering
<1> QED
  BY <1>1, TypeCorrect, LevelMirrors, PTL DEF Spec, RecoveryAnswers

-----------------------------------------------------------------------------
(***************************************************************************)
(* The event rules.                                                        *)
(***************************************************************************)

\* What one evaluation records about a role.
LEMMA RoleRecord ==
    ASSUME NEW t \in Nat, NEW o \in Observation, Evaluate(t, o), NEW r \in Roles
    PROVE  /\ r \in told' <=> /\ r \in told \/ (r \in o.restarts /\ r \in Alerted(t, o))
                              /\ r \notin Stable(t, o)
           /\ last_fire'[r] = IF r \in o.restarts /\ r \in Alerted(t, o)
                              THEN t ELSE last_fire[r]
           /\ last_sev'[r] = IF r \in o.restarts /\ r \in Alerted(t, o)
                             THEN Severity(o.maintenance) ELSE last_sev[r]
           /\ restarted'[r] = IF r \in o.restarts THEN <<t, o.maintenance>> ELSE restarted[r]
           /\ restart_pending'[r] = IF r \in Stable(t, o) THEN NoTime ELSE Pending(t, o)[r]
           /\ restart_planned'[r] <=> (r \notin Stable(t, o) /\ Planned(t, o)[r])
<1>1. r \notin Gpus /\ r # "serve_down_page"
  BY Names DEF LevelRules
<1>2. r \in Keys
  BY DEF Keys
<1>3. told' = LET cleared == Cleared(Messages(t, o))
                  answered == IF "serve_down" \in cleared
                              THEN cleared \cup {"serve_down_page"} ELSE cleared
              IN  (told \cup (Fired(Messages(t, o)) \ Gpus)) \ answered
  BY SentMessages DEF Evaluate, Record
<1>4. /\ r \in Fired(Messages(t, o)) <=> r \in o.restarts /\ r \in Alerted(t, o)
      /\ r \in Cleared(Messages(t, o)) <=> r \in Stable(t, o)
  BY FiredEvents, ClearedEvents
<1>5. r \in told' <=> /\ r \in told \/ (r \in o.restarts /\ r \in Alerted(t, o))
                      /\ r \notin Stable(t, o)
  BY <1>1, <1>3, <1>4
<1>6. /\ last_fire'[r] = IF r \in Fired(Messages(t, o)) THEN t ELSE last_fire[r]
      /\ last_sev'[r] = IF r \in Fired(Messages(t, o))
                        THEN Severity(o.maintenance) ELSE last_sev[r]
      /\ restarted'[r] = IF r \in o.restarts THEN <<t, o.maintenance>> ELSE restarted[r]
  BY <1>2, SentMessages DEF Evaluate, Record
<1>7. /\ restart_pending'[r] = IF r \in Stable(t, o) THEN NoTime ELSE Pending(t, o)[r]
      /\ restart_planned'[r] = (r \notin Stable(t, o) /\ Planned(t, o)[r])
  BY DEF Evaluate, EvalEvents
<1> QED
  BY <1>4, <1>5, <1>6, <1>7

\* A restart or an Xid is alerted exactly when its key is cooled.
LEMMA KeyRecord ==
    ASSUME NEW t \in Nat, NEW o \in Observation, Evaluate(t, o), NEW k \in Keys
    PROVE  /\ k \in Fired(out') <=> k \in Alerted(t, o)
           /\ k \in Alerted(t, o) <=>
                (k \in o.restarts \/ k \in o.xids) /\ Cooled(event_last_sent[k], t, Cooldown)
           /\ event_last_sent'[k] = IF k \in Alerted(t, o) THEN t ELSE event_last_sent[k]
           /\ last_fire'[k] = IF k \in Alerted(t, o) THEN t ELSE last_fire[k]
<1>1. k \in Alerted(t, o) <=>
        (k \in o.restarts \/ k \in o.xids) /\ Cooled(event_last_sent[k], t, Cooldown)
  BY DEF Alerted
<1>2. k \in Fired(Messages(t, o)) <=> k \in Alerted(t, o)
  BY <1>1, FiredEvents, EventKeys, Names DEF Keys
<1>3. event_last_sent'[k] = IF k \in Alerted(t, o) THEN t ELSE event_last_sent[k]
  BY DEF Evaluate, EvalEvents
<1>4. last_fire'[k] = IF k \in Fired(Messages(t, o)) THEN t ELSE last_fire[k]
  BY SentMessages DEF Evaluate, Record
<1> QED
  BY <1>1, <1>2, <1>3, <1>4, SentMessages

\* eval_restarts and eval_xids keep what they remember in step with what was sent.
LEMMA EvaluateEvents ==
    ASSUME TypeOK, EventMirror, NEW t \in Nat, NEW o \in Observation, Evaluate(t, o)
    PROVE  EventMirror'
<1>1. \A k \in Keys : event_last_sent'[k] = last_fire'[k]
  BY KeyRecord DEF EventMirror
<1>2. ASSUME NEW r \in Roles, r \in told' PROVE restarted'[r][1] # NoTime
  <2>1. r \in told \/ r \in o.restarts
    BY <1>2, RoleRecord
  <2>2. restarted'[r] = IF r \in o.restarts THEN <<t, o.maintenance>> ELSE restarted[r]
    BY RoleRecord
  <2>3. CASE r \in o.restarts
    BY <2>2, <2>3 DEF NoTime
  <2>4. CASE r \notin o.restarts
    BY <2>1, <2>2, <2>4 DEF EventMirror
  <2> QED  BY <2>3, <2>4
<1>3. ASSUME NEW r \in Roles, restart_pending'[r] # NoTime
      PROVE  last_sev'[r] = Severity(restart_planned'[r])
  <2>1. r \notin Stable(t, o) /\ Pending(t, o)[r] # NoTime
    BY <1>3, RoleRecord
  <2>2. restart_planned'[r] = Planned(t, o)[r]
    BY <2>1 DEF Evaluate, EvalEvents, Planned, TypeOK, Observation
  <2>3. last_sev'[r] = IF r \in o.restarts /\ r \in Alerted(t, o)
                      THEN Severity(o.maintenance) ELSE last_sev[r]
    BY RoleRecord
  <2>4. CASE r \in o.restarts /\ r \in Alerted(t, o)
    <3>1. Planned(t, o)[r] = o.maintenance
      BY <2>4 DEF Planned
    <3> QED  BY <2>2, <2>4, <2>3, <3>1
  <2>5. CASE ~(r \in o.restarts /\ r \in Alerted(t, o))
    <3>1. restart_pending[r] # NoTime
      BY <2>1, <2>5 DEF Pending
    <3>2. Planned(t, o)[r] = restart_planned[r]
      BY <2>5 DEF Planned
    <3> QED  BY <2>2, <2>5, <2>3, <3>1, <3>2 DEF EventMirror
  <2> QED  BY <2>4, <2>5
<1> QED
  BY <1>1, <1>2, <1>3 DEF EventMirror

\* What is kept per role and device mirrors the alerts sent about it.
THEOREM EventsMirror == Spec => []EventMirror
<1>1. Init => EventMirror
  BY DEF Init, EventMirror, Keys
<1>2. TypeOK /\ EventMirror /\ [Next]_vars => EventMirror'
  <2> SUFFICES ASSUME TypeOK, EventMirror, [Next]_vars PROVE EventMirror'
    OBVIOUS
  <2>1. CASE Next
    BY <2>1, NextEvaluates, EvaluateEvents
  <2>2. CASE UNCHANGED vars
    BY <2>2 DEF EventMirror, vars, engine, history
  <2> QED  BY <2>1, <2>2
<1> QED
  BY <1>1, <1>2, TypeCorrect, PTL DEF Spec

\* A key that is not cooled had its last alert less than a cooldown ago.
LEMMA NotCooled ==
    ASSUME NEW last \in OptTime, NEW t \in Nat, ~Cooled(last, t, Cooldown)
    PROVE  last # NoTime /\ t - last < Cooldown
BY TimesAssumption, ClockAssumption DEF Cooled, OptTime, NoTime

\* container_restart: no restart goes unheard for longer than a cooldown.
LEMMA EvaluateHeard ==
    ASSUME TypeOK, EventMirror, RestartHeard,
           NEW t \in Nat, NEW o \in Observation, Evaluate(t, o)
    PROVE  RestartHeard'
<1> SUFFICES ASSUME NEW r \in Roles, restarted'[r][1] # NoTime
             PROVE  /\ last_fire'[r] # NoTime
                    /\ \/ last_fire'[r] = restarted'[r][1]
                       \/ restarted'[r][1] - last_fire'[r] < Cooldown
  BY DEF RestartHeard
<1>1. r \in Keys /\ last_fire[r] \in OptTime /\ event_last_sent[r] = last_fire[r]
  BY DEF Keys, TypeOK, EventMirror
<1>2. /\ last_fire'[r] = IF r \in o.restarts /\ r \in Alerted(t, o)
                         THEN t ELSE last_fire[r]
      /\ restarted'[r] = IF r \in o.restarts THEN <<t, o.maintenance>> ELSE restarted[r]
  BY RoleRecord
<1>3. CASE r \in o.restarts /\ r \in Alerted(t, o)
  BY <1>2, <1>3 DEF NoTime
<1>4. CASE r \in o.restarts /\ r \notin Alerted(t, o)
  <2>1. ~Cooled(last_fire[r], t, Cooldown)
    BY <1>1, <1>4, KeyRecord
  <2>2. last_fire[r] # NoTime /\ t - last_fire[r] < Cooldown
    BY <2>1, <1>1, NotCooled
  <2> QED  BY <1>2, <1>4, <2>2
<1>5. CASE r \notin o.restarts
  BY <1>2, <1>5 DEF RestartHeard
<1> QED
  BY <1>3, <1>4, <1>5

\* eval_restarts: no restart of a role goes unheard for longer than a cooldown.
THEOREM RestartsHeard == Spec => []RestartHeard
<1>1. Init => RestartHeard
  BY DEF Init, RestartHeard
<1>2. TypeOK /\ EventMirror /\ RestartHeard /\ [Next]_vars => RestartHeard'
  <2> SUFFICES ASSUME TypeOK, EventMirror, RestartHeard, [Next]_vars PROVE RestartHeard'
    OBVIOUS
  <2>1. CASE Next
    BY <2>1, NextEvaluates, EvaluateHeard
  <2>2. CASE UNCHANGED vars
    BY <2>2 DEF RestartHeard, vars, engine, history
  <2> QED  BY <2>1, <2>2
<1> QED
  BY <1>1, <1>2, TypeCorrect, EventsMirror, PTL DEF Spec

\* A crash loop is not called stable: the clock runs from the last restart.
LEMMA EvaluateOwed ==
    ASSUME TypeOK, EventMirror, StableOwedFromTheLast,
           NEW t \in Nat, NEW o \in Observation, Evaluate(t, o)
    PROVE  StableOwedFromTheLast'
<1> SUFFICES ASSUME NEW r \in Roles
             PROVE  restart_pending'[r] = IF r \in told' THEN restarted'[r][1] ELSE NoTime
  BY DEF StableOwedFromTheLast
<1>1. /\ r \in told' <=> /\ r \in told \/ (r \in o.restarts /\ r \in Alerted(t, o))
                         /\ r \notin Stable(t, o)
      /\ restarted'[r] = IF r \in o.restarts THEN <<t, o.maintenance>> ELSE restarted[r]
      /\ restart_pending'[r] = IF r \in Stable(t, o) THEN NoTime ELSE Pending(t, o)[r]
  BY RoleRecord
<1>2. Pending(t, o)[r] =
        IF r \in o.restarts /\ (r \in Alerted(t, o) \/ restart_pending[r] # NoTime)
        THEN t ELSE restart_pending[r]
  BY DEF Pending
<1>3. /\ r \in told => restarted[r][1] # NoTime
      /\ restart_pending[r] = IF r \in told THEN restarted[r][1] ELSE NoTime
  BY DEF EventMirror, StableOwedFromTheLast
<1>4. CASE r \in Stable(t, o)
  BY <1>1, <1>4
<1>5. CASE r \notin Stable(t, o) /\ r \in o.restarts
  <2>1. restarted'[r][1] = t
    BY <1>1, <1>5
  <2> QED  BY <1>1, <1>2, <1>3, <1>5, <2>1
<1>6. CASE r \notin Stable(t, o) /\ r \notin o.restarts
  BY <1>1, <1>2, <1>3, <1>6
<1> QED
  BY <1>4, <1>5, <1>6

\* eval_restarts: while a role is owed a "stable again", the clock it waits for runs
\* from its last restart.
THEOREM StableOwed == Spec => []StableOwedFromTheLast
<1>1. Init => StableOwedFromTheLast
  BY DEF Init, StableOwedFromTheLast
<1>2. TypeOK /\ EventMirror /\ StableOwedFromTheLast /\ [Next]_vars
        => StableOwedFromTheLast'
  <2> SUFFICES ASSUME TypeOK, EventMirror, StableOwedFromTheLast, [Next]_vars
               PROVE  StableOwedFromTheLast'
    OBVIOUS
  <2>1. CASE Next
    BY <2>1, NextEvaluates, EvaluateOwed
  <2>2. CASE UNCHANGED vars
    BY <2>2 DEF StableOwedFromTheLast, vars, engine, history
  <2> QED  BY <2>1, <2>2
<1> QED
  BY <1>1, <1>2, TypeCorrect, EventsMirror, PTL DEF Spec

\* "Stable again" is labelled as the alert it answers was.
LEMMA EvaluateSameLabel ==
    ASSUME TypeOK, EventMirror, NEW t \in Nat, NEW o \in Observation, Evaluate(t, o)
    PROVE  SameLabel
<1> SUFFICES ASSUME NEW m \in Messages(t, o), m.recovered, m.rule \in Roles
             PROVE  m.sev = last_sev'[m.rule]
  BY SentMessages DEF SameLabel
<1> DEFINE r == m.rule
<1>1. m \in EventMessages(t, o)
  <2>1. m \in ServeMessages(t, o) \/ m \in GateMessages(t, o) => m.rule \in LevelRules
    BY ServeShape, GateShape DEF Msg, LevelRules
  <2> QED  BY <2>1, Members, Names
<1>2. r \in Stable(t, o) /\ m.sev = Severity(Planned(t, o)[r])
  BY <1>1, EventShape
<1>3. Pending(t, o)[r] # NoTime
  BY <1>2 DEF Stable
<1>4. last_sev'[r] = IF r \in o.restarts /\ r \in Alerted(t, o)
                    THEN Severity(o.maintenance) ELSE last_sev[r]
  BY RoleRecord
<1>5. CASE r \in o.restarts /\ r \in Alerted(t, o)
  <2>1. Planned(t, o)[r] = o.maintenance
    BY <1>5 DEF Planned
  <2> QED  BY <1>2, <1>4, <1>5, <2>1
<1>6. CASE ~(r \in o.restarts /\ r \in Alerted(t, o))
  <2>1. restart_pending[r] # NoTime
    BY <1>3, <1>6 DEF Pending
  <2>2. Planned(t, o)[r] = restart_planned[r]
    BY <1>6 DEF Planned
  <2> QED  BY <1>2, <1>4, <1>6, <2>1, <2>2 DEF EventMirror
<1> QED
  BY <1>5, <1>6

\* eval_restarts: "stable again" carries the label its alert was sent with.
THEOREM LabelsKept == Spec => StableKeepsLabel
<1>1. TypeOK /\ EventMirror /\ [Next]_vars => [SameLabel]_vars
  BY NextEvaluates, EvaluateSameLabel
<1> QED
  BY <1>1, TypeCorrect, EventsMirror, PTL DEF Spec, StableKeepsLabel

-----------------------------------------------------------------------------
\* The anti-spam rule, for the level rules and the event keys together: a rule,
\* role or device is alerted at most once per cooldown.
LEMMA EvaluateSpaced ==
    ASSUME TypeOK, LevelMirror, EventMirror,
           NEW t \in Nat, NEW o \in Observation, Evaluate(t, o)
    PROVE  Spaced
<1>1. now' = t /\ out' = Messages(t, o)
  BY SentMessages DEF Evaluate
<1>2. ServeDown(o) \in BOOLEAN /\ GateDown(o) \in BOOLEAN
  BY DEF ServeDown, GateDown
<1>3. /\ WarnEdge(t, o) = "Fire" => Cooled(serve_down.last_sent, t, Cooldown)
      /\ PageEdge(t, o) = "Fire" => Cooled(serve_down_page.last_sent, t, Cooldown)
      /\ GateEdge(t, o) = "Fire" => Cooled(gate_down.last_sent, t, Cooldown)
  BY <1>2, LevelSteps DEF Advances, Due
<1>4. \A k \in LevelRules : k \in Fired(out') => Cooled(last_fire[k], t, Cooldown)
  BY <1>1, <1>3, FiredLevel DEF LevelRules, LevelMirror, Mirrors
<1>5. \A k \in Keys : k \in Fired(out') => Cooled(last_fire[k], t, Cooldown)
  BY KeyRecord DEF EventMirror
<1> QED
  BY <1>1, <1>4, <1>5 DEF Spaced, Cooled

\* event_cooled, Sustained::cooled: two alerts of one key are at least a cooldown apart.
THEOREM AlertsAreSpaced == Spec => AlertsSpaced
<1>1. TypeOK /\ LevelMirror /\ EventMirror /\ [Next]_vars => [Spaced]_vars
  BY NextEvaluates, EvaluateSpaced
<1> QED
  BY <1>1, TypeCorrect, LevelMirrors, EventsMirror, PTL DEF Spec, AlertsSpaced

-----------------------------------------------------------------------------
(***************************************************************************)
(* The rules implement AlertChannel: their first state is one of the       *)
(* channel's, and every evaluation is a step of the channel.               *)
(***************************************************************************)
Cond(k, o) == IF k = "gate_down" THEN GateDown(o) ELSE ServeDown(o)

Hold(k) ==
    IF k = "serve_down" THEN WarnHold ELSE IF k = "serve_down_page" THEN PageHold ELSE GateHold

LevelEdge(k, t, o) == EdgeOf(TimerOf(k), t, Cond(k, o), Hold(k), Cooldown)

\* A topic is a level rule, a role or a device, and what answers it is no device.
LEMMA TopicNames ==
    /\ \A k \in Topics : k \in LevelRules \/ k \in Roles \/ k \in Gpus
    /\ \A k \in Topics : NameOf[k] = IF k = "serve_down_page" THEN "serve_down" ELSE k
    /\ \A k \in Keys : NameOf[k] = k
    /\ LevelRules \subseteq Topics /\ Keys \subseteq Topics
    /\ \A k \in LevelRules : NameOf[k] \in LevelRules /\ k \notin Keys
    /\ NameOf["serve_down"] = "serve_down" /\ NameOf["serve_down_page"] = "serve_down"
    /\ NameOf["gate_down"] = "gate_down"
<1>1. LevelRules \subseteq Topics /\ Keys \subseteq Topics
  BY DEF Topics
<1>2. \A k \in Topics : NameOf[k] = IF k = "serve_down_page" THEN "serve_down" ELSE k
  BY DEF NameOf
<1>3. \A k \in LevelRules : k \notin Keys
  BY Names DEF Keys
<1>4. {"serve_down", "serve_down_page", "gate_down"} = LevelRules
  BY DEF LevelRules
<1> QED
  BY <1>1, <1>2, <1>3, <1>4 DEF Topics, Keys

\* What a reader waits for, rule by rule and role by role, now ...
LEMMA OutstandingNow ==
    /\ \A k \in LevelRules : k \in Outstanding <=> TimerOf(k).announced
    /\ \A r \in Roles : r \in Outstanding <=> restart_pending[r] # NoTime
    /\ \A k \in Outstanding : k \in LevelRules \/ k \in Roles
BY Names DEF Outstanding

\* ... and after the poll.
LEMMA OutstandingThen ==
    /\ \A k \in LevelRules : k \in Outstanding' <=> TimerOf(k)'.announced
    /\ \A r \in Roles : r \in Outstanding' <=> restart_pending'[r] # NoTime
    /\ \A k \in Outstanding' : k \in LevelRules \/ k \in Roles
BY Names DEF Outstanding

\* Each level timer makes one step on its own condition, and its rule is alerted and
\* answered at the edges of that step, those of the serve together.
LEMMA LevelPoll ==
    ASSUME TypeOK, NEW t \in Nat, NEW o \in Observation, Evaluate(t, o), NEW k \in LevelRules
    PROVE  /\ Advances(TimerOf(k), TimerOf(k)', LevelEdge(k, t, o), t, Cond(k, o), Hold(k))
           /\ k \in Fired(out') <=> LevelEdge(k, t, o) = "Fire"
           /\ NameOf[k] \in Cleared(out') <=>
                 \E l \in LevelRules : NameOf[l] = NameOf[k] /\ LevelEdge(l, t, o) = "Recover"
           /\ \A l \in LevelRules : NameOf[l] = NameOf[k] => Cond(l, o) = Cond(k, o)
           /\ Cond(k, o) \in BOOLEAN
<1>1. /\ TimerOf("serve_down") = serve_down /\ TimerOf("serve_down_page") = serve_down_page
      /\ TimerOf("gate_down") = gate_down
  BY DEF TimerOf
<1>2. /\ TimerOf("serve_down")' = serve_down' /\ TimerOf("serve_down_page")' = serve_down_page'
      /\ TimerOf("gate_down")' = gate_down'
  BY DEF TimerOf
<1>3. /\ LevelEdge("serve_down", t, o) = WarnEdge(t, o)
      /\ LevelEdge("serve_down_page", t, o) = PageEdge(t, o)
      /\ LevelEdge("gate_down", t, o) = GateEdge(t, o)
  BY <1>1 DEF LevelEdge, WarnEdge, PageEdge, GateEdge, Cond, Hold
<1>4. /\ Hold("serve_down") = WarnHold /\ Hold("serve_down_page") = PageHold
      /\ Hold("gate_down") = GateHold
  BY DEF Hold
<1>5. /\ Cond("serve_down", o) = ServeDown(o) /\ Cond("serve_down_page", o) = ServeDown(o)
      /\ Cond("gate_down", o) = GateDown(o)
      /\ ServeDown(o) \in BOOLEAN /\ GateDown(o) \in BOOLEAN
  BY DEF Cond, ServeDown, GateDown
<1>6. k = "serve_down" \/ k = "serve_down_page" \/ k = "gate_down"
  BY DEF LevelRules
<1>7. /\ Advances(serve_down, serve_down', WarnEdge(t, o), t, ServeDown(o), WarnHold)
      /\ Advances(serve_down_page, serve_down_page', PageEdge(t, o), t, ServeDown(o), PageHold)
      /\ Advances(gate_down, gate_down', GateEdge(t, o), t, GateDown(o), GateHold)
  BY LevelSteps
<1>8. Advances(TimerOf(k), TimerOf(k)', LevelEdge(k, t, o), t, Cond(k, o), Hold(k))
  BY <1>1, <1>2, <1>3, <1>4, <1>5, <1>6, <1>7
<1>9. k \in Fired(out') <=> LevelEdge(k, t, o) = "Fire"
  BY <1>3, <1>6, SentMessages, FiredLevel
<1>10. \A l \in LevelRules : l = "serve_down" \/ l = "serve_down_page" \/ l = "gate_down"
  BY DEF LevelRules
<1>11. {"serve_down", "serve_down_page", "gate_down"} \subseteq LevelRules
  BY DEF LevelRules
<1>12. NameOf[k] \in Cleared(out') <=>
          \E l \in LevelRules : NameOf[l] = NameOf[k] /\ LevelEdge(l, t, o) = "Recover"
  BY <1>3, <1>6, <1>10, <1>11, SentMessages, ClearedLevel, TopicNames
<1>13. \A l \in LevelRules : NameOf[l] = NameOf[k] => Cond(l, o) = Cond(k, o)
  BY <1>5, <1>6, <1>10, TopicNames
<1> QED
  BY <1>5, <1>6, <1>8, <1>9, <1>12, <1>13

\* An alert is one the channel may carry.
LEMMA AlertAllowed ==
    ASSUME TypeOK, NEW t \in Nat, NEW o \in Observation, Evaluate(t, o), NEW k \in Topics,
           k \in Fired(out')
    PROVE  Channel!MayAlert(k)
<1>1. now' = t /\ LastSent[k] = IF k \in LevelRules THEN TimerOf(k).last_sent ELSE event_last_sent[k]
  BY DEF Evaluate, LastSent
<1>2. CASE k \in LevelRules
  <2>1. /\ LevelEdge(k, t, o) = "Fire"
        /\ Advances(TimerOf(k), TimerOf(k)', LevelEdge(k, t, o), t, Cond(k, o), Hold(k))
    BY <1>2, LevelPoll
  <2>2. Cond(k, o) /\ Due(TimerOf(k), t, Hold(k), Cooldown)
    BY <2>1 DEF Advances
  <2>3. LastSent[k] = NoTime \/ now' - LastSent[k] >= Cooldown
    BY <1>1, <1>2, <2>2 DEF Due, Cooled
  <2>4. k \notin Outstanding
    BY <1>2, <2>2, OutstandingNow DEF Due
  <2>5. NameOf[k] \notin Cleared(out')
    <3> SUFFICES ASSUME NEW l \in LevelRules, NameOf[l] = NameOf[k]
                 PROVE  LevelEdge(l, t, o) # "Recover"
      BY <1>2, LevelPoll
    <3>1. Cond(l, o)
      BY <1>2, <2>2, LevelPoll
    <3> QED
      BY <3>1, LevelPoll DEF Advances
  <2> QED
    BY <2>3, <2>4, <2>5 DEF Channel!MayAlert, Channel!Spaced, Said
<1>3. CASE k \notin LevelRules
  <2>1. k \in Keys
    BY <1>3 DEF Topics
  <2>2. Cooled(event_last_sent[k], t, Cooldown)
    BY <2>1, KeyRecord
  <2>3. LastSent[k] = NoTime \/ now' - LastSent[k] >= Cooldown
    BY <1>1, <1>3, <2>2 DEF Cooled
  <2> QED
    BY <1>3, <2>3 DEF Channel!MayAlert, Channel!Spaced
<1> QED
  BY <1>2, <1>3

\* A recovery goes by the name of something outstanding, or of what was alerted with it.
LEMMA AnswerAllowed ==
    ASSUME TypeOK, NEW t \in Nat, NEW o \in Observation, Evaluate(t, o), NEW n \in Cleared(out')
    PROVE  Channel!MayAnswer(n) /\ n \in Topics \ Gpus
<1>1. PICK m \in Messages(t, o) : m.recovered /\ m.rule = n
  BY SentMessages, Members
<1>2. n \in LevelRules \cup Keys
  BY <1>1, MessagesType DEF MsgType
<1>3. CASE n \in LevelRules
  <2>1. n = "serve_down" \/ n = "gate_down"
    BY <1>3, SentMessages, ClearedLevel DEF LevelRules
  <2>2. NameOf[n] = n
    BY <2>1, TopicNames
  <2>3. PICK l \in LevelRules : NameOf[l] = n /\ LevelEdge(l, t, o) = "Recover"
    BY <1>3, <2>2, LevelPoll
  <2>4. TimerOf(l).announced
    BY <2>3, LevelPoll DEF Advances
  <2>5. l \in Outstanding /\ l \notin Gpus /\ n \notin Gpus
    BY <1>3, <2>3, <2>4, OutstandingNow, Names
  <2> QED
    BY <1>3, <2>3, <2>5, TopicNames DEF Channel!MayAnswer
<1>4. CASE n \notin LevelRules
  <2>1. m \in EventMessages(t, o)
    <3>1. \A x : x \in ServeMessages(t, o) \/ x \in GateMessages(t, o) => x.rule \in LevelRules
      BY ServeShape, GateShape DEF Msg, LevelRules
    <3> QED
      BY <1>1, <1>4, <3>1, Members
  <2>2. n \in Stable(t, o)
    BY <1>1, <2>1, EventShape
  <2>3. n \in Roles
    BY <2>2, EventKeys
  <2>4. Pending(t, o)[n] # NoTime
    BY <2>2 DEF Stable
  <2>5. restart_pending[n] # NoTime \/ (n \in o.restarts /\ n \in Alerted(t, o))
    <3>1. Pending(t, o)[n] = IF n \in o.restarts /\ (n \in Alerted(t, o) \/ restart_pending[n] # NoTime)
                             THEN t ELSE restart_pending[n]
      BY <2>3 DEF Pending
    <3> QED
      BY <2>4, <3>1
  <2>6. n \in Outstanding \/ n \in Fired(out')
    BY <2>3, <2>5, OutstandingNow, SentMessages, FiredEvents
  <2> QED
    BY <2>3, <2>6, TopicNames, Names DEF Channel!MayAnswer, Said, Keys
<1> QED
  BY <1>3, <1>4

\* What is outstanding after the poll: what was, and what was alerted, but for the answers.
LEMMA OutstandingStep ==
    ASSUME TypeOK, NEW t \in Nat, NEW o \in Observation, Evaluate(t, o)
    PROVE  Outstanding' = {k \in Outstanding \cup (Fired(out') \ Gpus) :
                              NameOf[k] \notin Cleared(out')}
<1>1. ASSUME NEW k \in LevelRules
      PROVE  k \in Outstanding' <=> /\ k \in Outstanding \/ k \in Fired(out') \ Gpus
                                    /\ NameOf[k] \notin Cleared(out')
  <2>1. Advances(TimerOf(k), TimerOf(k)', LevelEdge(k, t, o), t, Cond(k, o), Hold(k))
    BY LevelPoll
  <2>2. k \notin Gpus /\ (k \in Fired(out') <=> LevelEdge(k, t, o) = "Fire")
    BY LevelPoll, Names
  <2>3. /\ k \in Outstanding <=> TimerOf(k).announced
        /\ k \in Outstanding' <=> TimerOf(k)'.announced
    BY OutstandingNow, OutstandingThen
  <2>4. CASE Cond(k, o)
    <3>1. ASSUME NEW l \in LevelRules, NameOf[l] = NameOf[k]
          PROVE  LevelEdge(l, t, o) # "Recover"
      <4>1. Cond(l, o)
        BY <2>4, <3>1, LevelPoll
      <4> QED
        BY <4>1, LevelPoll DEF Advances
    <3>2. NameOf[k] \notin Cleared(out')
      BY <3>1, LevelPoll
    <3> QED
      BY <2>1, <2>2, <2>3, <2>4, <3>2 DEF Advances
  <2>5. CASE ~Cond(k, o)
    <3>1. k \notin Outstanding' /\ k \notin Fired(out')
      BY <2>1, <2>2, <2>3, <2>5 DEF Advances
    <3>2. k \in Outstanding => NameOf[k] \in Cleared(out')
      BY <2>1, <2>3, <2>5, LevelPoll DEF Advances
    <3> QED
      BY <3>1, <3>2
  <2> QED
    BY <2>4, <2>5
<1>2. ASSUME NEW r \in Roles
      PROVE  r \in Outstanding' <=> /\ r \in Outstanding \/ r \in Fired(out') \ Gpus
                                    /\ NameOf[r] \notin Cleared(out')
  <2>1. r \in Keys /\ r \notin Gpus /\ NameOf[r] = r
    BY Names, TopicNames DEF Keys
  <2>2. /\ r \in Outstanding <=> restart_pending[r] # NoTime
        /\ r \in Outstanding' <=> restart_pending'[r] # NoTime
    BY OutstandingNow, OutstandingThen
  <2>3. /\ r \in Fired(out') <=> r \in o.restarts /\ r \in Alerted(t, o)
        /\ r \in Cleared(out') <=> r \in Stable(t, o)
    BY SentMessages, FiredEvents, ClearedEvents
  <2>4. restart_pending'[r] = IF r \in Stable(t, o) THEN NoTime ELSE Pending(t, o)[r]
    BY RoleRecord
  <2>5. Pending(t, o)[r] # NoTime <=>
          restart_pending[r] # NoTime \/ (r \in o.restarts /\ r \in Alerted(t, o))
    BY DEF Pending, NoTime
  <2> QED
    BY <2>1, <2>2, <2>3, <2>4, <2>5
<1>3. \A k \in Fired(out') : k \in LevelRules \/ k \in Roles \/ k \in Gpus
  BY SentMessages, MessagesType, Members DEF MsgType, Keys
<1>4. \A k \in Outstanding : k \in LevelRules \/ k \in Roles
  BY OutstandingNow
<1>5. \A k \in Outstanding' : k \in LevelRules \/ k \in Roles
  BY OutstandingThen
<1> QED
  BY <1>1, <1>2, <1>3, <1>4, <1>5

\* The times of the last alerts after the poll.
LEMMA LastSentStep ==
    ASSUME TypeOK, NEW t \in Nat, NEW o \in Observation, Evaluate(t, o)
    PROVE  LastSent' = [k \in Topics |-> IF k \in Fired(out') THEN now' ELSE LastSent[k]]
<1>1. now' = t
  BY DEF Evaluate
<1>2. LastSent' = [k \in Topics |-> IF k \in LevelRules THEN TimerOf(k)'.last_sent
                                    ELSE event_last_sent'[k]]
  BY DEF LastSent
<1>3. ASSUME NEW k \in Topics
      PROVE  (IF k \in LevelRules THEN TimerOf(k)'.last_sent ELSE event_last_sent'[k])
                = IF k \in Fired(out') THEN now' ELSE LastSent[k]
  <2>1. LastSent[k] = IF k \in LevelRules THEN TimerOf(k).last_sent ELSE event_last_sent[k]
    BY DEF LastSent
  <2>2. CASE k \in LevelRules
    <3>1. TimerOf(k)'.last_sent = IF LevelEdge(k, t, o) = "Fire" THEN t ELSE TimerOf(k).last_sent
      BY <2>2, LevelPoll DEF Advances
    <3> QED
      BY <1>1, <2>1, <2>2, <3>1, LevelPoll
  <2>3. CASE k \notin LevelRules
    <3>1. k \in Keys
      BY <2>3 DEF Topics
    <3> QED
      BY <1>1, <2>1, <2>3, <3>1, KeyRecord
  <2> QED
    BY <2>2, <2>3
<1> QED
  BY <1>2, <1>3

\* One evaluation is a step of the channel.
LEMMA EvaluateIsAStep ==
    ASSUME TypeOK, NEW t \in Nat, NEW o \in Observation, t >= now, Evaluate(t, o)
    PROVE  Channel!Next
<1>1. now' \in Nat /\ now' >= now
  BY DEF Evaluate
<1>2. Fired(out') \subseteq Topics
  BY SentMessages, MessagesType, Members DEF MsgType, Topics
<1>3. Cleared(out') \subseteq Topics \ Gpus
  BY AnswerAllowed
<1>4. Said' = [alerts |-> Fired(out'), over |-> Cleared(out')]
  BY DEF Said
<1>5. Said' \in [alerts: SUBSET Topics, over: SUBSET (Topics \ Gpus)]
  BY <1>2, <1>3, <1>4
<1>6. \A k \in Said'.alerts : Channel!MayAlert(k)
  BY <1>2, <1>4, AlertAllowed
<1>7. \A n \in Said'.over : Channel!MayAnswer(n)
  BY <1>4, AnswerAllowed
<1>8. Outstanding' = {k \in Outstanding \cup (Said'.alerts \ Gpus) : NameOf[k] \notin Said'.over}
  BY <1>4, OutstandingStep
<1>9. LastSent' = [k \in Topics |-> IF k \in Said'.alerts THEN now' ELSE LastSent[k]]
  BY <1>4, LastSentStep
<1> QED
  BY <1>1, <1>5, <1>6, <1>7, <1>8, <1>9 DEF Channel!Next

\* A new engine has told nobody anything.
LEMMA InitIsAnInit == Init => Channel!Init
<1> SUFFICES ASSUME Init PROVE Channel!Init
  OBVIOUS
<1>1. \A k \in LevelRules : ~TimerOf(k).announced /\ TimerOf(k).last_sent = NoTime
  BY DEF Init, LevelRules, TimerOf, IdleTimer
<1>2. /\ \A r \in Roles : restart_pending[r] = NoTime
      /\ \A k \in Keys : event_last_sent[k] = NoTime
  BY DEF Init
<1>3. Outstanding = {}
  BY <1>1, <1>2, OutstandingNow
<1>4. LastSent = [k \in Topics |-> NoTime]
  BY <1>1, <1>2 DEF LastSent, Topics
<1>5. Said = [alerts |-> {}, over |-> {}]
  BY DEF Init, Said, Fired, Cleared
<1>6. now \in Nat
  BY DEF Init
<1> QED
  BY <1>3, <1>4, <1>5, <1>6 DEF Channel!Init

\* The rules of the two services and of the devices implement the channel: whatever the
\* durations, the devices and the observations, each message keeps what its header promises.
THEOREM ChannelImplemented == Spec => ImplementsChannel
<1>1. Init => Channel!Init
  BY InitIsAnInit
<1>2. TypeOK /\ [Next]_vars => [Channel!Next]_(Channel!channel_vars)
  <2> SUFFICES ASSUME TypeOK, [Next]_vars PROVE [Channel!Next]_(Channel!channel_vars)
    OBVIOUS
  <2>1. CASE Next
    BY <2>1, NextEvaluates, EvaluateIsAStep
  <2>2. CASE UNCHANGED vars
    BY <2>2 DEF vars, engine, history, Channel!channel_vars, Outstanding, LastSent, Said,
                TimerOf, Fired, Cleared
  <2> QED
    BY <2>1, <2>2
<1> QED
  BY <1>1, <1>2, TypeCorrect, PTL DEF Spec, ImplementsChannel, Channel!Spec

-----------------------------------------------------------------------------
(***************************************************************************)
(* The load rules                                                          *)
(***************************************************************************)
LoadTimers ==
    /\ now \in Nat
    /\ load \in [LoadNames -> TimerType]
    /\ load_quiet \in [LoadNames -> OptTime]
    /\ load_told \subseteq LoadNames

\* A timer is announced exactly when its rule's last message is unanswered, and runs
\* since a time after the last quiet poll.
LoadMirror ==
    \A r \in LoadNames :
        /\ load[r].announced <=> r \in load_told
        /\ load_quiet[r] # NoTime =>
              /\ load_quiet[r] <= now
              /\ load[r].since # NoTime => load[r].since >= load_quiet[r]

\* A quiet poll is one that steps the timer, and with a condition that is false.
LEMMA QuietIsJudged ==
    ASSUME NEW r \in LoadNames, NEW o \in LoadObservation
    PROVE  /\ Quiet(r, o) => Judged(r, o) /\ ~Holds(r, o)
           /\ Judged(r, o) /\ ~Holds(r, o) => Quiet(r, o)
<1>1. o.read[r] \in {"bad", "fine", "nothing"}
  BY DEF LoadObservation
<1>2. r \in Emptied \/ r \in Charging \/ r \in Budget \/ r \in Mismatch
  BY DEF LoadNames
<1> QED
  BY <1>1, <1>2 DEF Quiet, Judged, Holds, Emptied, Charging, Budget, Mismatch

\* What one poll does to a rule's timer.
LEMMA LoadStep ==
    ASSUME LoadTimers, NEW t \in Nat, NEW o \in LoadObservation, EvalLoad(t, o),
           NEW r \in LoadNames
    PROVE  /\ load'[r] \in TimerType
           /\ Judged(r, o) =>
                  Advances(load[r], load'[r], load_out'[r], t, Holds(r, o), LoadHold[r])
           /\ ~Judged(r, o) => load'[r] = load[r] /\ load_out'[r] = "None"
<1>1. load[r] \in TimerType /\ LoadHold[r] \in Nat /\ Cooldown \in Nat
  BY LoadAssumption, ClockAssumption DEF LoadTimers
<1>2. Holds(r, o) \in BOOLEAN /\ o.read[r] \in {"bad", "fine", "nothing"}
  BY DEF Holds, LoadObservation
<1>3. CASE Judged(r, o)
  <2>1. /\ load'[r] = Step(load[r], t, Holds(r, o), LoadHold[r], Cooldown)
        /\ load_out'[r] = EdgeOf(load[r], t, Holds(r, o), LoadHold[r], Cooldown)
    BY <1>3 DEF EvalLoad, LoadEdge
  <2> QED
    BY <1>1, <1>2, <1>3, <2>1, StepType, StepAdvances
<1>4. CASE ~Judged(r, o)
  BY <1>1, <1>4 DEF EvalLoad, LoadEdge
<1> QED
  BY <1>3, <1>4

\* One poll keeps the mirror, and what it says is what it read.
LEMMA LoadPoll ==
    ASSUME LoadTimers, LoadMirror, NEW t \in Nat, t >= now, now' = t,
           NEW o \in LoadObservation, EvalLoad(t, o)
    PROVE  LoadTimers' /\ LoadMirror' /\ LoadSaid
<1>1. LoadTimers'
  <2>1. load' \in [LoadNames -> TimerType]
    <3>1. \A r \in LoadNames : load'[r] \in TimerType
      BY LoadStep
    <3>2. DOMAIN load' = LoadNames /\ load' = [r \in LoadNames |-> load'[r]]
      BY DEF EvalLoad
    <3> QED
      BY <3>1, <3>2
  <2>2. load_quiet' \in [LoadNames -> OptTime]
    BY DEF EvalLoad, LoadTimers, OptTime
  <2>3. load_told' \subseteq LoadNames
    BY DEF EvalLoad
  <2> QED
    BY <2>1, <2>2, <2>3 DEF LoadTimers
<1>2. ASSUME NEW r \in LoadNames
      PROVE  /\ load'[r].announced <=> r \in load_told'
             /\ load_quiet'[r] # NoTime =>
                    /\ load_quiet'[r] <= t
                    /\ load'[r].since # NoTime => load'[r].since >= load_quiet'[r]
             /\ load_out'[r] = "Fire" =>
                    /\ Judged(r, o) /\ Holds(r, o)
                    /\ load_quiet'[r] # NoTime => t - load_quiet'[r] >= LoadHold[r]
             /\ load_out'[r] = "Recover" => r \in load_told /\ Judged(r, o) /\ ~Holds(r, o)
  <2>1. /\ load[r] \in TimerType /\ load'[r] \in TimerType
        /\ load_quiet[r] \in Nat \cup {NoTime} /\ load_quiet'[r] \in Nat \cup {NoTime}
        /\ LoadHold[r] \in Nat /\ now \in Nat
    BY <1>1, LoadAssumption DEF LoadTimers, OptTime
  <2>2. /\ load[r].announced <=> r \in load_told
        /\ load_quiet[r] # NoTime =>
              /\ load_quiet[r] <= now
              /\ load[r].since # NoTime => load[r].since >= load_quiet[r]
    BY DEF LoadMirror
  <2>3. /\ load_quiet'[r] = IF Quiet(r, o) THEN t ELSE load_quiet[r]
        /\ r \in load_told' <=>
              load_out'[r] = "Fire" \/ (r \in load_told /\ load_out'[r] # "Recover")
    BY DEF EvalLoad
  <2>4. Quiet(r, o) <=> Judged(r, o) /\ ~Holds(r, o)
    BY QuietIsJudged
  <2>5. CASE ~Judged(r, o)
    BY <2>1, <2>2, <2>3, <2>4, <2>5, LoadStep
  <2>6. CASE Judged(r, o)
    <3>1. Advances(load[r], load'[r], load_out'[r], t, Holds(r, o), LoadHold[r])
      BY <2>6, LoadStep
    <3>2. CASE Holds(r, o)
      BY <2>1, <2>2, <2>3, <2>4, <2>6, <3>1, <3>2
         DEF Advances, Due, Since, TimerType, OptTime, NoTime
    <3>3. CASE ~Holds(r, o)
      BY <2>1, <2>2, <2>3, <2>4, <2>6, <3>1, <3>3 DEF Advances, NoTime
    <3> QED
      BY <3>2, <3>3
  <2> QED
    BY <2>5, <2>6
<1>3. LoadMirror'
  BY <1>2 DEF LoadMirror
<1>4. LoadSaid
  <2> SUFFICES ASSUME NEW r \in LoadNames
               PROVE  /\ load_out'[r] = "Fire" => FiresOnLoad(r)
                      /\ load_out'[r] = "Recover" => r \in load_told /\ Quiet(r, load_seen')
    BY DEF LoadSaid
  <2>1. load_seen' = o
    BY DEF EvalLoad
  <2>2. r \in Emptied \/ r \in Charging \/ r \in Budget \/ r \in Mismatch
    BY DEF LoadNames
  <2>3. load_out'[r] = "Fire" => FiresOnLoad(r)
    BY <1>2, <2>1, <2>2 DEF FiresOnLoad, Judged, Holds
  <2> QED
    BY <1>2, <2>1, <2>3, QuietIsJudged
<1> QED
  BY <1>1, <1>3, <1>4

-----------------------------------------------------------------------------
(***************************************************************************)
(* The GPU rules                                                           *)
(***************************************************************************)
GpuTimers ==
    /\ now \in Nat
    /\ thermal \in [Thermal -> TimerType]
    /\ cool \in [Thermal -> OptTime]
    /\ thermal_told \subseteq Thermal

\* As for the load rules: the timer of a device is announced when its alert is
\* unanswered, and runs since a time after it was last read under its line.
ThermalMirror ==
    \A r \in Thermal :
        /\ thermal[r].announced <=> r \in thermal_told
        /\ cool[r] # NoTime =>
              /\ cool[r] <= now
              /\ thermal[r].since # NoTime => thermal[r].since >= cool[r]

Hot(r, g) == r[2] \in g.over[r[1]]

\* What one poll does to the timer of a device.
LEMMA ThermalStep ==
    ASSUME GpuTimers, NEW t \in Nat, NEW g \in Listing, EvalGpus(t, g), NEW r \in Thermal
    PROVE  /\ thermal'[r] \in TimerType
           /\ Stepped(r, g) =>
                  Advances(thermal[r], thermal'[r], gpu_out'.thermal[r], t, Hot(r, g), ThermalHold)
           /\ ~Stepped(r, g) => thermal'[r] = thermal[r] /\ gpu_out'.thermal[r] = "None"
<1>1. thermal[r] \in TimerType /\ ThermalHold \in Nat /\ Cooldown \in Nat
  BY GpuAssumption, ClockAssumption DEF GpuTimers
<1>2. Hot(r, g) \in BOOLEAN
  BY DEF Hot
<1>3. gpu_out'.thermal[r] = ThermalEdge(t, r, g)
  BY DEF EvalGpus
<1>4. CASE Stepped(r, g)
  <2>1. /\ thermal'[r] = Step(thermal[r], t, Hot(r, g), ThermalHold, Cooldown)
        /\ gpu_out'.thermal[r] = EdgeOf(thermal[r], t, Hot(r, g), ThermalHold, Cooldown)
    BY <1>3, <1>4 DEF EvalGpus, EvalThermal, ThermalEdge, Hot
  <2> QED
    BY <1>1, <1>2, <1>4, <2>1, StepType, StepAdvances
<1>5. CASE ~Stepped(r, g)
  BY <1>1, <1>3, <1>5 DEF EvalGpus, EvalThermal, ThermalEdge
<1> QED
  BY <1>4, <1>5

\* One poll keeps the mirror, and what it says of a device is what it read of it.
LEMMA GpuPoll ==
    ASSUME GpuTimers, ThermalMirror, NEW t \in Nat, t >= now, now' = t,
           NEW g \in Listing, EvalGpus(t, g)
    PROVE  GpuTimers' /\ ThermalMirror' /\ GpuSaid
<1>1. GpuTimers'
  <2>1. thermal' \in [Thermal -> TimerType]
    <3>1. \A r \in Thermal : thermal'[r] \in TimerType
      BY ThermalStep
    <3>2. DOMAIN thermal' = Thermal /\ thermal' = [r \in Thermal |-> thermal'[r]]
      BY DEF EvalGpus, EvalThermal
    <3> QED
      BY <3>1, <3>2
  <2>2. cool' \in [Thermal -> OptTime]
    BY DEF EvalGpus, GpuTimers, OptTime
  <2>3. thermal_told' \subseteq Thermal
    BY DEF EvalGpus
  <2> QED
    BY <2>1, <2>2, <2>3 DEF GpuTimers
<1>2. ASSUME NEW r \in Thermal
      PROVE  /\ thermal'[r].announced <=> r \in thermal_told'
             /\ cool'[r] # NoTime =>
                    /\ cool'[r] <= t
                    /\ thermal'[r].since # NoTime => thermal'[r].since >= cool'[r]
             /\ gpu_out'.thermal[r] = "Fire" =>
                    /\ Hot(r, g)
                    /\ cool'[r] # NoTime => t - cool'[r] >= ThermalHold
             /\ gpu_out'.thermal[r] = "Recover" =>
                    r \in thermal_told /\ Stepped(r, g) /\ ~Hot(r, g)
  <2>1. /\ thermal[r] \in TimerType /\ thermal'[r] \in TimerType
        /\ cool[r] \in Nat \cup {NoTime} /\ cool'[r] \in Nat \cup {NoTime}
        /\ ThermalHold \in Nat /\ now \in Nat
    BY <1>1, GpuAssumption DEF GpuTimers, OptTime
  <2>2. /\ thermal[r].announced <=> r \in thermal_told
        /\ cool[r] # NoTime =>
              /\ cool[r] <= now
              /\ thermal[r].since # NoTime => thermal[r].since >= cool[r]
    BY DEF ThermalMirror
  <2>3. /\ cool'[r] = IF Stepped(r, g) /\ ~Hot(r, g) THEN t ELSE cool[r]
        /\ r \in thermal_told' <=>
              \/ gpu_out'.thermal[r] = "Fire"
              \/ r \in thermal_told /\ gpu_out'.thermal[r] # "Recover"
    BY DEF EvalGpus, Stepped, Hot
  <2>4. CASE ~Stepped(r, g)
    BY <2>1, <2>2, <2>3, <2>4, ThermalStep
  <2>5. CASE Stepped(r, g)
    <3>1. Advances(thermal[r], thermal'[r], gpu_out'.thermal[r], t, Hot(r, g), ThermalHold)
      BY <2>5, ThermalStep
    <3>2. CASE Hot(r, g)
      BY <2>1, <2>2, <2>3, <2>5, <3>1, <3>2 DEF Advances, Due, Since, TimerType, OptTime, NoTime
    <3>3. CASE ~Hot(r, g)
      BY <2>1, <2>2, <2>3, <2>5, <3>1, <3>3 DEF Advances, NoTime
    <3> QED
      BY <3>2, <3>3
  <2> QED
    BY <2>4, <2>5
<1>3. ThermalMirror'
  BY <1>2 DEF ThermalMirror
<1>4. gpu_list' = g
  BY DEF EvalGpus
<1>5. GpuSaid
  BY <1>2, <1>4 DEF GpuSaid, Hot, Stepped
<1> QED
  BY <1>1, <1>3, <1>5

(***************************************************************************)
(* The digest                                                              *)
(***************************************************************************)
DigestTypes ==
    /\ now \in Nat /\ last_eval \in OptTime /\ window_start \in OptTime
    /\ counted \in [Kinds \X Excluded -> Nat]

\* The last evaluation is now, and a window was opened by an evaluation.
DigestIsOfPolls ==
    /\ last_eval # NoTime => last_eval = now
    /\ window_start # NoTime => window_start <= now /\ last_eval # NoTime

\* One poll keeps what was counted within its window.
LEMMA DigestPoll ==
    ASSUME DigestTypes, DigestIsOfPolls, DigestFitsItsWindow,
           NEW t \in Nat, t >= now, now' = t, NEW g \in Listing, EvalGpus(t, g)
    PROVE  DigestTypes' /\ DigestIsOfPolls' /\ DigestFitsItsWindow'
<1> DEFINE due == DigestDue(t, g)
<1>1. /\ last_eval' = t
      /\ window_start' = IF ~g.read THEN window_start ELSE IF due THEN t ELSE WindowOpen(t)
      /\ counted' = IF due THEN [r \in Kinds \X Excluded |-> 0] ELSE Counted(t, g)
  BY DEF EvalGpus, EvalDigest
<1>2. /\ last_eval \in Nat \cup {NoTime} /\ window_start \in Nat \cup {NoTime}
      /\ now \in Nat /\ MaxStep \in Nat
  BY GpuAssumption DEF DigestTypes, OptTime
<1>3. window_start' \in Nat \cup {NoTime} /\ (window_start' # NoTime => window_start' <= t)
  BY <1>1, <1>2 DEF WindowOpen, DigestIsOfPolls
<1>4. Elapsed(t) \in Nat /\ Elapsed(t) <= MaxStep /\ (last_eval # NoTime => Elapsed(t) <= t - now)
  BY <1>2 DEF Elapsed, DigestIsOfPolls, NoTime
<1>5. ASSUME NEW r \in Kinds \X Excluded
      PROVE  /\ counted'[r] \in Nat
             /\ counted'[r] <= IF window_start' = NoTime THEN 0 ELSE t - window_start' + MaxStep
  <2> DEFINE more == IF r[2] \in g.over[r[1]] THEN Elapsed(t) ELSE 0
  <2>1. counted[r] \in Nat
    BY DEF DigestTypes
  <2>2. counted[r] <= IF window_start = NoTime THEN 0 ELSE now - window_start + MaxStep
    BY DEF DigestFitsItsWindow, DigestTypes
  <2>3. more \in Nat /\ more <= Elapsed(t) /\ (~g.read => more = 0)
    <3>1. ~g.read => r[2] \notin g.over[r[1]]
      BY DEF Listing
    <3> QED
      BY <1>4, <3>1
  <2>4. counted'[r] = IF due THEN 0 ELSE counted[r] + more
    BY <1>1 DEF Counted
  <2>5. due => g.read
    BY DEF DigestDue
  <2> HIDE DEF more, due
  <2>6. CASE due
    BY <1>1, <1>2, <2>4, <2>5, <2>6 DEF NoTime
  <2>7. CASE ~due /\ ~g.read
    BY <1>1, <1>2, <2>1, <2>2, <2>3, <2>4, <2>7 DEF NoTime
  <2>8. CASE ~due /\ g.read /\ window_start = NoTime
    BY <1>1, <1>2, <1>4, <2>1, <2>2, <2>3, <2>4, <2>8 DEF WindowOpen, NoTime
  <2>9. CASE ~due /\ g.read /\ window_start # NoTime
    <3>1. window_start' = window_start /\ last_eval # NoTime /\ window_start <= now
      BY <1>1, <2>9 DEF WindowOpen, DigestIsOfPolls
    <3> QED
      BY <1>2, <1>4, <2>1, <2>2, <2>3, <2>4, <2>9, <3>1
  <2> QED
    BY <2>6, <2>7, <2>8, <2>9
<1>6. DOMAIN counted' = Kinds \X Excluded /\ counted' \in [Kinds \X Excluded -> Nat]
  <2>1. counted' = [r \in Kinds \X Excluded |-> counted'[r]]
    BY <1>1 DEF Counted
  <2> QED
    BY <1>5, <2>1
<1>7. DigestTypes'
  BY <1>1, <1>3, <1>6 DEF DigestTypes, OptTime
<1>8. DigestIsOfPolls'
  BY <1>1, <1>3 DEF DigestIsOfPolls, NoTime
<1>9. DigestFitsItsWindow'
  BY <1>5, <1>6 DEF DigestFitsItsWindow
<1> QED
  BY <1>7, <1>8, <1>9

-----------------------------------------------------------------------------
(***************************************************************************)
(* The C1 rules                                                            *)
(***************************************************************************)
JudgedProbe == [ts: Nat, low: BOOLEAN, struck: BOOLEAN]

C1Types ==
    /\ now \in Nat
    /\ stale \in TimerType /\ muted_announced \in BOOLEAN /\ stale_told \in BOOLEAN
    /\ judged \in Seq(JudgedProbe) /\ c1_announced \in BOOLEAN /\ low_told \in BOOLEAN

\* An announced timer, and a mute that was announced, are what the reader was told last.
StaleMirror == stale.announced \/ muted_announced => stale_told

\* The streak is of probes that are low, valid and the last ones judged; the rule is
\* announced when its alert is unanswered.
StreakMirror ==
    /\ low_probes \subseteq LastLow
    /\ c1_announced <=> low_told

\* A low probe goes on what was low before it.
LEMMA LastLowGrows ==
    ASSUME judged \in Seq(JudgedProbe), NEW p \in Probe, p.low,
           judged' = Append(judged, [ts |-> p.ts, low |-> p.low, struck |-> FALSE])
    PROVE  LastLow \cup {p.ts} \subseteq LastLow'
<1> DEFINE n == Len(judged)
<1>1. n \in Nat /\ Len(judged') = n + 1
  BY DEF JudgedProbe, Probe
<1>2. /\ judged'[n + 1] = [ts |-> p.ts, low |-> TRUE, struck |-> FALSE]
      /\ \A i \in 1 .. n : judged'[i] = judged[i]
  BY <1>1 DEF Probe
<1>3. p.ts \in LastLow'
  <2>1. /\ n + 1 \in 1 .. Len(judged') /\ ~judged'[n + 1].struck
        /\ \A k \in n + 1 .. Len(judged') : judged'[k].low
    BY <1>1, <1>2
  <2>2. judged'[n + 1].ts = p.ts
    BY <1>2
  <2> HIDE DEF n
  <2> QED
    BY <2>1, <2>2 DEF LastLow
<1>4. ASSUME NEW i \in 1 .. n, ~judged[i].struck,
             \A k \in i .. n : judged[k].low \/ judged[k].struck
      PROVE  judged[i].ts \in LastLow'
  <2>1. i \in 1 .. Len(judged') /\ ~judged'[i].struck /\ judged'[i].ts = judged[i].ts
    BY <1>1, <1>2, <1>4
  <2>2. \A k \in i .. Len(judged') : judged'[k].low \/ judged'[k].struck
    <3> SUFFICES ASSUME NEW k \in i .. n + 1 PROVE judged'[k].low \/ judged'[k].struck
      BY <1>1
    <3>1. CASE k = n + 1
      BY <1>2, <3>1
    <3>2. CASE k # n + 1
      BY <1>1, <1>2, <1>4, <3>2
    <3> QED
      BY <3>1, <3>2
  <2> QED
    BY <2>1, <2>2 DEF LastLow
<1> QED
  BY <1>3, <1>4 DEF LastLow

\* Striking probes out takes no other from the streak.
LEMMA LastLowKeeps ==
    ASSUME judged \in Seq(JudgedProbe), NEW invalid, judged' = WithoutStruck(invalid)
    PROVE  judged' \in Seq(JudgedProbe) /\ LastLow \ invalid \subseteq LastLow'
<1>1. /\ DOMAIN judged = 1 .. Len(judged) /\ Len(judged) \in Nat
      /\ \A i \in DOMAIN judged : judged[i] \in JudgedProbe
  OBVIOUS
<1>2. \A i \in DOMAIN judged :
        /\ judged'[i] \in JudgedProbe
        /\ judged'[i].ts = judged[i].ts /\ judged'[i].low = judged[i].low
        /\ judged'[i].struck <=> judged[i].struck \/ judged[i].ts \in invalid
  BY <1>1 DEF WithoutStruck, JudgedProbe
<1>3. judged' = [i \in 1 .. Len(judged) |-> judged'[i]]
  BY <1>1 DEF WithoutStruck
<1>4. judged' \in Seq(JudgedProbe) /\ Len(judged') = Len(judged)
  <2>1. judged' \in [1 .. Len(judged) -> JudgedProbe]
    BY <1>1, <1>2, <1>3
  <2> QED
    BY <1>1, <2>1
<1>5. LastLow \ invalid \subseteq LastLow'
  BY <1>1, <1>2, <1>4 DEF LastLow
<1> QED
  BY <1>4, <1>5

\* There are no more probes in the streak than in what is low at the end.
LEMMA StreakIsSmaller ==
    ASSUME judged' \in Seq(JudgedProbe), NEW S, S \subseteq LastLow'
    PROVE  /\ Cardinality(S) \in Nat /\ Cardinality(LastLow') \in Nat
           /\ Cardinality(S) <= Cardinality(LastLow')
<1> DEFINE I == {j \in 1 .. Len(judged') :
               /\ ~judged'[j].struck
               /\ \A k \in j .. Len(judged') : judged'[k].low \/ judged'[k].struck}
<1>1. IsFiniteSet(1 .. Len(judged'))
  BY FS_Interval
<1>2. IsFiniteSet(I)
  BY <1>1, FS_Subset
<1>3. LastLow' = {judged'[i].ts : i \in I}
  BY DEF LastLow
<1>4. IsFiniteSet(LastLow')
  <2> DEFINE f == [i \in I |-> judged'[i].ts]
  <2>1. f \in Surjection(I, LastLow')
    <3> HIDE DEF I
    <3> QED
      BY <1>3 DEF Surjection
  <2> HIDE DEF f, I
  <2> QED
    BY <1>2, <2>1, FS_Surjection
<1> QED
  BY <1>4, FS_Subset, FS_CardinalityType

\* One poll tells what is stale, and alerts on a streak.
LEMMA C1Poll ==
    ASSUME C1Types, StaleMirror, StreakMirror, NEW t \in Nat, now' = t,
           NEW bench \in BOOLEAN, NEW p \in Probe \cup {NoProbe}, EvalC1(t, bench, p)
    PROVE  C1Types' /\ StaleMirror' /\ StreakMirror' /\ Streaked
<1>1. CASE bench
  BY <1>1 DEF EvalC1, C1Types, StaleMirror, StreakMirror, LastLow, Streaked, Silence
<1>2. CASE ~bench
  <2> DEFINE cond == IsStale(t, p)
             edge == StaleEdge(t, p)
             muted == Muted(t, p)
  <2>1. /\ stale' = Step(stale, t, cond, StaleHold, Cooldown)
        /\ muted_announced' = muted
        /\ c1_out' = [low |-> LowEdge(t, p), stale |-> StaleMessages(edge, muted)]
        /\ stale_told' = Told(stale_told, c1_out'.stale \cap {"fired", "unreliable"} # {},
                              "recovered" \in c1_out'.stale)
    BY <1>2 DEF EvalC1, EvalStale
  <2>2. /\ low_probes' = Streak(p)
        /\ c1_announced' = \/ LowEdge(t, p) = "Fire"
                           \/ c1_announced /\ LowEdge(t, p) # "Recover"
        /\ low_told' = Told(low_told, c1_out'.low = "Fire", c1_out'.low = "Recover")
        /\ judged' = IF Judges(p) THEN Append(judged, [ts |-> p.ts, low |-> p.low, struck |-> FALSE])
                     ELSE judged
    BY <1>2 DEF EvalC1, EvalLow
  <2>3. /\ cond \in BOOLEAN /\ muted \in BOOLEAN
        /\ StaleHold \in Nat /\ Cooldown \in Nat /\ LowProbes \in Nat
    BY C1Assumption, ClockAssumption DEF IsStale, Muted
  <2>4. /\ stale' \in TimerType
        /\ Advances(stale, stale', edge, t, cond, StaleHold)
    BY <2>1, <2>3, StepType, StepAdvances DEF C1Types, StaleEdge
  <2>5. p \in Probe \/ ~Judges(p)
    BY DEF Judges
  <2> HIDE DEF cond, edge, muted
  <2>6. C1Types'
    <3>1. judged' \in Seq(JudgedProbe)
      <4>1. CASE ~Judges(p)
        BY <2>2, <4>1 DEF C1Types
      <4>2. CASE Judges(p)
        <5>1. [ts |-> p.ts, low |-> p.low, struck |-> FALSE] \in JudgedProbe
          BY <2>5, <4>2 DEF JudgedProbe, Probe
        <5> QED
          BY <2>2, <4>2, <5>1 DEF C1Types
      <4> QED
        BY <4>1, <4>2
    <3> QED
      BY <2>1, <2>2, <2>3, <2>4, <3>1 DEF C1Types, Told
  <2>7. StaleMirror'
    <3>1. stale'.announced => edge = "Fire" \/ (stale.announced /\ edge # "Recover")
      BY <2>3, <2>4 DEF Advances, C1Types, TimerType
    <3>2. CASE muted
      BY <2>1, <3>2 DEF StaleMessages, StaleMirror, Told
    <3>3. CASE ~muted
      BY <2>1, <3>1, <3>3 DEF StaleMessages, StaleMirror, Told
    <3> QED
      BY <3>2, <3>3
  <2>8. StreakMirror' /\ Streaked
    <3>1. low_probes' \subseteq LastLow'
      <4>1. CASE ~Judges(p)
        BY <2>2, <4>1 DEF Streak, StreakMirror, LastLow
      <4>2. CASE Judges(p) /\ ~p.low
        BY <2>2, <4>2 DEF Streak
      <4>3. CASE Judges(p) /\ p.low
        BY <2>2, <2>5, <4>3, LastLowGrows DEF Streak, StreakMirror, C1Types
      <4> QED
        BY <4>1, <4>2, <4>3
    <3>2. c1_announced' <=> low_told'
      BY <2>1, <2>2 DEF StreakMirror, Told
    <3>3. c1_out'.low = "Fire" => Cardinality(LastLow') >= LowProbes
      <4> SUFFICES ASSUME c1_out'.low = "Fire" PROVE Cardinality(LastLow') >= LowProbes
        OBVIOUS
      <4>1. Cardinality(low_probes') >= LowProbes
        BY <2>1, <2>2 DEF LowEdge
      <4>2. /\ Cardinality(low_probes') \in Nat /\ Cardinality(LastLow') \in Nat
            /\ Cardinality(low_probes') <= Cardinality(LastLow')
        BY <2>6, <3>1, StreakIsSmaller DEF C1Types
      <4> QED
        BY <2>3, <4>1, <4>2
    <3>4. c1_out'.low = "Recover" => low_told
      BY <2>1 DEF LowEdge, StreakMirror
    <3> QED
      BY <3>1, <3>2, <3>3, <3>4 DEF StreakMirror, Streaked
  <2> QED
    BY <2>6, <2>7, <2>8
<1> QED
  BY <1>1, <1>2

\* Nor does a repair leave a streak of probes that are not valid.
LEMMA C1Repair ==
    ASSUME C1Types, StaleMirror, StreakMirror, now' = now, NEW invalid, RepairStreak(invalid)
    PROVE  C1Types' /\ StaleMirror' /\ StreakMirror' /\ Streaked
<1>1. /\ low_probes' = low_probes \ invalid /\ judged' = WithoutStruck(invalid)
      /\ c1_out' = Silence
      /\ UNCHANGED <<c1_announced, stale, muted_announced, low_told, stale_told>>
  BY DEF RepairStreak
<1>2. judged' \in Seq(JudgedProbe) /\ LastLow \ invalid \subseteq LastLow'
  BY <1>1, LastLowKeeps DEF C1Types
<1> QED
  BY <1>1, <1>2 DEF C1Types, StaleMirror, StreakMirror, Streaked, Silence

-----------------------------------------------------------------------------
(***************************************************************************)
(* The level of the disk                                                   *)
(***************************************************************************)
WindowTypes ==
    /\ now \in Nat
    /\ disk_full \in TimerType /\ disk_full_page \in TimerType
    /\ disk_full.since # NoTime => disk_full.since <= now
    /\ disk_read \in Seq(Nat \X Nat) /\ disk_points \in Seq(Nat \X Nat)
    /\ \A i \in 1 .. Len(disk_read) : disk_read[i][1] <= now
    /\ \A i, j \in 1 .. Len(disk_read) : i <= j => disk_read[i][1] <= disk_read[j][1]

LastTime == disk_read[Len(disk_read)][1]

\* The warn runs at least as long as the page does, and has been announced by then.
WarnCovers ==
    WarnLine <= PageLine - Margin =>
        /\ disk_full_page.since # NoTime =>
              disk_full.since # NoTime /\ disk_full.since <= disk_full_page.since
        /\ disk_full_page.announced =>
              /\ disk_read # <<>> /\ disk_full_page.since # NoTime
              /\ LastTime - disk_full_page.since >= DiskHold
              /\ disk_full.announced \/ ~Cooled(disk_full.last_sent, LastTime, Cooldown)

\* What a reading appends.
LEMMA DiskAppends ==
    ASSUME WindowTypes, NEW t \in Nat, t >= now, now' = t, NEW used \in 0 .. DiskSize,
           ReadDisk(t, used)
    PROVE  /\ disk_read' = Append(disk_read, <<t, DiskSize - used>>)
           /\ DiskSize - used \in Nat
           /\ disk_read' \in Seq(Nat \X Nat) /\ disk_read' # <<>>
           /\ Len(disk_read') = Len(disk_read) + 1 /\ Len(disk_read) \in Nat
           /\ disk_read'[Len(disk_read')] = <<t, DiskSize - used>>
           /\ \A i \in 1 .. Len(disk_read) : disk_read'[i] = disk_read[i]
           /\ \A i \in 1 .. Len(disk_read') : disk_read'[i][1] <= t
           /\ \A i, j \in 1 .. Len(disk_read') : i <= j => disk_read'[i][1] <= disk_read'[j][1]
<1>1. disk_read' = Append(disk_read, <<t, DiskSize - used>>)
  BY DEF ReadDisk
<1>2. DiskSize - used \in Nat
  BY WindowAssumption
<1>3. /\ disk_read' \in Seq(Nat \X Nat)
      /\ Len(disk_read') = Len(disk_read) + 1 /\ Len(disk_read) \in Nat
      /\ disk_read'[Len(disk_read')] = <<t, DiskSize - used>>
      /\ \A i \in 1 .. Len(disk_read) : disk_read'[i] = disk_read[i]
  BY <1>1, <1>2 DEF WindowTypes
<1>4. disk_read' # <<>>
  BY <1>3
<1>5. ASSUME NEW i \in 1 .. Len(disk_read') PROVE disk_read'[i][1] <= t /\ disk_read'[i][1] \in Nat
  <2>1. CASE i = Len(disk_read')
    BY <1>3, <2>1
  <2>2. CASE i # Len(disk_read')
    <3>1. i \in 1 .. Len(disk_read) /\ disk_read'[i] = disk_read[i]
      BY <1>3, <2>2
    <3>2. disk_read[i] \in Nat \X Nat
      <4>1. disk_read \in Seq(Nat \X Nat)
        BY DEF WindowTypes
      <4> QED
        BY <3>1, <4>1
    <3>3. disk_read[i][1] <= now /\ now \in Nat
      BY <3>1 DEF WindowTypes
    <3>4. disk_read[i][1] \in Nat /\ disk_read[i][1] <= t
      BY <3>2, <3>3
    <3> QED
      BY <3>1, <3>4
  <2> QED
    BY <2>1, <2>2
<1>6. ASSUME NEW i \in 1 .. Len(disk_read'), NEW j \in 1 .. Len(disk_read'), i <= j
      PROVE  disk_read'[i][1] <= disk_read'[j][1]
  <2>1. CASE j = Len(disk_read')
    <3>1. disk_read'[j] = <<t, DiskSize - used>> /\ disk_read'[i][1] <= t
      BY <1>3, <1>5, <2>1
    <3> QED
      BY <3>1
  <2>2. CASE j # Len(disk_read')
    <3>1. i \in 1 .. Len(disk_read) /\ j \in 1 .. Len(disk_read)
      BY <1>3, <1>6, <2>2
    <3>2. disk_read[i][1] <= disk_read[j][1]
      BY <1>6, <3>1 DEF WindowTypes
    <3>3. disk_read'[i] = disk_read[i] /\ disk_read'[j] = disk_read[j]
      BY <1>3, <3>1
    <3> QED
      BY <3>2, <3>3
  <2> QED
    BY <2>1, <2>2
<1> QED
  BY <1>1, <1>2, <1>3, <1>4, <1>5, <1>6

\* A reading that keeps the page up keeps the warn up.
LEMMA DiskPoll ==
    ASSUME WindowTypes, WarnCovers, NEW t \in Nat, t >= now, now' = t,
           NEW used \in 0 .. DiskSize, ReadDisk(t, used)
    PROVE  /\ disk_full' \in TimerType /\ disk_full_page' \in TimerType
           /\ disk_full'.since # NoTime => disk_full'.since <= t
           /\ WarnCovers'
<1> DEFINE warn == Over(disk_full, used, WarnLine)
           page == Over(disk_full_page, used, PageLine)
           warn_edge == EdgeOf(disk_full, t, warn, DiskHold, Cooldown)
           page_edge == EdgeOf(disk_full_page, t, page, DiskHold, Cooldown)
<1>1. /\ {WarnLine, PageLine, Margin, DiskHold} \subseteq Nat /\ Cooldown \in Nat
      /\ used \in Nat /\ now \in Nat
      /\ disk_full \in TimerType /\ disk_full_page \in TimerType
  BY WindowAssumption, ClockAssumption DEF WindowTypes
<1>2. warn \in BOOLEAN /\ page \in BOOLEAN
  BY DEF Over
<1>3. /\ disk_full' = Step(disk_full, t, warn, DiskHold, Cooldown)
      /\ disk_full_page' = Step(disk_full_page, t, page, DiskHold, Cooldown)
  BY DEF ReadDisk
<1>4. /\ disk_full' \in TimerType /\ disk_full_page' \in TimerType
      /\ Advances(disk_full, disk_full', warn_edge, t, warn, DiskHold)
      /\ Advances(disk_full_page, disk_full_page', page_edge, t, page, DiskHold)
  <2> HIDE DEF warn, page
  <2> QED
    BY <1>1, <1>2, <1>3, StepType, StepAdvances
<1>5. disk_read' # <<>> /\ LastTime' = t
  BY DiskAppends DEF LastTime
<1>6. disk_read # <<>> => LastTime <= now /\ LastTime \in Nat
  <2>1. disk_read # <<>> => Len(disk_read) \in 1 .. Len(disk_read)
    BY DEF WindowTypes
  <2> QED
    BY <2>1 DEF WindowTypes, LastTime
<1>7. ASSUME WarnLine <= PageLine - Margin PROVE page => warn
  BY <1>1, <1>7 DEF Over
<1> HIDE DEF warn, page, warn_edge, page_edge
<1>8. disk_full.since # NoTime => disk_full.since <= t
  BY <1>1 DEF WindowTypes, TimerType, OptTime
<1>9. ASSUME WarnLine <= PageLine - Margin, page
      PROVE  /\ disk_full'.since # NoTime /\ disk_full'.since <= disk_full_page'.since
             /\ disk_full_page'.since # NoTime
             /\ disk_full_page'.announced =>
                    /\ t - disk_full_page'.since >= DiskHold
                    /\ disk_full'.announced \/ ~Cooled(disk_full'.last_sent, t, Cooldown)
  <2>1. warn
    BY <1>7, <1>9
  <2>2. disk_full'.since = Since(disk_full, t) /\ disk_full_page'.since = Since(disk_full_page, t)
    BY <1>4, <1>9, <2>1 DEF Advances
  <2>3. /\ disk_full'.since # NoTime /\ disk_full'.since <= disk_full_page'.since
        /\ disk_full_page'.since # NoTime
    <3>1. disk_full.since \in Nat \cup {NoTime} /\ disk_full_page.since \in Nat \cup {NoTime}
      BY <1>1 DEF TimerType, OptTime
    <3>2. disk_full_page.since # NoTime =>
              disk_full.since # NoTime /\ disk_full.since <= disk_full_page.since
      BY <1>9 DEF WarnCovers
    <3>3. disk_full.since # NoTime => disk_full.since <= t
      BY <1>8
    <3> QED
      BY <2>2, <3>1, <3>2, <3>3 DEF Since, NoTime
  <2>4. ASSUME disk_full_page'.announced PROVE t - disk_full_page'.since >= DiskHold
    <3>1. CASE page_edge = "Fire"
      BY <1>4, <1>9, <2>2, <3>1 DEF Advances, Due
    <3>2. CASE page_edge # "Fire"
      <4>1. disk_full_page.announced
        BY <1>4, <1>9, <2>4, <3>2 DEF Advances
      <4>2. /\ disk_read # <<>> /\ disk_full_page.since # NoTime
            /\ LastTime - disk_full_page.since >= DiskHold
        BY <1>9, <4>1 DEF WarnCovers
      <4>3. disk_full_page'.since = disk_full_page.since /\ disk_full_page.since \in Nat
        BY <1>1, <2>2, <4>2 DEF Since, TimerType, OptTime
      <4> QED
        BY <1>1, <1>6, <4>2, <4>3
    <3> QED
      BY <3>1, <3>2
  <2>5. ASSUME disk_full_page'.announced, ~disk_full'.announced
        PROVE  ~Cooled(disk_full'.last_sent, t, Cooldown)
    <3>1. t - disk_full'.since >= DiskHold
      <4>1. disk_full'.since \in Nat /\ disk_full_page'.since \in Nat
        BY <1>4, <2>3 DEF TimerType, OptTime
      <4> QED
        BY <1>1, <2>3, <2>4, <2>5, <4>1
    <3>2. disk_full'.last_sent # NoTime /\ t - disk_full'.last_sent < Cooldown
      BY <1>1, <1>2, <1>4, <2>3, <2>5, <3>1, HeldBack
    <3> QED
      BY <1>1, <1>4, <3>2 DEF Cooled, TimerType, OptTime
  <2> QED
    BY <2>3, <2>4, <2>5
<1>10. ASSUME ~page PROVE disk_full_page'.since = NoTime /\ ~disk_full_page'.announced
  BY <1>4, <1>10 DEF Advances
<1>11. disk_full'.since # NoTime => disk_full'.since <= t
  <2>1. CASE warn
    BY <1>1, <1>4, <1>8, <2>1 DEF Advances, Since
  <2>2. CASE ~warn
    BY <1>4, <2>2 DEF Advances
  <2> QED
    BY <2>1, <2>2
<1> QED
  BY <1>4, <1>5, <1>9, <1>10, <1>11 DEF WarnCovers

-----------------------------------------------------------------------------
(***************************************************************************)
(* The pace of the disk                                                    *)
(***************************************************************************)
\* The points are the readings from the n-th on.
ReadFrom(points, read, n) ==
    /\ Len(points) = Len(read) - n + 1
    /\ \A i \in 1 .. Len(points) : points[i] = read[n + i - 1]

\* The readings that are kept are those that were the newest at some time of the window.
Keeps(read, n, t) ==
    \A j \in 1 .. Len(read) : j >= n <=> j = Len(read) \/ read[j + 1][1] > t - GrowthSecs

PointsAreInEffect ==
    \E n \in 1 .. Len(disk_read) + 1 :
        /\ ReadFrom(disk_points, disk_read, n)
        /\ disk_read # <<>> => n <= Len(disk_read) /\ Keeps(disk_read, n, LastTime)

\* What pruning leaves, of which only the first may be older than the window.
LEMMA PrunedIs ==
    ASSUME NEW points \in Seq(Nat \X Nat), points # <<>>, NEW t \in Nat, NEW window \in Nat
    PROVE  /\ Pruned(points, t, window) \in Seq(Nat \X Nat)
           /\ \E m \in 1 .. Len(points) :
                 /\ ReadFrom(Pruned(points, t, window), points, m)
                 /\ \A i \in 1 .. Len(points) : i > m => points[i][1] > t - window
                 /\ m > 1 => points[m][1] <= t - window
<1> DEFINE old == {i \in 1 .. Len(points) : points[i][1] <= t - window}
           m == Max(old \cup {1})
<1>1. Len(points) \in Nat \ {0}
  OBVIOUS
<1>2. old \cup {1} \subseteq 0 .. Len(points) /\ old \cup {1} # {}
  BY <1>1
<1>3. m \in old \cup {1} /\ \A k \in old \cup {1} : k <= m
  <2> HIDE DEF old
  <2> QED
    BY <1>1, <1>2, LargestExists
<1>4. Pruned(points, t, window) = SubSeq(points, m, Len(points))
  BY DEF Pruned
<1>5. m \in 1 .. Len(points)
  BY <1>1, <1>3
<1>6. ASSUME NEW i \in 1 .. Len(points), i > m PROVE points[i][1] > t - window
  <2>1. i \notin old
    <3> HIDE DEF m, old
    <3> QED
      BY <1>3, <1>5, <1>6
  <2>2. points[i] \in Nat \X Nat
    OBVIOUS
  <2> QED
    BY <2>1, <2>2
<1>7. m > 1 => points[m][1] <= t - window
  BY <1>3
<1> HIDE DEF m, old
<1>8. /\ SubSeq(points, m, Len(points)) \in Seq(Nat \X Nat)
      /\ ReadFrom(SubSeq(points, m, Len(points)), points, m)
  <2> DEFINE s == SubSeq(points, m, Len(points))
  <2>1. s \in Seq(Nat \X Nat) /\ Len(s) = Len(points) - m + 1
        /\ \A i \in 1 .. Len(points) - m + 1 : s[i] = points[m + i - 1]
    BY <1>1, <1>5, SubSeqProperties
  <2> QED
    BY <2>1 DEF ReadFrom
<1> QED
  BY <1>4, <1>5, <1>6, <1>7, <1>8

\* A reading keeps the points that are in effect, and those only.
LEMMA DiskPrunes ==
    ASSUME WindowTypes, PointsAreInEffect, NEW t \in Nat, t >= now, now' = t,
           NEW used \in 0 .. DiskSize, ReadDisk(t, used)
    PROVE  disk_points' \in Seq(Nat \X Nat) /\ PointsAreInEffect'
<1> DEFINE e == <<t, DiskSize - used>>
           L == Len(disk_read)
           points == Append(disk_points, e)
<1>1. /\ disk_read' = Append(disk_read, e) /\ e \in Nat \X Nat
      /\ Len(disk_read') = L + 1 /\ L \in Nat /\ disk_read'[L + 1] = e
      /\ \A i \in 1 .. L : disk_read'[i] = disk_read[i]
      /\ \A i, j \in 1 .. L + 1 : i <= j => disk_read'[i][1] <= disk_read'[j][1]
      /\ \A i \in 1 .. L + 1 : disk_read'[i] \in Nat \X Nat
      /\ disk_read' # <<>>
  <2>1. /\ disk_read' = Append(disk_read, e) /\ DiskSize - used \in Nat
        /\ disk_read' \in Seq(Nat \X Nat) /\ disk_read' # <<>>
        /\ Len(disk_read') = L + 1 /\ L \in Nat
        /\ disk_read'[Len(disk_read')] = e
        /\ \A i \in 1 .. L : disk_read'[i] = disk_read[i]
        /\ \A i, j \in 1 .. Len(disk_read') : i <= j => disk_read'[i][1] <= disk_read'[j][1]
    BY DiskAppends
  <2>2. \A i \in 1 .. L + 1 : disk_read'[i] \in Nat \X Nat
    <3>1. disk_read' \in Seq(Nat \X Nat) /\ Len(disk_read') = L + 1
      BY <2>1
    <3> HIDE DEF e, L
    <3> QED
      BY <3>1
  <2>3. e \in Nat \X Nat
    BY <2>1
  <2> HIDE DEF e, L
  <2> QED
    BY <2>1, <2>2, <2>3
<1>2. disk_points' = Pruned(points, t, GrowthSecs) /\ GrowthSecs \in Nat
  BY WindowAssumption DEF ReadDisk, DiskPoints
<1>3. PICK n \in 1 .. L + 1 :
        /\ ReadFrom(disk_points, disk_read, n)
        /\ disk_read # <<>> => n <= L /\ Keeps(disk_read, n, LastTime)
  BY DEF PointsAreInEffect
<1> DEFINE Reading == Nat \X Nat
           was == Len(disk_points)
<1>4. /\ points \in Seq(Nat \X Nat) /\ points # <<>> /\ disk_points \in Seq(Nat \X Nat)
      /\ was \in Nat /\ was = L - n + 1 /\ Len(points) = was + 1
      /\ \A i \in 1 .. was : points[i] = disk_points[i]
      /\ points[was + 1] = e
  <2>1. disk_points \in Seq(Reading) /\ was = L - n + 1 /\ e \in Reading
    BY <1>1, <1>3 DEF WindowTypes, ReadFrom
  <2>2. was \in Nat
    BY <2>1, LenProperties
  <2> HIDE DEF Reading, e, L
  <2>3. /\ points \in Seq(Reading) /\ points # <<>> /\ Len(points) = was + 1
        /\ \A i \in 1 .. was : points[i] = disk_points[i]
        /\ points[was + 1] = e
    BY <2>1, AppendProperties
  <2> QED
    BY <2>1, <2>2, <2>3 DEF Reading
<1> HIDE DEF points, e, was
<1>5. \A i \in 1 .. Len(points) : points[i] = disk_read'[n + i - 1]
  <2> SUFFICES ASSUME NEW i \in 1 .. Len(points) PROVE points[i] = disk_read'[n + i - 1]
    OBVIOUS
  <2>1. L \in Nat /\ n \in 1 .. L + 1
    BY <1>1
  <2> HIDE DEF L
  <2>2. CASE i = was + 1
    <3>1. n + i - 1 = L + 1
      BY <1>4, <2>1, <2>2
    <3> QED
      BY <1>1, <1>4, <2>2, <3>1
  <2>3. CASE i # was + 1
    <3>1. i \in 1 .. was /\ n + i - 1 \in 1 .. L
      BY <1>4, <2>1, <2>3
    <3>2. disk_points[i] = disk_read[n + i - 1]
      BY <1>3, <3>1 DEF ReadFrom, was
    <3> QED
      BY <1>1, <1>4, <3>1, <3>2
  <2> QED
    BY <2>2, <2>3
<1> HIDE DEF points, e, L
<1>6. PICK m \in 1 .. Len(points) :
        /\ ReadFrom(disk_points', points, m)
        /\ \A i \in 1 .. Len(points) : i > m => points[i][1] > t - GrowthSecs
        /\ m > 1 => points[m][1] <= t - GrowthSecs
  BY <1>2, <1>4, PrunedIs
<1>b. L \in Nat /\ n \in 1 .. L + 1 /\ Len(points) = L + 1 - n + 1 /\ m \in 1 .. Len(points)
  BY <1>1, <1>4
<1> DEFINE k == n + m - 1
<1>7. k \in 1 .. L + 1 /\ n \in Nat /\ m \in Nat
  BY <1>b
<1>8. ReadFrom(disk_points', disk_read', k)
  <2>1. Len(disk_points') = Len(disk_read') - k + 1
    BY <1>1, <1>6, <1>b DEF ReadFrom
  <2>2. ASSUME NEW i \in 1 .. Len(disk_points') PROVE disk_points'[i] = disk_read'[k + i - 1]
    <3>1. disk_points'[i] = points[m + i - 1] /\ Len(disk_points') = Len(points) - m + 1
      BY <1>6 DEF ReadFrom
    <3>2. m + i - 1 \in 1 .. Len(points) /\ n + (m + i - 1) - 1 = k + i - 1
      BY <3>1, <1>b
    <3>3. points[m + i - 1] = disk_read'[n + (m + i - 1) - 1]
      BY <1>5, <3>2
    <3> QED
      BY <3>1, <3>2, <3>3
  <2> QED
    BY <2>1, <2>2 DEF ReadFrom
<1>9. ASSUME NEW j \in 1 .. L, j >= k PROVE disk_read'[j + 1][1] > t - GrowthSecs
  <2>1. j + 2 - n \in 1 .. Len(points) /\ j + 2 - n > m
    BY <1>b, <1>9
  <2>2. points[j + 2 - n] = disk_read'[n + (j + 2 - n) - 1] /\ n + (j + 2 - n) - 1 = j + 1
    BY <1>5, <1>7, <2>1
  <2>3. points[j + 2 - n][1] > t - GrowthSecs
    BY <1>6, <2>1
  <2>4. points[j + 2 - n] = disk_read'[j + 1]
    BY <2>2
  <2> QED
    BY <2>3, <2>4
<1>10. ASSUME NEW j \in 1 .. L, j < k PROVE ~(disk_read'[j + 1][1] > t - GrowthSecs)
  <2>0. /\ disk_read'[j + 1][1] \in Nat /\ j + 1 \in 1 .. L + 1
    BY <1>1
  <2>1. CASE m > 1
    <3>1. points[m] = disk_read'[k] /\ disk_read'[k][1] \in Nat
      BY <1>1, <1>5, <1>7
    <3>2. disk_read'[j + 1][1] <= disk_read'[k][1]
      <4>1. j + 1 <= k /\ k \in 1 .. L + 1
        BY <1>7, <1>10, <1>b
      <4> HIDE DEF k
      <4> QED
        BY <1>1, <2>0, <4>1
    <3>3. disk_read'[k][1] <= t - GrowthSecs
      BY <1>6, <2>1, <3>1
    <3>4. t - GrowthSecs \in Int
      BY <1>2
    <3> QED
      BY <2>0, <3>1, <3>2, <3>3, <3>4
  <2>2. CASE m = 1
    <3>1. j < n /\ L >= 1
      BY <1>1, <1>7, <1>10, <2>2
    <3>2. disk_read # <<>>
      BY <3>1 DEF L
    <3>3. n <= L /\ ~(j = L \/ disk_read[j + 1][1] > LastTime - GrowthSecs)
      BY <1>1, <1>3, <1>7, <3>1, <3>2 DEF Keeps, L
    <3>4. j + 1 \in 1 .. L /\ disk_read'[j + 1] = disk_read[j + 1]
      BY <1>1, <1>7, <3>1, <3>3
    <3>5. LastTime <= t /\ LastTime \in Nat
      <4>1. L \in 1 .. L /\ disk_read[L] \in Nat \X Nat
        BY <1>1, <3>1 DEF WindowTypes, L
      <4>2. LastTime <= now /\ LastTime = disk_read[L][1] /\ now \in Nat
        BY <4>1 DEF WindowTypes, LastTime, L
      <4> QED
        BY <4>1, <4>2
    <3> QED
      BY <1>2, <2>0, <3>3, <3>4, <3>5
  <2> QED
    BY <1>7, <2>1, <2>2
<1> HIDE DEF k
<1>11. Keeps(disk_read', k, t)
  <2> SUFFICES ASSUME NEW j \in 1 .. L + 1
               PROVE  j >= k <=> j = L + 1 \/ disk_read'[j + 1][1] > t - GrowthSecs
    BY <1>1 DEF Keeps
  <2>1. CASE j = L + 1
    BY <1>1, <1>7, <2>1
  <2>2. CASE j # L + 1
    <3>1. j \in 1 .. L /\ (j >= k \/ j < k)
      BY <1>1, <1>7, <2>2
    <3> QED
      BY <1>9, <1>10, <2>2, <3>1
  <2> QED
    BY <2>1, <2>2
<1>12. LastTime' = t
  BY <1>1 DEF LastTime, e
<1>13. disk_points' \in Seq(Nat \X Nat)
  BY <1>2, <1>4, PrunedIs
<1> QED
  BY <1>1, <1>7, <1>8, <1>11, <1>12, <1>13 DEF PointsAreInEffect

\* What is reported is the largest fall of all that was read in the window.
LEMMA DropPoll ==
    ASSUME WindowTypes, PointsAreInEffect, NEW t \in Nat, t >= now, now' = t,
           NEW used \in 0 .. DiskSize, ReadDisk(t, used)
    PROVE  DropIsTheLargestFall'
<1> DEFINE L == Len(disk_read')
           free == DiskSize - used
           I == {j \in 1 .. L : j = L \/ disk_read'[j + 1][1] > t - GrowthSecs}
<1>1. /\ L \in Nat \ {0} /\ disk_read'[L] = <<t, free>> /\ free \in Nat /\ disk_read' # <<>>
      /\ disk_points' \in Seq(Nat \X Nat)
      /\ \A j \in 1 .. L : disk_read'[j] \in Nat \X Nat
  <2>1. disk_points' \in Seq(Nat \X Nat)
    BY DiskPrunes
  <2>2. /\ disk_read' \in Seq(Nat \X Nat) /\ Len(disk_read) \in Nat /\ L = Len(disk_read) + 1
        /\ disk_read'[L] = <<t, free>> /\ free \in Nat /\ disk_read' # <<>>
    BY DiskAppends
  <2> HIDE DEF free
  <2> QED
    BY <2>1, <2>2
<1>2. /\ disk_points' = DiskPoints(t, used)
      /\ disk_out'.drop = Drop(t, used)
  BY DEF ReadDisk
<1>3. PICK n \in 1 .. L + 1 :
        ReadFrom(disk_points', disk_read', n) /\ n <= L /\ Keeps(disk_read', n, LastTime')
  BY <1>1, DiskPrunes DEF PointsAreInEffect
<1>4. LastTime' = t
  BY <1>1 DEF LastTime
<1> HIDE DEF L, free, I
<1>5. I = n .. L
  <2>1. \A j \in 1 .. L : j >= n <=> j = L \/ disk_read'[j + 1][1] > t - GrowthSecs
    BY <1>3, <1>4 DEF Keeps, L
  <2> QED
    BY <1>1, <1>3, <2>1 DEF I
<1>6. ToSet(disk_points') = {disk_read'[j] : j \in I}
  <2>1. /\ Len(disk_points') = L - n + 1 /\ DOMAIN disk_points' = 1 .. Len(disk_points')
        /\ \A i \in 1 .. Len(disk_points') : disk_points'[i] = disk_read'[n + i - 1]
    BY <1>1, <1>3 DEF ReadFrom, L
  <2>2. ASSUME NEW i \in 1 .. Len(disk_points') PROVE disk_points'[i] \in {disk_read'[j] : j \in I}
    <3>1. n + i - 1 \in n .. L
      BY <1>1, <1>3, <2>1
    <3> QED
      BY <1>5, <2>1, <3>1
  <2>3. ASSUME NEW j \in I PROVE disk_read'[j] \in ToSet(disk_points')
    <3>1. j - n + 1 \in 1 .. Len(disk_points') /\ n + (j - n + 1) - 1 = j
      BY <1>1, <1>3, <1>5, <2>1
    <3>2. disk_points'[j - n + 1] = disk_read'[j]
      BY <2>1, <3>1
    <3> QED
      BY <2>1, <3>1, <3>2 DEF ToSet
  <2> QED
    BY <2>1, <2>2, <2>3 DEF ToSet
<1>7. L \in I
  BY <1>1, <1>3, <1>5
<1>8. InEffect(disk_read', GrowthSecs) = {disk_read'[j] : j \in I}
  BY <1>1 DEF InEffect, Last, L, I
<1>9. Last(disk_read')[2] = free
  BY <1>1 DEF Last, L
<1>10. {0} \cup {p[2] - free : p \in ToSet(disk_points')}
          = {p[2] - free : p \in InEffect(disk_read', GrowthSecs)}
  <2>1. disk_read'[L] \in InEffect(disk_read', GrowthSecs) /\ disk_read'[L][2] - free = 0
    BY <1>1, <1>7, <1>8
  <2> QED
    BY <1>6, <1>8, <2>1
<1>11. disk_out'.drop = Max({p[2] - free : p \in InEffect(disk_read', GrowthSecs)})
  BY <1>2, <1>10 DEF Drop, free
<1> QED
  BY <1>9, <1>11 DEF DropIsTheLargestFall

WindowInv == WindowTypes /\ WarnCovers /\ PointsAreInEffect /\ DropIsTheLargestFall

\* A poll with a reading or without one.
LEMMA WindowPoll ==
    ASSUME WindowInv, NEW t \in Nat, t >= now, now' = t,
           NEW used \in (0 .. DiskSize) \cup {NoReading}, EvalDisk(t, used)
    PROVE  WindowInv'
<1>1. CASE used = NoReading
  <2>1. /\ UNCHANGED <<disk_full, disk_full_page, disk_points, disk_read>>
        /\ disk_out'.drop = NoReading
    BY <1>1 DEF EvalDisk, NoDisk
  <2>2. WindowTypes'
    <3>1. now \in Nat /\ \A i \in 1 .. Len(disk_read) : disk_read[i] \in Nat \X Nat
      BY DEF WindowInv, WindowTypes
    <3>2. \A i \in 1 .. Len(disk_read) : disk_read[i][1] <= t
      BY <3>1 DEF WindowInv, WindowTypes
    <3>3. disk_full.since # NoTime => disk_full.since <= t
      BY <3>1 DEF WindowInv, WindowTypes, TimerType, OptTime
    <3> QED
      BY <2>1, <3>2, <3>3 DEF WindowInv, WindowTypes
  <2>3. WarnCovers' /\ PointsAreInEffect' /\ DropIsTheLargestFall'
    BY <2>1 DEF WindowInv, WarnCovers, LastTime, PointsAreInEffect, DropIsTheLargestFall
  <2> QED
    BY <2>2, <2>3 DEF WindowInv
<1>2. CASE used \in 0 .. DiskSize /\ ReadDisk(t, used)
  <2> USE DEF WindowInv
  <2>1. WindowTypes'
    <3>1. /\ disk_full' \in TimerType /\ disk_full_page' \in TimerType
          /\ disk_full'.since # NoTime => disk_full'.since <= t
      BY <1>2, DiskPoll
    <3>2. disk_points' \in Seq(Nat \X Nat)
      BY <1>2, DiskPrunes
    <3>3. /\ disk_read' \in Seq(Nat \X Nat)
          /\ \A i \in 1 .. Len(disk_read') : disk_read'[i][1] <= t
          /\ \A i, j \in 1 .. Len(disk_read') : i <= j => disk_read'[i][1] <= disk_read'[j][1]
      BY <1>2, DiskAppends
    <3> QED
      BY <3>1, <3>2, <3>3 DEF WindowTypes
  <2>2. WarnCovers'
    BY <1>2, DiskPoll
  <2>3. PointsAreInEffect'
    BY <1>2, DiskPrunes
  <2>4. DropIsTheLargestFall'
    BY <1>2, DropPoll
  <2> QED
    BY <2>1, <2>2, <2>3, <2>4
<1>3. used \in 0 .. DiskSize => used # NoReading
  BY DEF NoReading
<1> QED
  BY <1>1, <1>2, <1>3 DEF EvalDisk

-----------------------------------------------------------------------------
(***************************************************************************)
(* The growth of the count of rejected requests                            *)
(***************************************************************************)
LastCountTime == count_read[Len(count_read)][1]

\* The points of the count are readings in a row in which it never went backwards, and all of
\* them but the first are of the window.
Rising(n) ==
    /\ n <= Len(count_read)
    /\ \A i \in 1 .. Len(count_read) : i > n => count_read[i][1] > LastCountTime - RejectSecs
    /\ \A i \in 1 .. Len(count_read) :
           i >= n /\ i < Len(count_read) => count_read[i][2] <= count_read[i + 1][2]

CountInv ==
    /\ now \in Nat /\ count_read \in Seq(Nat \X Nat) /\ reject_points \in Seq(Nat \X Nat)
    /\ \A i \in 1 .. Len(count_read) : count_read[i][1] <= now
    /\ \E n \in 1 .. Len(count_read) + 1 :
          ReadFrom(reject_points, count_read, n) /\ (count_read # <<>> => Rising(n))
    /\ reject_out.growth # NoReading =>
          /\ count_read # <<>>
          /\ reject_out.growth = count_read[Len(count_read)][2] - reject_points[1][2]

\* What a reading of the count appends, and what is left of the points when it was pruned.
LEMMA CountPoll ==
    ASSUME CountInv, NEW t \in Nat, t >= now, now' = t, NEW count \in Nat, ReadRejects(t, count)
    PROVE  CountInv'
<1> DEFINE e == <<t, count>>
           L == Len(count_read)
           points == CountPoints(t, count)
           was == Len(points) - 1
<1>1. /\ count_read' = Append(count_read, e)
      /\ reject_points' = Pruned(points, t, RejectSecs)
      /\ reject_out'.growth = count - reject_points'[1][2]
      /\ RejectSecs \in Nat
  BY WindowAssumption DEF ReadRejects
<1>2. /\ count_read' \in Seq(Nat \X Nat) /\ count_read' # <<>>
      /\ Len(count_read') = L + 1 /\ L \in Nat /\ count_read'[L + 1] = e
      /\ \A i \in 1 .. L : count_read'[i] = count_read[i]
      /\ \A i \in 1 .. L + 1 : count_read'[i] \in Nat \X Nat
      /\ \A i \in 1 .. L : count_read[i] \in Nat \X Nat
  <2> HIDE DEF points, was
  <2>1. count_read \in Seq(Nat \X Nat) /\ e \in Nat \X Nat
    BY DEF CountInv
  <2>2. L \in Nat /\ \A i \in 1 .. L : count_read[i] \in Nat \X Nat
    BY <2>1
  <2> HIDE DEF e
  <2>3. /\ count_read' \in Seq(Nat \X Nat) /\ Len(count_read') = L + 1
        /\ count_read'[L + 1] = e /\ \A i \in 1 .. L : count_read'[i] = count_read[i]
    BY <1>1, <2>1
  <2>4. \A i \in 1 .. L + 1 : count_read'[i] \in Nat \X Nat
    <3> HIDE DEF L
    <3> QED
      BY <2>3
  <2> HIDE DEF L
  <2>5. count_read' # <<>>
    BY <2>2, <2>3
  <2> QED
    BY <2>2, <2>3, <2>4, <2>5
<1>a. PICK n \in 1 .. L + 1 :
         ReadFrom(reject_points, count_read, n) /\ (count_read # <<>> => Rising(n))
  BY DEF CountInv
\* The points before they are pruned: all of the old ones, or none.
<1>3. \E a \in 1 .. L + 1 :
         /\ points \in Seq(Nat \X Nat) /\ ReadFrom(points, count_read', a)
         /\ \A i \in 1 .. L : i >= a => count_read'[i][2] <= count_read'[i + 1][2]
  <2>1. reject_points \in Seq(Nat \X Nat) /\ e \in Nat \X Nat
    BY DEF CountInv
  <2>2. CASE Backwards(count)
    <3>1. points = <<e>>
      BY <2>2 DEF CountPoints
    <3>2. ReadFrom(points, count_read', L + 1)
      <4>1. Len(points) = 1 /\ points[1] = e
        BY <3>1
      <4>2. ASSUME NEW i \in 1 .. Len(points) PROVE points[i] = count_read'[(L + 1) + i - 1]
        <5>1. i = 1
          BY <4>1
        <5>2. (L + 1) + i - 1 = L + 1
          BY <1>2, <5>1
        <5> HIDE DEF points, e, L
        <5> QED
          BY <1>2, <4>1, <5>1, <5>2
      <4>3. Len(count_read') - (L + 1) + 1 = 1
        BY <1>2
      <4> HIDE DEF points, e, L
      <4> QED
        BY <4>1, <4>2, <4>3 DEF ReadFrom
    <3>3. points \in Seq(Nat \X Nat)
      BY <2>1, <3>1
    <3>4. L + 1 \in 1 .. L + 1 /\ \A i \in 1 .. L : ~(i >= L + 1)
      BY <1>2
    <3> HIDE DEF points, e, L
    <3> QED
      BY <3>2, <3>3, <3>4
  <2>3. CASE ~Backwards(count)
    <3>1. points = Append(reject_points, e)
      BY <2>3 DEF CountPoints
    <3>2. /\ points \in Seq(Nat \X Nat) /\ Len(points) = Len(reject_points) + 1
          /\ Len(reject_points) \in Nat
          /\ \A i \in 1 .. Len(reject_points) : points[i] = reject_points[i]
          /\ points[Len(reject_points) + 1] = e
      BY <2>1, <3>1
    <3>3. Len(reject_points) = L - n + 1
          /\ \A i \in 1 .. Len(reject_points) : reject_points[i] = count_read[n + i - 1]
      BY <1>a DEF ReadFrom
    <3> HIDE DEF points, e
    <3>4. ReadFrom(points, count_read', n)
      <4> SUFFICES ASSUME NEW i \in 1 .. Len(points)
                   PROVE  points[i] = count_read'[n + i - 1]
        BY <1>2, <1>a, <3>2, <3>3 DEF ReadFrom
      <4>0. L \in Nat /\ n \in 1 .. L + 1
        BY <1>2, <1>a
      <4> HIDE DEF L
      <4>1. CASE i = Len(points)
        <5>1. n + i - 1 = L + 1
          BY <3>2, <3>3, <4>1, <4>0
        <5> QED
          BY <1>2, <3>2, <4>1, <5>1
      <4>2. CASE i # Len(points)
        <5>1. i \in 1 .. Len(reject_points) /\ n + i - 1 \in 1 .. L
          BY <3>2, <3>3, <4>2, <4>0
        <5> QED
          BY <1>2, <3>2, <3>3, <5>1
      <4> QED
        BY <4>1, <4>2
    <3>5. ASSUME NEW i \in 1 .. L, i >= n PROVE count_read'[i][2] <= count_read'[i + 1][2]
      <4>0. Rising(n)
        BY <1>a, <3>5
      <4>1. CASE i = L
        <5>1. reject_points # <<>> /\ Last(reject_points) = count_read[L]
          <6>1. Len(reject_points) \in 1 .. Len(reject_points) /\ n + Len(reject_points) - 1 = L
            BY <3>2, <3>3, <3>5, <4>1
          <6>2. reject_points[Len(reject_points)] = count_read[L]
            BY <3>3, <6>1
          <6> QED
            BY <6>1, <6>2 DEF Last
        <5>2. ~(count < count_read[L][2])
          BY <2>3, <5>1 DEF Backwards
        <5>3. count_read'[i] = count_read[L] /\ count_read[L] \in Nat \X Nat
          BY <1>2, <4>1
        <5> QED
          BY <1>2, <4>1, <5>2, <5>3 DEF e
      <4>2. CASE i # L
        <5>1. count_read[i][2] <= count_read[i + 1][2]
          BY <3>5, <4>0, <4>2 DEF Rising
        <5>2. i + 1 \in 1 .. L
          BY <4>2, <1>2
        <5> QED
          BY <1>2, <5>1, <5>2
      <4> QED
        BY <4>1, <4>2
    <3> HIDE DEF L
    <3> QED
      BY <3>2, <3>4, <3>5
  <2> QED
    BY <2>2, <2>3
<1>4. PICK a \in 1 .. L + 1 :
         /\ points \in Seq(Nat \X Nat) /\ ReadFrom(points, count_read', a)
         /\ \A i \in 1 .. L : i >= a => count_read'[i][2] <= count_read'[i + 1][2]
  BY <1>3
<1> HIDE DEF points, e, L
<1>5. points # <<>> /\ Len(points) = (L + 1) - a + 1
  BY <1>2, <1>4 DEF ReadFrom
<1>6. PICK m \in 1 .. Len(points) :
        /\ ReadFrom(reject_points', points, m)
        /\ \A i \in 1 .. Len(points) : i > m => points[i][1] > t - RejectSecs
        /\ reject_points' \in Seq(Nat \X Nat)
  <2>1. \E m \in 1 .. Len(points) :
          /\ ReadFrom(Pruned(points, t, RejectSecs), points, m)
          /\ \A i \in 1 .. Len(points) : i > m => points[i][1] > t - RejectSecs
          /\ m > 1 => points[m][1] <= t - RejectSecs
    BY <1>1, <1>4, <1>5, PrunedIs
  <2>2. Pruned(points, t, RejectSecs) \in Seq(Nat \X Nat)
    BY <1>1, <1>4, <1>5, PrunedIs
  <2> QED
    BY <1>1, <2>1, <2>2
<1> DEFINE k == a + m - 1
<1>7. k \in 1 .. L + 1 /\ a \in Nat /\ m \in Nat /\ k >= a
  <2>1. L \in Nat /\ a \in 1 .. L + 1 /\ m \in 1 .. (L + 1) - a + 1
    BY <1>2, <1>4, <1>5
  <2> QED
    BY <2>1
<1>8. ReadFrom(reject_points', count_read', k)
  <2>1. Len(reject_points') = Len(count_read') - k + 1
    BY <1>2, <1>5, <1>6, <1>7 DEF ReadFrom
  <2>2. ASSUME NEW i \in 1 .. Len(reject_points') PROVE reject_points'[i] = count_read'[k + i - 1]
    <3>1. reject_points'[i] = points[m + i - 1] /\ Len(reject_points') = Len(points) - m + 1
      BY <1>6 DEF ReadFrom
    <3>2. m + i - 1 \in 1 .. Len(points) /\ a + (m + i - 1) - 1 = k + i - 1
      BY <3>1, <1>2, <1>5, <1>7
    <3>3. points[m + i - 1] = count_read'[a + (m + i - 1) - 1]
      BY <1>4, <3>2 DEF ReadFrom
    <3> QED
      BY <3>1, <3>2, <3>3
  <2> QED
    BY <2>1, <2>2 DEF ReadFrom
<1>9. ASSUME NEW i \in 1 .. L + 1, i > k PROVE count_read'[i][1] > t - RejectSecs
  <2>1. i - a + 1 \in 1 .. Len(points) /\ i - a + 1 > m /\ a + (i - a + 1) - 1 = i
    BY <1>2, <1>5, <1>7, <1>9
  <2>2. points[i - a + 1] = count_read'[i]
    BY <1>4, <2>1 DEF ReadFrom
  <2> QED
    BY <1>6, <2>1, <2>2
<1> HIDE DEF k
<1>10. LastCountTime' = t
  BY <1>2 DEF LastCountTime, e
<1>11. Rising(k)'
  <2>1. ASSUME NEW i \in 1 .. L + 1, i >= k, i < L + 1
        PROVE  count_read'[i][2] <= count_read'[i + 1][2]
    <3>1. i \in 1 .. L /\ i >= a
      BY <1>2, <1>7, <2>1
    <3> QED
      BY <1>4, <3>1
  <2> QED
    BY <1>2, <1>7, <1>9, <1>10, <2>1 DEF Rising
<1>12. \A i \in 1 .. L + 1 : count_read'[i][1] <= t
  <2> SUFFICES ASSUME NEW i \in 1 .. L + 1 PROVE count_read'[i][1] <= t
    OBVIOUS
  <2>1. CASE i = L + 1
    BY <1>2, <2>1 DEF e
  <2>2. CASE i # L + 1
    <3>1. i \in 1 .. L
      BY <1>2, <2>2
    <3>2. count_read'[i] = count_read[i] /\ count_read[i][1] <= now /\ count_read[i] \in Nat \X Nat
      BY <1>2, <3>1 DEF CountInv, L
    <3> QED
      BY <3>2 DEF CountInv
  <2> QED
    BY <2>1, <2>2
<1>13. count_read'[Len(count_read')][2] = count
  BY <1>2 DEF e
<1>14. reject_out'.growth # NoReading =>
          /\ count_read' # <<>>
          /\ reject_out'.growth = count_read'[Len(count_read')][2] - reject_points'[1][2]
  <2> HIDE DEF points, e, L, k
  <2> QED
    BY <1>1, <1>2, <1>13
<1>15. \E x \in 1 .. Len(count_read') + 1 :
          ReadFrom(reject_points', count_read', x) /\ (count_read' # <<>> => Rising(x)')
  <2> HIDE DEF points, e, L, k
  <2> QED
    BY <1>2, <1>7, <1>8, <1>11
<1>16. now' \in Nat /\ \A i \in 1 .. Len(count_read') : count_read'[i][1] <= now'
  BY <1>2, <1>12
<1> QED
  BY <1>2, <1>6, <1>14, <1>15, <1>16 DEF CountInv

\* The growth is the sum of the steps of the points, which is a part of what was rejected.
LEMMA CountIsRejected == CountInv => GrowthWasRejected
<1> SUFFICES ASSUME CountInv, reject_out.growth # NoReading PROVE GrowthWasRejected
  BY DEF GrowthWasRejected
<1> DEFINE L == Len(count_read)
           recent == {i \in 1 .. L - 1 : count_read[i + 1][1] > LastCountTime - RejectSecs}
           f == [i \in recent |-> RejectedFrom(i)]
           c == [i \in 1 .. L |-> count_read[i][2]]
<1>1. /\ L \in Nat \ {0} /\ reject_out.growth = c[L] - reject_points[1][2]
      /\ \A i \in 1 .. L : count_read[i] \in Nat \X Nat /\ c[i] = count_read[i][2] /\ c[i] \in Nat
  <2>1. count_read \in Seq(Nat \X Nat) /\ count_read # <<>>
        /\ reject_out.growth = count_read[L][2] - reject_points[1][2]
    BY DEF CountInv
  <2>2. L \in Nat \ {0} /\ \A i \in 1 .. L : count_read[i] \in Nat \X Nat
    BY <2>1
  <2>3. L \in 1 .. L
    BY <2>2
  <2> QED
    BY <2>1, <2>2, <2>3
<1>2. PICK n \in 1 .. L :
         /\ reject_points[1] = count_read[n]
         /\ \A i \in n .. L - 1 : i \in recent /\ f[i] = c[i + 1] - c[i]
  <2>1. PICK n \in 1 .. L + 1 : ReadFrom(reject_points, count_read, n) /\ Rising(n)
    BY <1>1 DEF CountInv
  <2>2. n \in 1 .. L /\ Len(reject_points) = L - n + 1
    BY <1>1, <2>1 DEF Rising, ReadFrom
  <2>3. reject_points[1] = count_read[n]
    <3>1. 1 \in 1 .. Len(reject_points) /\ n + 1 - 1 = n
      BY <1>1, <2>2
    <3>2. reject_points[1] = count_read[n + 1 - 1]
      BY <2>1, <3>1 DEF ReadFrom
    <3> QED
      BY <3>1, <3>2
  <2>4. ASSUME NEW i \in n .. L - 1 PROVE i \in recent /\ f[i] = c[i + 1] - c[i]
    <3>1. i \in 1 .. L - 1 /\ i \in 1 .. L /\ i + 1 \in 1 .. L /\ i + 1 > n /\ i >= n /\ i < L
      BY <1>1, <2>2
    <3>2. i \in recent
      BY <2>1, <3>1 DEF Rising
    <3>3. c[i] <= c[i + 1]
      BY <1>1, <2>1, <3>1 DEF Rising
    <3>4. c[i] \in Nat /\ c[i + 1] \in Nat /\ c[i] = count_read[i][2]
          /\ c[i + 1] = count_read[i + 1][2]
      BY <1>1, <3>1
    <3> HIDE DEF c
    <3>5. RejectedFrom(i) = c[i + 1] - c[i]
      BY <3>3, <3>4 DEF RejectedFrom
    <3> QED
      BY <3>2, <3>5
  <2> QED
    BY <2>2, <2>3, <2>4
<1>3. IsFiniteSet(recent) /\ n .. L - 1 \in SUBSET recent /\ recent \subseteq 1 .. L - 1
  <2>1. IsFiniteSet(1 .. L - 1) /\ recent \subseteq 1 .. L - 1
    <3>1. 1 \in Int /\ L - 1 \in Int
      BY <1>1
    <3> QED
      BY <3>1, FS_Interval
  <2>2. IsFiniteSet(recent)
    BY <2>1, FS_Subset
  <2> HIDE DEF recent
  <2> QED
    BY <1>2, <2>1, <2>2
<1>4. \A i \in recent : f[i] \in Nat /\ f[i] = RejectedFrom(i)
  <2> SUFFICES ASSUME NEW i \in recent PROVE RejectedFrom(i) \in Nat
    OBVIOUS
  <2>1. i \in 1 .. L /\ i + 1 \in 1 .. L
    BY <1>1, <1>3
  <2>2. count_read[i][2] \in Nat /\ count_read[i + 1][2] \in Nat
    BY <1>1, <2>1
  <2> QED
    BY <2>2 DEF RejectedFrom
<1> HIDE DEF recent, f, L
<1>5. MapThenSumSet(RejectedFrom, recent) = SumOver(f, recent)
  <2> DEFINE P(h) == h = [s \in SUBSET recent |->
                             IF s = {} THEN 0
                             ELSE RejectedFrom(CHOOSE x \in s : TRUE) + h[s \ {CHOOSE x \in s : TRUE}]]
             iter == CHOOSE h : P(h)
  <2>1. \A i \in recent : f[i] \in Int
    BY <1>4
  <2>2. ASSUME NEW s \in SUBSET recent, s # {}
        PROVE  RejectedFrom(CHOOSE x \in s : TRUE) = f[CHOOSE x \in s : TRUE]
    <3>1. (CHOOSE x \in s : TRUE) \in recent
      BY <2>2
    <3> QED
      BY <1>4, <3>1
  <2>3. ASSUME NEW h PROVE P(h) <=> SumsAsLibrary(h, f, recent)
    BY <2>2 DEF SumsAsLibrary
  <2>4. PICK g : SumsAsLibrary(g, f, recent)
    BY <1>3, <2>1, SumsExist
  <2>5. P(g)
    BY <2>3, <2>4
  <2>6. P(iter)
    <3> HIDE DEF P
    <3> QED
      BY <2>5, Zenon
  <2>7. MapThenSumSet(RejectedFrom, recent) = iter[recent]
    BY DEF MapThenSumSet, MapThenFoldSet
  <2> HIDE DEF iter
  <2>8. SumsAsLibrary(iter, f, recent)
    BY <2>3, <2>6
  <2>9. iter[recent] = SumOver(f, recent)
    BY <1>3, <2>1, <2>8, SumsAreAlike
  <2> QED
    BY <2>7, <2>9
<1>6. SumOver(f, n .. L - 1) = c[L] - c[n]
  <2> DEFINE k == L - n
  <2>1. k \in Nat /\ n + k = L /\ n + k - 1 = L - 1 /\ n \in Nat
    BY <1>1
  <2>2. (\A i \in n .. n + k : c[i] \in Int) /\ (\A i \in n .. n + k - 1 : f[i] = c[i + 1] - c[i])
    <3>1. \A i \in n .. n + k : i \in 1 .. L
      BY <1>1, <2>1
    <3> HIDE DEF k, c
    <3> QED
      BY <1>1, <1>2, <2>1, <3>1
  <2> HIDE DEF k, c
  <2>3. SumOver(f, n .. n + k - 1) = c[n + k] - c[n]
    BY <2>1, <2>2, SumOfSteps
  <2> QED
    BY <2>1, <2>3
<1>7. SumOver(f, n .. L - 1) \in Nat /\ SumOver(f, n .. L - 1) <= SumOver(f, recent)
      /\ SumOver(f, recent) \in Nat
  <2> DEFINE part == n .. L - 1
  <2>1. part \in SUBSET recent /\ \A i \in recent : f[i] \in Nat
    BY <1>3, <1>4
  <2> HIDE DEF part
  <2>2. SumOver(f, part) \in Nat /\ SumOver(f, part) <= SumOver(f, recent)
    BY <1>3, <2>1, SumOfPart
  <2>3. SumOver(f, recent) \in Nat
    BY <1>3, <2>1, SumOfNaturals
  <2> QED
    BY <2>2, <2>3 DEF part
<1>8. reject_out.growth = c[L] - c[n]
  BY <1>1, <1>2
<1>9. reject_out.growth \in 0 .. MapThenSumSet(RejectedFrom, recent)
  BY <1>5, <1>6, <1>7, <1>8
<1>10. recent = {i \in 1 .. Len(count_read) - 1 :
                    count_read[i + 1][1] > Last(count_read)[1] - RejectSecs}
  BY DEF recent, L, LastCountTime, Last
<1> QED
  BY <1>9, <1>10 DEF GrowthWasRejected

\* A poll with a reading of the count or without one.
LEMMA RejectsPoll ==
    ASSUME CountInv, NEW t \in Nat, t >= now, now' = t,
           NEW count \in Nat \cup {NoReading}, EvalRejects(t, count)
    PROVE  CountInv'
<1>1. CASE count = NoReading
  <2>1. reject_out'.growth = NoReading /\ UNCHANGED <<reject_points, count_read>>
    BY <1>1 DEF EvalRejects
  <2>2. \A i \in 1 .. Len(count_read) : count_read[i][1] <= t
    <3>1. \A i \in 1 .. Len(count_read) : count_read[i] \in Nat \X Nat
      BY DEF CountInv
    <3> QED
      BY <3>1 DEF CountInv
  <2> QED
    BY <2>1, <2>2 DEF CountInv, Rising, LastCountTime
<1>2. CASE count \in Nat
  <2>1. ReadRejects(t, count)
    BY <1>2 DEF EvalRejects, NoReading
  <2> QED
    BY <1>2, <2>1, CountPoll
<1> QED
  BY <1>1, <1>2

-----------------------------------------------------------------------------
(***************************************************************************)
(* The engine                                                              *)
(***************************************************************************)
LevelsInv ==
    /\ LoadTimers /\ LoadMirror
    /\ GpuTimers /\ ThermalMirror
    /\ DigestTypes /\ DigestIsOfPolls /\ DigestFitsItsWindow
    /\ WindowInv /\ CountInv

C1Inv == C1Types /\ StaleMirror /\ StreakMirror

RulesInv == LevelsInv /\ C1Inv

\* What a repair leaves alone.
LEMMA LevelsKept ==
    ASSUME LevelsInv, UNCHANGED <<now, load_vars, gpu_vars, window_vars>>
    PROVE  LevelsInv'
<1>1. LoadTimers' /\ LoadMirror'
  BY DEF LevelsInv, LoadTimers, LoadMirror, load_vars
<1>2. GpuTimers' /\ ThermalMirror'
  BY DEF LevelsInv, GpuTimers, ThermalMirror, gpu_vars
<1>3. DigestTypes' /\ DigestIsOfPolls' /\ DigestFitsItsWindow'
  BY DEF LevelsInv, DigestTypes, DigestIsOfPolls, DigestFitsItsWindow, gpu_vars
<1>4. WindowTypes' /\ WarnCovers'
  BY DEF LevelsInv, WindowInv, WindowTypes, WarnCovers, LastTime, window_vars
<1>5. PointsAreInEffect' /\ DropIsTheLargestFall'
  BY DEF LevelsInv, WindowInv, PointsAreInEffect, DropIsTheLargestFall, LastTime, window_vars
<1>6. CountInv'
  BY DEF LevelsInv, CountInv, Rising, LastCountTime, window_vars
<1> QED
  BY <1>1, <1>2, <1>3, <1>4, <1>5, <1>6 DEF LevelsInv, WindowInv

\* The rules are in order at the start.
LEMMA RulesInit == EngineInit => RulesInv
<1> SUFFICES ASSUME EngineInit PROVE RulesInv
  OBVIOUS
<1>1. IdleTimer \in TimerType /\ ~IdleTimer.announced /\ IdleTimer.since = NoTime
  BY DEF IdleTimer, TimerType, OptTime
<1>2. NoTime \in OptTime /\ now = 0
  BY DEF OptTime, EngineInit, Init
<1>3. LoadTimers /\ LoadMirror
  BY <1>1, <1>2 DEF EngineInit, LoadInit, LoadTimers, LoadMirror
<1>4. GpuTimers /\ ThermalMirror
  BY <1>1, <1>2 DEF EngineInit, GpuInit, GpuTimers, ThermalMirror
<1>5. DigestTypes /\ DigestIsOfPolls /\ DigestFitsItsWindow
  BY <1>2 DEF EngineInit, GpuInit, DigestTypes, DigestIsOfPolls, DigestFitsItsWindow
<1>6. C1Types /\ StaleMirror /\ StreakMirror
  <2>1. C1Init
    BY DEF EngineInit
  <2>2. judged = <<>> /\ low_probes = {} /\ flaps = <<>> /\ ~c1_announced
    BY <2>1 DEF C1Init
  <2>3. C1Types
    <3>1. now \in Nat /\ stale \in TimerType
      BY <1>1, <1>2, <2>1 DEF C1Init
    <3>2. judged \in Seq(JudgedProbe)
      BY <2>2
    <3>3. /\ muted_announced \in BOOLEAN /\ stale_told \in BOOLEAN
          /\ c1_announced \in BOOLEAN /\ low_told \in BOOLEAN
      BY <2>1 DEF C1Init
    <3> QED
      BY <3>1, <3>2, <3>3 DEF C1Types
  <2>4. StaleMirror
    BY <1>1, <2>1 DEF C1Init, StaleMirror
  <2>5. StreakMirror
    BY <2>1, <2>2 DEF C1Init, StreakMirror
  <2> QED
    BY <2>3, <2>4, <2>5
<1>7. WindowInv
  <2>1. disk_read = <<>> /\ disk_points = <<>> /\ disk_out = NoDisk
    BY DEF EngineInit, WindowInit
  <2>2. WindowTypes /\ WarnCovers
    BY <1>1, <1>2, <2>1 DEF EngineInit, WindowInit, WindowTypes, WarnCovers
  <2>3. PointsAreInEffect
    <3>1. ReadFrom(<<>>, <<>>, 1)
      BY DEF ReadFrom
    <3> QED
      BY <2>1, <3>1 DEF PointsAreInEffect
  <2>4. DropIsTheLargestFall
    BY <2>1 DEF DropIsTheLargestFall, NoDisk
  <2> QED
    BY <2>2, <2>3, <2>4 DEF WindowInv
<1>8. CountInv
  <2>1. count_read = <<>> /\ reject_points = <<>> /\ reject_out.growth = NoReading
    BY DEF EngineInit, WindowInit
  <2>2. ReadFrom(<<>>, <<>>, 1)
    BY DEF ReadFrom
  <2> QED
    BY <1>2, <2>1, <2>2 DEF CountInv
<1> QED
  BY <1>3, <1>4, <1>5, <1>6, <1>7, <1>8 DEF RulesInv, LevelsInv, C1Inv

\* Each poll, each repair and each stutter keeps all of it, and is right in what it says.
LEMMA RulesStep ==
    ASSUME RulesInv, [EngineNext]_engine_vars
    PROVE  /\ RulesInv'
           /\ [LoadSaid]_<<now, load_vars>> /\ [GpuSaid]_<<now, gpu_vars>>
           /\ [Streaked]_<<now, c1_vars>>
<1>1. ASSUME NEW t \in NextPoll, NEW o \in EngineObservation, EvaluateAll(t, o)
      PROVE  RulesInv' /\ LoadSaid /\ GpuSaid /\ Streaked
  <2>1. now' = t /\ now \in Nat /\ t \in Nat /\ t >= now
    <3>1. now \in Nat
      BY DEF RulesInv, LevelsInv, LoadTimers
    <3> QED
      BY <1>1, <3>1, ClockAssumption DEF NextPoll, EvaluateAll, Evaluate
  <2>2. /\ o.load \in LoadObservation /\ o.gpus \in Listing /\ o.load.bench \in BOOLEAN
        /\ o.probe \in Probe \cup {NoProbe}
        /\ o.windows.used \in (0 .. DiskSize) \cup {NoReading}
        /\ o.windows.count \in Nat \cup {NoReading}
    BY DEF EngineObservation, LoadObservation, WindowObservation
  <2>3. /\ EvalLoad(t, o.load) /\ EvalGpus(t, o.gpus) /\ EvalDisk(t, o.windows.used)
        /\ EvalRejects(t, o.windows.count) /\ EvalC1(t, o.load.bench, o.probe)
    BY <1>1 DEF EvaluateAll, EvalWindows
  <2>4. LoadTimers' /\ LoadMirror' /\ LoadSaid
    BY <2>1, <2>2, <2>3, LoadPoll DEF RulesInv, LevelsInv, C1Inv
  <2>5. GpuTimers' /\ ThermalMirror' /\ GpuSaid
    BY <2>1, <2>2, <2>3, GpuPoll DEF RulesInv, LevelsInv, C1Inv
  <2>6. DigestTypes' /\ DigestIsOfPolls' /\ DigestFitsItsWindow'
    BY <2>1, <2>2, <2>3, DigestPoll DEF RulesInv, LevelsInv, C1Inv
  <2>7. C1Types' /\ StaleMirror' /\ StreakMirror' /\ Streaked
    BY <2>1, <2>2, <2>3, C1Poll DEF RulesInv, LevelsInv, C1Inv
  <2>8. WindowInv'
    BY <2>1, <2>2, <2>3, WindowPoll DEF RulesInv, LevelsInv, C1Inv
  <2>9. CountInv'
    BY <2>1, <2>2, <2>3, RejectsPoll DEF RulesInv, LevelsInv, C1Inv
  <2> QED
    BY <2>4, <2>5, <2>6, <2>7, <2>8, <2>9 DEF RulesInv, LevelsInv, C1Inv
<1>2. ASSUME NEW invalid \in SUBSET Nat, Repair(invalid)
      PROVE  RulesInv' /\ UNCHANGED <<now, load_vars, gpu_vars>> /\ Streaked
  <2>1. now' = now /\ UNCHANGED <<load_vars, gpu_vars, window_vars>>
    BY <1>2 DEF Repair, vars, engine
  <2>2. C1Types' /\ StaleMirror' /\ StreakMirror' /\ Streaked
    BY <1>2, <2>1, C1Repair DEF RulesInv, C1Inv, Repair
  <2>3. LevelsInv'
    BY <2>1, LevelsKept DEF RulesInv
  <2> QED
    BY <2>1, <2>2, <2>3 DEF RulesInv, C1Inv
<1>3. ASSUME UNCHANGED engine_vars
      PROVE  RulesInv' /\ UNCHANGED <<now, load_vars, gpu_vars, c1_vars>>
  <2>1. now' = now /\ UNCHANGED <<load_vars, gpu_vars, window_vars>> /\ UNCHANGED c1_vars
    BY <1>3 DEF engine_vars, vars, engine
  <2>2. LevelsInv'
    BY <2>1, LevelsKept DEF RulesInv
  <2>3. C1Inv'
    BY <2>1 DEF RulesInv, C1Inv, C1Types, StaleMirror, StreakMirror, LastLow, c1_vars
  <2> QED
    BY <2>1, <2>2, <2>3 DEF RulesInv
<1> QED
  BY <1>1, <1>2, <1>3 DEF EngineNext

-----------------------------------------------------------------------------
(***************************************************************************)
(* Theorems                                                                *)
(***************************************************************************)
\* What the engine of all families keeps.
THEOREM RulesMirror == EngineSpec => []RulesInv
<1>1. RulesInv /\ [EngineNext]_engine_vars => RulesInv'
  BY RulesStep
<1> QED
  BY <1>1, RulesInit, PTL DEF EngineSpec

\* A poll that could not read the gate, the GPUs or anything else, or that ran beside a
\* bench, neither alerts nor recovers for it, and an alert was held since the last quiet
\* poll (rules.rs:1027, 1354).
THEOREM RulesSayWhatTheyRead == EngineSpec => SaysWhatItRead
<1>1. RulesInv /\ [EngineNext]_engine_vars
          => RulesInv' /\ [LoadSaid]_<<now, load_vars>> /\ [GpuSaid]_<<now, gpu_vars>>
  BY RulesStep
<1> QED
  BY <1>1, RulesInit, PTL DEF EngineSpec, SaysWhatItRead, LoadSaysWhatItRead, GpuSaysWhatItRead

\* The digest counts no more seconds than its window had, and one poll more at most
\* (rules.rs:1424).
THEOREM DigestsFit == EngineSpec => []DigestFitsItsWindow
<1>1. RulesInv => DigestFitsItsWindow
  BY DEF RulesInv, LevelsInv
<1> QED
  BY <1>1, RulesMirror, PTL

\* Who was paged about the disk was warned about it, or the warn's cooldown held it back
\* (rules.rs:1241).
THEOREM PagesHaveTheirWarn == EngineSpec => []PageHasItsWarn
<1>1. RulesInv => PageHasItsWarn
  BY DEF RulesInv, LevelsInv, WindowInv, WarnCovers, PageHasItsWarn, LastTime, Last
<1> QED
  BY <1>1, RulesMirror, PTL

\* The points that are pruned are never those that matter: the fall of the disk that is reported
\* is the largest of all readings of its window, and the growth of the count of rejected
\* requests happened within its window, however often the gate began to count anew
\* (rules.rs:235, 254).
THEOREM WindowsExact == EngineSpec => []WindowsAreExact
<1>1. RulesInv => WindowsAreExact
  BY CountIsRejected DEF RulesInv, LevelsInv, WindowInv, WindowsAreExact
<1> QED
  BY <1>1, RulesMirror, PTL

\* While the measurement is stale, the reader was last told so (rules.rs:304).
THEOREM StaleIsAlwaysTold == EngineSpec => []StaleIsTold
<1>1. RulesInv => StaleIsTold
  BY DEF RulesInv, C1Inv, StaleMirror, StaleIsTold
<1> QED
  BY <1>1, RulesMirror, PTL

\* An alert about the decode rate is about a streak of probes that are still valid
\* (rules.rs:277).
THEOREM LowIsAlwaysAStreak == EngineSpec => LowIsAStreak
<1>1. RulesInv /\ [EngineNext]_engine_vars => RulesInv' /\ [Streaked]_<<now, c1_vars>>
  BY RulesStep
<1> QED
  BY <1>1, RulesInit, PTL DEF EngineSpec, LowIsAStreak

\* The outage and event rules are not disturbed by the others: what is proved of them
\* alone holds in the engine.
THEOREM EngineKeepsAvailability == EngineSpec => Spec
<1>1. EngineInit => Init
  BY DEF EngineInit
<1>2. [EngineNext]_engine_vars => [Next]_vars
  <2>1. ASSUME NEW t \in NextPoll, NEW o \in EngineObservation, EvaluateAll(t, o) PROVE Next
    <3>1. o.services \in Observation
      BY DEF EngineObservation
    <3> QED
      BY <2>1, <3>1 DEF EvaluateAll, Next
  <2>2. ASSUME NEW invalid \in SUBSET Nat, Repair(invalid) PROVE UNCHANGED vars
    BY <2>2 DEF Repair
  <2>3. UNCHANGED engine_vars => UNCHANGED vars
    BY DEF engine_vars
  <2> QED
    BY <2>1, <2>2, <2>3 DEF EngineNext
<1> QED
  BY <1>1, <1>2, PTL DEF EngineSpec, Spec
=============================================================================

------------------------------- MODULE C1Probe -------------------------------
(***************************************************************************)
(* The C1 probe (crates/lss-collector/src/probe_run.rs and                 *)
(* crates/lss-core/src/probe.rs): one request is timed on an idle engine.  *)
(* The thread looks at what the last poll saw, reads the engine, reads the *)
(* gate, sends, reads the engine once its request has been counted, reads  *)
(* the gate again, and judges from these readings whether the request ran  *)
(* alone.  Everybody else's requests come and go between any two of them,  *)
(* those of a bench that starts in between among them.                     *)
(*                                                                         *)
(* Tokens come in units the margins cannot hide: the probe's answer has    *)
(* OwnTokens of them, and its prompt none.                                 *)
(***************************************************************************)
EXTENDS Integers, FiniteSets

CONSTANTS
    OwnTokens,      \* the tokens of the probe's own answer
    Others,         \* requests of other users and of a bench, one after another
    Sizes,          \* what they may be: their tokens and their prompt
    MaxAttempts     \* bound: how many probes are due in a behaviour

\* A request that the engine counts has generated something.
ASSUME ProbeAssumption ==
    /\ OwnTokens \in Nat \ {0} /\ IsFiniteSet(Others) /\ MaxAttempts \in Nat
    /\ Sizes \subseteq [tokens: Nat \ {0}, prompt: Nat]

VARIABLES
    site,           \* external: is there a gateway, what does the engine report
    fate,           \* external: each request of Others is "out" or "running", or it is over
                    \* and was "alike", as large as the probe's, or "unlike" it
    totals,         \* external: the gate's admitted, the engine's finished requests, tokens, prompts
    own,            \* external: the probe's request: "none", "running", "over" (streamed) or "counted"
    shared,         \* what the last poll left in Shared: load, bench flag
    pc,             \* where the probe's thread is
    evidence,       \* ProbeEvidence, as far as it has been read
    probe_record,   \* the newest ProbeRecord
    attempts        \* how many probes were due

\* History: which requests ran beside the probe's, which of them were there before the
\* gate was read and which still ran when the engine was read again; whether the gate
\* was restarted while it mattered, whether the probe's own request had been counted.
VARIABLES beside, early, still, regated, uncounted

probe_vars == <<site, fate, totals, own, shared, pc, evidence, probe_record, attempts,
                beside, early, still, regated, uncounted>>

Unread == [load |-> 0, requests |-> 0, tokens |-> 0, prompts |-> 0]
NoEvidence == [before |-> Unread, after |-> Unread, admitted_before |-> 0, admitted_after |-> 0,
               read |-> {}, plausible |-> FALSE]
NoRecord == [status |-> "none", valid |-> FALSE, unverified |-> FALSE]

Running == {r \in Others : fate[r] = "running"}

(***************************************************************************)
(* Mutants                                                                 *)
(***************************************************************************)
\* Fewer tokens than the probe's own are nobody else's.
OthersGeneratedMore(e) == e.after.tokens - e.before.tokens > OwnTokens

-----------------------------------------------------------------------------
\* engine_load: the gauges (an engine that has none counts as idle) and the totals.  A
\* request runs as soon as it is let in; the probe's own shows until it is counted.
Load ==
    [load |-> IF site.reports_load
              THEN Cardinality(Running) + (IF own \in {"running", "over"} THEN 1 ELSE 0)
              ELSE 0,
     requests |-> totals.requests, tokens |-> totals.tokens, prompts |-> totals.prompts]

\* decide: due, up, and idle as far as the last poll saw.
Decide == IF shared.load > 0 THEN "SkipBusy" ELSE "Run"

Grown(e, total) == LET d == e.after[total] - e.before[total] IN IF d > 0 THEN d ELSE 0

OthersFinished(e) == e.after.requests - e.before.requests > 1

\* The tokens that were counted are neither none nor the probe's own.
OthersGenerated(e) == Grown(e, "tokens") \notin {0, OwnTokens}

BothRead(e, source) == {<<source, "before">>, <<source, "after">>} \subseteq e.read

\* validate, up to the gate: did the engine show another request?
EngineWasIdle(e) ==
    /\ site.counts /\ BothRead(e, "engine") =>
           ~OthersFinished(e) /\ Grown(e, "prompts") = 0 /\ ~OthersGenerated(e)
    /\ <<"engine", "after">> \in e.read /\ e.after.load <= 1

\* ... and the gate: it let nobody else in.
GateWasQuiet(e) ==
    site.gateway =>
        BothRead(e, "gate") /\ e.admitted_after - e.admitted_before \in {0, 1}

Validated(e) ==
    LET valid == e.plausible /\ EngineWasIdle(e) /\ GateWasQuiet(e)
    IN  [status |-> "ok", valid |-> valid, unverified |-> valid /\ ~site.reports_load]

-----------------------------------------------------------------------------
(***************************************************************************)
(* The thread                                                              *)
(***************************************************************************)
ProbeInit(where) ==
    /\ site = where
    /\ fate = [r \in Others |-> "out"] /\ own = "none"
    /\ totals = [admitted |-> 0, requests |-> 0, tokens |-> 0, prompts |-> 0]
    /\ shared = [load |-> 0, bench |-> FALSE]
    /\ pc = "asleep" /\ evidence = NoEvidence /\ probe_record = NoRecord /\ attempts = 0
    /\ beside = {} /\ early = {} /\ still = {} /\ regated = FALSE /\ uncounted = FALSE

Record(r) == probe_record' = r /\ pc' = "asleep"

Skipped == [status |-> "skipped_busy", valid |-> FALSE, unverified |-> FALSE]
Failed == [status |-> "error", valid |-> FALSE, unverified |-> FALSE]

\* run_loop wakes: Shared is copied and the lock given back.  By the time the next probe
\* is due the engine has counted the one before.
Look ==
    /\ pc = "asleep" /\ attempts < MaxAttempts /\ ~shared.bench /\ own # "over"
    /\ attempts' = attempts + 1
    /\ beside' = {} /\ early' = {} /\ still' = {} /\ regated' = FALSE /\ uncounted' = FALSE
    /\ evidence' = NoEvidence
    /\ IF Decide = "SkipBusy" THEN Record(Skipped)
       ELSE pc' = "deciding" /\ UNCHANGED probe_record
    /\ UNCHANGED <<site, fate, totals, own, shared>>

\* A busy engine, as the gauges say, is left alone; an engine that cannot be read as well.
ReadEngine ==
    /\ pc = "deciding"
    /\ \/ pc' = "asleep" /\ UNCHANGED <<evidence, probe_record>>
       \/ IF Load.load > 0
          THEN Record(Skipped) /\ UNCHANGED evidence
          ELSE /\ pc' = "engine_read"
               /\ evidence' = [evidence EXCEPT !.before = Load, !.read = @ \cup {<<"engine", "before">>}]
               /\ UNCHANGED probe_record
    /\ UNCHANGED <<site, fate, totals, own, shared, attempts, beside, early, still, regated, uncounted>>

\* gate_admitted, before; None without a gate, or when it does not answer.
ReadGate ==
    /\ pc = "engine_read" /\ pc' = "gate_read"
    /\ \/ site.gateway /\ evidence' = [evidence EXCEPT !.admitted_before = totals.admitted,
                                                       !.read = @ \cup {<<"gate", "before">>}]
       \/ UNCHANGED evidence
    /\ early' = Running
    /\ UNCHANGED <<site, fate, totals, own, shared, probe_record, attempts, beside, still, regated, uncounted>>

\* run_probe: the request is let in, or refused.
Send ==
    /\ pc = "gate_read"
    /\ \/ /\ pc' = "sent" /\ own' = "running" /\ beside' = Running
          /\ totals' = [totals EXCEPT !.admitted = @ + 1]
          /\ UNCHANGED probe_record
       \/ Record(Failed) /\ UNCHANGED <<own, beside, totals>>
    /\ UNCHANGED <<site, fate, shared, evidence, attempts, early, still, regated, uncounted>>

\* The stream ends.  It is a plausible reading when its first token did not take long
\* (slow_ttft, contended) and it did not come in one burst.
StreamEnds ==
    /\ pc = "sent"
    /\ \/ /\ \E plausible \in BOOLEAN : evidence' = [evidence EXCEPT !.plausible = plausible]
          /\ pc' = "ended" /\ own' = "over" /\ UNCHANGED probe_record
       \/ Record(Failed) /\ own' = "over" /\ UNCHANGED evidence
    /\ UNCHANGED <<site, fate, totals, shared, attempts, beside, early, still, regated, uncounted>>

\* settled_load: read until the request has been counted, or until SETTLE_TIMEOUT.
ReadSettled ==
    /\ pc = "ended" /\ pc' = "settled"
    /\ \/ evidence' = [evidence EXCEPT !.after = Load, !.read = @ \cup {<<"engine", "after">>}]
       \/ UNCHANGED evidence
    /\ still' = Running /\ uncounted' = (own # "counted")
    /\ UNCHANGED <<site, fate, totals, own, shared, probe_record, attempts, beside, early, regated>>

\* gate_admitted, after, and the verdict.
Judge ==
    /\ pc = "settled"
    /\ \/ evidence' = IF site.gateway
                      THEN [evidence EXCEPT !.admitted_after = totals.admitted,
                                            !.read = @ \cup {<<"gate", "after">>}]
                      ELSE evidence
       \/ UNCHANGED evidence
    /\ Record(Validated(evidence'))
    /\ UNCHANGED <<site, fate, totals, own, shared, attempts, beside, early, still, regated, uncounted>>

-----------------------------------------------------------------------------
(***************************************************************************)
(* Everybody else                                                          *)
(***************************************************************************)
Arrive(r) ==
    /\ fate[r] = "out" /\ fate' = [fate EXCEPT ![r] = "running"]
    /\ totals' = [totals EXCEPT !.admitted = @ + 1]
    /\ beside' = IF pc = "sent" THEN beside \cup {r} ELSE beside
    /\ UNCHANGED <<site, own, shared, pc, evidence, probe_record, attempts, early, still, regated, uncounted>>

\* The engine counts a request when it is over.
OwnSize == [tokens |-> OwnTokens, prompt |-> 0]

Counted(size) ==
    [totals EXCEPT !.requests = @ + 1, !.tokens = @ + size.tokens, !.prompts = @ + size.prompt]

Finish(r) ==
    /\ fate[r] = "running"
    /\ \E size \in Sizes :
          /\ totals' = Counted(size)
          /\ fate' = [fate EXCEPT ![r] = IF size = OwnSize THEN "alike" ELSE "unlike"]
    /\ UNCHANGED <<site, own, shared, pc, evidence, probe_record, attempts, beside, early, still, regated, uncounted>>

CountOwn ==
    /\ own = "over" /\ own' = "counted"
    /\ totals' = Counted(OwnSize)
    /\ UNCHANGED <<site, fate, shared, pc, evidence, probe_record, attempts, beside, early, still, regated, uncounted>>

\* The gate starts again; the probe's stream would not survive it.
GateRestarts ==
    /\ site.gateway /\ pc # "sent" /\ totals.admitted > 0
    /\ totals' = [totals EXCEPT !.admitted = 0]
    /\ regated' = (regated \/ pc # "asleep")
    /\ UNCHANGED <<site, fate, own, shared, pc, evidence, probe_record, attempts, beside, early, still, uncounted>>

\* The poll loop and the bench endpoint write Shared.
PollWrites ==
    /\ \E bench \in BOOLEAN :
          shared' = [load |-> Load.load, bench |-> bench]
    /\ UNCHANGED <<site, fate, totals, own, pc, evidence, probe_record, attempts, beside, early, still, regated, uncounted>>

ProbeNext ==
    \/ Look \/ ReadEngine \/ ReadGate \/ Send \/ StreamEnds \/ ReadSettled \/ Judge
    \/ CountOwn \/ GateRestarts \/ PollWrites
    \/ \E r \in Others : Arrive(r) \/ Finish(r)

\* External: with a gateway or without, an engine with or without a load gauge and counters.
Places == [gateway: BOOLEAN, reports_load: BOOLEAN, counts: BOOLEAN]

ProbeSpec == (\E where \in Places : ProbeInit(where)) /\ [][ProbeNext]_probe_vars

-----------------------------------------------------------------------------
(***************************************************************************)
(* Properties                                                              *)
(***************************************************************************)
\* A reading that is said to have run alone (probe_run.rs:127, probe.rs:232) shared the
\* engine with somebody else in two ways only: one request, let in after the engine was
\* found idle and still running when it was read again, when the gauge's 1 is taken for the
\* probe's own; or one that finished with as many tokens, and was counted in place of the
\* probe's.  Behind a gate either must have come before the gate was read.  (An engine that
\* counts nothing hides whoever finished, and so does a gate that restarts.)
ReadingRanAlone ==
    pc = "asleep" /\ probe_record.valid /\ ~probe_record.unverified =>
        /\ Cardinality(still \cap beside) <= 1
        /\ site.counts => /\ Cardinality(beside) <= 1
                          /\ \A r \in beside \ still : uncounted /\ fate[r] = "alike"
        /\ site.gateway /\ ~regated => beside \subseteq early

=============================================================================

------------------------------ MODULE BenchWatch -----------------------------
(***************************************************************************)
(* The watch of a bench (crates/lss-collector/src/bench_run.rs,            *)
(* crates/lss-core/src/bench.rs).  Every few seconds of a run it reads how *)
(* many requests the engine runs and what the gateway says of its users,   *)
(* takes off what the bench itself may have there, stops the run for the   *)
(* rest, and keeps what the scorecard says of it.  What the bench really   *)
(* has there is known to nobody: the harness ramps up, winds down, a       *)
(* request outlives the client that gave up on it, and gauges lag.         *)
(*                                                                         *)
(* Any of the requests may wait in the engine's queue: it runs the others. *)
(* A needle that goes straight to the engine is one sent where there is no *)
(* gateway.  Engine and gateway are read at one moment: each number comes  *)
(* from one of the two.                                                    *)
(***************************************************************************)
EXTENDS Integers, Sequences

CONSTANTS
    Plans,          \* what plan() and plan_builtin() put out: sequences of [kind, n]
    MaxStrangers    \* bound: requests of others that run at a time

\* A harness step launches up to n streams; "request" is one request of the collector's
\* own, "parallel" n of them at once.
StepKinds == {"harness", "request", "parallel"}

ASSUME WatchAssumption == \A p \in Plans : p \in Seq([kind: StepKinds, n: Nat \ {0}])

VARIABLES
    setup,          \* external: the gateway, the lanes of the engine; and whether --under-load
    strangers,      \* external: the requests of others, by the way they came
    mine,           \* external: the bench's own on the engine: streams of the harness, asked
                    \* and not answered, answered and still shown, abandoned and still running
    plan, at,       \* the steps, and the number of the one it is at
    watch_pc,       \* where the run's thread is
    waiting,        \* of the step's requests: unanswered ones, and answers that were timeouts
    own_load,       \* OwnLoad
    sampler,        \* LoadSampler: did it look, did it see anybody, its weakest source's rank
    step_end        \* StepEnd

\* History: a step was left before the engine was seen quiet; a look took requests that were
\* given up for ended while they ran; somebody was overlooked.
VARIABLES unsettled, forgotten, overlooked

history_vars == <<unsettled, forgotten, overlooked>>

watch_vars == <<setup, strangers, mine, plan, at, watch_pc, waiting, own_load, sampler, step_end,
                history_vars>>

NotRead == -1
Ways == {"public", "trusted", "direct"}
Setups == [gateway: {"none", "old", "table"}, lanes: {"public", "trusted", "neither", "none"},
           under_load: BOOLEAN]

(***************************************************************************)
(* Mutants                                                                 *)
(***************************************************************************)
\* A request that the client gave up on is over.
FinishedForgets(o, abandoned) == [o EXCEPT !.inflight = 0, !.grace = TRUE]

\* The best source a look had.
WeakerStrongest(r, s) == IF r > s THEN r ELSE s

\* The grace of the requests before lasts although others are in flight.
CountGraceToo(o) == o.inflight + (IF o.grace THEN 1 ELSE 0) + o.abandoned

-----------------------------------------------------------------------------
(***************************************************************************)
(* What is on the engine, and what a look reads of it                      *)
(***************************************************************************)
Everybody == strangers.public + strangers.trusted + strangers.direct
MyRequests == mine.asked + mine.shown + mine.left
Mine == mine.streams + MyRequests
ThroughGateway == setup.gateway # "none"

\* own_lane_for: the lane of a request that asked for none.  Engines that have no lanes are
\* configured as the default is.
OwnLane == IF setup.lanes = "none" THEN "trusted" ELSE setup.lanes

\* The gateway puts requests of the bench on its trusted lane.
InLane(l) ==
    IF setup.lanes = "none" THEN 0
    ELSE strangers[l]
         + (IF l = "trusted" /\ ThroughGateway THEN MyRequests ELSE 0)
         + (IF l = OwnLane
            THEN strangers.direct + mine.streams + (IF ThroughGateway THEN 0 ELSE MyRequests)
            ELSE 0)

\* Watch::observe: the total leaves those out that wait in the queue, the lanes do not.  The
\* users are those of the gateway's table, without lss-bench.
Seen(engine, table, queued) ==
    [running |-> IF engine THEN Everybody + Mine - queued ELSE NotRead,
     public |-> IF engine THEN InLane("public") ELSE NotRead,
     trusted |-> IF engine THEN InLane("trusted") ELSE NotRead,
     users |-> IF table THEN strangers.public + strangers.trusted ELSE NotRead]

Less(a, b) == IF a > b THEN a - b ELSE 0

\* foreign_now: how many are others', and the rank of the source that says so.
Foreign(o, own) ==
    IF o.users # NotRead THEN [n |-> o.users, rank |-> 3]
    ELSE IF o.public # NotRead /\ o.trusted # NotRead
    THEN [n |-> IF OwnLane = "trusted" THEN o.public + Less(o.trusted, own)
                ELSE IF OwnLane = "public" THEN Less(o.public, own) + o.trusted
                ELSE o.public + o.trusted,
          rank |-> 2]
    ELSE IF o.running # NotRead THEN [n |-> Less(o.running, own), rank |-> 1]
    ELSE [n |-> 0, rank |-> 0]

\* abort_reason, with the engine's total as a backstop.
MustAbort(o, own) ==
    \/ Foreign(o, own).rank >= 2 /\ Foreign(o, own).n > 0
    \/ o.running # NotRead /\ o.running > own

-----------------------------------------------------------------------------
(***************************************************************************)
(* What the bench knows of its own                                         *)
(***************************************************************************)
Finished(o, abandoned) ==
    [inflight |-> 0, grace |-> TRUE, abandoned |-> o.abandoned + abandoned]

\* OwnLoad::count settles the abandoned ones ...
Settled(o, running) ==
    IF running # NotRead /\ running <= o.inflight THEN [o EXCEPT !.abandoned = 0] ELSE o

\* ... and tells how many are the bench's.
Count(o) ==
    (IF o.inflight > 0 THEN o.inflight ELSE IF o.grace THEN 1 ELSE 0) + o.abandoned

\* LoadSampler::push
Weaker(r, s) == IF r < s THEN r ELSE s

Pushed(sample, f) ==
    [looked |-> TRUE, traffic |-> sample.traffic \/ f.n > 0,
     weakest |-> IF sample.looked THEN Weaker(sample.weakest, f.rank) ELSE f.rank]

\* BackgroundLoad::class
Class ==
    IF ~sampler.looked \/ sampler.weakest = 0 THEN "Unknown"
    ELSE IF sampler.traffic THEN "Loaded"
    ELSE IF sampler.weakest = 1 THEN "Unknown" ELSE "Quiet"

-----------------------------------------------------------------------------
(***************************************************************************)
(* The run's thread                                                        *)
(***************************************************************************)
WatchInit(where, steps) ==
    /\ setup = where
    /\ strangers = [w \in Ways |-> 0]
    /\ mine = [streams |-> 0, asked |-> 0, shown |-> 0, left |-> 0]
    /\ plan = steps /\ at = 0 /\ watch_pc = "between"
    /\ waiting = [unanswered |-> 0, timeouts |-> 0]
    /\ own_load = [inflight |-> 0, grace |-> FALSE, abandoned |-> 0]
    /\ sampler = [looked |-> FALSE, traffic |-> FALSE, weakest |-> 0]
    /\ step_end = "none" /\ unsettled = FALSE /\ forgotten = FALSE /\ overlooked = FALSE

WorldStays == UNCHANGED <<setup, strangers, plan>>

\* What a look at this step allows for, beside the requests that are counted.
MaxConcurrency ==
    CASE plan[at].kind = "harness" -> plan[at].n
      [] plan[at].kind = "request" -> 1
      [] plan[at].kind = "parallel" -> 0

BeginStep ==
    /\ watch_pc = "between" /\ at < Len(plan)
    /\ at' = at + 1
    /\ LET s == plan[at + 1]
       IN  IF s.kind = "harness"
           THEN watch_pc' = "harness" /\ UNCHANGED <<waiting, own_load>>
           ELSE /\ watch_pc' = "waiting"
                /\ waiting' = [unanswered |-> s.n, timeouts |-> 0]
                /\ own_load' = [own_load EXCEPT !.inflight = s.n]
    /\ WorldStays /\ UNCHANGED <<mine, sampler, step_end, history_vars>>

\* Where the engine counts its lanes and no table of users is asked, everybody is counted.
CountsEverybody == setup.gateway # "table" /\ setup.lanes \in {"public", "trusted"}

\* What a bench can have there at this step, and gave up and has not seen gone.  One more may
\* be taken for its own: a single request is allowed for twice (must_stop(1) and the count,
\* bench_run.rs:621), and one that was answered last for the time of two looks.
StepHas == IF watch_pc = "settling" /\ plan[at].kind = "parallel" THEN 0 ELSE plan[at].n
OneMore == plan[at].kind = "request" \/ (watch_pc # "waiting" /\ own_load.grace)
BenchHas(abandoned) == StepHas + (IF OneMore THEN 1 ELSE 0) + abandoned

\* Somebody was on the engine, more than the bench left unused of what it can have, and
\* than the queue hides where only the total tells; without the engine's word, the gateway's
\* users; without either, anybody.
Unnoticed(seen, own, queued) ==
    LET hidden == IF CountsEverybody THEN 0 ELSE queued
    IN  IF seen.running # NotRead THEN Everybody > 0 /\ Everybody > own - Mine + hidden
        ELSE IF seen.users # NotRead THEN strangers.public + strangers.trusted > 0
        ELSE Everybody > 0

\* must_stop, when nobody cancelled the run and there is time left.
WatchLook ==
    /\ (watch_pc \in {"harness", "settling"}) \/ (watch_pc = "waiting" /\ waiting.unanswered > 0)
    /\ \E engine \in BOOLEAN, table \in IF setup.gateway = "table" THEN BOOLEAN ELSE {FALSE},
          queued \in 0 .. Everybody + Mine :
          LET seen == Seen(engine, table, queued)
              counted == Settled(own_load, seen.running)
              own == MaxConcurrency + Count(counted)
              stop == ~setup.under_load /\ MustAbort(seen, own)
          IN  /\ own_load' = counted
              /\ sampler' = Pushed(sampler, Foreign(seen, own))
              /\ forgotten' = \/ forgotten
                              \/ counted.abandoned < own_load.abandoned /\ mine.left > 0
              /\ overlooked' = \/ overlooked
                               \/ Unnoticed(seen, BenchHas(counted.abandoned), queued)
              /\ step_end' = IF stop THEN "traffic" ELSE step_end
              /\ watch_pc' = IF stop THEN "ended"
                             ELSE IF watch_pc # "settling" THEN watch_pc
                             ELSE IF setup.under_load THEN "between" ELSE "quiet"
    /\ WorldStays /\ UNCHANGED <<mine, at, waiting, unsettled>>

\* A harness step ended: its streams may still be winding down.
HarnessExits ==
    /\ watch_pc = "harness" /\ watch_pc' = "settling"
    /\ WorldStays /\ UNCHANGED <<mine, at, waiting, own_load, sampler, step_end, history_vars>>

\* settle: until nothing runs, or for a minute.  An engine that cannot be read, or is not
\* SGLang, passes for quiet.
Quiet == Everybody + Mine = 0

SeenQuiet ==
    /\ watch_pc = "quiet" /\ Quiet /\ watch_pc' = "between"
    /\ WorldStays /\ UNCHANGED <<mine, at, waiting, own_load, sampler, step_end, history_vars>>

NotQuiet ==
    /\ watch_pc = "quiet" /\ ~Quiet /\ setup.lanes # "none" /\ watch_pc' = "settling"
    /\ WorldStays /\ UNCHANGED <<mine, at, waiting, own_load, sampler, step_end, history_vars>>

SettledAnyway ==
    /\ watch_pc = "quiet" /\ watch_pc' = "between" /\ unsettled' = TRUE
    /\ WorldStays
    /\ UNCHANGED <<mine, at, waiting, own_load, sampler, step_end, forgotten, overlooked>>

\* gateway_request and parallel_requests return.
StepAnswered ==
    /\ watch_pc = "waiting" /\ waiting.unanswered = 0
    /\ own_load' = Finished(own_load, waiting.timeouts)
    /\ watch_pc' = IF plan[at].kind = "parallel" THEN "settling" ELSE "between"
    /\ WorldStays /\ UNCHANGED <<mine, at, waiting, sampler, step_end, history_vars>>

\* The last step is done; or the run is cancelled, or past its deadline.
RunEnds ==
    /\ \/ watch_pc = "between" /\ at = Len(plan) /\ step_end' = "done"
       \/ watch_pc \in {"harness", "settling", "waiting"} /\ step_end' = "stopped"
    /\ watch_pc' = "ended"
    /\ WorldStays /\ UNCHANGED <<mine, at, waiting, own_load, sampler, history_vars>>

GracePasses ==
    /\ own_load.grace /\ own_load' = [own_load EXCEPT !.grace = FALSE]
    /\ WorldStays /\ UNCHANGED <<mine, at, watch_pc, waiting, sampler, step_end, history_vars>>

-----------------------------------------------------------------------------
(***************************************************************************)
(* The engine                                                              *)
(***************************************************************************)
Engine ==
    UNCHANGED <<setup, plan, at, watch_pc, own_load, sampler, step_end, history_vars>>

Launch ==
    /\ watch_pc = "harness" /\ mine.streams < plan[at].n
    /\ mine' = [mine EXCEPT !.streams = @ + 1]
    /\ Engine /\ UNCHANGED <<strangers, waiting>>

Admit ==
    /\ watch_pc = "waiting" /\ mine.asked < waiting.unanswered
    /\ mine' = [mine EXCEPT !.asked = @ + 1]
    /\ Engine /\ UNCHANGED <<strangers, waiting>>

\* An answer; or a refusal of one that was never let in.
Answer ==
    /\ watch_pc = "waiting" /\ waiting.unanswered > 0
    /\ \/ mine.asked > 0 /\ mine' = [mine EXCEPT !.asked = @ - 1, !.shown = @ + 1]
       \/ mine.asked < waiting.unanswered /\ UNCHANGED mine
    /\ waiting' = [waiting EXCEPT !.unanswered = @ - 1]
    /\ Engine /\ UNCHANGED strangers

\* The client gives up at its own timeout, on a request that runs or was never let in.
ClientTimesOut ==
    /\ watch_pc = "waiting" /\ waiting.unanswered > 0
    /\ \/ mine.asked > 0 /\ mine' = [mine EXCEPT !.asked = @ - 1, !.left = @ + 1]
       \/ mine.asked < waiting.unanswered /\ UNCHANGED mine
    /\ waiting' = [unanswered |-> waiting.unanswered - 1, timeouts |-> waiting.timeouts + 1]
    /\ Engine /\ UNCHANGED strangers

\* A stream is over, a gauge catches up, an abandoned request ends.
GaugeFalls ==
    /\ watch_pc # "ended"
    /\ \E what \in {"streams", "shown", "left"} :
          mine[what] > 0 /\ mine' = [mine EXCEPT ![what] = @ - 1]
    /\ Engine /\ UNCHANGED <<strangers, waiting>>

StrangerComes(way) ==
    /\ watch_pc # "ended" /\ Everybody < MaxStrangers
    /\ way = "direct" \/ ThroughGateway
    /\ strangers' = [strangers EXCEPT ![way] = @ + 1]
    /\ Engine /\ UNCHANGED <<mine, waiting>>

StrangerGoes(way) ==
    /\ watch_pc # "ended" /\ strangers[way] > 0
    /\ strangers' = [strangers EXCEPT ![way] = @ - 1]
    /\ Engine /\ UNCHANGED <<mine, waiting>>

WatchNext ==
    \/ BeginStep \/ WatchLook \/ HarnessExits \/ SeenQuiet \/ NotQuiet \/ SettledAnyway
    \/ StepAnswered \/ RunEnds \/ GracePasses
    \/ Launch \/ Admit \/ Answer \/ ClientTimesOut \/ GaugeFalls
    \/ \E way \in Ways : StrangerComes(way) \/ StrangerGoes(way)

WatchSpec ==
    /\ \E where \in Setups, steps \in Plans : WatchInit(where, steps)
    /\ [][WatchNext]_watch_vars

-----------------------------------------------------------------------------
(***************************************************************************)
(* Properties                                                              *)
(***************************************************************************)
\* A run is stopped for real traffic because of somebody's traffic (bench.rs:583, "the bench
\* used to shoot itself"; bench_run.rs:431, 714).  Its own can still do it in four ways: the
\* gauge shows more answered requests than the grace and the count allow for; an abandoned
\* request was taken for finished while another one was on its way; a step began before the
\* streams of the one before it were seen gone; and where the lane of requests without
\* priority is not the trusted one, what the bench itself sends through a gateway without a
\* table of users is counted as somebody's.
ShownUncounted ==
    mine.shown > IF plan[at].kind = "request" THEN 1
                 ELSE IF own_load.inflight = 0 /\ own_load.grace THEN 1 ELSE 0

MistakenForOthers ==
    \/ ShownUncounted
    \/ forgotten' /\ mine.left > own_load'.abandoned
    \/ unsettled /\ mine.streams > 0
    \/ ThroughGateway /\ OwnLane # "trusted" /\ MyRequests > 0

StopsForOthers ==
    [][step_end' = "traffic" /\ step_end # "traffic"
        => Everybody > 0 \/ MistakenForOthers]_watch_vars

\* A scorecard that says quiet (bench.rs:822) was measured so at every look, but for as many
\* requests as the bench might have had there itself and had not, for the one more it may take
\* for its own (OneMore), and, where only the total tells of them, for those in the engine's
\* queue.  Where not everybody is counted that needs
\* the total as a judge: under --under-load it has no say, and the scorecard does not hear
\* it when it stops a run.
Watched == step_end # "traffic" /\ ~setup.under_load

QuietWasAlone ==
    watch_pc = "ended" /\ Class = "Quiet" /\ (CountsEverybody \/ Watched) => ~overlooked

=============================================================================

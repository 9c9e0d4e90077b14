# lss in TLA+

lss watches one LLM server: a collector polls the engine, a gateway, Docker, the
GPUs and the kernel log, stores what it sees, raises alerts and serves documents
to a terminal client. These modules model the decisions of both: what is alerted,
what is booked and rolled up, what a restart remembers, how an alert leaves the
machine, how a benchmark takes and gives back the server, when a speed reading may
be believed, which days a bill sums, and what the screen shows while its owner switches
servers.

Contents: [the system](#the-system), [the modules](#the-modules),
[the runs](#the-runs), [fairness](#fairness), [the proofs](#the-proofs),
[where code and words differ](#where-code-and-words-differ),
[what is not modelled](#what-is-not-modelled), [the plan](#the-plan).

## The system

Paths are below `crates/` unless they say otherwise.

| Component | State | Operations | Talks to |
|---|---|---|---|
| Alert engine, `lss-core/src/rules.rs` | one hold-and-cooldown timer a rule, per-device timers, sliding windows, streaks, the digest, what a restarted container is owed | `Engine::evaluate` on one `Observation` a poll; `retain_c1_streak` at start | called by the poll loop, which stores its messages and its state |
| Incident tracker, `lss-core/src/incidents.rs` | misses and open outage of the serve and the gate, last seen run of each container | `IncidentTracker::step` | answers with open, close and event operations the poll loop writes |
| Maintenance window, `lss-core/src/maintenance.rs` | active, expires_at, reason, in memory | start, stop, expire | started and stopped by listener threads, read by the poll loop |
| Poll loop, `lss-collector/src/main.rs` | flags of the last poll, the last saved state | one poll: observe, snapshot `Shared`, write incidents, evaluate, write alerts, save | everything below; holds the database through most of a poll |
| Database, `lss-collector/src/db.rs` | incidents, alerts, bench runs, key-value entries, samples and roll-ups | one statement each, no transaction around a poll | poll loop, bench threads, alert worker, back-fill |
| Bench runs, `lss-collector/src/bench_run.rs` | `Shared.bench` flags, `bench.lock`, a row a run | request_start, request_cancel, the run's thread, finish, recover | listener threads, the run's thread, the poll loop's bench incident, another collector on the same state directory |
| Bench watch, `lss-collector/src/bench_run.rs`, `lss-core/src/bench.rs` | its own requests (in flight, grace, abandoned), what every look saw of others | `observe`, `must_stop`, `settle`, `OwnLoad`, `LoadSampler` | reads the engine's gauges and the gateway's users; stops the run; writes the scorecard's background |
| Alert delivery, `lss-collector/src/alert.rs` and `scripts/lss-alert.sh` | the channel, the spool directory, `alert.lock`, `alert-last`, the ids files | the worker's loop, the script's run, a person's `--flush` | the agent's seat over ssh, banners, the alert rows |
| Mutexes of the collector | `db`, `shared`, `tailscale` | lock, unlock | every thread |
| C1 probe, `lss-core/src/probe.rs`, `lss-collector/src/probe_run.rs` | the evidence of one request: load and totals of engine and gate before and after, the newest record | `decide`, the request, `settled_load`, `validate` | copies `Shared` first; its record goes to the rules and the loadout through the poll loop |
| Roll-ups, `lss-collector/src/rollup.rs`, `lss-core/src/series.rs`, `db.rs` | samples, the open bucket of each width, the rows, the gate's log by bucket | `Pipeline::push`, `replay`, `backfill`, `prune` | fed by the poll loop; the back-fill is a thread of its own on the same tables |
| Latency windows, `lss-core/src/hist.rs` | the last scrape, an open window of each width, the last minutes | `LatencyTracker::observe`, `now` | inside the pipeline |
| Token ledger, `lss-core/src/tokens.rs` | totals, the counters they stand on, the engine's start, peaks | `AllTime::observe`, load, save once a minute | fed by the poll loop; starts from the ten-minute rows |
| Loadouts, `lss-collector/src/loadouts.rs`, `lss-core/src/loadout.rs` | who serves, its account, the table of all, saved once a minute | `on_sample`, `on_probe`, `switch_to`, `backfill` | asks docker or the engine who it is; reads stored samples |
| Client screen, `lss/src/main.rs`, `ui/mod.rs`, `data.rs` | `App`, the address and the page behind a mutex each, a channel of answers | a key, an answer, a fetch | asks the collectors; may start a bench on this machine |
| Spending, `lss-core/src/rates.rs`, `lss-collector/src/cost_run.rs` | none of its own: the ten-minute rows of energy, priced | `spending`, `daily_spend`, the starts of week, month and year | computed by the poll loop from the rows, read by the screens |
| Tariff, `lss-core/src/cost_setup.rs`, `rates.rs`, `lss-collector/src/cost_setup_run.rs`, `cost_run.rs` | `rates.toml` and its temporary, the table a collector read from it, the day's samples | the wizard's questions and its write, `price_for`, `accumulate`, `counter_window` | a person types, and edits the file; a collector reads it once, at its start |
| Users | counters of their own | | read by one thread |
| Wizards, parsers, configuration, documents, reports | none that is shared | | read what the collector publishes |

How they interact. The poll loop is one thread: it reads `Shared` (bench and
maintenance flags) in one section, drops it, takes the database and works through
the poll. Listener threads change `Shared` at any time and, for a bench, the
database and a lock file. The alert worker receives row ids over a channel and runs
a shell script, which shares files with other runs of itself. A collector that
dies starts again from two key-value entries.

What is hard about it, and what correctness means there:

- **Alerts.** A reader of the messages must be able to trust them: every outage
  told in time, every message answered once, spaced by a cooldown, labelled by the
  right maintenance window, and no opinion from a reading that failed. Two timers
  share one recovery; cooldowns outlive the outages they were started by; a bench
  stands some rules down; windows and streaks are kept incrementally.
- **Incidents.** One row an outage, from its first miss to its end, and one a
  restart, whatever the polls saw of it.
- **Crash and partial failure.** A poll makes its writes one by one and the engine
  is saved last; each may fail and is only logged. What is resumed from must never
  claim what is not on record.
- **Bench runs.** Two listeners, two collectors and a crash may meet in
  `request_start`, which checks, locks, records and activates in four separate steps.
- **A bench among others.** The watch must stop for everybody else's requests and never
  for its own, from gauges that show both; what it overlooks ends in a scorecard.
- **Delivery.** Several runs of the script over one spool, a kill after 150 s, a
  connection that breaks after the mail got through, an ids file that is renamed
  while it is open.
- **Books.** One counter of the engine feeds five accounts, each with its own saved
  state and its own way to resume: nothing may be counted twice or lost when the
  engine, docker's word about it, or the collector restarts in between.
- **The bill.** Windows are counted back from the last midnight in days of 86 400 seconds,
  and two days of the year are longer or shorter than that.
- **The tariff.** A price is typed as hours and months and applied as a list of periods to
  moments of a local clock; between the two lie a file that a person edits and a wizard that
  may die, and a collector that does not look again. Each interval must cost what was meant.
- **Readings.** A probe is one request among everybody's, and is judged from counters
  read at five different moments; a number that was not measured alone pages somebody.
- **The screen.** An answer may arrive after its question was changed, for another
  server, page or range.
- **Locks.** A panic-free hang is possible only through a cycle of three mutexes; it
  has happened once (`lss-collector/src/main.rs:69`).

`PROJECT.json` lists these hazards one by one at the line where they bite, each with
the properties that would catch it.

## The modules

| Module | Models | Its state and actions in the code |
|---|---|---|
| `Sustained` | `Sustained` and `Edge`, `rules.rs:176-209` | a timer as a record; `EdgeOf` and `Step` are the two results of `Sustained::step` |
| `PollClock` | the clock of polls, 1 to `MaxGap` apart | `NextPoll` |
| `Availability` | `eval_serve_down`, `eval_gate_down`, `eval_restarts`, `eval_xids` | engine fields by their names; `Evaluate(t, o)` is one poll |
| `LoadRules` | queue pressure, gate waiters, both charging rules, cold budget, omp mismatch | `EvalLoad`; a reading is bad, fine or nothing |
| `GpuRules` | `gpu_missing`, both thermal rules per device, the digest | `EvalGpus` on a listing of devices |
| `WindowRules` | disk full, disk page, disk growth, reject growth | `EvalWindows` on a level and a counter |
| `C1Rule` | the low streak, the stale measurement, its mute | `EvalC1`, `RepairStreak` |
| `AlertEngine` | `Engine::evaluate`, all families on one observation | composes the five above |
| `Tracker` | `DownTracker::step`, `restart_detail`, event times | pure operators |
| `PollLoop` | one poll from observation to saved state, windows, deaths, lost writes | one action between two points where another thread or a crash can see the difference |
| `BenchRun` | `bench_run.rs` and the poll loop's bench incident | the same, per listener thread, per run and per collector |
| `BenchWatch` | `observe`, `must_stop`, `settle`, the steps of `run`, `OwnLoad`, `foreign_now`, `abort_reason`, `LoadSampler` and its class | one action a look, a request's way, a step; the engine and others beside them |
| `AlertSpool` | `alert.rs`, `lss-alert.sh`, the kill in `cmd.rs` | one action per file operation or delivery; `s[p]` is a run of the script, with what it has in hand |
| `LockOrder` | who takes which mutex inside which other | `Lock`, `LockInside`, `Acquire`, `Unlock` |
| `Samples`, `Lists` | one poll's reading, buckets, the growth of a counter; a row put into a table, rows selected | `SampleType`, `Growth`, `Put`, `Selected` |
| `Tiers` | `Roller`, `Pipeline`, replay, back-fill, pruning, the gate's log | `StoreAndFold`, `StartTiers`, `BackfillChunk` |
| `Ledger` | `AllTime`, `CounterTotal`, the peaks | `ObserveLedger`, `LoadLedger` |
| `Latency` | `LatencyTracker`, `delta`, `HistAccum` | `ObserveLatency`, `LatencyNow` |
| `Loadouts` | `Loadouts::on_sample` with its switch and back-fill, `LoadoutAcc` | `OnSample` |
| `Accounts` | the poll loop's order of the four, start and stop of a collector | `Poll`, `PollDies`, `StartCollector`, `BackfillStep` |
| `Spending` | `cost_run.rs:123-209` and the windows of `rates.rs:615-777` on a local calendar | `Spending(t)` is what `spending` answers; `TenMinutesPass` is a row that can be priced, or not |
| `Tariff` | the wizard of `cost_setup_run.rs`, `check_tou` to `render_tou_toml`, `price_for`, `accumulate`, the day's tokens | `AnswerPlan` to `RenameTmp` are the conversation and the write, `StartMetering` the one read of the file, `Metered` a stored sample |
| `C1Probe` | the probe's thread from its look at `Shared` to the verdict, everybody else's requests | one action a reading |
| `Screen` | keys, answers, `spawn_fetcher` | one action a key, a fetch, a read of a mutex |
| `AlertChannel` | abstract: what the reader of the alerts is promised | no timers, no polls: topics told, answered, spaced |
| `RuleProofs` | theorems about the alert engine and its channel | |
| `PollProofs` | about `PollLoop` and its `Tracker` | |
| `BenchProofs` | about `BenchRun` | |
| `SpoolProofs` | about `AlertSpool` | |
| `ThreadProofs` | about `LockOrder`, `C1Probe`, `Screen`, `BenchWatch` | |
| `AccountProofs` | about `Accounts`: its `Ledger`, its `Latency` and its `Loadouts` | |
| `RowProofs` | about the rows of its `Tiers`, on those, and about `Spending` and `Tariff` | |
| `NumberLemmas` | induction over numbers and finite sets, recursive functions, folds, sums, selections | |
| `MC...` | small constants and worlds | |

Conventions. `NoTime` stands for `None` of an `Option<i64>`. A message is its rule,
its severity and whether it is a recovery; wording is left out. Variables under
`History` are not in the code: they remember what was observed or sent, so that a
property can compare the code's incremental state with it. Each module opens with
its mutants: a plausible slip of the definition of the same shape, used to show
that the property beside it can fail.

The abstractions worth knowing:

- A condition such as "over the thermal line" is part of the observation. The rules
  with hysteresis or growth (disk, rejects) take the numbers instead, because there
  the comparison depends on the state.
- `PollLoop` keeps one service and one container; the gate's are stepped by the
  same code. Xid events are written as restart events are. The clock moves only
  between polls: a poll reads it once.
- In `BenchRun` a process id is never used again, so the lock of a dead collector
  names nobody. What a run measures is left out: its thread watches, ends one of
  three ways, stores, unlocks, clears. Why the watch ends it is in `BenchWatch`.
- In `BenchWatch` any number of the requests may wait in the engine's queue at a look,
  which the lanes count and the total does not. One look reads engine and gateway at one
  moment, because no number is made of both.
- In `Tiers` an aggregate is the set of samples that went in, how many, and the sum of
  their tokens: average, least and most follow from the members. A histogram is its
  bucket layout and a count. In `Loadouts` an account is the list of what went into it.
- In `Accounts` the engine, docker and the gate are external: a run of the engine has a
  number that no definition of the code reads, so that the history can tell two runs
  apart where the code sees only a counter and a start time.
- In `Spending` the unit is ten minutes, a window's money is the set of days it sums, a row
  that no tariff prices is no row, and the calendar is a sequence of midnights.
- In `Tariff` prices are natural numbers that `parse_rate` lets through, energy is twice that of
  a trapezoid, one counter stands for those of generated, read and cached tokens, and a moment
  is external data: day, month, hour, weekend. A person's edit enters a holiday or makes a slip
  that does not parse. Of the file, the names of the periods and what is only shown are left out.
- In `C1Probe` tokens come in units the margins of `probe.rs` cannot hide, and the other
  requests are alike, larger, or of another prompt.
- In `Screen` an answer is who was asked for what; what is drawn follows from it.
- In `AlertSpool` time is the seconds a run of the script has spent waiting, which
  is all the worker's timeout and the lock's depend on; an agent that turns idle
  late in a wait costs the whole wait, and a kill comes in one. A shell line that reads a
  file and writes it is two steps (`>` empties the file in a third one). A name of a file is
  its number and its second; the second is left open (`Seconds`) where two files have one
  number. A text is the alert it is of; of a file that is gone nothing is read, and the mail
  goes out all the same.

## The runs

Each passing run reports no error on its whole state space; each violation run
checks one sentence of the repository that the code does not keep.

| Run | Question | States | Bounds |
|---|---|---|---|
| `AlertEngine` | does every family of rules say what it read, once, in time, and answer it; is it the alert channel its reader is promised? | 0.20 M | 14 worlds, clock to 6-11 |
| `Collector` | do rows, alerts and saved state agree with what happened? are flag, lock, row and incident of a bench consistent, whoever else is there? is mail kept, in order, and never called delivered when it was not? | 2.4 M | polls: 7 worlds, 3-6 polls, clock to 3-5; benches: 2 collectors, 2 runs, a death or a lost write; mail: 2-3 alerts, spool of 2, a death, a prompt, no `flock` |
| `Progress` | does every bench run end, and its incident close? does the spool empty, and is what got through marked? | 0.22 M | 1 collector, 3 runs, 1 crash, 1 lost write; 2 alerts, spool of 2, a prompt or a crash |
| `Accounts` | do ledger, tiers, windows and loadouts hold each reading once, whoever restarts? does the bill sum the days it names, at the prices that were agreed to? | 0.56 M | 11 worlds, 4-6 polls, 2 starts of the collector, 3 runs of the engine; 11 days of 4 units; 92 plans, 2 wizards, 19 hours, 6 samples |
| `Threads` | can threads wait in a circle, can a probe or a bench be wrong about having been alone, can a bench stop for itself, can the screen mix two servers? | 1.6 M | 6 threads and 3 mutexes; 1 probe beside 2 requests; 2 benches of 2 steps, 2 streams and 1 stranger; 2 servers, 3 pages, 3 keys |
| `PollOrphan`, `PollMaintenanceDies`, `BenchTwoCollectors`, `SpoolKilled`, `SpoolAppends`, `ColdStarts`, `PricePerToken` | violations, see [below](#where-code-and-words-differ) | | |

**AlertEngine.** The families of rules share no state but the clock, so a product
of all their readings would multiply states without adding behaviour. Each world of
`MCAlertEngine` moves the readings of one family through everything they can be,
while the others get readings that leave their state alone:

| World | Moves | Reaches |
|---|---|---|
| outages | both services, every poll, gaps of 1 and 2 | a warn in its cooldown while the page fires; outages inside cooldowns |
| restarts | restarts, windows, running containers, Xids | crash loops in and across windows, a label from the first alert |
| one per load rule | bad, fine or unread, with and without a bench | holding, forgetting, firing after a gap |
| heat, digest | listings that fail or lose a device, heat | held thermal alerts; seconds counted over gaps and window turns |
| disk | every level, or no reading | both hystereses and their cooldowns, pruned points |
| counts | a counter that grows and restarts | growth across a restart |
| streaks | probes high and low, struck out by a restart | a streak that is cut, and fires later |
| flapping | probes that get through now and then, benches | fire, recovery, mute, and the end of the mute |

The durations are small and pairwise different where the code's are (warn hold 1,
page hold 2, cooldown 3), so a cooldown outlasts an outage, a page comes after its
warn, and a window is longer than a gap; the clock reaches at least twice the
cooldown, which is one full round of alert, recovery, held-back alert and release.
Flapping needs the longest clock (11): a mute is two flaps and a quiet window. A
world ends at its last clock reading, hence `CHECK_DEADLOCK FALSE`.

**Collector.** Three parts of a collector that write to its disk; in the model none touches
another's state, so in a behaviour only one of them moves (`part`), and all properties are
checked in all of them.

*Polls.* One world for each hardship, because the hazards combine pairwise: a
serve that fails in every pattern over six polls; windows of one or two seconds
started, extended and stopped at any step of a poll; two deaths anywhere in four polls of
an outage, or in three polls of an outage and a restart; a container found between two runs; a death inside a window;
two failed writes and a death. Two deaths in a row cover "resumed, then resumed
again"; the properties count what a death or a lost write may cost (`Slips`) instead
of excusing it.

*Benches.* Two collectors are what `bench_run.rs:7` speaks of; each has the one
loopback listener of the default configuration, either may be the first and the
second may start at any time. The collectors are alike, which `SYMMETRY Twins`
uses (the run has no liveness). A crash or a failed write (`Bounds`: not both) meets
every step, the failed write of one of two collectors those of the first row; two rows are enough for a run that follows, or overlaps, another. With two
listeners each `OneRun` fails, which is the run `BenchTwoCollectors`, and `LoadIsAnnounced` with
it: the run that ends first lowers the flag of the other.

*Mail.* A spool smaller than the alerts, so it overflows, a digest from two files on, a
repeated text, seats that are idle, busy or down, machines with and without `flock`, and a
file's name that two runs may give in one second or in two. Up to three runs of the script go
on side by side, by single file operations. `Bounds` keeps apart what each makes enough of
that: the death of the collector from a person's prompt and from a machine without a lock
(after a death two scripts go on unlocked by waiting long enough as well), and the third alert
to behaviours without a death and with the lock, since there the spool of two overflows; beside
a person it is of a busy seat, the only one at which a run waits so long that another goes on
without the lock. What the
bounds cut off is covered by `SpoolProofs`, whose theorems have no bounds but the one death.

**Accounts.** Buckets of two and four units, a save every two, retentions of a bucket
and more. The five accounts share only the sample, so each world moves what one of them
is sensitive to: deaths between and in polls with downtimes inside and over a bucket's
edge; a database of four samples from before the tiers, so that the retention may drop some of
them between two chunks of the back-fill; counters that restart below, at and above the
old value, told, untold, or told with the other run's counter; speeds over days; scrapes
that fail and layouts that change; configurations that follow each other, described or
not, with readings in flight; engines that take their time to start, told or untold; a gate's
log around a start. All properties are checked in
all of them. The histories say what may be missing (`forfeited`, `gaps`) and when nothing
can be claimed (`misfiled`, `blind`), so the invariants are equations, not bounds. The
tenth world is the bill: eleven days of four units, on every calendar with at most one
longer and at most one shorter day anywhere, over months of 1, 3, 4, 3 and 2 days and three
Januaries (one a day after the first, one in the middle, so that the year begins both inside
and outside the chart). All is priced, or one whole day or the first unit of it is not. Weeks,
windows and chart (3, 3, 4 and 5 days) are longer than some months and shorter than others,
as 7, 30 and 31 are. The eleventh is the tariff, in three scenes: every plan of three hours and three
months, with and without seasons, usable or not, doubted or not; two wizards one after the
other over one file, each of which may die at any step, with holidays and a slip of the
hand in between and collectors that start at any time; and six samples over a midnight, with
and without a reading of the cards, a collector that stops and starts between any two of
them, and a step limit that one missing reading keeps and two exceed. Of the six days two are
in each month, one of them of the weekend, and the first has an hour twice, so every kind of
day meets every season and every hour.

**Progress.** Two worlds that share nothing, with the fairness of each owed in its own. Three
bench runs are two that follow each other and one that meets the crash; a spool that holds both
alerts never drops one, so what must be seen to is all of them. A person flushes beside the
worker, or the collector dies: in both an id may be written where nobody reads it any more
(`strayed`, which the run `SpoolAppends` shows to happen), and the property says that every
other one is marked.

**SpoolAppends, SpoolKilled, ColdStarts** start the modules of the passing runs: a person's
prompt and two alerts that are spooled; four alerts and an agent that is busy for ever; and
the worlds of `Accounts` as they are, of which `untold` has polls that fail before a start that
docker does not tell.

**Threads.** Four small systems in one run, a world each, because each is a handful of
threads over a little shared state. *locks*: two listeners, since two threads of a kind
can compete for what a third holds, and one each of the rest. *probe*: two requests are
what it takes to find the ways in which one reading can hide another, and that it never
hides two; the sites are one that tells everything and those without gateway, load gauge
or totals. *watch*: every combination of gateway, lanes and `--under-load`; a harness
whose second step is smaller than its first, and a warm-up followed by two requests at
once, which is what each of the four exceptions in `StopsForOthers` needs; one request of
somebody else at a time, since a bench that overlooks one has overlooked somebody.
*screen*: one local server with a gateway and a remote one without it; three keys are a
switch there, a page and a switch back, with two answers under way.

## Fairness

Safety is checked without fairness. Two properties need it.

- `EveryRunEnds` (`Progress`): each listener thread, run thread and poll loop takes
  its next step when it can. Threads of one process are scheduled by the kernel;
  the sections under a mutex are short (`NoCircularWait` of the run `Threads`: none waits for ever).
  That `Watch` ends is code: every profile has a deadline and every wait of the
  watch a timeout. Nobody need start a run, cancel one, or restart a dead collector.
- `WaitingIsSeenTo` (`Progress`): the worker and each run of the script
  get on, the poll loop keeps sending flushes, one every `alert_flush_secs`
  (`main.rs:950`), and a collector that died is started again
  (`packaging/lss-collector.service:15`). No person need flush, and no alert need be sent. Nothing is assumed of the agent; the property itself says "once it
  stays idle".

## The proofs

`tlapm` checks `RuleProofs`, `PollProofs`, `SpoolProofs`, `BenchProofs`, `ThreadProofs`, `AccountProofs`,
`RowProofs` and the `NumberLemmas` they use to the last leaf. They hold for
all values of the constants: any durations, gaps, roles and devices, any number of threads, of
collectors, polls, deaths, lost writes, servers and strangers. The assumptions are those the
modules declare: durations are natural numbers, roles are the serve and the gate and no
device has such a name (`KeysAssumption`), each thread has a kind (`ThreadsAssumption`), every
moment has a local day, month and hour (`TariffAssumption`), a request the engine counts has
generated something (`ProbeAssumption`), there is a server and a range, no page is listed twice
or has the name of a screen (`ScreenAssumption`), an alert has one of the four severities and the spool room for
one (`SpoolAssumption`), and the bounds of a world are numbers (`PollAssumption`).

`Availability`, for `Spec`, which allows every observation at every poll:

- `TypeCorrect`: `[]TypeOK`. (No run checks it again.)
- `LevelMirrors`: `[]LevelMirror`, the inductive invariant of the outage rules. The
  properties speak of what was seen and sent; the code keeps three timers. The
  invariant equates the two: a timer is announced exactly when its rule's last
  message is unanswered, its `last_sent` is the time of that rule's last alert, and
  both timers of the serve run since the first poll of the outage. Alone,
  `NoStaleOutage` is not inductive: without the mirror a page could be up that no
  timer knows of.
- From it `OutageAnswered` (`NoStaleOutage`), `OutageTold` (`NoSilentOutage`),
  `PagesEarned` (`PageEarned`) and `RecoveriesAnswer` (`RecoveryAnswers`).
- `EventsMirror`: `[]EventMirror`, the same for the event rules, with the label of a
  pending restart. From it `RestartsHeard`, `StableOwed`, `LabelsKept`, and with both
  mirrors `AlertsAreSpaced`.

The lemmas follow the code: `StepType`, `StepAdvances`, `HeldBack` about
`Sustained::step`; the shapes of the messages of each rule; then one lemma per
invariant for one `Evaluate`, and a temporal step that closes it with PTL.

`RuleProofs`, for `EngineSpec`, the engine of all families: `RulesMirror` is `[]RulesInv`, again
a mirror per family. A load timer is announced exactly when its rule's last message is
unanswered, and runs since a time after the last quiet poll (`LoadMirror`); a thermal timer
likewise, per device, whether listed or not (`ThermalMirror`); the digest's seconds are those
of the polls since its window began (`DigestIsOfPolls`); the warn of the disk runs at least as
long as its page (`WarnCovers`); the streak is among the low probes at the end of what was
judged and not struck out (`StreakMirror`), and an announced mute or stale timer is what was
told last (`StaleMirror`). Of the pace, `PointsAreInEffect` says that the points kept are the
readings that were the newest one at some time of the window: one is pruned only once the
next has left the window as well (`PrunedIs`), so the largest fall over the points is the
largest over what was read. Of the counts, that the samples kept are those of the readings in the
window, so that the sum of their growth is that of the readings. From it
`RulesSayWhatTheyRead`, `DigestsFit`, `PagesHaveTheirWarn`, `WindowsExact` (`WindowsAreExact`),
`StaleIsAlwaysTold` and `LowIsAlwaysAStreak`. `EngineKeepsAvailability` is
`EngineSpec => Spec`: the families share the clock only, so everything proved of
`Availability` and of its channel holds of the engine.

`ChannelImplemented`, in the same module, is `Spec => Channel!Spec`, the refinement of
`AlertChannel` by `Availability`, for one `Evaluate` a step of the channel. The mapping reads
the engine's own state: told are the announced timers and the pending restarts
(`Outstanding`), sent is each `last_sent` (`LastSent`), said are the poll's messages under the
names a recovery goes by (`Said`). It needs no invariant beyond `TypeOK`, because the timers
themselves carry what the channel remembers. The lemmas are `LevelPoll` (what a poll says of
an outage rule is what its timer did), `AlertAllowed` and `AnswerAllowed` (the guards of the
channel), `OutstandingStep` (what waits is what waited, plus what was told, less what was
answered) and `LastSentStep`. TLC checks the same formula as `ImplementsChannel` in the run
`AlertEngine`. `AlertsAreSpaced` says the spacing in terms of the history and is proved only.

`PollProofs`, for every world `PollLoop` can be started in: `PollIsConsistent` is `[]PollInv`, of
which no part but the types is inductive alone. Its parts follow what a poll hands on:

- `ClaimsTrue`: neither the saved timer and tracker nor those of the loop itself claim a row that
  is not there, but for the incident the tracker has just opened, which the poll still has to
  write (`OpenAsked`). The saved ones alone are not inductive, because the loop's are saved next.
  From it `ClaimsAreTrue` (`PersistedClaimsAreTrue`).
- `RunsKnown`, `InStep`, `RestartsTrue`: the run that is known, or saved, began no later than the
  container's; between polls the known run is the saved one; and the restart that brought either
  is on record, or asked for and not yet written. `RunsOnce` says why asking twice is no second
  row: a row that is not saved yet is in the words a poll that finds the run again would
  use, so `event_incident` finds it. From them `RestartsBookedOnce` (`RestartsAreBooked`).
- `WindowTrue`: the flag a poll took is of a window that was granted and is not over, and
  but between taking the flag and writing it down it is what the table says. From it
  `WindowOnRecord` (`WindowIsOnRecord`).
- `SlipsCounted`: the repetitions in the table of alerts, and the one that is to come while table
  and timer disagree on what was announced, are at most the deaths and the lost writes. From it
  `RepeatsAreOfDeaths` (`RepeatsAreDeaths`).
- `OutagesTrue`: while nothing dies or is lost, the tracker follows the polls at the end
  (`Follows`), and the table is that of all polls once the operation the tracker asked for is
  done (`AsAsked`). From it `OutagesAreIncidents` (`IncidentsAreOutages`). The lemmas are
  `SpansAdded` (what one more poll does to the outages there were), `PollAsks` (what the tracker
  asks for is that) and `OpIsDone` (and is what is written). The end of an outage is the
  least of the later polls that did not miss (`NumberLemmas.LeastExists`).

What the code writes in one poll is written in steps, so each part has to say what holds between
a write and the save at the end: this is where a death, or a write that fails, enters.

`SpoolProofs`, for any number of alerts, prompts, seconds and moods of the agent, with a lock or
without, and at most one death of the collector (`SpoolAssumption`): `SpoolIsConsistent` is
`[]SpoolInv`, over every order of the file operations of three runs of the script. Neither
property of `AlertSpool` is inductive; the parts of the invariant follow an alert on its way:

- `SpoolShape`: the types, and what a run has in hand where it is (`RunInOrder`): a listing that is
  not empty, of which the part that was read is the file it hands over, or all of it for a digest.
- `AllNamed`: the queue holds each alert once, in order (`QueueInOrder`); what has a name or was
  heard of was taken from it (`OnlyBegun`); a file is named after the alert it is of, and an alert
  has one name (`FilesAreNamed`); a run whose alert is still to be written is its only one
  (`RunIsNamed`, `RunsDiffer`), so a file cannot come back once another run has listed it.
- `AllArrived`: a file that a run has in hand holds the text it has read, and once that was
  handed over, one that arrived (`HandedOver`): what makes it true is that a `.tmp` file takes the
  place of no file there is, and of none that anybody has listed (`TmpIsNew`), but for mails of one
  name (`Clashed`). It covers a second run that listed the same files, a digest, a file that is
  removed between the reading and the outcome, and a run that was left alone by its
  collector. From it `SpooledStays`. What a run says of its alert is so (`SaysWhatItDid`), and the
  ids files, whatever they are called by now, name only what arrived (`NotedArrived`). From
  these `DeliveredIsTrue`.
- `Serial`: whoever is past the lock has it while nobody went on without it (`LockIsHeld`), and only
  the worker raises alerts while its collector lives (`OneRaises`); so the counter is read,
  emptied and written by one run at a time, and numbers grow (`NumbersGrow`), unless runs go on
  without the lock and the collector has died. This is `NamesAreOnes`.
- `InOrder`: as long as the collector lives, names ascend with alerts, what waits is later
  than what arrived, what a run has listed is older than what came since and what it has read
  older than what it has not (`ListIsOldest`), and the worker's alert is later than all of it
  until its file is in place (`OwnIsNewest`). A text that was read and whose file is gone by the
  time it is handed over has arrived by another run's hand or was dropped from the full spool: the
  one mail that may come after a younger one, which `MailKeepsOrder` names.

Of each step there is one lemma a part; what a step leaves of the spool is `Standing`, what it
makes of its run `Moved`. From these `DeliveredAsTold` (`DeliveriesAreAsTold`: names ascend and are
one's own, the rows are true) and `SpoolKeepsMail` (`MailIsKeptInOrder`: no mail is let go of, none
is overtaken), by `NothingLost` and `OrderKept`, which go through every way a mail arrives, the
killed script's among them.

`ThreadProofs` is about those who share a little state.

`LockOrder`: `OrderKept` is the inductive invariant `Ordered` (a thread that waits
holds only mutexes of a lower rank, the declared order of `main.rs:56`), and
`OrderedIsAcyclic` derives `NoCircularWait` from it: in a circle some thread waits for
the last mutex anybody in it waits for; the holder of that one waits too, and by
`Ordered` for a later one.

`C1Probe`, for any finite number of other users and any sizes of requests: `ProbeIsConsistent` is
`[]ProbeInv`. `ReadingRanAlone` speaks of what is true of the engine, the code of four readings of
counters; the invariant says what the counters know of the requests at each point of the
thread. `Tally`: between the reading before the probe's request and now the engine
counted nothing, or one request, the probe's own or somebody else's who then is all that is over
beside it, or more. `BesideHaveCome`: when the engine was read again, its gauge told how many are
still there. `GateTally`: the gate counted the probe's own request and whoever came after it was
read. From it `ReadingsRanAlone`.

`Screen`, for any number of servers and any order of keys and answers: `ScreenIsConsistent` is
`[]ScreenInv`. That what is drawn is one server's is not inductive: a message on its way must carry
one server's name with one server's data, the fetch thread may hold no context but that of the
server it asks, and an open prompt is of the server on screen. From it
`ScreenIsAlwaysOneServers` (`ScreenIsOneServers`). `TabAlwaysLeadsOn` (`TabLeadsOn`) needs of it
only what the fields of `App` are. A place of the ring has as rank the number of visible pages that
are not beyond it; a key adds one to the rank or begins again at none (`RankOfNext`), and no two
stops have the same (`RankTells`), so as many steps as there are stops meet all of them
(`RanksOfWalk`, `WalkMeetsAll`), also when the walk begins at a page that is hidden. Shift-Tab is
the same ring by the opposite key, and `BackUndoes` says that it undoes Tab.

`BenchWatch`, for every plan: `WatchIsConsistent` is `[]WatchInv`. Until the run ends, what it
subtracts from what it sees covers what it has there itself: its streams
(`StreamsCounted`), the requests it waits for (`RequestsCounted`) and those it gave up
(`AbandonedCounted`), but where the run is `unsettled` or has `forgotten` some, which are two of the
four ways to be mistaken that the property names. What a look allows for is what the bench can have there
and one more where the code counts one twice (`AllowedIs`), which is the allowance the property
speaks of. From it `QuietRunsWereAlone` (`QuietWasAlone`) and, as a property of steps, `RunsStopForOthers` (`StopsForOthers`).

`RowProofs`, of `Spending`: `WindowsAreAlwaysTheCalendars` is `[]WindowsAreTheCalendars` for calendars of
any length, under `Calendar`: counted in whole days from each other, midnights are off by
less than half a day in sum (daylight saving is an hour), months and years begin on a day of
the calendar, and no window is longer than the chart. That a moment has a last midnight before
it is `NumberLemmas.LargestExists`, which follows from the library's least element of a
well-founded order. The inductive invariant is `Calendar /\ RowsAreOld` (no row is of the future: `today`
and the others are cut at a day's end, not at the clock). The argument: counting back k days
of 86 400 seconds lands within half a day of the midnight k days before (`CountedBack`), so it
can only miss that one day, and only when the days between were longer; noon of the day
counted back to is always in January 1st (`YearStartIsSnapped`), so the year cannot miss it;
a window is the days whose midnights lie in it (`WindowIs`); and what is read reaches as far
back as any window does (`RowsReachBack`). `ProjectionIsAlwaysOfThisMonth` is
`[](CalendarGoesOn => ProjectionIsOfThisMonth)`: a calendar of the model ends, one of days does not,
so the projection is claimed while the next month and its first day are on it, and where no
month is shorter than the 28 days from which `month_bounds` walks. `MonthWalked` follows that walk
to the first midnight of the next month; what was covered of the month is a sum over its days
(`NumberLemmas.SumOfPart`).

The same module of `Tariff`, for every plan that can be typed and every calendar: `BillIsAlwaysAsAgreed` is
`[]BillIsAsAgreed`. `OneSpan` is the heart: of the nine spans `render_tou_toml` may write, the one
that is written and matches a moment is `SpanOf` it, whatever the peak hours, and whether a span
of no hours is left out or not; `SpanPrice` says that its price is the one that was meant.
The inductive invariant `TariffInv` (theorem `FilesAreWhole`) says what the files are: missing, spoilt
by hand, or the whole of a plan that was let through (`check_tou`) with the holidays entered since;
without the wizard's part (a plan past the questions can be used, and before the rename the
temporary is all of it) it is not inductive. The sum itself is never opened: the
intervals that are priced are those that are close enough, and each term is the same.

`BenchProofs`, for any number of collectors, runs, deaths and failed writes, under
`OneListener`: each collector has one listener thread, as with the default `listen`
(`config.rs:243`). With two, `OneRun` and `LoadIsAnnounced` are false in one collector alone. `BenchIsConsistent` is `[]BenchInv`. None of the properties is inductive:
`NoLeakedLock` needs to know whose every file is, from its creation to its release
(`LockIsHeld`) and that a run which was unlocked left nothing behind that its thread could
still remove (`UnlockedIsFree`); `LoadIsAnnounced` needs that a listener past the check has seen
the flag down and nothing has raised it since (`FlagCovers`, where `OneListener` enters: two
listeners may pass the check together, and the code then relies on the file); `CancelStays`
that nobody asks to cancel a row before its thread exists (`RecordedIsNew`); the incident, that
it follows what the poll loop last saw as long as no write failed (`IncidentMirror`). From it
`NoLockLeaks`, `LoadIsAlwaysAnnounced`, `RecordsAreAlwaysLive`, `CancelAlwaysStays`, and
`OneRunIsUnfinished`: two unfinished runs are of two collectors. That they may be of two is the
finding of `BenchTwoCollectors`.

`AccountProofs`, for every database a collector finds, any number of starts and runs of the engine,
and every poll and death: three theorems of `AccountsSpec`, and a fourth in `RowProofs`. Its environment is that of the runs:
a run of the engine counts up, a later one starts after the last poll of the one before, and
scrape and docker may each still tell of the run before. A database holds readings in
order, of the run that serves since it started and of earlier ones before, with no line of the
gate's log that is later than they, and the clock is past one save (it counts from 1970). Of the
constants it needs what their assumptions say; `LogAssumption`, of the seconds a start reads
back, is that they are a number.

- `LedgerIsAlwaysExact` (`LedgerIsExact`), by `LedgerInv`. A ledger *stands* on a reading when what it was
  not told of that run is what the last reading shows beyond its own (`Stands`); the one in
  memory always does, and the saved one on the reading it was saved at (`LedgerStands`). Neither
  is inductive alone: a restart makes memory the saved one, and what was shown in between by a
  run that is over is then forfeited. The peaks of the days are samples, one a day, and cover
  all that was read since the start (`PeaksKept`); `DayPeaksIs` are the four ways one is kept.
- `WindowsAlwaysAgree` (`WindowsAgree`), by `WindowsInv`. The property speaks of stored windows; what makes
  it true is in the open ones: an open minute that counted something lies in the open ten
  minutes, both have the layout of the scrape before, and every stored minute is of ten minutes
  that are over, open, or were cut short (`WindowsStand`); no request is in two minutes
  (`NoneTwice`), since the scrape before is the last reading (`PrevIsRead`). `MinuteRolls`, `TenRoll` and
  `ScrapeIsBooked` are the three steps of one sample. A start opens nothing (`ReplayIsQuiet`),
  because replayed samples carry no histograms.

- `LoadoutsAreAlwaysTheirOwn` (`LoadoutIsItsOwn`), by `LoadoutInv`. Of lists it claims order where the property
  claims distinctness: samples and intervals ascend and each was taken, readings ascend but for
  those that were late (`AccStands`). What a record holds must be known to be of its
  configuration even while another one is current (`RecordsStand`), and what a switch fills in
  from the table to be so too: nothing that was read since the run that serves has started is
  of another (`RunsServe`), which docker's start time separates only while it is the start of
  the run that was scraped. Once a poll read one run under the start of another (`mixed`) nothing of this
  is true, as TLC shows, and the property claims it up to then only. `PollKeepsRecords` is the heart: what a
  poll is handed is the current account, one on record or a filled one (`BeganWith`), fit for
  it (`Ready`), and nothing that was on record is forgotten (`NoneMissed`).

- `RollupsAreAlwaysExact` (`RollupsAreExact`), in `RowProofs`, by `LineInv`, which contains `LoadoutInv` for what
  it says of the environment and the types. Nothing about rows is inductive without what will
  become a row: each table is the aggregate of its samples, live pipeline and back-fill alike
  (`AggOf`, `TiersStand`); an open bucket has all of its samples up to the last one pushed
  (`OpenOf`), so the row it closes into is whole, and a row that is already there may be kept.
  The live pipeline has all since the bucket of its start (`PipelineStands`), the back-fill
  reached all below where it is (`BackfillStands`), and the samples table loses its oldest only
  (`SamplesStay`): from these no sample is lost but in a gap, or while no collector is back
  (`AllAreRolled`). One lemma, `PushAllStands`, about a `Chain` of samples each of which
  `Follows` the one before, serves replay and back-fill, its single step `PushStands` the poll.
  A line of the log is brought by samples no more often than once and once for each start that
  may have read it back, and not that often while the cursor is still before it (`LinesStand`);
  the gate's tables count no more than the samples brought (`LogOf`).

  The proof showed that the upper bound of `RowsAreWhole` had been too strong: the retention may
  drop samples between two chunks of the back-fill, and the next sample it reads is then diffed
  with the last one the chunk before had, so that the row shows the growth of all that lies
  between. The property now names that one sample, and the world `FromBefore` stores enough
  samples for it to happen.

These invariants were checked by TLC on all worlds of `Accounts` before they were proved.

The prover cannot instantiate the library's induction over operators, so `NumberLemmas` states it of sets:
`NumbersAreReached` and `SubsetsAreReached`, and from these that folds and recursive functions exist
(`FoldExists`, `RecursionExists`), what sums are of their parts (`SumUnion`, `SumOfSteps`,
`SumOfCardinalities`), and what a selection keeps (`SelectedIs`).

Every safety invariant the runs check is also a theorem. Only model-checked:

- Liveness under fairness, which the prover has no rules for, and the refinement of it.
- The several listeners of `BenchRun`: in the plan.

## Where code and words differ

Seven sentences of the repository fail in a run; each is a finding in `PROJECT.json`.

| Run | The sentence | What happens |
|---|---|---|
| `PollOrphan` | `lss-core/src/incidents.rs:2`: an incident that is open across a restart is closed by the new process | the row is opened, the collector dies before the tracker is saved, the outage ends meanwhile: nobody closes the row until the next outage ends |
| `PollMaintenanceDies` | `lss-collector/src/main.rs:802`: the incident is open exactly while a window is in effect | a restart forgets the window and that it was open; the incident stays until another window closes |
| `BenchTwoCollectors` | `lss-collector/src/bench_run.rs:7`: one bench at a time, by a flag and a lock file | two listeners pass the flag of `:196` before either sets it; and the lock file is created and then written: read in between, by the other listener or by a second collector, it names nobody, is taken for stale and removed |
| `SpoolKilled` | `scripts/lss-alert.sh:19`: the mail is not lost | the spool is tried first, 45 s a busy mail; the worker kills the script at 150 s, before the new alert is written anywhere |
| `SpoolAppends` | `lss-collector/src/alert.rs:74`: the file is renamed before it is read, so an id appended meanwhile is never lost | a person's flush has opened the file before it is renamed, and writes after it was read and removed: the row stays undelivered although the mail got through |
| `ColdStarts` | `lss-collector/src/loadouts.rs:135`: a cold start is from the container's start to this first answer, when the collector saw it down in between | docker does not tell the start, or there is no container: it is 0, every failed poll is later, and `now - 0` seconds are booked (`:137`). The comment at `:163` knows of this 0 and keeps it from `first_seen` only |
| `PricePerToken` | `docs/STATUS-JSON.md:631`: dollars per million tokens are of the same day's dollars and tokens, never mixed with a different window | `main.rs:1190` asks the samples in memory for the tokens since midnight, and they are an hour (`history.rs:38`, `main.rs:383`): a day's dollars over an hour's tokens |

Others were met while modelling. The models follow the code, and no run speaks of
them, because they are matters of wording, of a configuration that is not the
default, or of taste:

- A restart inside the cooldown of an alerted planned restart keeps the planned label
  for its "stable again", also when it came after the window (`rules.rs:1117`;
  `lss-core/tests/rules.rs:176` says planned never leaks past the window). `Availability`
  states it as `PlannedMeansPlanned`.
- "Stable again" asks that the serve answers now, not that it did so for 120 s
  (`rules.rs:1124`, `docs/RUNBOOK.md:88`): `StableMeansAnswering`.
- The cold budget and both charging rules count time that no poll judged (a bench, an
  unread document) as held; `rules.rs:6` says the condition must hold continuously.
- `rules.rs:1264` says a poll with no disk reading drops the window; it returns before.
  `rules.rs:412` says the points are no older than the window; one older is kept, and
  `DropIsTheLargestFall` (in `WindowsAreExact`) shows why it has to be.
- A collector that starts while another one runs a bench closes that run's row and
  incident (`db.rs:750`), and any collector's finish removes the lock file of that name.
- An alert whose row could not be written is not sent, yet its recovery is
  (`main.rs:947`); `rules.rs:10` says a recovery answers an alert that was sent. A
  collector that dies between a row and the saved engine sends inside the cooldown.
  `RepeatsAreDeaths` bounds both.
- A container found between two runs is booked for each (`incidents.rs:137` says one
  event), and after a lost write of the tracker a restart is booked again in other
  words, which `event_incident` takes for another one. `RestartsAreBooked` names both.
- `lss-alert.sh:204` says that without `flock` the spool still works, unserialised. While one
  collector raises the alerts it does. A script that was left alone by its collector and the
  next collector's may then add at the same time, also with `flock` once one has waited for 60 s:
  both read one number of `mail-spool.seq`, or an empty file, and in the same second they write one
  `.tmp` file, so one mail is lost and the id of the other stands for it. `NamesAreOnes` says that
  nothing else leads there, and the other properties of the spool except mails of one name.
- `lss-alert.sh:161` says oldest first. A run that has read a mail and waits with it goes
  on when another run, which did not wait for the lock, has sent and removed it, or dropped it
  from the full spool: the agent reads it twice, or after younger ones.
- `loadouts.rs:135` says a cold start was watched: the collector saw the engine down in
  between. One failed poll of a container that has served for hours is enough when the
  collector itself was restarted since: the whole uptime is booked. `LoadoutIsItsOwn` asks for
  the failed poll only, and of a start that is known.
- `main.rs:1250` names the lock order the other way round than `main.rs:56`; the code
  keeps the latter.

- `tokens.rs:27` tells a restart by the start time, which docker answers on another thread
  than the scrape (`collect.rs:357`, `437`). A restart seen while docker is silent, or with
  the other run's counter, books the whole counter again when the start becomes known;
  with the start unknown and the counter past the old value it is not seen at all.
  `LedgerIsExact` claims nothing from then on (`misfiled`, `blind`).
- `main.rs:390` says a restart costs the tiers nothing. The replay begins with the bucket of
  the start: a bucket that was open at the stop is lost when the downtime crosses an edge
  of ten minutes; the first replayed sample has no sample before it, so its tokens are
  missing; and the last bucket of the back-fill is never written. `EverySampleIsRolled` and
  `RowsAreWhole`, parts of `RollupsAreExact`, name all three. `RowsAreWhole` also names the sample whose
  predecessors the retention dropped while the back-fill was between two chunks.
- The cursor into the gate's log is not saved (`collect.rs:267`, `456`): after a restart the
  lines of the last ten minutes are counted once more, as `LogLinesCountedOnce` (in
  `RollupsAreExact`) bounds.
- `loadouts.rs:98`: one `docker inspect` that fails makes the engine describe itself, a loadout
  of its own with everything stored since time 0 in it; a loadout nobody could name books
  the new engine's samples to the old one; a C1 reading that comes in with the poll that
  opens an account is in it twice. `LoadoutIsItsOwn` excepts these three, each by name, and a
  poll that scraped one run and was told the start of another, which fills an account with the
  samples of both.
- `rates.rs:687` says the month is counted from local midnight of the 1st. `month_bounds` and
  `week_start` (`cost_run.rs:190`, `199`) count back in days of 86 400 seconds without the snap
  that `year_start` has for this reason (`:179`). While the long day of autumn lies between,
  the start is at 01:00 and the first day drops out of the window, of yesterday, the last 7
  and 30 days and the chart alike. After the short day of spring the start is at 23:00 of the month
  before, which is then asked for its length: 28 days. Before a long day that is still to come in
  the month, the month has a day too many (Europe's October: 32). The projection is scaled by
  that number. `WindowsAreTheCalendars` and `ProjectionIsOfThisMonth` except these, each by name.
- `main.rs:1212` says the spend block and today's figure can never disagree about a day they
  share. They use one price function, but today's figure integrates the raw samples of the
  poll and leaves out gaps over 30 s, and the block sums closed rows of ten minutes.
- `rates.rs:170` says a gap of 30 s or wider is never bridged; one of exactly 30 s is (`:203`). It
  calls this the rule of `counter_window`, which bridges any gap between two samples and breaks
  only at a sample without metrics.
- Two wizards at once write one `rates.toml.tmp` (`cost_setup_run.rs:546`): the one that
  renames first may install the other's half. One person runs one; `Tariff` has one at a time.
- `probe_run.rs:127` says a reading counts only if it ran alone. A request let in between the
  engine's reading and the gate's, and still running afterwards, is taken for the probe's own
  (the test is `> 1.0`), and one that finished with as many tokens is counted in its place;
  without a gateway either may come at any time. `ReadingRanAlone` bounds both.
- `bench_run.rs:719` says the abandoned requests never hide more than were abandoned. A look
  at one of its own requests allows for it twice (`must_stop(1)` and the count, `:621`), so
  one stranger is hidden beside it; a stranger beside a harness is hidden while it ramps up.
  `QuietWasAlone` names the first (`OneMore`) and allows for no other beyond what the step may have
  there (`StepHas`).
- `bench.rs:585` says the bench no longer shoots itself. It still can: the grace after
  parallel requests is for one of them and may be over before the look (`:741`, `:752`);
  an abandoned request is forgotten when the engine runs no more than are in flight,
  although it may be one of those it runs (`:749`); `settle` gives up after a minute, and
  takes an engine it cannot read, or one that is not SGLang, for quiet (`:445`); and where
  the trusted lane is not the default priority, requests sent through a gateway without a
  table of users are counted as somebody's (`bench.rs:721`). `StopsForOthers` excepts
  these four, each by name.
- `bench.rs:827` says a run without a gateway is never to be read as quiet. `observe` fills
  both lanes whenever the engine can be read (`bench_run.rs:403`), with zeros for an engine
  that has none, so `LOAD_SRC_ENGINE` is never the source: with `--under-load` such a run is
  quiet whoever was there. A run that the total stops for somebody beside the gateway's
  table says quiet too, and whoever waits in the queue is not in the total.
  `QuietWasAlone` is stated around these.
- `data.rs:60` says a hidden page is never opened. A page that was opened before the first
  status, or kept over a switch to a server without a gateway, stays; `TabLeadsOn` shows that
  Tab leads out of it.

## What is not modelled

- Of the engine: wording, `rule_states`, test alerts (no state), the relearning of an old
  version's baseline, the second reject code (as the first).
- Of delivery: a spool that cannot be written, fallback seats, the dry run, the length
  limit of a digest (what is beyond it is counted in the mail, and noted as delivered), a test
  alert sent by hand, the trimming of the log. A kill comes in one of the script's waits, where
  its time goes.
- Of the poll loop: the documents it publishes and the gate's container. `PollLoop` and
  `Accounts` are two cuts of one poll (what it says and what it counts) and are not composed:
  neither reads what the other writes.
- Of the ledger: the first peak of all time, which a new ledger takes from the speeds of the
  ten-minute rows (`main.rs:491`): rows here keep tokens. No property speaks of it.
- Of the accounts: the other counters and histograms of a scrape (one each stands for all,
  the code treats them in one loop), the sums inside an aggregate, energy and cost of a loadout.
- Of the client: help, scrolling, themes, badges, the rows of the fleet page, preferences.
- Of locks: what happens after a panic (every lock is taken with `into_inner`), and the
  short-lived maps behind a mutex of their own.
- Users (`users.rs`): counters read by one thread.
- Of the bill: the split of the day into work and standby (`accumulate_split`: the same sum over
  two halves), the rolling 24 hours, the names of periods, the charges that are only shown.
- Of the wizards: the lookups behind a rate (ZIP code, address, country), the formats of a
  typed number, `--dry-run`; the setup and TLS wizards, which write each file once from answers.
- Pages and reports render; parsers turn text into the records the
  models take as input; documents and verdicts are functions of what is modelled, to
  wording; configuration gives the constants. None keeps state that another part changes.
  Most lines of the repository are of this sort: the modelled ones are those with state
  and order.

## The plan

1. **A ledger that knows every token** as an abstract specification which `Ledger` refines up
   to `forfeited`; then the same for `LoadRules` and `AlertChannel`.

Proofs: `BenchRun` without `OneListener`; then that abstract ledger, on the lemmas of
`AccountProofs`. The modules are written for it: no recursive operators, parameters as
constants with named assumptions, invariants as conjunctions of named parts.

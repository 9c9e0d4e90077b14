------------------------------ MODULE Accounts ------------------------------
(***************************************************************************)
(* The collector's books (crates/lss-collector/src/main.rs): what one poll *)
(* read goes into the samples table, the loadout's account, the token      *)
(* ledger, both tiers and the latency windows, in this order.  Each keeps  *)
(* its own state in memory and saves it in its own way, and each resumes   *)
(* from what it finds when the collector starts again.  The engine, docker *)
(* and the gate go on meanwhile.                                           *)
(***************************************************************************)
EXTENDS Ledger, Tiers, Latency, Loadouts

CONSTANT LogWindow      \* how much of the gate's log a new collector reads back: 10 m

ASSUME LogAssumption == LogWindow \in Nat

VARIABLES
    now, alive, started_at,
    engine,     \* external: the run that serves: its number, counter, start, configuration
    lines,      \* external: when the gate logged a line
    cursor,     \* Poller::log_cursor
    probes      \* the probes table: when each stored C1 reading was taken

\* History, none of it known to the code.
VARIABLES
    taken,      \* every sample ever stored
    starts,     \* when a collector started
    gaps,       \* where one stopped (its last sample folded in) and the next one started
    shown,      \* the tokens all readings have shown, each run of the engine counted alone
    read,       \* the last reading of the counter
    booked,     \* the reading the ledger stands on, with what had been shown by then
    kept,       \* ... and the one the saved ledger stands on
    forfeited,  \* shown after the last save before a stop, by runs that have ended since
    misfiled,   \* a run was read under two start times
    blind,      \* a run that was not told from the one before it
    asked,      \* the requests the histograms have shown, as "shown"
    layouts,    \* when a scrape showed another bucket layout than the one before
    pending,    \* the polls in which nobody described what was serving
    mixed,      \* a poll scraped one run, and docker told it the start of another
    late        \* the C1 readings that arrived in a poll that opened an account

env_vars == <<now, alive, started_at, engine, lines, cursor, probes>>
books_history == <<taken, starts, gaps, shown, read, booked, kept, forfeited, misfiled, blind,
                   asked, layouts, pending, mixed, late>>
account_vars == <<tier_vars, ledger_vars, latency_vars, loadout_vars, env_vars, books_history>>

Nothing == [life |-> 0, epoch |-> 0, shown |-> 0]

\* A database with the given samples in it, and an engine that has run for a while.
AccountsInit(stored, t, owed, e) ==
    /\ now = t /\ alive = FALSE /\ started_at = 0
    /\ engine = e
    /\ lines = {} /\ cursor = None /\ probes = <<>>
    /\ samples = stored
    /\ rows = [w \in Widths |-> <<>>] /\ gatelog = <<>> /\ pipeline = NewPipeline
    /\ last_prune = 0
    /\ backfill = [owed |-> owed, pipe |-> NewPipeline, from |-> 0, until |-> 0]
    /\ all_time = NewAllTime /\ saved = NewAllTime /\ saved_at = 0
    /\ tracker = NewTracker /\ hist = [w \in Widths |-> <<>>]
    /\ current = NoCurrent /\ loadouts = <<>> /\ loadout_prev = NoSample
    /\ last_down = None /\ loadout_saved = 0
    /\ taken = ToSet(stored) /\ starts = {} /\ gaps = {}
    /\ shown = 0 /\ read = NoSample /\ booked = Nothing /\ kept = Nothing /\ forfeited = 0
    /\ misfiled = FALSE /\ blind = FALSE
    /\ asked = 0 /\ layouts = {} /\ pending = {} /\ mixed = FALSE /\ late = {}

-----------------------------------------------------------------------------
(***************************************************************************)
(* A collector starts: main.rs:383 to 470                                  *)
(***************************************************************************)
Tokens(tier) == MapThenSumSet(LAMBDA b : tier[b].tok, DOMAIN tier)

StartCollector(t) ==
    /\ ~alive /\ t > now
    /\ now' = t /\ alive' = TRUE /\ started_at' = t
    /\ StartTiers(t) /\ StartLatency(ToReplay(t)) /\ StartLoadouts
    /\ LoadLedger(IF samples = <<>> THEN t ELSE samples[1].ts, Tokens(rows'[TenMinutes]))
    /\ cursor' = None
    /\ starts' = starts \cup {t}
    /\ gaps' = IF starts = {} THEN gaps
               ELSE gaps \cup {[start |-> t,
                                pushed |-> IF pipeline.prev.ts = None THEN started_at
                                           ELSE pipeline.prev.ts]}
    /\ IF saved.since # 0
       THEN booked' = kept /\ UNCHANGED <<shown, read, forfeited>>
       ELSE /\ shown' = all_time'.total /\ read' = NoSample /\ forfeited' = 0
            /\ booked' = [Nothing EXCEPT !.shown = shown']
    /\ UNCHANGED <<engine, lines, probes, taken, kept, misfiled, blind, asked, layouts,
                   pending, mixed, late>>

StopCollector ==
    /\ alive /\ alive' = FALSE
    /\ UNCHANGED <<tier_vars, ledger_vars, latency_vars, loadout_vars, books_history, now,
                   started_at, engine, lines, cursor, probes>>

-----------------------------------------------------------------------------
(***************************************************************************)
(* One poll                                                                *)
(***************************************************************************)
\* What the readings show of the engine, whatever the ledger makes of it.
BooksRead(s) ==
    IF s.count = None
    THEN UNCHANGED <<shown, read, booked, kept, forfeited, misfiled, blind>>
    ELSE LET first == booked.life = 0
             goes_on == read.life = s.life
             another == ~first /\ booked.life # s.life
         IN  /\ shown' = shown + (IF first /\ read = NoSample THEN 0
                                  ELSE IF goes_on THEN s.count - read.count ELSE s.count)
             /\ read' = s
             /\ booked' = [life |-> s.life, shown |-> shown',
                           epoch |-> IF s.started # 0 THEN s.started ELSE booked.epoch]
             /\ kept' = IF s.ts - saved_at >= SaveEvery THEN booked' ELSE kept
             /\ forfeited' = IF another
                             THEN forfeited + (shown - booked.shown)
                                            - (IF goes_on THEN read.count ELSE 0)
                             ELSE forfeited
             /\ misfiled' = \/ misfiled
                             \/ /\ booked.life = s.life /\ s.started # 0
                                /\ booked.epoch \notin {0, s.started}
             /\ blind' = \/ blind
                          \/ /\ another /\ s.count >= all_time.last
                             /\ (s.started = 0 \/ booked.epoch \in {0, s.started})

HistogramsRead(s) ==
    IF s.count = None THEN UNCHANGED <<asked, layouts>>
    ELSE LET prev == tracker.prev
         IN  /\ asked' = asked + (IF read.life = s.life THEN s.count - read.count ELSE s.count)
             /\ layouts' = IF prev.count # None /\ prev.le # s.config
                           THEN layouts \cup {s.ts} ELSE layouts

\* The engine's histograms count what its counter counts; their layout is its own.
SetOf(s) == IF s.count = None THEN NoSet ELSE [le |-> s.config, count |-> s.count]

\* Scrape and docker's answer are of two runs.
ReadsTwo(s, e) == s.life # e.life \/ s.started \notin {0, e.started}

\* One poll: what it read (s), what serves after it (e), whether somebody described what
\* is serving, the gate's log since the cursor, and the C1 readings that came in.
Poll(s, e, logged, described, came) ==
    LET new == [i \in 1 .. came |-> s.ts - 1]
        stored == Append(samples, s)
        all_probes == probes \o new
    IN  /\ alive /\ s.ts >= now /\ \A x \in ToSet(samples) : s.ts > x.ts
        /\ now' = s.ts /\ engine' = e /\ lines' = logged
        /\ cursor' = IF s.log = {} THEN cursor ELSE Max(s.log)
        /\ probes' = all_probes
        /\ OnSample(s, described, stored, all_probes, new)
        /\ ObserveLedger(s)
        /\ StoreAndFold(s)
        /\ ObserveLatency(s.ts, SetOf(s))
        /\ taken' = taken \cup {s}
        /\ pending' = IF described THEN pending ELSE pending \cup {s.ts}
        /\ mixed' = (mixed \/ ReadsTwo(s, e))
        /\ late' = IF current'.id # current.id THEN late \cup ToSet(new) ELSE late
        /\ BooksRead(s) /\ HistogramsRead(s)
        /\ UNCHANGED <<alive, started_at, starts, gaps>>

\* A poll that dies right after insert_sample.
PollDies(s, e) ==
    /\ alive /\ s.ts >= now /\ \A x \in ToSet(samples) : s.ts > x.ts
    /\ now' = s.ts /\ engine' = e /\ alive' = FALSE
    /\ StoreOnly(s)
    /\ taken' = taken \cup {s} /\ mixed' = (mixed \/ ReadsTwo(s, e))
    /\ UNCHANGED <<ledger_vars, latency_vars, loadout_vars, started_at, lines, cursor, probes,
                   starts, gaps, shown, read, booked, kept, forfeited, misfiled, blind, asked,
                   layouts, pending, late>>

\* The thread of the back-fill.
BackfillStep ==
    /\ alive /\ (BackfillChunk \/ BackfillDone)
    /\ UNCHANGED <<ledger_vars, latency_vars, loadout_vars, env_vars, books_history>>

-----------------------------------------------------------------------------
(***************************************************************************)
(* What goes on outside, and the specification                             *)
(***************************************************************************)
\* A run of the engine: which one, its counter, its container's start, its configuration.
Engines == [life: Nat \ {0}, count: Nat, started: Nat \ {0}, config: Configs]

\* What serves at a poll at t: the run of the poll before, which counts up, or a later one,
\* which started after it and after all its polls.
Serves(e, t) ==
    \/ e.count >= engine.count /\ e = [engine EXCEPT !.count = e.count]
    \/ /\ e.life > engine.life /\ e.started \in engine.started + 1 .. t
       /\ \A x \in taken : x.ts < e.started

\* The gate logs as time passes.
Logs(logged, t) == lines \subseteq logged /\ logged \ lines \subseteq now .. t

\* What a poll reads.  Scrape and docker's answer come from two threads, so that either may
\* still be of the run before; docker may not answer, nor the engine or its metrics.
Hows == {"whole", "untold", "before", "after"}
Failures == {"nothing", "engine", "metrics"}

Scraped(how, e) ==
    IF how = "before" /\ e.life # engine.life THEN engine ELSE e
Told(how, e) ==
    CASE how = "untold" -> 0
      [] how = "after" /\ e.life # engine.life -> engine.started
      [] OTHER -> e.started

Sampled(t, how, e, failed, speed, log) ==
    LET from == Scraped(how, e)
    IN  [ts |-> t, up |-> failed # "engine",
         count |-> IF failed = "nothing" THEN from.count ELSE None,
         started |-> Told(how, e), speed |-> speed, log |-> log,
         life |-> from.life, config |-> from.config]

\* A poll at t; one C1 reading at most comes in with it.
PollAt(t, e, how, failed, speed, logged, described, came, dies) ==
    LET s == Sampled(t, how, e, failed, speed, Lines(logged, cursor, t - LogWindow))
    IN  /\ Serves(e, t) /\ Logs(logged, t)
        /\ IF dies THEN PollDies(s, e) ELSE Poll(s, e, logged, described, came)

AccountsNext ==
    \/ \E t \in Nat, e \in Engines, how \in Hows, failed \in Failures, speed \in Nat,
          logged \in SUBSET Nat, described \in BOOLEAN, came \in 0 .. 1, dies \in BOOLEAN :
           PollAt(t, e, how, failed, speed, logged, described, came, dies)
    \/ \E t \in Nat : StartCollector(t)
    \/ StopCollector
    \/ BackfillStep

\* Whatever was stored before was read of the run that serves, since it started, or of those
\* before it, and the gate's lines in it once they were logged; and the clock has long begun.
AccountsStart ==
    \E stored \in Seq(SampleType), t \in Nat, owed \in BOOLEAN, e \in Engines :
        /\ \A i \in DOMAIN stored :
              /\ stored[i].ts \in 0 .. t /\ stored[i].life <= e.life
              /\ stored[i].ts >= e.started => stored[i].config = e.config
              /\ \A l \in stored[i].log : l <= stored[i].ts
              /\ \A j \in 1 .. i - 1 : stored[j].ts < stored[i].ts
        /\ t >= SaveEvery
        /\ AccountsInit(stored, t, owed, e)

AccountsSpec == AccountsStart /\ [][AccountsNext]_account_vars

-----------------------------------------------------------------------------
(***************************************************************************)
(* Properties                                                              *)
(***************************************************************************)
\* The all-time ledger (tokens.rs:71, main.rs:985) holds what the readings showed and no
\* token twice, through restarts of the engine and of the collector: what is missing was
\* shown after the last save by runs of the engine that ended before the collector was
\* back.  Not claimed once docker left a restart untold behind a counter that had passed
\* the old one, or told one run's start with the other run's counter.
TotalIsExact == ~misfiled /\ ~blind => all_time.total + forfeited = booked.shown

\* The peaks of the last days (tokens.rs:88) are samples that were taken, one a day, and
\* they are those of the newest days: no sample since the collector started is faster than
\* what is kept of its day.
PeaksAreOfTheLastDays ==
    LET peaks == all_time.day_peaks
        SameDay(x, y) == x \div Day = y \div Day
    IN  /\ Len(peaks) <= PeakDays
        /\ \A i \in DOMAIN peaks :
              /\ \E s \in taken : s.ts = peaks[i].ts /\ s.speed = peaks[i].tok_s
              /\ \A j \in 1 .. i - 1 : peaks[j].ts \div Day < peaks[i].ts \div Day
        /\ alive => \A s \in taken :
              s.ts >= started_at /\ s.speed > 0 /\ s.count # None
                  /\ peaks # <<>> /\ s.ts >= peaks[1].ts
              => \E i \in DOMAIN peaks :
                    SameDay(s.ts, peaks[i].ts) /\ s.speed <= peaks[i].tok_s

LedgerIsExact == TotalIsExact /\ PeaksAreOfTheLastDays

Before(s) == {p \in taken : p.ts < s.ts}
Newest(set) == CHOOSE p \in set : \A q \in set : q.ts <= p.ts
Shown(s) == IF Before(s) = {} THEN 0 ELSE Growth(Newest(Before(s)), s)
Total(set) == MapThenSumSet(Shown, set)

RawKept(ts) == ts >= now - KeepRaw

\* The first sample a pipeline is given has no sample before it.
FirstFrom(ts, s) == s.ts >= ts /\ ~\E p \in Before(s) : p.ts >= ts
Cut(s) ==
    \/ Before(s) = {} \/ ~RawKept(Newest(Before(s)).ts)
    \/ \E t \in starts : FirstFrom(BucketOf(TenMinutes, t), s)

\* A stored row (rollup.rs:42, series.rs:338, db.rs:352) is the aggregate of the samples of
\* its bucket, each once, whether the live loop, a replay or the back-fill wrote it, and of
\* all of them that the raw retention had not dropped; its tokens are what these samples
\* showed, but for the first one after a start, and for a sample of the back-fill that the
\* retention left without those before it: it is diffed with the last one there was.
RowsAreWhole ==
    \A w \in Widths : \A b \in DOMAIN rows[w] :
        LET row == rows[w][b]
            members == {s \in taken : BucketOf(w, s.ts) = b}
            held == {s \in members : s.ts \in row.in}
        IN  /\ Cardinality(held) = row.n /\ row.in = {s.ts : s \in held}
            /\ \A s \in members \ held : ~RawKept(s.ts)
            /\ Total({s \in held : ~Cut(s)}) <= row.tok
            /\ \/ row.tok <= Total(held)
               \/ \E s \in held : \E p \in Before(s) :
                     /\ ~RawKept(Newest(Before(s)).ts)
                     /\ row.tok <= Total(held \ {s}) + Growth(p, s)

\* A sample is lost to the tiers in one way only (main.rs:393, rollup.rs:35): it was in a
\* bucket that was open when a collector stopped, and the next one started in a later ten
\* minutes.  Otherwise it is in a row or in an open bucket until the retention ends (the
\* back-fill leaves out the last bucket before the start that owed it).
LostInAGap(w, s) ==
    \E g \in gaps : s.ts >= BucketOf(w, g.pushed) /\ s.ts < BucketOf(TenMinutes, g.start)

NotYetBackfilled(s) ==
    /\ \E t \in starts : s.ts < BucketOf(TenMinutes, t) /\ \A u \in starts : t <= u
    /\ \/ backfill.owed
       \/ \A p \in taken : p.ts > s.ts /\ p.ts < backfill.until
                           => BucketOf(TenMinutes, p.ts) = BucketOf(TenMinutes, s.ts)

EverySampleIsRolled ==
    alive => \A s \in taken, w \in Widths :
        LET b == BucketOf(w, s.ts)
        IN  \/ b \in DOMAIN rows[w] /\ s.ts \in rows[w][b].in
            \/ pipeline.rollers[w].bucket = b /\ s.ts \in pipeline.rollers[w].acc.in
            \/ b < now - (IF w = Minute THEN KeepM1 ELSE KeepM10)
            \/ ~RawKept(s.ts)
            \/ LostInAGap(w, s) \/ NotYetBackfilled(s)

\* A line of the gate's log is counted once (collect.rs:456, gatelog.rs:441), and once
\* more for each start of a collector that reads it back.
TimesCounted(l) ==
    MapThenSumSet(LAMBDA b : IF l \in DOMAIN gatelog[b] THEN gatelog[b][l] ELSE 0, DOMAIN gatelog)
        + (IF l \in DOMAIN pipeline.gate.log THEN pipeline.gate.log[l] ELSE 0)

LogLinesCountedOnce ==
    alive => \A l \in lines :
        TimesCounted(l) <= 1 + Cardinality({t \in starts : l <= t /\ t <= l + LogWindow})

\* So the tiers tell what the samples tell (rollup.rs:42): nothing twice, and nothing less,
\* and of the gate's log no line twice but for a restart.
RollupsAreExact == RowsAreWhole /\ EverySampleIsRolled /\ LogLinesCountedOnce

\* The two widths of the latency windows tell of the same requests (hist.rs:345): a stored
\* ten minutes are the sum of their minutes, unless a collector started or the engine
\* changed its buckets inside them, which only drops requests; and no request is in two
\* minutes.
MinutesOf(b) == {m \in DOMAIN hist[Minute] : BucketOf(TenMinutes, m) = b}
Asked(minutes) == MapThenSumSet(LAMBDA m : hist[Minute][m], minutes)

WindowsAgree ==
    /\ \A b \in DOMAIN hist[TenMinutes] :
          /\ hist[TenMinutes][b] <= Asked(MinutesOf(b))
          /\ hist[TenMinutes][b] # Asked(MinutesOf(b)) =>
                \E t \in starts \cup layouts : t >= b /\ t < b + TenMinutes
    /\ Asked(DOMAIN hist[Minute]) + tracker.open[Minute].acc.count <= asked

\* What counts for a loadout (loadouts.rs:107): no sample or interval twice, and a C1
\* reading only when it came in with the poll that opened the account; while a container
\* serves, nothing of another configuration, unless the engine was down or nobody could say
\* what it is; a container's start that was timed was one the collector watched (of an engine
\* that is not a container, see below).  And nothing the collector has seen since it started
\* is missing from the account it belongs to, wherever the engine went in between.  Of the
\* configurations nothing is claimed once a poll scraped one run and was told the start of
\* another.
AccountOf(id) == IF current.id = id THEN current.acc ELSE loadouts[id]
Accs == {AccountOf(id) : id \in DOMAIN loadouts \cup {current.id}}

Distinct(seq) == Cardinality(ToSet(seq)) = Len(seq)

LoadoutIsItsOwn ==
    /\ \A acc \in Accs :
          /\ Distinct(acc.samples) /\ Distinct(acc.steps)
          /\ Distinct(Selected(acc.probes, ToSet(acc.probes) \ late))
          /\ \A cold \in ToSet(acc.cold_starts) : cold[1] > 0 =>
                \E s \in taken : /\ ~s.up /\ s.ts >= cold[1] /\ s.ts < cold[2]
                                 /\ s.ts >= cold[2] - ColdWindow
    /\ ~mixed => \A s \in taken : s.up /\ s.ts \notin pending =>
          LET id == <<"container", s.config>>
          IN  /\ current.id # <<>> /\ current.id[1] = "container"
                    /\ s.ts \in ToSet(current.acc.samples) => current.id = id
              /\ alive /\ s.ts >= started_at /\ s.started > 0 =>
                    id \in DOMAIN loadouts /\ s.ts \in ToSet(AccountOf(id).samples)

\* crates/lss-collector/src/loadouts.rs:135 "COLD START: container start -> this first answer,
\* when the collector saw it down in between": there was a start, and no answer since.
ColdStartsAreTimed ==
    \A acc \in Accs : \A cold \in ToSet(acc.cold_starts) :
        cold[1] > 0 /\ \A s \in taken : s.up /\ s.ts >= cold[1] => s.ts >= cold[2]

=============================================================================

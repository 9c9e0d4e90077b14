--------------------------- MODULE AccountProofs ---------------------------
(***************************************************************************)
(* Theorems about the collector's books: the token ledger, the latency     *)
(* windows, the loadouts, and what they rest on.                           *)
(***************************************************************************)
EXTENDS Accounts, NumberLemmas, SequenceTheorems

-----------------------------------------------------------------------------
(***************************************************************************)
(* What goes on outside                                                    *)
(***************************************************************************)
FiniteSubsets(S) == {D \in SUBSET S : IsFiniteSet(D)}
Readings == {s \in SampleType : s.ts \in Nat}

OutsideType ==
    /\ now \in Nat /\ alive \in BOOLEAN /\ started_at \in Nat /\ engine \in Engines
    /\ starts \subseteq Nat /\ taken \subseteq Readings
    /\ now >= SaveEvery /\ lines \in FiniteSubsets(Nat)

TakenIsPast == \A s \in taken : s.ts <= now

\* The last reading of the counter is of the run that serves, or of one before it.
ReadIsOfARun ==
    \/ read = NoSample
    \/ /\ read \in Readings /\ read.count # None /\ read.life # 0
       /\ read.life <= engine.life
       /\ read.life = engine.life => read.count <= engine.count /\ read.config = engine.config

Outside == OutsideType /\ TakenIsPast /\ ReadIsOfARun

\* A poll of s, with e serving after it: the run that served before it or e was read, and a
\* run counts up.
Polls(s, e) ==
    /\ s \in Readings /\ e \in Engines /\ s.ts >= now /\ alive
    /\ engine' = e /\ now' = s.ts /\ taken' = taken \cup {s}
    /\ \A x \in ToSet(samples) : s.ts > x.ts
    /\ s.life \in {engine.life, e.life} /\ e.life >= engine.life
    /\ e.life = engine.life => e.config = engine.config /\ e.count >= engine.count
    /\ s.life = engine.life =>
           s.config = engine.config /\ (s.count # None => s.count >= engine.count)
    /\ s.life = e.life =>
           s.config = e.config /\ (s.count # None => s.count <= e.count)

\* The sample that was never read is of no run, and says nothing.
LEMMA NoSampleIs == NoSample.life = 0 /\ NoSample.count = None /\ NoSample.ts = None
BY DEF NoSample

\* What a poll reads is of the run that answers or of the one that was logged before it, and is no
\* more than that run counts.
LEMMA SampledIs ==
    ASSUME OutsideType, NEW t \in Nat, NEW e \in Engines, NEW how \in Hows,
           NEW failed \in Failures, NEW speed \in Nat, NEW log \in FiniteSubsets(Nat), Serves(e, t)
    PROVE  LET s == Sampled(t, how, e, failed, speed, log)
           IN  /\ s \in Readings /\ s.ts = t
               /\ s.life \in {engine.life, e.life} /\ e.life >= engine.life
               /\ e.life = engine.life => e.config = engine.config /\ e.count >= engine.count
               /\ s.life = engine.life =>
                      s.config = engine.config /\ (s.count # None => s.count >= engine.count)
               /\ s.life = e.life =>
                      s.config = e.config /\ (s.count # None => s.count <= e.count)
<1> DEFINE s == Sampled(t, how, e, failed, speed, log)
<1>1. engine \in Engines /\ e \in Engines
  BY DEF OutsideType
<1>2. /\ engine.life \in Nat /\ e.life \in Nat /\ engine.count \in Nat /\ e.count \in Nat
      /\ engine.config \in Configs /\ e.config \in Configs
      /\ engine.started \in Nat /\ e.started \in Nat
  BY <1>1 DEF Engines
<1>3. e.life >= engine.life /\ (e.life = engine.life => e.count >= engine.count /\ e.config = engine.config)
  BY <1>1, <1>2 DEF Serves, Engines
<1>4. Scraped(how, e) \in {engine, e} /\ (e.life = engine.life => Scraped(how, e) = e)
  BY DEF Scraped
<1>5. Told(how, e) \in Nat
  BY <1>2 DEF Told
<1>6. /\ s.ts = t /\ s.life = Scraped(how, e).life /\ s.config = Scraped(how, e).config
      /\ s.count \in {Scraped(how, e).count, None}
  BY DEF Sampled
<1>7. s \in Readings
  <2>1. s.up \in BOOLEAN /\ s.count \in Nat \cup {None} /\ s.started \in Nat /\ s.speed \in Nat
        /\ s.log \in FiniteSubsets(Nat) /\ s.life \in Nat /\ s.config \in Configs /\ s.ts \in Nat
    BY <1>2, <1>4, <1>5 DEF Sampled, None
  <2>2. s = [ts |-> s.ts, up |-> s.up, count |-> s.count, started |-> s.started, speed |-> s.speed,
             log |-> s.log, life |-> s.life, config |-> s.config]
    BY DEF Sampled
  <2> HIDE DEF s
  <2>3. s \in SampleType
    BY <2>1, <2>2 DEF SampleType, FiniteSubsets
  <2> QED
    BY <2>1, <2>3 DEF Readings
<1> HIDE DEF s
<1>8. s.life \in {engine.life, e.life}
  BY <1>4, <1>6
<1>9. ASSUME s.life = engine.life
      PROVE  s.config = engine.config /\ (s.count # None => s.count >= engine.count)
  <2>1. CASE Scraped(how, e) = engine
    BY <1>2, <1>6, <2>1
  <2>2. CASE Scraped(how, e) = e
    BY <1>2, <1>3, <1>6, <1>9, <2>2
  <2> QED
    BY <1>4, <2>1, <2>2
<1>10. ASSUME s.life = e.life
       PROVE  s.config = e.config /\ (s.count # None => s.count <= e.count)
  <2>1. CASE Scraped(how, e) = engine
    <3>1. engine.life = e.life
      BY <1>6, <1>10, <2>1
    <3> QED
      BY <1>2, <1>4, <1>6, <3>1
  <2>2. CASE Scraped(how, e) = e
    BY <1>2, <1>6, <2>2
  <2> QED
    BY <1>4, <2>1, <2>2
<1> QED
  BY <1>3, <1>6, <1>7, <1>8, <1>9, <1>10 DEF s

\* Every poll, whether the collector survives it or not, is one of these.
LEMMA PollsAre ==
    ASSUME OutsideType, NEW t \in Nat, NEW e \in Engines, NEW how \in Hows,
           NEW failed \in Failures, NEW speed \in Nat, NEW logged \in SUBSET Nat,
           NEW described \in BOOLEAN, NEW came \in 0 .. 1, NEW dies \in BOOLEAN,
           PollAt(t, e, how, failed, speed, logged, described, came, dies)
    PROVE  \E s \in Readings :
               /\ Polls(s, e) /\ logged \in FiniteSubsets(Nat)
               /\ IF dies THEN PollDies(s, e) ELSE Poll(s, e, logged, described, came)
<1> DEFINE log == Lines(logged, cursor, t - LogWindow)
           s == Sampled(t, how, e, failed, speed, log)
<1>0. logged \in FiniteSubsets(Nat)
  <2>1. lines \in FiniteSubsets(Nat) /\ now \in Nat
    BY DEF OutsideType
  <2>2. lines \subseteq logged /\ logged \ lines \subseteq now .. t
    BY DEF PollAt, Logs
  <2>3. IsFiniteSet(now .. t)
    BY <2>1, FS_Interval
  <2>4. IsFiniteSet(lines \cup (logged \ lines))
    BY <2>1, <2>2, <2>3, FS_Subset, FS_Union DEF FiniteSubsets
  <2>5. lines \cup (logged \ lines) = logged
    BY <2>2
  <2> QED
    BY <2>4, <2>5 DEF FiniteSubsets
<1>1. log \in FiniteSubsets(Nat)
  <2>1. log \subseteq logged
    BY DEF Lines
  <2> QED
    BY <1>0, <2>1, FS_Subset DEF FiniteSubsets
<1>2. Serves(e, t) /\ IF dies THEN PollDies(s, e) ELSE Poll(s, e, logged, described, came)
  BY DEF PollAt
<1> HIDE DEF log
<1>3. /\ s \in Readings /\ s.ts = t
      /\ s.life \in {engine.life, e.life} /\ e.life >= engine.life
      /\ e.life = engine.life => e.config = engine.config /\ e.count >= engine.count
      /\ s.life = engine.life =>
             s.config = engine.config /\ (s.count # None => s.count >= engine.count)
      /\ s.life = e.life =>
             s.config = e.config /\ (s.count # None => s.count <= e.count)
  BY <1>1, <1>2, SampledIs
<1> HIDE DEF s
<1>4. /\ alive /\ s.ts >= now /\ engine' = e /\ now' = s.ts /\ taken' = taken \cup {s}
      /\ \A x \in ToSet(samples) : s.ts > x.ts
  <2>1. CASE dies
    BY <1>2, <2>1 DEF PollDies
  <2>2. CASE ~dies
    BY <1>2, <2>2 DEF Poll
  <2> QED
    BY <2>1, <2>2
<1> QED
  BY <1>0, <1>2, <1>3, <1>4 DEF Polls

-----------------------------------------------------------------------------
(***************************************************************************)
(* The ledger                                                              *)
(***************************************************************************)
Peaks == [tok_s: Nat, ts: Nat]
Standings == [life: Nat, epoch: Nat, shown: Int]

LedgerType ==
    /\ all_time \in AllTimeType /\ saved \in AllTimeType /\ saved_at \in Nat
    /\ booked \in Standings /\ kept \in Standings
    /\ shown \in Int /\ forfeited \in Int /\ misfiled \in BOOLEAN /\ blind \in BOOLEAN

\* The ledger a stands on the reading b: what it has not been told of that run is what the last
\* reading shows beyond its own.
Stands(a, b) ==
    /\ a.epoch = b.epoch
    /\ a.last = None <=> b.life = 0
    /\ b.life <= read.life
    /\ b.life # 0 /\ read.life = b.life =>
           a.last <= read.count /\ shown - b.shown = read.count - a.last
    /\ ~misfiled /\ ~blind => a.total + forfeited = b.shown

\* The ledger in memory, and the saved one, which is the same after a start and until the
\* first reading, which is saved.  From then on memory stands on the last reading.
LedgerStands ==
    /\ Stands(all_time, booked)
    /\ booked.life = 0 => read = NoSample /\ shown = booked.shown
    /\ saved.since # 0 => Stands(saved, kept) /\ kept.life # 0
    /\ saved_at = 0 /\ saved.since # 0 => all_time = saved /\ booked = kept
    /\ saved_at # 0 => shown = booked.shown /\ booked.life = read.life

\* What a reading makes of the ledger and of the history.
LEMMA ObservedTotals ==
    ASSUME NEW a \in AllTimeType, NEW s \in Readings, s.count # None
    PROVE  /\ Observed(a, s).since = IF a.since = 0 THEN s.ts ELSE a.since
           /\ Observed(a, s).last = s.count
           /\ Observed(a, s).epoch = IF s.started # 0 THEN s.started ELSE a.epoch
           /\ Observed(a, s).total = a.total + Added(a, s.count, IsReset(a, s.started))
           /\ Added(a, s.count, IsReset(a, s.started)) \in Nat
<1>1. a.last \in Nat \cup {None} /\ s.count \in Nat
  BY DEF AllTimeType, Readings, SampleType
<1>2. Added(a, s.count, IsReset(a, s.started)) \in Nat
  <2>1. CASE a.last = None
    BY <2>1 DEF Added
  <2>2. CASE a.last # None /\ (IsReset(a, s.started) \/ s.count < a.last)
    BY <1>1, <2>2 DEF Added
  <2>3. CASE a.last # None /\ ~(IsReset(a, s.started) \/ s.count < a.last)
    BY <1>1, <2>3 DEF Added
  <2> QED
    BY <2>1, <2>2, <2>3
<1> QED
  BY <1>2 DEF Observed

ReadingFacts(s) ==
    /\ s \in Readings /\ s.count \in Nat /\ s.life \in Nat \ {0} /\ s.started \in Nat
    /\ s.life >= read.life
    /\ s.life = read.life => s.count >= read.count

\* The first reading, one of another run, and one of the run the ledger stands on.
LEMMA ReadingStands ==
    ASSUME LedgerType, LedgerStands, ReadIsOfARun, OutsideType, NEW s, ReadingFacts(s),
           BooksRead(s), all_time' = Observed(all_time, s)
    PROVE  Stands(all_time, booked)' /\ booked'.life # 0 /\ booked'.shown = shown' /\ booked'.life = read'.life
<1> DEFINE first == booked.life = 0
           goes_on == read.life = s.life
           another == ~first /\ booked.life # s.life
           a == all_time
           added == Added(a, s.count, IsReset(a, s.started))
<1>1. /\ s \in Readings /\ s.count \in Nat /\ s.count # None /\ s.life \in Nat /\ s.life # 0
      /\ s.started \in Nat /\ s.life >= read.life /\ (s.life = read.life => s.count >= read.count)
  BY DEF ReadingFacts, None
<1>2. /\ shown' = shown + (IF first /\ read = NoSample THEN 0
                           ELSE IF goes_on THEN s.count - read.count ELSE s.count)
      /\ read' = s
      /\ booked' = [life |-> s.life, shown |-> shown',
                    epoch |-> IF s.started # 0 THEN s.started ELSE booked.epoch]
      /\ forfeited' = IF another
                      THEN forfeited + (shown - booked.shown) - (IF goes_on THEN read.count ELSE 0)
                      ELSE forfeited
      /\ misfiled' = \/ misfiled
                     \/ booked.life = s.life /\ s.started # 0 /\ booked.epoch \notin {0, s.started}
      /\ blind' = \/ blind
                  \/ /\ another /\ s.count >= all_time.last
                     /\ (s.started = 0 \/ booked.epoch \in {0, s.started})
  BY <1>1 DEF BooksRead
<1>3. /\ a.total \in Int /\ a.last \in Nat \cup {None} /\ a.epoch \in Nat
      /\ booked.life \in Nat /\ booked.epoch \in Nat /\ booked.shown \in Int
      /\ shown \in Int /\ forfeited \in Int /\ a \in AllTimeType
  BY DEF LedgerType, AllTimeType, Standings
<1>4. read.life \in Nat /\ (read.life # 0 => read.count \in Nat) /\ (read.life = 0 => read = NoSample)
  BY DEF ReadIsOfARun, Readings, SampleType, NoSample, None
<1>5. /\ a.epoch = booked.epoch /\ (a.last = None <=> first) /\ booked.life <= read.life
      /\ booked.life # 0 /\ read.life = booked.life =>
             a.last <= read.count /\ shown - booked.shown = read.count - a.last
      /\ ~misfiled /\ ~blind => a.total + forfeited = booked.shown
      /\ first => read = NoSample /\ shown = booked.shown
  BY DEF LedgerStands, Stands
<1>6. /\ all_time'.last = s.count /\ all_time'.total = a.total + added /\ added \in Nat
      /\ all_time'.epoch = IF s.started # 0 THEN s.started ELSE a.epoch
  <2> HIDE DEF added
  <2>1. all_time' = Observed(a, s)
    OBVIOUS
  <2>2. /\ Observed(a, s).last = s.count /\ Observed(a, s).total = a.total + added
        /\ added \in Nat
        /\ Observed(a, s).epoch = IF s.started # 0 THEN s.started ELSE a.epoch
    BY <1>1, <1>3, ObservedTotals DEF added
  <2> QED
    BY <2>1, <2>2
<1>7. /\ booked'.life = s.life /\ booked'.shown = shown' /\ read'.life = s.life
      /\ read'.count = s.count
      /\ booked'.epoch = IF s.started # 0 THEN s.started ELSE booked.epoch
  BY <1>2
<1>8. ASSUME ~misfiled', ~blind' PROVE all_time'.total + forfeited' = shown'
  <2>1. a.total + forfeited = booked.shown
    BY <1>2, <1>5, <1>8
  <2>2. CASE first
    <3>1. added = 0 /\ forfeited' = forfeited /\ shown' = shown
      <4>1. a.last = None /\ read = NoSample
        BY <1>5, <2>2
      <4> QED
        BY <1>2, <1>3, <2>2, <4>1 DEF Added
    <3> QED
      BY <1>3, <1>5, <1>6, <2>1, <2>2, <3>1
  <2>3. CASE another
    <3>1. a.last \in Nat /\ a.last # None
      BY <1>3, <1>5, <2>3
    <3>2. added = s.count
      <4>1. IsReset(a, s.started) \/ s.count < a.last
        <5>1. ~(s.count >= a.last /\ (s.started = 0 \/ booked.epoch \in {0, s.started}))
          BY <1>2, <1>8, <2>3
        <5> QED
          BY <1>1, <1>3, <1>5, <3>1, <5>1 DEF IsReset
      <4> QED
        BY <3>1, <4>1 DEF Added
    <3>3. CASE goes_on
      <4>1. read.count \in Int
        BY <1>1, <1>4, <3>3
      <4>2. shown' = shown + (s.count - read.count)
            /\ forfeited' = forfeited + (shown - booked.shown) - read.count
        BY <1>2, <2>3, <3>3
      <4> HIDE DEF added
      <4> QED
        BY <1>1, <1>3, <1>6, <2>1, <3>2, <4>1, <4>2
    <3>4. CASE ~goes_on
      <4>1. shown' = shown + s.count /\ forfeited' = forfeited + (shown - booked.shown) - 0
        BY <1>2, <2>3, <3>4
      <4> HIDE DEF added
      <4> QED
        BY <1>1, <1>3, <1>6, <2>1, <3>2, <4>1
    <3> QED
      BY <3>3, <3>4
  <2>4. CASE ~first /\ ~another
    <3>1. booked.life = s.life /\ read.life = s.life /\ goes_on
      BY <1>1, <1>3, <1>4, <1>5, <2>4
    <3>2. /\ a.last \in Nat /\ a.last # None /\ read.count \in Nat
          /\ a.last <= read.count /\ shown - booked.shown = read.count - a.last
          /\ s.count >= read.count
      BY <1>1, <1>3, <1>4, <1>5, <2>4, <3>1
    <3>3. ~IsReset(a, s.started)
      BY <1>2, <1>5, <1>8, <3>1 DEF IsReset
    <3>4. added = s.count - a.last
      <4>1. ~(IsReset(a, s.started) \/ s.count < a.last)
        BY <1>1, <3>2, <3>3
      <4> QED
        BY <3>2, <4>1 DEF Added
    <3>5. shown' = shown + (s.count - read.count) /\ forfeited' = forfeited
      BY <1>2, <2>4, <3>1
    <3> HIDE DEF added, a
    <3>6. /\ a.total \in Int /\ forfeited \in Int /\ shown \in Int /\ booked.shown \in Int
          /\ s.count \in Int /\ a.last \in Int /\ read.count \in Int
      BY <1>1, <1>3, <3>2
    <3>7. all_time'.total = a.total + (s.count - a.last)
      BY <1>6, <3>4
    <3> QED
      BY <2>1, <3>2, <3>5, <3>6, <3>7
  <2> QED
    BY <2>2, <2>3, <2>4
<1>9. all_time'.epoch = booked'.epoch
  BY <1>5, <1>6, <1>7
<1>10. shown' \in Int
  <2>1. shown' \in {shown + 0, shown + (s.count - read.count), shown + s.count}
    BY <1>2
  <2>2. CASE first /\ read = NoSample
    BY <1>2, <1>3, <2>2
  <2>3. CASE ~(first /\ read = NoSample) /\ goes_on
    BY <1>1, <1>2, <1>3, <1>4, <2>3
  <2>4. CASE ~(first /\ read = NoSample) /\ ~goes_on
    BY <1>1, <1>2, <1>3, <2>4
  <2> QED
    BY <2>2, <2>3, <2>4
<1> HIDE DEF a, added, first, another, goes_on
<1> QED
  BY <1>1, <1>6, <1>7, <1>8, <1>9, <1>10 DEF Stands

\* So the next reading finds memory and file as they should be.
LEMMA PollKeepsLedger ==
    ASSUME LedgerType, LedgerStands, ReadIsOfARun, OutsideType, NEW s \in Readings,
           s.count # None => ReadingFacts(s), s.ts >= now, ObserveLedger(s), BooksRead(s)
    PROVE  LedgerStands'
<1>1. CASE s.count = None
  BY <1>1 DEF ObserveLedger, BooksRead, ledger_vars, LedgerStands, Stands
<1>2. CASE s.count # None
  <2> DEFINE save == s.ts - saved_at >= SaveEvery
  <2>1. /\ all_time' = Observed(all_time, s)
        /\ saved' = IF save THEN all_time' ELSE saved
        /\ saved_at' = IF save THEN s.ts ELSE saved_at
        /\ kept' = IF save THEN booked' ELSE kept
    BY <1>2 DEF ObserveLedger, BooksRead
  <2>2. /\ Stands(all_time, booked)' /\ booked'.life # 0 /\ booked'.shown = shown'
        /\ booked'.life = read'.life
    BY <1>2, <2>1, ReadingStands
  <2>3. SaveEvery \in Nat \ {0} /\ now \in Nat /\ now >= SaveEvery /\ s.ts \in Nat /\ saved_at \in Nat
    BY SamplesAssumption DEF OutsideType, Readings, LedgerType
  <2>4. CASE save
    <3>1. saved' = all_time' /\ kept' = booked' /\ saved_at' # 0
      BY <2>1, <2>3, <2>4
    <3>2. Stands(saved, kept)'
      BY <2>2, <3>1 DEF Stands
    <3> QED
      BY <2>2, <3>1, <3>2 DEF LedgerStands
  <2>5. CASE ~save
    <3>1. saved_at # 0 /\ saved_at' = saved_at /\ saved' = saved /\ kept' = kept
      BY <2>1, <2>3, <2>5
    <3> HIDE DEF save
    <3>2. shown = booked.shown /\ booked.life = read.life
      BY <3>1 DEF LedgerStands
    <3>3. /\ read' = s /\ (misfiled => misfiled') /\ (blind => blind')
          /\ s.count \in Nat /\ s.life \in Nat /\ s.life >= read.life
          /\ s.life = read.life => s.count >= read.count
      BY <1>2 DEF BooksRead, ReadingFacts
    <3>4. /\ forfeited \in Int /\ shown \in Int /\ saved.total \in Int
          /\ booked.life \in Nat /\ kept.life \in Nat /\ kept.shown \in Int
      BY DEF LedgerType, Standings, AllTimeType
    <3>5. forfeited' = forfeited
      <4> DEFINE another == booked.life # 0 /\ booked.life # s.life
                 goes_on == read.life = s.life
      <4>1. forfeited' = IF another
                         THEN forfeited + (shown - booked.shown) - (IF goes_on THEN read.count ELSE 0)
                         ELSE forfeited
        BY <1>2 DEF BooksRead
      <4>2. another => ~goes_on
        BY <3>2
      <4> HIDE DEF another, goes_on
      <4> QED
        BY <3>2, <3>4, <4>1, <4>2
    <3>6. ASSUME saved.since # 0 PROVE Stands(saved, kept)' /\ kept'.life # 0
      <4>1. Stands(saved, kept) /\ kept.life # 0
        BY <3>6 DEF LedgerStands
      <4>2. kept'.life <= read'.life
        BY <3>1, <3>2, <3>3, <3>4, <4>1 DEF Stands
      <4>3. ASSUME read'.life = kept'.life
            PROVE  saved'.last <= read'.count /\ shown' - kept'.shown = read'.count - saved'.last
        <5>1. read.life = kept.life /\ s.life = read.life
          BY <3>1, <3>2, <3>3, <3>4, <4>1, <4>3 DEF Stands
        <5>2. saved.last <= read.count /\ shown - kept.shown = read.count - saved.last
          BY <4>1, <5>1 DEF Stands
        <5>3. read.count \in Nat /\ saved.last \in Nat
          BY <4>1, <5>1, SMTT(20)
             DEF Stands, ReadIsOfARun, Readings, SampleType, NoSample, None, LedgerType, AllTimeType
        <5>4. shown' = shown + (s.count - read.count)
          BY <1>2, <3>2, <4>1, <5>1 DEF BooksRead
        <5> QED
          BY <3>1, <3>3, <3>4, <5>1, <5>2, <5>3, <5>4
      <4> QED
        BY <3>1, <3>3, <3>5, <4>1, <4>2, <4>3 DEF Stands
    <3> QED
      BY <2>2, <3>1, <3>6 DEF LedgerStands
  <2> QED
    BY <2>4, <2>5
<1> QED
  BY <1>1, <1>2

\* A scrape that answered tells the truth of the run that it is of.
LEMMA ReadingIsGood ==
    ASSUME OutsideType, ReadIsOfARun, NEW s, NEW e, Polls(s, e), s.count # None
    PROVE  ReadingFacts(s)
<1>1. /\ s \in Readings /\ e \in Engines /\ engine \in Engines
      /\ s.life \in {engine.life, e.life} /\ e.life >= engine.life
      /\ s.life = engine.life => s.count >= engine.count
  BY DEF Polls, OutsideType
<1>2. /\ s.count \in Nat /\ s.started \in Nat /\ s.life \in Nat \ {0} /\ engine.life \in Nat \ {0}
      /\ e.life \in Nat \ {0} /\ engine.count \in Nat
  BY <1>1 DEF Readings, SampleType, Engines
<1>3. CASE read = NoSample
  BY <1>1, <1>2, <1>3 DEF ReadingFacts, NoSample
<1>4. CASE read # NoSample
  <2>1. /\ read.life \in Nat /\ read.count \in Nat /\ read.life <= engine.life
        /\ read.life = engine.life => read.count <= engine.count
    BY <1>4 DEF ReadIsOfARun, Readings, SampleType
  <2>2. s.life >= read.life
    BY <1>1, <1>2, <2>1
  <2>3. s.life = read.life => s.life = engine.life
    BY <1>1, <1>2, <2>1
  <2>4. s.life = read.life => s.count >= read.count
    BY <1>1, <1>2, <2>1, <2>3
  <2> QED
    BY <1>1, <1>2, <2>2, <2>4 DEF ReadingFacts
<1> QED
  BY <1>3, <1>4

\* The engine goes on between two polls: what was read last stays a reading of its run, or of a run
\* that is over.
LEMMA EngineGoesOn ==
    ASSUME OutsideType, ReadIsOfARun, NEW s, NEW e, Polls(s, e), read' = read \/ read' = s,
           read' = s /\ read' # read => s.count # None
    PROVE  ReadIsOfARun'
<1>1. /\ s \in Readings /\ e \in Engines /\ engine \in Engines /\ engine' = e
      /\ s.life \in {engine.life, e.life} /\ e.life >= engine.life
      /\ e.life = engine.life => e.config = engine.config /\ e.count >= engine.count
      /\ s.life = e.life => s.config = e.config /\ (s.count # None => s.count <= e.count)
  BY DEF Polls, OutsideType
<1>2. /\ s.life \in Nat \ {0} /\ engine.life \in Nat \ {0}
      /\ e.life \in Nat \ {0} /\ engine.count \in Nat /\ e.count \in Nat
  BY <1>1 DEF Readings, SampleType, Engines
<1>3. CASE read' = read
  <2>1. CASE read = NoSample
    BY <1>3, <2>1 DEF ReadIsOfARun, NoSample
  <2>2. CASE read # NoSample
    <3>1. /\ read \in Readings /\ read.count # None /\ read.life # 0 /\ read.life <= engine.life
          /\ read.life = engine.life => read.count <= engine.count /\ read.config = engine.config
      BY <2>2 DEF ReadIsOfARun
    <3>2. read.life \in Nat /\ read.count \in Nat
      BY <3>1 DEF Readings, SampleType
    <3>3. read.life <= e.life
      BY <1>1, <1>2, <3>1, <3>2
    <3>4. read.life = e.life => read.life = engine.life /\ e.life = engine.life
      BY <1>1, <1>2, <3>1, <3>2
    <3>5. read.life = e.life => read.count <= e.count /\ read.config = e.config
      BY <1>1, <1>2, <3>1, <3>2, <3>4
    <3> QED
      BY <1>1, <1>3, <3>1, <3>3, <3>5 DEF ReadIsOfARun
  <2> QED
    BY <2>1, <2>2
<1>4. CASE read' = s /\ read' # read
  BY <1>1, <1>2, <1>4 DEF ReadIsOfARun
<1> QED
  BY <1>3, <1>4

-----------------------------------------------------------------------------
(***************************************************************************)
(* The peaks                                                               *)
(***************************************************************************)
DayOf(ts) == ts \div Day

\* They are samples of T, one a day, oldest first ...
PeaksAre(days, T) ==
    /\ Len(days) <= PeakDays
    /\ \A i \in 1 .. Len(days) :
          /\ \E s \in T : s.ts = days[i].ts /\ s.speed = days[i].tok_s
          /\ \A j \in 1 .. i - 1 : DayOf(days[j].ts) < DayOf(days[i].ts)

\* ... and none of T since then is faster than that of its day.
Covered(days, T, from) ==
    \A s \in T : s.ts >= from /\ s.speed > 0 /\ s.count # None =>
        /\ days # <<>>
        /\ s.ts >= days[1].ts => \E i \in 1 .. Len(days) :
                                     DayOf(s.ts) = DayOf(days[i].ts) /\ s.speed <= days[i].tok_s

\* A later moment is on the same day or on a later one.
LEMMA DaysAscend ==
    ASSUME NEW x \in Nat, NEW y \in Nat, x <= y
    PROVE  DayOf(x) \in Nat /\ DayOf(x) <= DayOf(y)
<1> DEFINE a == x \div Day
           b == y \div Day
<1>1. Day \in Nat /\ Day # 0
  BY LedgerAssumption
<1>2. /\ a \in Nat /\ b \in Nat
      /\ x = (Day * a) + (x % Day) /\ x % Day \in 0 .. Day - 1
      /\ y = (Day * b) + (y % Day) /\ y % Day \in 0 .. Day - 1
  BY <1>1
<1> HIDE DEF a, b
<1>3. ASSUME b + 1 <= a PROVE FALSE
  <2>1. Day * (b + 1) <= Day * a
    BY <1>1, <1>2, <1>3
  <2>2. Day * (b + 1) = Day * b + Day
    BY <1>1, <1>2
  <2>3. Day * a \in Int /\ Day * b \in Int /\ x % Day \in Int /\ y % Day \in Int
    BY <1>1, <1>2
  <2> QED
    BY <1>1, <1>2, <2>1, <2>2, <2>3
<1> QED
  BY <1>2, <1>3 DEF DayOf, a, b

\* What Append adds, and what it leaves.
LEMMA AppendIs ==
    ASSUME NEW S, NEW seq \in Seq(S), NEW x \in S
    PROVE  /\ Append(seq, x) \in Seq(S) /\ Len(Append(seq, x)) = Len(seq) + 1
           /\ Append(seq, x)[Len(seq) + 1] = x
           /\ \A i \in 1 .. Len(seq) : Append(seq, x)[i] = seq[i]
OBVIOUS

\* What becomes of the days when a sample is faster than nothing: n of them stay, the others
\* by shift places further down, and the sample's day is the last.
Became(new, days, peak, n, shift) ==
    /\ new \in Seq(Peaks) /\ n \in Nat /\ shift \in {0, 1} /\ n + shift <= Len(days)
    /\ Len(new) = n + 1 /\ new[n + 1] = peak
    /\ \A i \in 1 .. n : new[i] = days[i + shift]

\* The four things that can become of the peaks of the days.
LEMMA DayPeaksIs ==
    ASSUME NEW days \in Seq(Peaks), NEW peak \in Peaks, Len(days) <= PeakDays
    PROVE  \/ /\ days # <<>> /\ DayOf(days[Len(days)].ts) = DayOf(peak.ts)
              /\ \/ /\ peak.tok_s > days[Len(days)].tok_s
                    /\ Became(DayPeaks(days, peak), days, peak, Len(days) - 1, 0)
                 \/ peak.tok_s <= days[Len(days)].tok_s /\ DayPeaks(days, peak) = days
           \/ /\ days = <<>> \/ DayOf(days[Len(days)].ts) # DayOf(peak.ts)
              /\ \/ Len(days) < PeakDays /\ Became(DayPeaks(days, peak), days, peak, Len(days), 0)
                 \/ /\ Len(days) = PeakDays
                    /\ Became(DayPeaks(days, peak), days, peak, Len(days) - 1, 1)
<1> DEFINE n == Len(days)
<1>1. /\ n \in Nat /\ (days # <<>> <=> n > 0) /\ PeakDays \in Nat /\ PeakDays > 0
      /\ peak.tok_s \in Nat /\ \A i \in 1 .. n : days[i] \in Peaks /\ days[i].tok_s \in Nat
  <2>1. n \in Nat /\ (days # <<>> <=> n > 0)
    BY EmptySeq
  <2>2. PeakDays \in Nat /\ PeakDays > 0
    BY LedgerAssumption
  <2>3. \A p \in Peaks : p.tok_s \in Nat
    BY DEF Peaks
  <2>4. \A i \in 1 .. n : days[i] \in Peaks
    OBVIOUS
  <2> HIDE DEF n
  <2> QED
    BY <2>1, <2>2, <2>3, <2>4
<1>2. CASE days # <<>> /\ DayOf(days[n].ts) = DayOf(peak.ts)
  <2>1. n \in 1 .. n /\ n - 1 \in Nat
    BY <1>1, <1>2
  <2>2. CASE peak.tok_s > days[n].tok_s
    <3> DEFINE front == SubSeq(days, 1, n - 1)
    <3>1. front \in Seq(Peaks) /\ Len(front) = n - 1 /\ \A i \in 1 .. n - 1 : front[i] = days[i]
      <4>1. \A i \in 1 .. n - 1 : i \in 1 .. n /\ days[i] \in Peaks
        BY <1>1, <2>1
      <4>2. n - 1 \in Int /\ 1 \in Int
        BY <1>1
      <4>3. /\ front \in Seq(Peaks)
            /\ Len(front) = IF 1 <= n - 1 THEN (n - 1) - 1 + 1 ELSE 0
            /\ \A i \in 1 .. (n - 1) - 1 + 1 : front[i] = days[1 + i - 1]
        BY <4>1, <4>2, SubSeqProperties
      <4> HIDE DEF front
      <4>4. \A i \in 1 .. n - 1 : i \in 1 .. (n - 1) - 1 + 1 /\ 1 + i - 1 = i
        BY <1>1
      <4>5. \A i \in 1 .. n - 1 : front[i] = days[i]
        BY <4>3, <4>4
      <4>6. Len(front) = n - 1
        <5> HIDE DEF n
        <5> QED
          BY <1>1, <2>1, <4>3
      <4> QED
        BY <4>3, <4>5, <4>6
    <3>2. DayPeaks(days, peak) = Append(front, peak)
      BY <1>2, <2>2 DEF DayPeaks, Last, Front, DayOf
    <3> HIDE DEF front
    <3>3. /\ Append(front, peak) \in Seq(Peaks) /\ Len(Append(front, peak)) = (n - 1) + 1
          /\ Append(front, peak)[(n - 1) + 1] = peak
          /\ \A i \in 1 .. n - 1 : Append(front, peak)[i] = front[i]
      BY <3>1, AppendIs
    <3>4. Became(DayPeaks(days, peak), days, peak, n - 1, 0)
      BY <1>1, <2>1, <3>1, <3>2, <3>3 DEF Became
    <3> QED
      BY <1>2, <2>2, <3>4
  <2>3. CASE ~(peak.tok_s > days[n].tok_s)
    <3>1. DayPeaks(days, peak) = days
      BY <1>2, <2>3 DEF DayPeaks, Last, DayOf
    <3>2. peak.tok_s <= days[n].tok_s
      BY <1>1, <2>1, <2>3
    <3> QED
      BY <1>2, <3>1, <3>2
  <2> QED
    BY <2>2, <2>3
<1>3. CASE ~(days # <<>> /\ DayOf(days[n].ts) = DayOf(peak.ts))
  <2> DEFINE more == Append(days, peak)
  <2>1. DayPeaks(days, peak) = KeptDays(more)
    BY <1>3 DEF DayPeaks, Last, DayOf
  <2>2. /\ more \in Seq(Peaks) /\ Len(more) = n + 1 /\ more[n + 1] = peak
        /\ \A i \in 1 .. n : more[i] = days[i]
    BY AppendIs
  <2> HIDE DEF more
  <2>3. CASE n < PeakDays
    <3>1. KeptDays(more) = more
      BY <1>1, <2>2, <2>3 DEF KeptDays
    <3>2. Became(DayPeaks(days, peak), days, peak, n, 0)
      BY <1>1, <2>1, <2>2, <3>1 DEF Became
    <3> QED
      BY <1>3, <2>3, <3>2
  <2>4. CASE n = PeakDays
    <3>1. KeptDays(more) = Tail(more)
      BY <1>1, <2>2, <2>4 DEF KeptDays
    <3>2. /\ Tail(more) \in Seq(Peaks) /\ Len(Tail(more)) = n
          /\ \A i \in 1 .. n : Tail(more)[i] = more[i + 1]
      BY <1>1, <2>2, <2>4
    <3>3. Became(DayPeaks(days, peak), days, peak, n - 1, 1)
      <4>1. n - 1 \in Nat /\ (n - 1) + 1 = n /\ n \in 1 .. n /\ n - 1 + 1 <= n
        BY <1>1, <2>4
      <4>2. Tail(more)[n] = peak
        BY <2>2, <3>2, <4>1
      <4>3. \A i \in 1 .. n - 1 : Tail(more)[i] = days[i + 1]
        BY <1>1, <2>2, <3>2
      <4> QED
        BY <2>1, <3>1, <3>2, <4>1, <4>2, <4>3 DEF Became
    <3> QED
      BY <1>3, <2>4, <3>3
  <2> QED
    BY <1>1, <2>3, <2>4
<1> QED
  BY <1>2, <1>3

\* The days that stay and the sample's own are again those of samples, and oldest first.
LEMMA BecomePeaks ==
    ASSUME NEW days \in Seq(Peaks), NEW new, NEW peak \in Peaks, NEW n, NEW shift,
           Became(new, days, peak, n, shift), n + 1 <= PeakDays,
           NEW T, NEW s, peak = [tok_s |-> s.speed, ts |-> s.ts],
           PeaksAre(days, T), \A i \in 1 .. n + shift : DayOf(days[i].ts) < DayOf(peak.ts)
    PROVE  PeaksAre(new, T \cup {s})
<1>1. /\ n \in Nat /\ shift \in {0, 1} /\ n + shift <= Len(days) /\ Len(days) \in Nat
      /\ Len(new) = n + 1 /\ new[n + 1] = peak
      /\ \A i \in 1 .. n : new[i] = days[i + shift]
  BY DEF Became
<1>2. SUFFICES ASSUME NEW i \in 1 .. n + 1
               PROVE  /\ \E x \in T \cup {s} : x.ts = new[i].ts /\ x.speed = new[i].tok_s
                      /\ \A j \in 1 .. i - 1 : DayOf(new[j].ts) < DayOf(new[i].ts)
  BY <1>1 DEF PeaksAre
<1>3. CASE i = n + 1
  <2>1. new[i] = peak
    BY <1>1, <1>3
  <2>2. \A j \in 1 .. i - 1 : j \in 1 .. n /\ j + shift \in 1 .. n + shift
    BY <1>1, <1>3
  <2>3. \A j \in 1 .. i - 1 : DayOf(new[j].ts) < DayOf(new[i].ts)
    BY <1>1, <2>1, <2>2
  <2>4. s.ts = new[i].ts /\ s.speed = new[i].tok_s
    BY <2>1
  <2> QED
    BY <2>3, <2>4
<1>4. CASE i # n + 1
  <2>1. i \in 1 .. n /\ i + shift \in 1 .. Len(days)
    BY <1>1, <1>4
  <2>2. \A j \in 1 .. i - 1 : j \in 1 .. n /\ j + shift \in 1 .. (i + shift) - 1
    BY <1>1, <2>1
  <2>3. \E x \in T : x.ts = days[i + shift].ts /\ x.speed = days[i + shift].tok_s
    BY <2>1 DEF PeaksAre
  <2>4. \A j \in 1 .. i - 1 : DayOf(days[j + shift].ts) < DayOf(days[i + shift].ts)
    BY <2>1, <2>2 DEF PeaksAre
  <2> QED
    BY <1>1, <2>1, <2>2, <2>3, <2>4
<1> QED
  BY <1>3, <1>4

\* A sample that is not before any other, and what becomes of the peaks.
LEMMA PeaksGoOn ==
    ASSUME NEW days \in Seq(Peaks), NEW T \in SUBSET Readings, NEW s \in Readings, s.speed > 0,
           \A x \in T : x.ts <= s.ts, PeaksAre(days, T)
    PROVE  /\ DayPeaks(days, [tok_s |-> s.speed, ts |-> s.ts]) \in Seq(Peaks)
           /\ PeaksAre(DayPeaks(days, [tok_s |-> s.speed, ts |-> s.ts]), T \cup {s})
           /\ \A from \in Nat : Covered(days, T, from) =>
                  Covered(DayPeaks(days, [tok_s |-> s.speed, ts |-> s.ts]), T \cup {s}, from)
<1> DEFINE peak == [tok_s |-> s.speed, ts |-> s.ts]
           new == DayPeaks(days, peak)
           n == Len(days)
<1>1. /\ peak \in Peaks /\ s.ts \in Nat /\ s.speed \in Nat /\ peak.ts = s.ts /\ peak.tok_s = s.speed
      /\ n \in Nat /\ n <= PeakDays /\ PeakDays \in Nat /\ PeakDays > 0
      /\ (days # <<>> => n > 0)
  BY LedgerAssumption, EmptySeq DEF Readings, SampleType, Peaks, PeaksAre
<1>2. \A i \in 1 .. n : days[i] \in Peaks /\ days[i].ts \in Nat /\ days[i].tok_s \in Nat
  <2>1. \A i \in 1 .. n : days[i] \in Peaks
    OBVIOUS
  <2>2. \A p \in Peaks : p.ts \in Nat /\ p.tok_s \in Nat
    BY DEF Peaks
  <2> QED
    BY <2>1, <2>2
<1>3. \A i \in 1 .. n : days[i].ts <= peak.ts
  BY <1>1 DEF PeaksAre
<1>4. \A i \in 1 .. n : DayOf(days[i].ts) \in Nat /\ DayOf(days[i].ts) <= DayOf(peak.ts)
  BY <1>1, <1>2, <1>3, DaysAscend
<1>5. \A i, j \in 1 .. n : j < i => DayOf(days[j].ts) < DayOf(days[i].ts)
  <2> SUFFICES ASSUME NEW i \in 1 .. n, NEW j \in 1 .. n, j < i
               PROVE  DayOf(days[j].ts) < DayOf(days[i].ts)
    OBVIOUS
  <2>1. j \in 1 .. i - 1
    BY <1>1
  <2> QED
    BY <2>1 DEF PeaksAre
<1>6. \A x \in T : x.ts \in Nat /\ x.ts <= s.ts /\ DayOf(x.ts) \in Nat /\ DayOf(x.ts) <= DayOf(s.ts)
  <2>1. \A x \in T : x.ts \in Nat /\ x.ts <= s.ts
    BY DEF Readings
  <2> QED
    BY <1>1, <2>1, DaysAscend
<1>7. DayOf(s.ts) \in Nat
  BY <1>1, DaysAscend
<1> HIDE DEF peak, new
<1>8. \/ /\ days # <<>> /\ DayOf(days[n].ts) = DayOf(peak.ts)
         /\ \/ peak.tok_s > days[n].tok_s /\ Became(new, days, peak, n - 1, 0)
            \/ peak.tok_s <= days[n].tok_s /\ new = days
      \/ /\ days = <<>> \/ DayOf(days[n].ts) # DayOf(peak.ts)
         /\ \/ n < PeakDays /\ Became(new, days, peak, n, 0)
            \/ n = PeakDays /\ Became(new, days, peak, n - 1, 1)
  <2>1. peak \in Peaks /\ Len(days) <= PeakDays
    BY <1>1
  <2> HIDE DEF n
  <2> QED
    BY <2>1, DayPeaksIs DEF new, n
\* The days that stay are before the sample's, and the sample is on its own day.
<1>9. ASSUME NEW k, NEW shift, Became(new, days, peak, k, shift), k + 1 <= PeakDays,
             \A i \in 1 .. k + shift : DayOf(days[i].ts) < DayOf(peak.ts)
      PROVE  new \in Seq(Peaks) /\ PeaksAre(new, T \cup {s})
  <2>1. PeaksAre(new, T \cup {s})
    BY <1>1, <1>9, BecomePeaks DEF peak
  <2>2. new \in Seq(Peaks)
    BY <1>9 DEF Became
  <2> QED
    BY <2>1, <2>2
\* Whoever is not dropped keeps its day; what was the sample's day before was slower.
<1>10. ASSUME NEW k, NEW shift, Became(new, days, peak, k, shift),
              \/ k + shift = n /\ \A i \in 1 .. n : DayOf(days[i].ts) < DayOf(peak.ts)
              \/ /\ k + 1 = n /\ shift = 0
                 /\ DayOf(days[n].ts) = DayOf(peak.ts) /\ days[n].tok_s < peak.tok_s,
              NEW from \in Nat, Covered(days, T, from)
       PROVE  Covered(new, T \cup {s}, from)
  <2>1. /\ k \in Nat /\ shift \in {0, 1} /\ k + shift <= n /\ Len(new) = k + 1 /\ new[k + 1] = peak
        /\ \A i \in 1 .. k : new[i] = days[i + shift]
        /\ new \in Seq(Peaks)
    BY <1>10 DEF Became
  <2>2. new # <<>> /\ k + 1 \in 1 .. k + 1
    BY <2>1
  <2> SUFFICES ASSUME NEW x \in T \cup {s}, x.ts >= from, x.speed > 0, x.count # None, x.ts >= new[1].ts
               PROVE  \E i \in 1 .. k + 1 : DayOf(x.ts) = DayOf(new[i].ts) /\ x.speed <= new[i].tok_s
    BY <2>1, <2>2 DEF Covered
  <2>3. CASE x = s
    BY <1>1, <2>1, <2>2, <2>3
  <2>4. CASE x \in T
    <3>1. /\ n > 0 /\ 1 \in 1 .. n
          /\ x.ts >= days[1].ts => \E i \in 1 .. n :
                                    DayOf(x.ts) = DayOf(days[i].ts) /\ x.speed <= days[i].tok_s
      BY <1>1, <1>10, <2>4 DEF Covered
    <3>2. x.ts \in Nat /\ x.ts <= s.ts /\ x.speed \in Nat
      BY <1>6, <2>4 DEF Readings, SampleType
    <3>3. days[1].ts <= new[1].ts
      <4>1. CASE k = 0
        BY <1>1, <1>3, <2>1, <3>1, <4>1
      <4>2. CASE k > 0
        <5>1. new[1] = days[1 + shift] /\ 1 + shift \in 1 .. n
          BY <2>1, <4>2
        <5>2. CASE shift = 0
          BY <1>2, <3>1, <5>1, <5>2
        <5>3. CASE shift = 1
          <6>1. 2 \in 1 .. n /\ new[1] = days[2]
            BY <5>1, <5>3
          <6>2. DayOf(days[1].ts) < DayOf(days[2].ts)
            BY <1>5, <3>1, <6>1
          <6>3. CASE days[1].ts > days[2].ts
            <7>1. DayOf(days[2].ts) <= DayOf(days[1].ts)
              BY <1>2, <3>1, <6>1, <6>3, DaysAscend, SMTT(20)
            <7> QED
              BY <1>4, <3>1, <6>1, <6>2, <7>1
          <6> QED
            BY <1>2, <3>1, <6>1, <6>3
        <5> QED
          BY <2>1, <5>2, <5>3
      <4> QED
        BY <2>1, <4>1, <4>2
    <3>4. new[1].ts \in Nat
      <4>1. 1 \in 1 .. Len(new) /\ new[1] \in Peaks
        BY <2>1
      <4> QED
        BY <4>1 DEF Peaks
    <3>5. x.ts >= days[1].ts
      BY <1>2, <3>1, <3>2, <3>3, <3>4
    <3>6. PICK i \in 1 .. n : DayOf(x.ts) = DayOf(days[i].ts) /\ x.speed <= days[i].tok_s
      BY <3>1, <3>5
    <3>7. CASE i - shift \in 1 .. k
      <4>1. i - shift \in 1 .. k + 1 /\ new[i - shift] = days[i]
        <5>1. (i - shift) + shift = i
          BY <2>1
        <5> QED
          BY <2>1, <3>7, <5>1
      <4> QED
        BY <3>6, <4>1
    <3>8. CASE i - shift \notin 1 .. k
      <4>1. CASE k + shift = n
        <5>1. shift = 1 /\ i = 1
          BY <1>1, <2>1, <3>8, <4>1
        <5>2. CASE k = 0
          \* Only the sample's own day is left, and what is not before it is on it.
          <6>1. new[1] = peak
            BY <2>1, <5>2
          <6>2. x.ts = s.ts
            BY <1>1, <3>2, <6>1
          <6>3. DayOf(days[1].ts) = DayOf(s.ts)
            BY <3>6, <5>1, <6>2
          <6>4. DayOf(days[1].ts) < DayOf(peak.ts)
            BY <1>10, <3>1, <5>1, <5>2
          <6> QED
            BY <1>1, <1>7, <6>3, <6>4
        <5>3. CASE k > 0
          <6>1. 2 \in 1 .. n /\ new[1] = days[2]
            BY <2>1, <4>1, <5>1, <5>3
          <6>2. DayOf(days[1].ts) < DayOf(days[2].ts)
            BY <1>5, <3>1, <6>1
          <6>3. DayOf(days[2].ts) <= DayOf(x.ts)
            BY <1>2, <3>2, <6>1, DaysAscend
          <6> QED
            BY <1>4, <3>1, <3>6, <5>1, <6>1, <6>2, <6>3
        <5> QED
          BY <2>1, <5>2, <5>3
      <4>2. CASE k + shift # n
        <5>1. /\ k + 1 = n /\ shift = 0 /\ DayOf(days[n].ts) = DayOf(peak.ts)
              /\ days[n].tok_s < peak.tok_s
          BY <1>10, <4>2
        <5>2. i = n
          BY <1>1, <2>1, <3>8, <5>1
        <5>3. x.speed <= peak.tok_s /\ DayOf(x.ts) = DayOf(peak.ts)
          BY <1>1, <1>2, <3>2, <3>6, <5>1, <5>2
        <5> QED
          BY <2>1, <2>2, <5>3
      <4> QED
        BY <4>1, <4>2
    <3> QED
      BY <3>7, <3>8
  <2> QED
    BY <2>3, <2>4
<1>11. CASE days # <<>> /\ DayOf(days[n].ts) = DayOf(peak.ts)
  <2>1. n > 0 /\ n \in 1 .. n /\ n - 1 \in Nat
    BY <1>1, <1>11
  <2>2. CASE peak.tok_s > days[n].tok_s /\ Became(new, days, peak, n - 1, 0)
    <3>1. \A i \in 1 .. (n - 1) + 0 : DayOf(days[i].ts) < DayOf(peak.ts)
      <4>1. \A i \in 1 .. n - 1 : i \in 1 .. n /\ i < n
        BY <2>1
      <4>2. \A i \in 1 .. n - 1 : DayOf(days[i].ts) < DayOf(days[n].ts)
        BY <1>5, <2>1, <4>1
      <4> QED
        BY <1>11, <2>1, <4>2
    <3>2. (n - 1) + 1 = n /\ (n - 1) + 1 <= PeakDays /\ days[n].tok_s < peak.tok_s
      BY <1>1, <1>2, <2>1, <2>2
    <3>3. new \in Seq(Peaks) /\ PeaksAre(new, T \cup {s})
      BY <1>9, <2>2, <3>1, <3>2
    <3>4. \A from \in Nat : Covered(days, T, from) => Covered(new, T \cup {s}, from)
      BY <1>10, <1>11, <2>2, <3>2
    <3> QED
      BY <3>3, <3>4 DEF new, peak
  <2>3. CASE peak.tok_s <= days[n].tok_s /\ new = days
    <3>1. PeaksAre(new, T \cup {s})
      BY <2>3 DEF PeaksAre
    <3>2. ASSUME NEW from \in Nat, Covered(days, T, from) PROVE Covered(new, T \cup {s}, from)
      <4>1. DayOf(s.ts) = DayOf(days[n].ts) /\ s.speed <= days[n].tok_s
        BY <1>1, <1>11, <2>3
      <4> QED
        BY <1>11, <2>1, <2>3, <3>2, <4>1 DEF Covered
    <3> QED
      BY <2>3, <3>1, <3>2 DEF new, peak
  <2> QED
    BY <1>8, <1>11, <2>2, <2>3
<1>12. CASE days = <<>> \/ DayOf(days[n].ts) # DayOf(peak.ts)
  <2>1. ASSUME NEW i \in 1 .. n PROVE DayOf(days[i].ts) < DayOf(peak.ts)
    <3>1. days # <<>> /\ n \in 1 .. n /\ (i < n \/ i = n)
      BY <1>1
    <3>2. DayOf(days[n].ts) < DayOf(peak.ts) /\ DayOf(days[n].ts) \in Nat /\ DayOf(peak.ts) \in Nat
      BY <1>1, <1>4, <1>7, <1>12, <3>1
    <3>3. DayOf(days[i].ts) <= DayOf(days[n].ts) /\ DayOf(days[i].ts) \in Nat
      BY <1>4, <1>5, <3>1
    <3> QED
      BY <3>2, <3>3
  <2>2. CASE n < PeakDays /\ Became(new, days, peak, n, 0)
    <3>1. n + 1 <= PeakDays /\ n + 0 = n
      BY <1>1, <2>2
    <3>2. new \in Seq(Peaks) /\ PeaksAre(new, T \cup {s})
      BY <1>9, <2>1, <2>2, <3>1
    <3>3. \A from \in Nat : Covered(days, T, from) => Covered(new, T \cup {s}, from)
      BY <1>10, <2>1, <2>2, <3>1
    <3> QED
      BY <3>2, <3>3 DEF new, peak
  <2>3. CASE n = PeakDays /\ Became(new, days, peak, n - 1, 1)
    <3>1. (n - 1) + 1 <= PeakDays /\ (n - 1) + 1 = n
      BY <1>1, <2>3
    <3>2. new \in Seq(Peaks) /\ PeaksAre(new, T \cup {s})
      BY <1>9, <2>1, <2>3, <3>1
    <3>3. \A from \in Nat : Covered(days, T, from) => Covered(new, T \cup {s}, from)
      BY <1>10, <2>1, <2>3, <3>1
    <3> QED
      BY <3>2, <3>3 DEF new, peak
  <2> QED
    BY <1>8, <1>12, <2>2, <2>3
<1> QED
  BY <1>11, <1>12

-----------------------------------------------------------------------------
(***************************************************************************)
(* The tiers: what a pipeline and its tables are made of                   *)
(***************************************************************************)
TablesOf(V) == UNION {[D -> V] : D \in FiniteSubsets(Nat)}

Aggs == [in: SUBSET Nat, n: Nat, tok: Nat]
Rollers == [bucket: Nat \cup {None}, acc: Aggs]
GateLogs == [bucket: Nat \cup {None}, log: TablesOf(Nat)]
Previous == Readings \cup {NoSample}
Pipes == [rollers: [Widths -> Rollers], gate: GateLogs, prev: Previous]
Dbs == [pipe: Pipes, rows: [Widths -> TablesOf(Aggs)], gatelog: TablesOf(TablesOf(Nat))]

TierType ==
    /\ samples \in Seq(Readings)
    /\ rows \in [Widths -> TablesOf(Aggs)] /\ gatelog \in TablesOf(TablesOf(Nat))
    /\ pipeline \in Pipes /\ last_prune \in Nat
    /\ backfill \in [owed: BOOLEAN, pipe: Pipes, from: Nat, until: Nat]

\* A bucket begins at a multiple of its width, and lasts for it.
LEMMA BucketIs ==
    ASSUME NEW res \in Nat \ {0}, NEW ts \in Nat
    PROVE  /\ BucketOf(res, ts) \in Nat /\ BucketOf(res, ts) <= ts /\ ts < BucketOf(res, ts) + res
           /\ \E k \in Nat : BucketOf(res, ts) = res * k
<1>1. ts % res \in 0 .. res - 1 /\ ts \div res \in Nat /\ ts = (res * (ts \div res)) + (ts % res)
  OBVIOUS
<1> DEFINE k == ts \div res
<1>2. res * k \in Nat /\ BucketOf(res, ts) = res * k
  <2>1. k \in Nat
    BY <1>1
  <2> HIDE DEF k
  <2>2. res * k \in Nat
    BY <2>1
  <2>3. ts - (ts % res) = res * k
    BY <1>1, <2>2 DEF k
  <2> QED
    BY <2>2, <2>3 DEF BucketOf
<1>3. BucketOf(res, ts) <= ts /\ ts < BucketOf(res, ts) + res
  BY <1>1 DEF BucketOf
<1> QED
  BY <1>1, <1>2, <1>3

\* A minute and ten minutes are the widths, and take time.
LEMMA WidthsAre ==
    /\ Minute \in Nat \ {0} /\ TenMinutes \in Nat \ {0} /\ \A w \in Widths : w \in Nat \ {0}
    /\ Minute \in Widths /\ TenMinutes \in Widths
BY SamplesAssumption DEF Widths

\* The empty table is a table of anything.
LEMMA EmptyTable == ASSUME NEW V PROVE <<>> \in TablesOf(V)
<1>1. {} \in FiniteSubsets(Nat)
  BY FS_EmptySet DEF FiniteSubsets
<1>2. <<>> \in [{} -> V]
  OBVIOUS
<1> QED
  BY <1>1, <1>2 DEF TablesOf

\* A table has finitely many rows, each with a key.
LEMMA TableIs ==
    ASSUME NEW V, NEW table \in TablesOf(V)
    PROVE  DOMAIN table \in FiniteSubsets(Nat) /\ table \in [DOMAIN table -> V]
<1>1. PICK D \in FiniteSubsets(Nat) : table \in [D -> V]
  BY DEF TablesOf
<1>2. DOMAIN table = D
  BY <1>1
<1> QED
  BY <1>1, <1>2

\* A row that is put into a table leaves it one ...
LEMMA PutType ==
    ASSUME NEW V, NEW table \in TablesOf(V), NEW key \in Nat, NEW row \in V
    PROVE  Put(table, key, row) \in TablesOf(V)
<1> DEFINE D == DOMAIN table \cup {key}
<1>1. D \in FiniteSubsets(Nat)
  <2>1. DOMAIN table \in FiniteSubsets(Nat)
    BY TableIs
  <2> QED
    BY <2>1, FS_AddElement DEF FiniteSubsets
<1>2. Put(table, key, row) \in [D -> V]
  BY TableIs DEF Put
<1> QED
  BY <1>1, <1>2 DEF TablesOf

\* ... as does one that is written, over another or not ...
LEMMA WriteType ==
    ASSUME NEW V, NEW table \in TablesOf(V), NEW key \in Nat, NEW row \in V, NEW replace
    PROVE  Write(table, key, row, replace) \in TablesOf(V)
BY PutType DEF Write

\* ... and what the retention keeps of a table ...
LEMMA KeptType ==
    ASSUME NEW V, NEW table \in TablesOf(V), NEW t, NEW keep
    PROVE  Kept(t, table, keep) \in TablesOf(V)
<1> DEFINE D == {b \in DOMAIN table : b >= t - keep}
<1>1. DOMAIN table \in FiniteSubsets(Nat) /\ table \in [DOMAIN table -> V]
  BY TableIs
<1>2. D \in FiniteSubsets(Nat)
  BY <1>1, FS_Subset DEF FiniteSubsets
<1>3. Kept(t, table, keep) \in [D -> V]
  BY <1>1 DEF Kept
<1> QED
  BY <1>2, <1>3 DEF TablesOf

\* ... and the users of a log that is merged.
LEMMA MergeType ==
    ASSUME NEW log \in TablesOf(Nat), NEW seen \in FiniteSubsets(Nat)
    PROVE  Merge(log, seen) \in TablesOf(Nat)
<1> DEFINE D == DOMAIN log \cup seen
<1>1. DOMAIN log \in FiniteSubsets(Nat) /\ log \in [DOMAIN log -> Nat]
  BY TableIs
<1>2. D \in FiniteSubsets(Nat)
  BY <1>1, FS_Union DEF FiniteSubsets
<1>3. \A l \in D : (IF l \in DOMAIN log THEN log[l] ELSE 0) + (IF l \in seen THEN 1 ELSE 0) \in Nat
  BY <1>1
<1>4. Merge(log, seen) \in [D -> Nat]
  BY <1>3 DEF Merge
<1> QED
  BY <1>2, <1>4 DEF TablesOf

\* Growth is never negative: a counter that fell began again.
LEMMA GrowthType ==
    ASSUME NEW p \in Previous, NEW s \in Readings
    PROVE  Growth(p, s) \in Nat
<1>1. s.count \in Nat \cup {None}
  BY DEF Readings, SampleType
<1>2. p.count \in Nat \cup {None}
  BY NoSampleIs DEF Previous, Readings, SampleType
<1> QED
  BY <1>1, <1>2 DEF Growth

\* A roller stays one when a sample is added.
LEMMA AddToType ==
    ASSUME NEW roller \in Rollers, NEW res \in Nat \ {0}, NEW s \in Readings, NEW tok \in Nat
    PROVE  AddTo(roller, res, s, tok) \in Rollers
<1> DEFINE start == BucketOf(res, s.ts)
           acc == IF roller.bucket = start THEN roller.acc ELSE EmptyAgg
<1>1. s.ts \in Nat /\ start \in Nat
  <2>1. s.ts \in Nat
    BY DEF Readings
  <2> QED
    BY <2>1, BucketIs
<1>2. acc \in Aggs
  BY DEF Rollers, EmptyAgg, Aggs
<1>3. acc.in \cup {s.ts} \in SUBSET Nat /\ acc.n + 1 \in Nat /\ acc.tok + tok \in Nat
  <2> HIDE DEF acc
  <2>1. acc.in \in SUBSET Nat /\ acc.n \in Nat /\ acc.tok \in Nat
    BY <1>2 DEF Aggs
  <2> QED
    BY <1>1, <2>1
<1>4. AddTo(roller, res, s, tok) =
        [bucket |-> start,
         acc |-> [in |-> acc.in \cup {s.ts}, n |-> acc.n + 1, tok |-> acc.tok + tok]]
  BY DEF AddTo
<1> HIDE DEF acc, start
<1> QED
  BY <1>1, <1>3, <1>4 DEF Rollers, Aggs

\* The three tables and the rollers stay what they are when a sample is pushed.
LEMMA PushType ==
    ASSUME NEW db \in Dbs, NEW s \in Readings, NEW replace
    PROVE  Push(db, s, replace) \in Dbs
<1> DEFINE tok == Growth(db.pipe.prev, s)
           ten == BucketOf(TenMinutes, s.ts)
           gate == db.pipe.gate
           new == Push(db, s, replace)
<1>1. /\ db.pipe \in Pipes /\ db.rows \in [Widths -> TablesOf(Aggs)]
      /\ db.gatelog \in TablesOf(TablesOf(Nat))
  BY DEF Dbs
<1>2. db.pipe.rollers \in [Widths -> Rollers] /\ gate \in GateLogs /\ db.pipe.prev \in Previous
  BY <1>1 DEF Pipes
<1>3. tok \in Nat
  BY <1>2, GrowthType
<1>4. s.ts \in Nat /\ ten \in Nat /\ s.log \in FiniteSubsets(Nat)
  <2>1. s.ts \in Nat /\ s.log \in FiniteSubsets(Nat)
    BY DEF Readings, SampleType, FiniteSubsets
  <2> QED
    BY <2>1, WidthsAre, BucketIs
<1> HIDE DEF tok, ten
<1>5. \A w \in Widths : AddTo(db.pipe.rollers[w], w, s, tok) \in Rollers
  BY <1>2, <1>3, WidthsAre, AddToType
<1>6. new.pipe.rollers = [w \in Widths |-> AddTo(db.pipe.rollers[w], w, s, tok)]
  BY DEF Push, tok
<1>7. new.pipe.gate = [bucket |-> ten,
                       log |-> Merge(IF gate.bucket = ten THEN gate.log ELSE <<>>, s.log)]
  BY DEF Push, ten
<1>8. new.pipe.gate \in GateLogs
  <2>1. gate.log \in TablesOf(Nat) /\ <<>> \in TablesOf(Nat)
    BY <1>2, EmptyTable DEF GateLogs
  <2>2. Merge(gate.log, s.log) \in TablesOf(Nat) /\ Merge(<<>>, s.log) \in TablesOf(Nat)
    BY <1>4, <2>1, MergeType
  <2>3. Merge(IF gate.bucket = ten THEN gate.log ELSE <<>>, s.log) \in TablesOf(Nat)
    BY <2>2
  <2> QED
    BY <1>4, <1>7, <2>3 DEF GateLogs
<1>9. new.pipe = [rollers |-> new.pipe.rollers, gate |-> new.pipe.gate, prev |-> s]
  BY DEF Push
<1>10. new.pipe \in Pipes
  <2>1. new.pipe.rollers \in [Widths -> Rollers]
    BY <1>5, <1>6
  <2>2. s \in Previous
    BY DEF Previous
  <2> HIDE DEF new
  <2> QED
    BY <1>8, <1>9, <2>1, <2>2 DEF Pipes
<1>11. new.rows \in [Widths -> TablesOf(Aggs)]
  <2> DEFINE row(w) == IF Closes(db.pipe.rollers[w], w, s.ts)
                       THEN Write(db.rows[w], db.pipe.rollers[w].bucket, db.pipe.rollers[w].acc, replace)
                       ELSE db.rows[w]
  <2>1. new.rows = [w \in Widths |-> row(w)]
    BY DEF Push
  <2>2. ASSUME NEW w \in Widths PROVE row(w) \in TablesOf(Aggs)
    <3>1. db.pipe.rollers[w] \in Rollers /\ db.rows[w] \in TablesOf(Aggs)
      BY <1>1, <1>2
    <3>2. db.pipe.rollers[w].bucket \in Nat \cup {None} /\ db.pipe.rollers[w].acc \in Aggs
      BY <3>1 DEF Rollers
    <3>3. Closes(db.pipe.rollers[w], w, s.ts) => db.pipe.rollers[w].bucket \in Nat
      BY <3>2 DEF Closes
    <3> QED
      BY <3>1, <3>2, <3>3, WriteType
  <2> HIDE DEF row
  <2> QED
    BY <2>1, <2>2
<1>12. new.gatelog \in TablesOf(TablesOf(Nat))
  <2>1. gate.bucket \in Nat \cup {None} /\ gate.log \in TablesOf(Nat)
    BY <1>2 DEF GateLogs
  <2>2. new.gatelog = IF Closes(gate, TenMinutes, s.ts) /\ gate.log # <<>>
                      THEN Write(db.gatelog, gate.bucket, gate.log, replace)
                      ELSE db.gatelog
    BY DEF Push
  <2>3. Closes(gate, TenMinutes, s.ts) => gate.bucket \in Nat
    BY <2>1 DEF Closes
  <2> HIDE DEF gate
  <2>4. Closes(gate, TenMinutes, s.ts) =>
            Write(db.gatelog, gate.bucket, gate.log, replace) \in TablesOf(TablesOf(Nat))
    BY <1>1, <2>1, <2>3, WriteType
  <2> QED
    BY <1>1, <2>2, <2>4
<1>13. new = [pipe |-> new.pipe, rows |-> new.rows, gatelog |-> new.gatelog]
  BY DEF Push
<1> HIDE DEF new
<1>14. new \in Dbs
  BY <1>10, <1>11, <1>12, <1>13 DEF Dbs
<1> QED
  BY <1>14 DEF new

\* PushAll is a push after the other.
Pushes(acc, db, seq) ==
    /\ acc \in [0 .. Len(seq) -> Dbs] /\ acc[0] = db
    /\ \A i \in 1 .. Len(seq) : acc[i] = Push(acc[i - 1], seq[i], FALSE)

\* PushAll pushes one sample after another.
LEMMA PushAllPushes ==
    ASSUME NEW db \in Dbs, NEW seq \in Seq(Readings)
    PROVE  \E acc : Pushes(acc, db, seq) /\ PushAll(db, seq) = acc[Len(seq)]
<1> DEFINE n == Len(seq)
           P(h) == h = [s \in SUBSET (DOMAIN seq) |->
                          IF s = {} THEN db ELSE Push(h[s \ {Max(s)}], seq[Max(s)], FALSE)]
           iter == CHOOSE h : P(h)
           step == [p \in (1 .. n) \X Dbs |-> Push(p[2], seq[p[1]], FALSE)]
<1>1. n \in Nat /\ DOMAIN seq = 1 .. n /\ \A i \in 1 .. n : seq[i] \in Readings
  OBVIOUS
<1>2. step \in [(1 .. n) \X Dbs -> Dbs]
  BY <1>1, PushType
<1>3. PICK g \in [SUBSET (1 .. n) -> Dbs] : FoldsUp(g, n, db, step)
  <2> HIDE DEF n, step
  <2> QED
    BY <1>1, <1>2, FoldUpExists
<1>4. g[{}] = db
  BY <1>3 DEF FoldsUp
<1>5. ASSUME NEW s \in SUBSET (1 .. n), s # {}
      PROVE  Max(s) \in s /\ g[s] = Push(g[s \ {Max(s)}], seq[Max(s)], FALSE)
  <2>1. Max(s) \in s /\ g[s] = step[<<Max(s), g[s \ {Max(s)}]>>]
    <3> HIDE DEF step
    <3> QED
      BY <1>3, <1>5 DEF FoldsUp
  <2>2. g[s \ {Max(s)}] \in Dbs /\ Max(s) \in 1 .. n
    BY <1>3, <2>1
  <2> QED
    BY <2>1, <2>2
<1>6. P(g)
  <2>1. g = [s \in SUBSET (1 .. n) |-> g[s]]
    BY <1>3
  <2>2. \A s \in SUBSET (1 .. n) :
            g[s] = IF s = {} THEN db ELSE Push(g[s \ {Max(s)}], seq[Max(s)], FALSE)
    BY <1>4, <1>5
  <2> HIDE DEF n
  <2> QED
    BY <1>1, <2>1, <2>2
<1>7. P(iter)
  <2> HIDE DEF P
  <2> QED
    BY <1>6, Zenon
<1>8. PushAll(db, seq) = iter[DOMAIN seq]
  BY DEF PushAll, FoldLeft, MapThenFoldSet
<1> HIDE DEF iter
<1>9. iter[1 .. n] = g[1 .. n]
  <2> DEFINE ch == [s \in SUBSET (1 .. n) |-> Max(s)]
  <2>1. iter[{}] = g[{}]
    BY <1>1, <1>4, <1>7
  <2>2. ASSUME NEW s \in SUBSET (1 .. n), s # {}
        PROVE  ch[s] \in s /\ (iter[s \ {ch[s]}] = g[s \ {ch[s]}] => iter[s] = g[s])
    <3>1. ch[s] = Max(s)
      OBVIOUS
    <3>2. iter[s] = Push(iter[s \ {Max(s)}], seq[Max(s)], FALSE)
      BY <1>1, <1>7, <2>2
    <3> HIDE DEF ch, P
    <3> QED
      BY <1>5, <2>2, <3>1, <3>2
  <2>3. FoldAlike(ch, 1 .. n, iter, g)
    <3> HIDE DEF ch, P, n
    <3> QED
      BY <2>1, <2>2 DEF FoldAlike
  <2>4. IsFiniteSet(1 .. n)
    BY <1>1, FS_Interval
  <2> HIDE DEF ch, P, n
  <2> QED
    BY <2>3, <2>4, FoldsAgree
<1> DEFINE acc == [i \in 0 .. n |-> UpTo(g, i)]
<1>10. GoesUp(g, n, Dbs, db, step)
  <2> HIDE DEF n, step
  <2> QED
    BY <1>1, <1>2, <1>3, FoldGoesUp
<1>11. acc \in [0 .. n -> Dbs] /\ acc[0] = db /\ acc[n] = g[1 .. n]
  <2> HIDE DEF step, P
  <2> QED
    BY <1>1, <1>10 DEF GoesUp, UpTo
<1>12. ASSUME NEW i \in 1 .. n PROVE acc[i] = Push(acc[i - 1], seq[i], FALSE)
  <2>1. UpTo(g, i) = step[<<i, UpTo(g, i - 1)>>]
    <3> HIDE DEF step, n
    <3> QED
      BY <1>10 DEF GoesUp
  <2>2. i \in 0 .. n /\ i - 1 \in 0 .. n
    BY <1>1
  <2>3. UpTo(g, i - 1) \in Dbs
    BY <1>10, <2>2 DEF GoesUp
  <2>4. <<i, UpTo(g, i - 1)>> \in (1 .. n) \X Dbs
    BY <2>3
  <2>5. step[<<i, UpTo(g, i - 1)>>] = Push(UpTo(g, i - 1), seq[i], FALSE)
    BY <2>4
  <2> HIDE DEF step, P
  <2> QED
    BY <2>1, <2>2, <2>5
<1>13. Pushes(acc, db, seq)
  <2> HIDE DEF step, P, acc
  <2> QED
    BY <1>11, <1>12 DEF Pushes
<1>14. PushAll(db, seq) = acc[Len(seq)]
  <2> HIDE DEF step, P, acc
  <2> QED
    BY <1>1, <1>8, <1>9, <1>11
<1> QED
  BY <1>13, <1>14

\* So do they when many are.
LEMMA PushAllType ==
    ASSUME NEW db \in Dbs, NEW seq \in Seq(Readings)
    PROVE  PushAll(db, seq) \in Dbs
<1>1. PICK acc : Pushes(acc, db, seq) /\ PushAll(db, seq) = acc[Len(seq)]
  BY PushAllPushes
<1>2. Len(seq) \in 0 .. Len(seq)
  OBVIOUS
<1> QED
  BY <1>1, <1>2 DEF Pushes

\* The tokens of a table are a natural number.
LEMMA TokensAreNatural ==
    ASSUME NEW table \in TablesOf(Aggs)
    PROVE  Tokens(table) \in Nat
<1> DEFINE D == DOMAIN table
           f == [b \in D |-> table[b].tok]
           P(h) == h = [s \in SUBSET D |->
                          IF s = {} THEN 0
                          ELSE table[CHOOSE b \in s : TRUE].tok + h[s \ {CHOOSE b \in s : TRUE}]]
           iter == CHOOSE h : P(h)
<1>1. IsFiniteSet(D) /\ \A b \in D : f[b] \in Nat /\ f[b] \in Int
  <2>1. D \in FiniteSubsets(Nat) /\ table \in [D -> Aggs]
    BY TableIs
  <2> HIDE DEF D
  <2> QED
    BY <2>1 DEF FiniteSubsets, Aggs
<1>2. ASSUME NEW s \in SUBSET D, s # {}
      PROVE  table[CHOOSE b \in s : TRUE].tok = f[CHOOSE b \in s : TRUE]
  <2>1. (CHOOSE b \in s : TRUE) \in D
    BY <1>2
  <2> QED
    BY <2>1
<1>3. ASSUME NEW h PROVE P(h) <=> SumsAsLibrary(h, f, D)
  BY <1>2 DEF SumsAsLibrary
<1>4. PICK h : SumsAsLibrary(h, f, D)
  <2> HIDE DEF f, D
  <2> QED
    BY <1>1, SumsExist
<1>5. P(h)
  <2> HIDE DEF P, f, D
  <2> QED
    BY <1>3, <1>4
<1>6. P(iter)
  <2> HIDE DEF P
  <2> QED
    BY <1>5, Zenon
<1>7. Tokens(table) = iter[D]
  BY DEF Tokens, MapThenSumSet, MapThenFoldSet
<1> HIDE DEF iter
<1>8. SumsAsLibrary(iter, f, D)
  BY <1>3, <1>6
<1>9. iter[D] = SumOver(f, D) /\ SumOver(f, D) \in Nat
  <2> HIDE DEF f, D, P
  <2> QED
    BY <1>1, <1>8, SumsAreAlike, SumOfNaturals
<1> QED
  BY <1>7, <1>9

\* A selection of samples is a sequence of samples.
LEMMA SelectedType ==
    ASSUME NEW S, NEW seq \in Seq(S), NEW set
    PROVE  Selected(seq, set) \in Seq(S)
BY SelectedIs

\* What a restart replays, and what it makes of it, is of the types of the tables.
LEMMA ReplayType ==
    ASSUME TierType, NEW t \in Nat
    PROVE  /\ ToReplay(t) \in Seq(Readings) /\ Replayed(t) \in Dbs
           /\ Tables(NewPipeline) \in Dbs /\ NewPipeline \in Pipes
<1>1. samples \in Seq(Readings)
  BY DEF TierType
<1>2. ToReplay(t) \in Seq(Readings)
  BY <1>1, SelectedType DEF ToReplay, Between
<1>3. NewPipeline \in Pipes
  <2>1. NoBucket \in Rollers
    BY DEF NoBucket, Rollers, EmptyAgg, Aggs
  <2>2. [bucket |-> None, log |-> <<>>] \in GateLogs
    BY EmptyTable DEF GateLogs
  <2>3. NoSample \in Previous
    BY DEF Previous
  <2> QED
    BY <2>1, <2>2, <2>3 DEF NewPipeline, Pipes
<1>4. Tables(NewPipeline) \in Dbs
  BY <1>3 DEF Tables, Dbs, TierType
<1>5. Replayed(t) \in Dbs
  BY <1>2, <1>4, PushAllType DEF Replayed
<1> QED
  BY <1>2, <1>3, <1>4, <1>5

\* The types of the tables are kept by a start ...
LEMMA StartKeepsTierType ==
    ASSUME TierType, NEW t \in Nat, StartTiers(t)
    PROVE  TierType'
<1>1. Replayed(t) \in Dbs /\ NewPipeline \in Pipes
  BY ReplayType
<1>2. OpenFrom(t) \in Nat
  BY WidthsAre, BucketIs DEF OpenFrom
<1>3. /\ pipeline' = Replayed(t).pipe /\ rows' = Replayed(t).rows /\ gatelog' = Replayed(t).gatelog
      /\ last_prune' = 0 /\ samples' = samples
      /\ backfill' = IF backfill.owed
                     THEN [backfill EXCEPT !.pipe = NewPipeline, !.from = 0, !.until = OpenFrom(t)]
                     ELSE backfill
  BY DEF StartTiers
<1>4. /\ Replayed(t).pipe \in Pipes /\ Replayed(t).rows \in [Widths -> TablesOf(Aggs)]
      /\ Replayed(t).gatelog \in TablesOf(TablesOf(Nat))
  BY <1>1 DEF Dbs
<1>5. backfill' \in [owed: BOOLEAN, pipe: Pipes, from: Nat, until: Nat]
  BY <1>1, <1>2, <1>3 DEF TierType
<1> QED
  BY <1>3, <1>4, <1>5 DEF TierType

\* ... by what a poll stores ...
LEMMA StoreKeepsTierType ==
    ASSUME TierType, NEW s \in Readings, StoreAndFold(s) \/ StoreOnly(s)
    PROVE  TierType'
<1>1. Append(samples, s) \in Seq(Readings)
  BY DEF TierType
<1>2. CASE StoreOnly(s)
  BY <1>1, <1>2 DEF StoreOnly, TierType
<1>3. CASE StoreAndFold(s)
  <2> DEFINE db == Push(Tables(pipeline), s, TRUE)
             prune == PruneDue(s.ts)
             stored == Append(samples, s)
             young == {x \in ToSet(stored) : x.ts >= s.ts - KeepRaw}
             keep(w) == IF w = Minute THEN KeepM1 ELSE KeepM10
  <2>1. Tables(pipeline) \in Dbs
    BY DEF Tables, Dbs, TierType
  <2>2. db \in Dbs
    BY <2>1, PushType
  <2>3. /\ pipeline' = db.pipe
        /\ samples' = IF prune THEN Selected(stored, young) ELSE stored
        /\ rows' = IF prune THEN [w \in Widths |-> Kept(s.ts, db.rows[w], keep(w))] ELSE db.rows
        /\ gatelog' = IF prune THEN Kept(s.ts, db.gatelog, KeepM10) ELSE db.gatelog
        /\ last_prune' = IF prune THEN s.ts ELSE last_prune
        /\ backfill' = backfill
    BY <1>3 DEF StoreAndFold
  <2> HIDE DEF db, prune, young, keep
  <2>4. Selected(stored, young) \in Seq(Readings)
    BY <1>1, SelectedType
  <2>5. /\ db.pipe \in Pipes /\ db.rows \in [Widths -> TablesOf(Aggs)]
        /\ db.gatelog \in TablesOf(TablesOf(Nat))
    BY <2>2 DEF Dbs
  <2>6. \A w \in Widths : Kept(s.ts, db.rows[w], keep(w)) \in TablesOf(Aggs)
    BY <2>5, KeptType
  <2>7. Kept(s.ts, db.gatelog, KeepM10) \in TablesOf(TablesOf(Nat))
    BY <2>5, KeptType
  <2>8. s.ts \in Nat
    BY DEF Readings
  <2>9. rows' \in [Widths -> TablesOf(Aggs)] /\ gatelog' \in TablesOf(TablesOf(Nat))
    BY <2>3, <2>5, <2>6, <2>7
  <2> QED
    BY <1>1, <2>3, <2>4, <2>5, <2>8, <2>9 DEF TierType
<1> QED
  BY <1>2, <1>3

\* ... and by the backfill.
LEMMA BackfillKeepsTierType ==
    ASSUME TierType, BackfillChunk \/ BackfillDone
    PROVE  TierType'
<1>1. CASE BackfillDone
  BY <1>1 DEF BackfillDone, TierType
<1>2. CASE BackfillChunk
  <2> DEFINE left == Between(backfill.from, backfill.until)
             end == BucketOf(Chunk, left[1].ts) + Chunk
             to == IF end < backfill.until THEN end ELSE backfill.until
             part == Between(left[1].ts, to)
             db == PushAll(Tables(backfill.pipe), part)
  <2>1. left \in Seq(Readings) /\ part \in Seq(Readings)
    <3>1. samples \in Seq(Readings)
      BY DEF TierType
    <3> QED
      BY <3>1, SelectedType DEF Between
  <2>2. to \in Nat
    <3>1. left # <<>>
      BY <1>2 DEF BackfillChunk
    <3>2. 1 \in 1 .. Len(left)
      <4> HIDE DEF left
      <4> QED
        BY <2>1, <3>1, EmptySeq
    <3>3. left[1] \in Readings
      <4> HIDE DEF left
      <4> QED
        BY <2>1, <3>2
    <3>4. left[1].ts \in Nat /\ backfill.until \in Nat
      BY <3>3 DEF Readings, TierType
    <3>5. Chunk \in Nat \ {0}
      BY TiersAssumption
    <3> HIDE DEF left
    <3>6. end \in Nat
      <4>1. BucketOf(Chunk, left[1].ts) \in Nat
        BY <3>4, <3>5, BucketIs
      <4> QED
        BY <3>5, <4>1
    <3> QED
      BY <3>4, <3>6
  <2>3. /\ rows' = db.rows /\ gatelog' = db.gatelog
        /\ backfill' = [backfill EXCEPT !.pipe = db.pipe, !.from = to]
        /\ UNCHANGED <<samples, pipeline, last_prune>>
    BY <1>2 DEF BackfillChunk
  <2> HIDE DEF part, to, left, end
  <2>4. Tables(backfill.pipe) \in Dbs
    BY DEF Tables, Dbs, TierType
  <2>5. db \in Dbs
    BY <2>1, <2>4, PushAllType
  <2> HIDE DEF db
  <2> QED
    BY <2>2, <2>3, <2>5 DEF TierType, Dbs
<1> QED
  BY <1>1, <1>2

-----------------------------------------------------------------------------
(***************************************************************************)
(* The books                                                               *)
(***************************************************************************)
PeaksKept ==
    /\ PeaksAre(all_time.day_peaks, taken) /\ PeaksAre(saved.day_peaks, taken)
    /\ alive => Covered(all_time.day_peaks, taken, started_at)

LedgerInv == Outside /\ TierType /\ LedgerType /\ LedgerStands /\ PeaksKept

\* Peaks of some samples are peaks of more of them.
LEMMA PeaksOfMore ==
    ASSUME NEW days, NEW T, NEW s, PeaksAre(days, T)
    PROVE  PeaksAre(days, T \cup {s})
BY DEF PeaksAre

\* The types of the history are kept by a reading.
LEMMA ReadingKeepsTypes ==
    ASSUME LedgerInv, NEW s, ReadingFacts(s), BooksRead(s), s.count # None
    PROVE  /\ booked' \in Standings /\ shown' \in Int /\ forfeited' \in Int
           /\ misfiled' \in BOOLEAN /\ blind' \in BOOLEAN
           /\ (kept' = booked' \/ kept' = kept)
<1> DEFINE first == booked.life = 0
           goes_on == read.life = s.life
           another == ~first /\ booked.life # s.life
<1>1. /\ s.count \in Nat /\ s.life \in Nat /\ s.life # 0 /\ s.started \in Nat
  BY DEF ReadingFacts
<1>2. /\ shown' = shown + (IF first /\ read = NoSample THEN 0
                           ELSE IF goes_on THEN s.count - read.count ELSE s.count)
      /\ booked' = [life |-> s.life, shown |-> shown',
                    epoch |-> IF s.started # 0 THEN s.started ELSE booked.epoch]
      /\ forfeited' = IF another
                      THEN forfeited + (shown - booked.shown) - (IF goes_on THEN read.count ELSE 0)
                      ELSE forfeited
      /\ misfiled' = \/ misfiled
                     \/ booked.life = s.life /\ s.started # 0 /\ booked.epoch \notin {0, s.started}
      /\ blind' = \/ blind
                  \/ /\ another /\ s.count >= all_time.last
                     /\ (s.started = 0 \/ booked.epoch \in {0, s.started})
      /\ kept' = IF s.ts - saved_at >= SaveEvery THEN booked' ELSE kept
  BY DEF BooksRead
<1>3. /\ booked.life \in Nat /\ booked.epoch \in Nat /\ booked.shown \in Int
      /\ shown \in Int /\ forfeited \in Int
  BY DEF LedgerInv, LedgerType, Standings
<1>4. read.life # 0 => read.count \in Nat
  BY DEF LedgerInv, Outside, ReadIsOfARun, Readings, SampleType, NoSample, None
<1>5. shown' \in Int
  <2>1. CASE first /\ read = NoSample
    BY <1>2, <1>3, <2>1
  <2>2. CASE ~(first /\ read = NoSample) /\ goes_on
    BY <1>1, <1>2, <1>3, <1>4, <2>2
  <2>3. CASE ~(first /\ read = NoSample) /\ ~goes_on
    BY <1>1, <1>2, <1>3, <2>3
  <2> QED
    BY <2>1, <2>2, <2>3
<1>6. forfeited' \in Int
  <2>1. CASE another /\ goes_on
    BY <1>1, <1>2, <1>3, <1>4, <2>1
  <2>2. CASE another /\ ~goes_on
    BY <1>2, <1>3, <2>2
  <2>3. CASE ~another
    BY <1>2, <1>3, <2>3
  <2> QED
    BY <2>1, <2>2, <2>3
<1>7. booked' \in Standings
  <2> HIDE DEF first, goes_on, another
  <2> QED
    BY <1>1, <1>2, <1>3, <1>5 DEF Standings
<1>8. misfiled' \in BOOLEAN /\ blind' \in BOOLEAN
  <2>1. misfiled \in BOOLEAN /\ blind \in BOOLEAN
    BY DEF LedgerInv, LedgerType
  <2> HIDE DEF first, goes_on, another
  <2>2. misfiled' \in BOOLEAN
    BY <1>2, <2>1, Zenon
  <2>3. blind' \in BOOLEAN
    BY <1>2, <2>1, Zenon
  <2> QED
    BY <2>2, <2>3
<1> QED
  BY <1>2, <1>5, <1>6, <1>7, <1>8

\* The peaks after a poll, and what they are.
LEMMA PollKeepsPeaks ==
    ASSUME LedgerInv, NEW s, NEW e, Polls(s, e), ObserveLedger(s), alive' = alive,
           started_at' = started_at
    PROVE  /\ all_time' \in AllTimeType /\ saved' \in AllTimeType /\ saved_at' \in Nat
           /\ PeaksKept'
<1>1. /\ s \in Readings /\ s.ts \in Nat /\ s.ts >= now /\ taken' = taken \cup {s} /\ alive
      /\ now \in Nat /\ taken \in SUBSET Readings /\ \A x \in taken : x.ts <= now
      /\ started_at \in Nat
  BY DEF Polls, Readings, LedgerInv, Outside, OutsideType, TakenIsPast
<1>2. /\ all_time \in AllTimeType /\ saved \in AllTimeType /\ saved_at \in Nat
  BY DEF LedgerInv, LedgerType
<1>3. /\ PeaksAre(all_time.day_peaks, taken) /\ PeaksAre(saved.day_peaks, taken)
      /\ Covered(all_time.day_peaks, taken, started_at)
  BY <1>1 DEF LedgerInv, PeaksKept
<1>4. /\ PeaksAre(all_time.day_peaks, taken \cup {s}) /\ PeaksAre(saved.day_peaks, taken \cup {s})
  BY <1>3, PeaksOfMore
<1>5. CASE s.count = None
  <2>1. all_time' = all_time /\ saved' = saved /\ saved_at' = saved_at
    BY <1>5 DEF ObserveLedger, ledger_vars
  <2>2. Covered(all_time.day_peaks, taken \cup {s}, started_at)
    BY <1>3, <1>5 DEF Covered
  <2> QED
    BY <1>1, <1>2, <1>4, <2>1, <2>2 DEF PeaksKept
<1>6. CASE s.count # None
  <2> DEFINE days == all_time.day_peaks
             peak == [tok_s |-> s.speed, ts |-> s.ts]
             new == IF s.speed > 0 THEN DayPeaks(days, peak) ELSE days
  <2>0. s.speed \in Nat /\ s.started \in Nat /\ s.count \in Nat
    BY <1>1, <1>6 DEF Readings, SampleType
  <2>1. /\ all_time' = Observed(all_time, s)
        /\ saved' = IF s.ts - saved_at >= SaveEvery THEN all_time' ELSE saved
        /\ saved_at' = IF s.ts - saved_at >= SaveEvery THEN s.ts ELSE saved_at
    BY <1>6 DEF ObserveLedger
  <2>2. days \in Seq(Peaks)
    BY <1>2 DEF AllTimeType, Peaks
  <2>3. \A x \in taken : x.ts <= s.ts
    <3>1. \A x \in taken : x.ts \in Nat
      BY <1>1 DEF Readings
    <3> QED
      BY <1>1, <3>1
  <2>4. all_time'.day_peaks = new
    BY <2>1 DEF Observed
  <2>5. new \in Seq(Peaks) /\ PeaksAre(new, taken \cup {s}) /\ Covered(new, taken \cup {s}, started_at)
    <3>1. CASE s.speed > 0
      <4> HIDE DEF days
      <4>1. /\ DayPeaks(days, peak) \in Seq(Peaks) /\ PeaksAre(DayPeaks(days, peak), taken \cup {s})
            /\ \A from \in Nat : Covered(days, taken, from) =>
                   Covered(DayPeaks(days, peak), taken \cup {s}, from)
        BY <1>1, <1>3, <2>2, <2>3, <3>1, PeaksGoOn DEF days
      <4> QED
        BY <1>1, <1>3, <3>1, <4>1 DEF days
    <3>2. CASE ~(s.speed > 0)
      <4>1. Covered(days, taken \cup {s}, started_at)
        BY <1>3, <3>2 DEF Covered
      <4> QED
        BY <1>4, <2>2, <3>2, <4>1
    <3> QED
      BY <3>1, <3>2
  <2>6. all_time' \in AllTimeType
    <3> DEFINE a == Observed(all_time, s)
    <3>1. /\ a.since = IF all_time.since = 0 THEN s.ts ELSE all_time.since
          /\ a.last = s.count
          /\ a.epoch = IF s.started # 0 THEN s.started ELSE all_time.epoch
          /\ a.total = all_time.total + Added(all_time, s.count, IsReset(all_time, s.started))
          /\ Added(all_time, s.count, IsReset(all_time, s.started)) \in Nat
      <4> HIDE DEF a
      <4> QED
        BY <1>1, <1>2, <1>6, ObservedTotals DEF a
    <3>2. a.since \in Nat /\ a.last \in Nat /\ a.epoch \in Nat /\ a.total \in Nat
      <4>1. all_time.since \in Nat /\ all_time.epoch \in Nat /\ all_time.total \in Nat
        BY <1>2 DEF AllTimeType
      <4> HIDE DEF a
      <4> QED
        BY <1>1, <2>0, <3>1, <4>1
    <3>3. a.peak \in Peaks
      <4>1. all_time.peak \in Peaks /\ peak \in Peaks
        BY <1>1, <1>2, <2>0 DEF AllTimeType, Peaks
      <4>2. a.peak = IF s.speed > all_time.peak.tok_s THEN peak ELSE all_time.peak
        BY DEF Observed
      <4> QED
        BY <4>1, <4>2
    <3>4. a.day_peaks \in Seq(Peaks)
      BY <2>1, <2>4, <2>5
    <3>5. a = [since |-> a.since, total |-> a.total, last |-> a.last, epoch |-> a.epoch,
               peak |-> a.peak, day_peaks |-> a.day_peaks]
      BY DEF Observed
    <3> HIDE DEF a
    <3>6. a \in AllTimeType
      BY <3>2, <3>3, <3>4, <3>5 DEF AllTimeType, Peaks
    <3> QED
      BY <2>1, <3>6 DEF a
  <2>7. saved' \in AllTimeType /\ saved_at' \in Nat /\ PeaksAre(saved'.day_peaks, taken \cup {s})
    <3> HIDE DEF new
    <3> QED
      BY <1>1, <1>2, <1>4, <2>1, <2>4, <2>5, <2>6
  <2> HIDE DEF new
  <2> QED
    BY <1>1, <2>4, <2>5, <2>6, <2>7 DEF PeaksKept
<1> QED
  BY <1>5, <1>6

\* No day has a peak before the first sample.
LEMMA NoPeaks == ASSUME NEW T PROVE PeaksAre(<<>>, T) /\ <<>> \in Seq(Peaks)
<1>1. Len(<<>>) = 0 /\ PeakDays \in Nat /\ 1 .. 0 = {}
  BY LedgerAssumption
<1> QED
  BY <1>1 DEF PeaksAre

\* The ledger of a new collector is one.
LEMMA NewAllTimeType ==
    ASSUME NEW since \in Nat, NEW total \in Nat
    PROVE  /\ [NewAllTime EXCEPT !.since = since, !.total = total] \in AllTimeType
           /\ NewAllTime \in AllTimeType
<1>1. NoPeak \in [tok_s: Nat, ts: Nat] /\ <<>> \in Seq([tok_s: Nat, ts: Nat])
  BY DEF NoPeak
<1> QED
  BY <1>1 DEF NewAllTime, AllTimeType

\* The ledger is in order before the first poll.
LEMMA LedgerBegins == AccountsStart => LedgerInv
<1> SUFFICES ASSUME NEW stored \in Seq(SampleType), NEW t \in Nat, NEW owed \in BOOLEAN,
                    NEW e \in Engines,
                    \A i \in DOMAIN stored :
                        /\ stored[i].ts \in 0 .. t /\ stored[i].life <= e.life
                        /\ stored[i].ts >= e.started => stored[i].config = e.config
                        /\ \A l \in stored[i].log : l <= stored[i].ts
                        /\ \A j \in 1 .. i - 1 : stored[j].ts < stored[i].ts,
                    t >= SaveEvery, AccountsInit(stored, t, owed, e)
             PROVE  LedgerInv
  BY DEF AccountsStart
<1>1. /\ now = t /\ alive = FALSE /\ started_at = 0 /\ engine = e /\ lines = {}
      /\ samples = stored /\ rows = [w \in Widths |-> <<>>] /\ gatelog = <<>>
      /\ pipeline = NewPipeline /\ last_prune = 0
      /\ backfill = [owed |-> owed, pipe |-> NewPipeline, from |-> 0, until |-> 0]
      /\ all_time = NewAllTime /\ saved = NewAllTime /\ saved_at = 0
      /\ taken = ToSet(stored) /\ starts = {}
      /\ shown = 0 /\ read = NoSample /\ booked = Nothing /\ kept = Nothing /\ forfeited = 0
      /\ misfiled = FALSE /\ blind = FALSE
  BY DEF AccountsInit
<1>2. /\ Len(stored) \in Nat /\ DOMAIN stored = 1 .. Len(stored)
      /\ \A i \in 1 .. Len(stored) : stored[i] \in Readings /\ stored[i].ts <= t
  <2>1. \A i \in 1 .. Len(stored) : stored[i] \in SampleType
    OBVIOUS
  <2> QED
    BY <2>1 DEF Readings
<1>3. stored \in Seq(Readings)
  BY <1>2, IsASeq
<1>4. Outside
  <2>1. {} \in FiniteSubsets(Nat)
    BY FS_EmptySet DEF FiniteSubsets
  <2>2. taken \subseteq Readings /\ \A s \in taken : s.ts <= now
    BY <1>1, <1>2 DEF ToSet
  <2> QED
    BY <1>1, <2>1, <2>2 DEF Outside, OutsideType, TakenIsPast, ReadIsOfARun
<1>5. TierType
  <2>1. NewPipeline \in Pipes
    <3>1. NoBucket \in Rollers
      BY DEF NoBucket, Rollers, EmptyAgg, Aggs
    <3>2. [bucket |-> None, log |-> <<>>] \in GateLogs
      BY EmptyTable DEF GateLogs
    <3>3. NoSample \in Previous
      BY DEF Previous
    <3> QED
      BY <3>1, <3>2, <3>3 DEF NewPipeline, Pipes
  <2>2. [w \in Widths |-> <<>>] \in [Widths -> TablesOf(Aggs)] /\ <<>> \in TablesOf(TablesOf(Nat))
    BY EmptyTable
  <2> QED
    BY <1>1, <1>3, <2>1, <2>2 DEF TierType
<1>6. LedgerType
  <2>1. NewAllTime \in AllTimeType
    BY NewAllTimeType
  <2>2. Nothing \in Standings
    BY DEF Nothing, Standings
  <2>3. /\ all_time \in AllTimeType /\ saved \in AllTimeType /\ saved_at \in Nat
        /\ booked \in Standings /\ kept \in Standings
    BY <1>1, <2>1, <2>2
  <2>4. shown \in Int /\ forfeited \in Int
    BY <1>1
  <2>5. misfiled \in BOOLEAN /\ blind \in BOOLEAN
    BY <1>1, Zenon
  <2> QED
    BY <2>3, <2>4, <2>5 DEF LedgerType
<1>7. LedgerStands
  BY <1>1 DEF LedgerStands, Stands, NewAllTime, Nothing, NoSample, None
<1>8. PeaksKept
  BY <1>1, NoPeaks DEF PeaksKept, NewAllTime
<1> QED
  BY <1>4, <1>5, <1>6, <1>7, <1>8 DEF LedgerInv

\* It stays so in a poll that is stored ...
LEMMA PollKeepsBooks ==
    ASSUME LedgerInv, NEW s, NEW e, NEW logged \in FiniteSubsets(Nat), NEW described, NEW came,
           Polls(s, e), Poll(s, e, logged, described, came)
    PROVE  LedgerInv'
<1>1. /\ ObserveLedger(s) /\ StoreAndFold(s) /\ BooksRead(s) /\ lines' = logged
      /\ alive' = alive /\ started_at' = started_at /\ starts' = starts
  BY DEF Poll
<1>2. /\ s \in Readings /\ e \in Engines /\ s.ts >= now /\ alive /\ engine' = e /\ now' = s.ts
      /\ taken' = taken \cup {s}
  BY DEF Polls
<1>3. OutsideType /\ TakenIsPast /\ ReadIsOfARun /\ TierType /\ LedgerType /\ LedgerStands
  BY DEF LedgerInv, Outside
<1>4. s.count # None => ReadingFacts(s)
  BY <1>3, ReadingIsGood
<1>5. /\ all_time' \in AllTimeType /\ saved' \in AllTimeType /\ saved_at' \in Nat
      /\ PeaksKept'
  BY <1>1, PollKeepsPeaks
<1>6. LedgerStands'
  BY <1>1, <1>2, <1>3, <1>4, PollKeepsLedger
<1>7. TierType'
  BY <1>1, <1>2, <1>3, StoreKeepsTierType
<1>8. LedgerType'
  <2>1. CASE s.count = None
    BY <1>1, <1>3, <1>5, <2>1 DEF BooksRead, LedgerType
  <2>2. CASE s.count # None
    <3>1. /\ booked' \in Standings /\ shown' \in Int /\ forfeited' \in Int
          /\ misfiled' \in BOOLEAN /\ blind' \in BOOLEAN
          /\ (kept' = booked' \/ kept' = kept)
      BY <1>1, <1>4, <2>2, ReadingKeepsTypes
    <3> QED
      BY <1>3, <1>5, <3>1 DEF LedgerType
  <2> QED
    BY <2>1, <2>2
<1>9. ReadIsOfARun'
  <2>1. (read' = read \/ read' = s) /\ (read' = s /\ read' # read => s.count # None)
    BY <1>1 DEF BooksRead
  <2> QED
    BY <1>3, <2>1, EngineGoesOn
<1>10. OutsideType' /\ TakenIsPast'
  <2>1. s.ts \in Nat /\ now \in Nat /\ now >= SaveEvery /\ SaveEvery \in Nat
    BY <1>2, <1>3, SamplesAssumption DEF Readings, OutsideType
  <2>2. \A x \in taken : x.ts \in Nat
    BY <1>3 DEF OutsideType, Readings
  <2>3. TakenIsPast'
    BY <1>2, <1>3, <2>1, <2>2 DEF TakenIsPast
  <2>4. alive \in BOOLEAN /\ started_at \in Nat /\ starts \subseteq Nat /\ taken \subseteq Readings
    BY <1>3, Zenon DEF OutsideType
  <2>5. now' \in Nat /\ now' >= SaveEvery /\ engine' \in Engines
    BY <1>2, <2>1
  <2>6. taken' \subseteq Readings
    BY <1>2, <2>4
  <2>7. lines' \in FiniteSubsets(Nat)
    BY <1>1
  <2>8. alive' \in BOOLEAN /\ started_at' \in Nat /\ starts' \subseteq Nat
    BY <1>1, <2>4, Zenon
  <2> QED
    BY <2>3, <2>5, <2>6, <2>7, <2>8, Zenon DEF OutsideType
<1> QED
  BY <1>5, <1>6, <1>7, <1>8, <1>9, <1>10 DEF LedgerInv, Outside

\* ... in one that dies with the collector ...
LEMMA DeathKeepsBooks ==
    ASSUME LedgerInv, NEW s, NEW e, Polls(s, e), PollDies(s, e)
    PROVE  LedgerInv'
<1>1. /\ StoreOnly(s) /\ alive' = FALSE /\ now' = s.ts /\ engine' = e /\ taken' = taken \cup {s}
      /\ UNCHANGED <<ledger_vars, started_at, lines, starts, shown, read, booked, kept, forfeited,
                     misfiled, blind>>
  BY DEF PollDies
<1>2. s \in Readings /\ s.ts >= now /\ e \in Engines
  BY DEF Polls
<1>3. OutsideType /\ TakenIsPast /\ ReadIsOfARun /\ TierType /\ LedgerType /\ LedgerStands /\ PeaksKept
  BY DEF LedgerInv, Outside
<1>4. TierType'
  BY <1>1, <1>2, <1>3, StoreKeepsTierType
<1>5. LedgerType' /\ LedgerStands'
  BY <1>1, <1>3 DEF LedgerType, LedgerStands, Stands, ledger_vars
<1>6. PeaksKept'
  BY <1>1, <1>3, PeaksOfMore DEF PeaksKept, ledger_vars
<1>7. ReadIsOfARun'
  BY <1>1, <1>3, EngineGoesOn
<1>8. OutsideType' /\ TakenIsPast'
  <2>1. s.ts \in Nat /\ now \in Nat /\ now >= SaveEvery /\ SaveEvery \in Nat
    BY <1>2, <1>3, SamplesAssumption DEF Readings, OutsideType
  <2>2. \A x \in taken : x.ts \in Nat
    BY <1>3 DEF OutsideType, Readings
  <2>3. TakenIsPast'
    BY <1>1, <1>2, <1>3, <2>1, <2>2 DEF TakenIsPast
  <2>4. /\ alive \in BOOLEAN /\ started_at \in Nat /\ starts \subseteq Nat /\ taken \subseteq Readings
        /\ lines \in FiniteSubsets(Nat)
    BY <1>3, Zenon DEF OutsideType
  <2>5. now' \in Nat /\ now' >= SaveEvery /\ engine' \in Engines
    BY <1>1, <1>2, <2>1
  <2>6. taken' \subseteq Readings
    BY <1>1, <1>2, <2>4
  <2>7. /\ alive' \in BOOLEAN /\ started_at' \in Nat /\ starts' \subseteq Nat
        /\ lines' \in FiniteSubsets(Nat)
    BY <1>1, <2>4
  <2> QED
    BY <2>3, <2>5, <2>6, <2>7, Zenon DEF OutsideType
<1> QED
  BY <1>4, <1>5, <1>6, <1>7, <1>8 DEF LedgerInv, Outside

\* ... and when the collector starts again on what was saved.
LEMMA StartKeepsBooks ==
    ASSUME LedgerInv, NEW t \in Nat, StartCollector(t)
    PROVE  LedgerInv'
<1> DEFINE first_sample == IF samples = <<>> THEN t ELSE samples[1].ts
           tier == Tokens(rows'[TenMinutes])
<1>1. /\ t > now /\ now' = t /\ alive' = TRUE /\ started_at' = t /\ StartTiers(t)
      /\ LoadLedger(first_sample, tier) /\ starts' = starts \cup {t}
      /\ UNCHANGED <<engine, lines, taken, kept, misfiled, blind>>
  BY DEF StartCollector
<1>2. IF saved.since # 0
      THEN booked' = kept /\ UNCHANGED <<shown, read, forfeited>>
      ELSE /\ shown' = all_time'.total /\ read' = NoSample /\ forfeited' = 0
           /\ booked' = [Nothing EXCEPT !.shown = shown']
  BY DEF StartCollector
<1>3. OutsideType /\ TakenIsPast /\ ReadIsOfARun /\ TierType /\ LedgerType /\ LedgerStands /\ PeaksKept
  BY DEF LedgerInv, Outside
<1>4. TierType'
  BY <1>1, <1>3, StartKeepsTierType
<1>5. tier \in Nat
  <2>1. rows'[TenMinutes] \in TablesOf(Aggs)
    BY <1>4, WidthsAre DEF TierType
  <2> QED
    BY <2>1, TokensAreNatural
<1>6. first_sample \in Nat
  <2>1. CASE samples # <<>>
    <3>1. samples \in Seq(Readings)
      BY <1>3 DEF TierType
    <3>2. samples[1] \in Readings
      <4>1. Len(samples) \in Nat \ {0}
        BY <2>1, <3>1, EmptySeq
      <4>2. 1 \in 1 .. Len(samples)
        BY <4>1
      <4> QED
        BY <3>1, <4>2
    <3> QED
      BY <2>1, <3>2 DEF Readings
  <2> QED
    BY <2>1
<1>7. /\ all_time' = IF saved.since # 0 THEN saved
                     ELSE [NewAllTime EXCEPT !.since = first_sample, !.total = tier]
      /\ saved_at' = 0 /\ saved' = saved
  BY <1>1 DEF LoadLedger
<1> HIDE DEF first_sample, tier
<1>8. OutsideType' /\ TakenIsPast'
  BY <1>1, <1>3, SamplesAssumption DEF OutsideType, TakenIsPast, Readings
<1>9. \A x \in taken : x.ts \in Nat /\ x.ts < t
  BY <1>1, <1>3 DEF OutsideType, TakenIsPast, Readings
<1>10. CASE saved.since # 0
  <2>1. /\ all_time' = saved /\ booked' = kept /\ UNCHANGED <<shown, read, forfeited>>
    BY <1>2, <1>7, <1>10
  <2>2. LedgerType'
    BY <1>1, <1>3, <1>7, <2>1 DEF LedgerType
  <2>3. LedgerStands'
    BY <1>1, <1>3, <1>7, <1>10, <2>1 DEF LedgerStands, Stands
  <2>4. PeaksKept'
    <3>1. PeaksAre(saved.day_peaks, taken)
      BY <1>3 DEF PeaksKept
    <3>2. PeaksAre(all_time.day_peaks, taken)' /\ PeaksAre(saved.day_peaks, taken)'
      BY <1>1, <1>7, <2>1, <3>1
    <3>3. ASSUME NEW x \in taken PROVE ~(x.ts >= t)
      BY <1>9
    <3>4. Covered(all_time.day_peaks, taken, started_at)'
      BY <1>1, <3>3 DEF Covered
    <3> QED
      BY <3>2, <3>4 DEF PeaksKept
  <2>5. ReadIsOfARun'
    BY <1>1, <1>3, <2>1 DEF ReadIsOfARun
  <2> QED
    BY <1>4, <1>8, <2>2, <2>3, <2>4, <2>5 DEF LedgerInv, Outside
<1>11. CASE ~(saved.since # 0)
  <2>1. /\ all_time' = [NewAllTime EXCEPT !.since = first_sample, !.total = tier]
        /\ shown' = all_time'.total /\ read' = NoSample /\ forfeited' = 0
        /\ booked' = [Nothing EXCEPT !.shown = shown']
    BY <1>2, <1>7, <1>11
  <2>2. /\ all_time'.total = tier /\ all_time'.last = None /\ all_time'.epoch = 0
        /\ all_time'.day_peaks = <<>>
        /\ booked'.life = 0 /\ booked'.epoch = 0 /\ booked'.shown = tier
    BY <2>1 DEF NewAllTime, Nothing
  <2>3. LedgerType'
    <3>1. all_time' \in AllTimeType
      BY <1>5, <1>6, <2>1, NewAllTimeType
    <3>2. booked' \in Standings /\ shown' \in Int
      BY <1>5, <2>1, <2>2 DEF Nothing, Standings
    <3> QED
      BY <1>1, <1>3, <1>7, <2>1, <3>1, <3>2 DEF LedgerType
  <2>4. LedgerStands'
    BY <1>5, <1>7, <1>11, <2>1, <2>2 DEF LedgerStands, Stands, NoSample
  <2>5. PeaksKept'
    BY <1>1, <1>3, <1>7, <1>9, <2>2, NoPeaks DEF PeaksKept, Covered
  <2>6. ReadIsOfARun'
    BY <2>1 DEF ReadIsOfARun
  <2> QED
    BY <1>4, <1>8, <2>3, <2>4, <2>5, <2>6 DEF LedgerInv, Outside
<1> QED
  BY <1>10, <1>11

\* So it stays so in every step.
LEMMA BooksGoOn == LedgerInv /\ [AccountsNext]_account_vars => LedgerInv'
<1> SUFFICES ASSUME LedgerInv, [AccountsNext]_account_vars PROVE LedgerInv'
  OBVIOUS
<1>1. ASSUME NEW t \in Nat, NEW e \in Engines, NEW how \in Hows, NEW failed \in Failures,
             NEW speed \in Nat, NEW logged \in SUBSET Nat, NEW described \in BOOLEAN,
             NEW came \in 0 .. 1, NEW dies \in BOOLEAN,
             PollAt(t, e, how, failed, speed, logged, described, came, dies)
      PROVE  LedgerInv'
  <2>1. PICK s \in Readings :
            /\ Polls(s, e) /\ logged \in FiniteSubsets(Nat)
            /\ IF dies THEN PollDies(s, e) ELSE Poll(s, e, logged, described, came)
    BY <1>1, PollsAre DEF LedgerInv, Outside
  <2>2. CASE dies
    BY <2>1, <2>2, DeathKeepsBooks
  <2>3. CASE ~dies
    BY <2>1, <2>3, PollKeepsBooks
  <2> QED
    BY <2>2, <2>3
<1>2. ASSUME NEW t \in Nat, StartCollector(t) PROVE LedgerInv'
  BY <1>2, StartKeepsBooks
<1>3. CASE StopCollector
  BY <1>3 DEF StopCollector, books_history, tier_vars, ledger_vars, LedgerInv, Outside, OutsideType, TakenIsPast,
              ReadIsOfARun, TierType, LedgerType, LedgerStands, Stands, PeaksKept
<1>4. CASE BackfillStep
  <2>1. UNCHANGED <<ledger_vars, env_vars, books_history>> /\ (BackfillChunk \/ BackfillDone)
    BY <1>4 DEF BackfillStep
  <2>2. TierType'
    BY <2>1, BackfillKeepsTierType DEF LedgerInv
  <2> QED
    BY <2>1, <2>2 DEF env_vars, books_history, ledger_vars, LedgerInv, Outside, OutsideType,
                      TakenIsPast, ReadIsOfARun, LedgerType, LedgerStands, Stands, PeaksKept
<1>5. CASE UNCHANGED account_vars
  BY <1>5 DEF account_vars, env_vars, books_history, tier_vars, ledger_vars, LedgerInv, Outside,
              OutsideType, TakenIsPast, ReadIsOfARun, TierType, LedgerType, LedgerStands, Stands, PeaksKept
<1> QED
  BY <1>1, <1>2, <1>3, <1>4, <1>5 DEF AccountsNext

\* What the invariant says of the ledger, in the words of the property.
LEMMA BooksAreExact == LedgerInv => LedgerIsExact
<1> SUFFICES ASSUME LedgerInv PROVE LedgerIsExact
  OBVIOUS
<1>1. TotalIsExact
  BY DEF LedgerInv, LedgerStands, Stands, TotalIsExact
<1>2. DOMAIN all_time.day_peaks = 1 .. Len(all_time.day_peaks)
  <2>1. all_time.day_peaks \in Seq(Peaks)
    BY DEF LedgerInv, LedgerType, AllTimeType, Peaks
  <2> QED
    BY <2>1
<1>3. PeaksAreOfTheLastDays
  BY <1>2 DEF LedgerInv, PeaksKept, PeaksAre, Covered, DayOf, PeaksAreOfTheLastDays
<1> QED
  BY <1>1, <1>3 DEF LedgerIsExact

\* The token ledger (tokens.rs:71, main.rs:985) through any number of restarts of the engine and
\* of the collector: what it holds and what was forfeited is what the readings showed, and its
\* peaks are those of the newest days.
THEOREM LedgerIsAlwaysExact == AccountsSpec => []LedgerIsExact
<1>1. AccountsStart => LedgerInv
  BY LedgerBegins
<1>2. LedgerInv /\ [AccountsNext]_account_vars => LedgerInv'
  BY BooksGoOn
<1>3. LedgerInv => LedgerIsExact
  BY BooksAreExact
<1> QED
  BY <1>1, <1>2, <1>3, PTL DEF AccountsSpec

-----------------------------------------------------------------------------
(***************************************************************************)
(* The latency windows: the inductive invariant                            *)
(***************************************************************************)
\* Something cut the ten minutes from b on short.
CutShort(b, S) == \E t \in S : t >= b /\ t < b + TenMinutes

MinutesIn(h, b) == {m \in DOMAIN h : BucketOf(TenMinutes, m) = b}

\* n requests, stored or open, of the ten minutes from b on: those of the stored minutes h, and
\* more of the open one.
TellsOf(n, h, b, more, S) ==
    /\ n <= SumOver(h, MinutesIn(h, b)) + more
    /\ n # SumOver(h, MinutesIn(h, b)) + more => CutShort(b, S)

\* What is stored, of minutes (h) and of ten minutes (g), is of windows that have ended by t.
StoredAgree(h, g, t, S) ==
    /\ \A m \in DOMAIN h : m < BucketOf(Minute, t)
    /\ \A b \in DOMAIN g : b < BucketOf(TenMinutes, t) /\ TellsOf(g[b], h, b, 0, S)

\* The open minute, if anything was counted in it, is one of the open ten minutes; nothing of
\* either is stored yet.
MinuteStands(h, min, ten, t) ==
    /\ min.ts \in Nat /\ min.ts <= BucketOf(Minute, t) /\ \A m \in DOMAIN h : m < min.ts
    /\ ten.acc.count # 0 /\ ten.ts = BucketOf(TenMinutes, min.ts) /\ min.acc.le = ten.acc.le

TenStand(h, g, min, ten, t, S) ==
    /\ ten.ts \in Nat /\ ten.ts <= BucketOf(TenMinutes, t) /\ \A b \in DOMAIN g : b < ten.ts
    /\ TellsOf(ten.acc.count, h, ten.ts, min.acc.count, S)

\* The ten minutes of a stored minute are over, cut short, or open.
MinutesAreOf(h, ten, t, S) ==
    \A m \in DOMAIN h :
        LET b == BucketOf(TenMinutes, m)
        IN  \/ b < BucketOf(TenMinutes, t) \/ CutShort(b, S)
            \/ ten.ts = b /\ ten.acc.count # 0

OpenAgree(h, g, min, ten, t, S) ==
    /\ min.acc.count # 0 => MinuteStands(h, min, ten, t)
    /\ ten.acc.count # 0 => TenStand(h, g, min, ten, t, S)
    /\ MinutesAreOf(h, ten, t, S)

\* What the open windows count has the layout of the scrape before, or it changed meanwhile.
LayoutStands(prev, min, ten, S) ==
    /\ prev.count = None => min.acc.count = 0 /\ ten.acc.count = 0
    /\ ten.acc.count # 0 => ten.acc.le = prev.le \/ CutShort(ten.ts, S)

\* The scrape before is the last reading.
PrevIsRead == tracker.prev.count # None => read # NoSample /\ tracker.prev = SetOf(read)

WindowsOf(h, g, tr, t, S) ==
    /\ StoredAgree(h, g, t, S)
    /\ OpenAgree(h, g, tr.open[Minute], tr.open[TenMinutes], t, S)
    /\ LayoutStands(tr.prev, tr.open[Minute], tr.open[TenMinutes], S)

\* No request is in two minutes.
NoneTwice == SumOver(hist[Minute], DOMAIN hist[Minute]) + tracker.open[Minute].acc.count <= asked

WindowsStand == WindowsOf(hist[Minute], hist[TenMinutes], tracker, now, starts \cup layouts)

\* What the tracker is made of.
Labels == Configs \cup {EmptyAccum.le}
Accums == [le: Labels, count: Nat]
Scrapes == [le: Labels, count: Nat \cup {None}]
Windows == [ts: Nat \cup {None}, acc: Accums]
Trackers == [prev: Scrapes, open: [Widths -> Windows], recent: Seq(Windows)]

WindowType == tracker \in Trackers /\ hist \in [Widths -> TablesOf(Nat)] /\ asked \in Int

WindowsInv == LedgerInv /\ WindowType /\ WindowsStand /\ NoneTwice /\ PrevIsRead

-----------------------------------------------------------------------------
(***************************************************************************)
(* Buckets, and sums of minutes                                            *)
(***************************************************************************)
\* A clock reading is in the one bucket that has begun and has not ended.
LEMMA BucketIsTheOne ==
    ASSUME NEW res \in Nat \ {0}, NEW k \in Nat, NEW x \in Nat, res * k <= x, x < (res * k) + res
    PROVE  BucketOf(res, x) = res * k
<1>1. PICK j \in Nat : BucketOf(res, x) = res * j
  BY BucketIs
<1>2. res * j \in Nat /\ res * k \in Nat /\ res * j <= x /\ x < (res * j) + res
  BY <1>1, BucketIs
<1>3. ~(j < k)
  <2>1. j < k => res * (j + 1) <= res * k
    OBVIOUS
  <2>2. res * (j + 1) = (res * j) + res
    OBVIOUS
  <2> QED
    BY <1>2, <2>1, <2>2
<1>4. ~(k < j)
  <2>1. k < j => res * (k + 1) <= res * j
    OBVIOUS
  <2>2. res * (k + 1) = (res * k) + res
    OBVIOUS
  <2> QED
    BY <1>2, <2>1, <2>2
<1>5. j = k
  BY <1>3, <1>4
<1> QED
  BY <1>1, <1>5

\* Buckets follow each other as time passes ...
LEMMA BucketsAscend ==
    ASSUME NEW res \in Nat \ {0}, NEW x \in Nat, NEW y \in Nat, x <= y
    PROVE  /\ BucketOf(res, x) \in Nat /\ BucketOf(res, y) \in Nat
           /\ BucketOf(res, x) <= BucketOf(res, y)
<1>1. PICK j \in Nat : BucketOf(res, x) = res * j
  BY BucketIs
<1>2. /\ BucketOf(res, x) \in Nat /\ BucketOf(res, y) \in Nat /\ BucketOf(res, x) <= x
      /\ BucketOf(res, y) <= y /\ y < BucketOf(res, y) + res /\ x < BucketOf(res, x) + res
  BY BucketIs
<1>3. CASE y < (res * j) + res
  <2>1. res * j <= y
    BY <1>1, <1>2
  <2>2. BucketOf(res, y) = res * j
    BY <1>3, <2>1, BucketIsTheOne
  <2> QED
    BY <1>1, <1>2, <2>2
<1>4. CASE ~(y < (res * j) + res)
  <2>1. res * j \in Nat
    BY <1>1, <1>2
  <2> QED
    BY <1>1, <1>2, <1>4, <2>1
<1> QED
  BY <1>3, <1>4

\* ... and a minute is in the ten minutes of all its seconds.
LEMMA MinutesAreInTens ==
    ASSUME NEW t \in Nat
    PROVE  BucketOf(TenMinutes, BucketOf(Minute, t)) = BucketOf(TenMinutes, t)
<1>1. Minute \in Nat \ {0} /\ TenMinutes \in Nat \ {0} /\ TenMinutes % Minute = 0
  BY SamplesAssumption
<1>2. PICK k \in Nat : BucketOf(TenMinutes, t) = TenMinutes * k
  BY <1>1, BucketIs
<1> DEFINE q == TenMinutes \div Minute
           b == BucketOf(TenMinutes, t)
           m == BucketOf(Minute, t)
<1>3. q \in Nat /\ TenMinutes = Minute * q
  BY <1>1
<1>4. /\ b \in Nat /\ b <= t /\ t < b + TenMinutes
      /\ m \in Nat /\ m <= t
  BY <1>1, BucketIs
<1>5. \E j \in Nat : b = Minute * j
  <2> HIDE DEF q, b
  <2>1. (Minute * q) * k = Minute * (q * k)
    BY <1>1, <1>3
  <2>2. b = (Minute * q) * k
    BY <1>2, <1>3 DEF b
  <2>3. q * k \in Nat
    BY <1>3
  <2> QED
    BY <2>1, <2>2, <2>3
<1>6. BucketOf(Minute, b) = b
  <2> HIDE DEF b, m, q
  <2>1. PICK j \in Nat : b = Minute * j
    BY <1>5
  <2>2. Minute * j <= b /\ b < (Minute * j) + Minute
    BY <1>1, <1>4, <2>1
  <2>3. BucketOf(Minute, b) = Minute * j
    BY <1>1, <1>4, <2>2, BucketIsTheOne
  <2> QED
    BY <2>1, <2>3
<1>7. b <= m
  <2> HIDE DEF b, q
  <2>1. BucketOf(Minute, b) <= BucketOf(Minute, t)
    BY <1>1, <1>4, BucketsAscend
  <2> QED
    BY <1>6, <2>1
<1> HIDE DEF b, m, q
<1>8. BucketOf(TenMinutes, m) = TenMinutes * k
  <2>1. b = TenMinutes * k
    BY <1>2 DEF b
  <2>2. TenMinutes * k <= m /\ m < (TenMinutes * k) + TenMinutes
    BY <1>1, <1>4, <1>7, <2>1
  <2> QED
    BY <1>1, <1>4, <2>2, BucketIsTheOne
<1> QED
  BY <1>2, <1>8 DEF m

\* The minutes of a table are finitely many, and so are those of ten of them.
LEMMA MinutesAreCounted ==
    ASSUME NEW h \in TablesOf(Nat), NEW b
    PROVE  /\ IsFiniteSet(DOMAIN h) /\ IsFiniteSet(MinutesIn(h, b))
           /\ \A m \in DOMAIN h : m \in Nat /\ h[m] \in Nat /\ h[m] \in Int
           /\ SumOver(h, DOMAIN h) \in Nat /\ SumOver(h, MinutesIn(h, b)) \in Nat
<1>1. DOMAIN h \in FiniteSubsets(Nat) /\ h \in [DOMAIN h -> Nat]
  BY TableIs
<1>2. IsFiniteSet(DOMAIN h) /\ MinutesIn(h, b) \subseteq DOMAIN h
  BY <1>1 DEF FiniteSubsets, MinutesIn
<1>3. \A m \in DOMAIN h : m \in Nat /\ h[m] \in Nat /\ h[m] \in Int
  BY <1>1 DEF FiniteSubsets
<1>4. IsFiniteSet(MinutesIn(h, b))
  BY <1>2, FS_Subset
<1>5. SumOver(h, DOMAIN h) \in Nat /\ SumOver(h, MinutesIn(h, b)) \in Nat
  BY <1>2, <1>3, <1>4, SumOfNaturals
<1> QED
  BY <1>2, <1>3, <1>4, <1>5

\* A minute that is stored for the first time is one more in its ten minutes.
LEMMA MinuteIsStored ==
    ASSUME NEW h \in TablesOf(Nat), NEW m \in Nat, m \notin DOMAIN h, NEW n \in Nat
    PROVE  /\ Put(h, m, n) \in TablesOf(Nat) /\ DOMAIN Put(h, m, n) = DOMAIN h \cup {m}
           /\ SumOver(Put(h, m, n), DOMAIN Put(h, m, n)) = SumOver(h, DOMAIN h) + n
           /\ \A b : SumOver(Put(h, m, n), MinutesIn(Put(h, m, n), b))
                       = SumOver(h, MinutesIn(h, b)) + (IF BucketOf(TenMinutes, m) = b THEN n ELSE 0)
<1> DEFINE p == Put(h, m, n)
<1>1. p \in TablesOf(Nat) /\ DOMAIN p = DOMAIN h \cup {m} /\ p[m] = n /\ \A k \in DOMAIN h : p[k] = h[k]
  BY PutType DEF Put
<1> HIDE DEF p
<1>2. ASSUME NEW D \in SUBSET DOMAIN h
      PROVE  /\ SumOver(p, D) = SumOver(h, D)
             /\ SumOver(p, D \cup {m}) = SumOver(h, D) + n
  <2>1. IsFiniteSet(DOMAIN h) /\ \A k \in DOMAIN h : h[k] \in Int
    BY MinutesAreCounted
  <2>2. IsFiniteSet(D) /\ IsFiniteSet(D \cup {m}) /\ m \notin D
    BY <2>1, FS_Subset, FS_AddElement
  <2>3. \A k \in D : h[k] \in Int /\ p[k] = h[k]
    BY <1>1, <2>1
  <2>4. SumOver(p, D) = SumOver(h, D)
    BY <2>2, <2>3, SumsOfTheSame
  <2>5. \A k \in D \cup {m} : p[k] \in Int
    BY <1>1, <2>3
  <2>6. (D \cup {m}) \ {m} = D
    BY <2>2
  <2>7. /\ SumOver(p, (D \cup {m}) \ {m}) \in Int
        /\ SumOver(p, D \cup {m}) = p[m] + SumOver(p, (D \cup {m}) \ {m})
    BY <2>2, <2>5, SumWithout
  <2>8. SumOver(p, D) \in Int /\ SumOver(p, D \cup {m}) = n + SumOver(p, D)
    BY <1>1, <2>6, <2>7
  <2> QED
    BY <2>4, <2>8
<1>3. SumOver(p, DOMAIN p) = SumOver(h, DOMAIN h) + n
  BY <1>1, <1>2
<1>4. ASSUME NEW b
      PROVE  SumOver(p, MinutesIn(p, b))
               = SumOver(h, MinutesIn(h, b)) + (IF BucketOf(TenMinutes, m) = b THEN n ELSE 0)
  <2>1. MinutesIn(h, b) \in SUBSET DOMAIN h /\ SumOver(h, MinutesIn(h, b)) \in Nat
    BY MinutesAreCounted DEF MinutesIn
  <2>2. CASE BucketOf(TenMinutes, m) = b
    <3>1. MinutesIn(p, b) = MinutesIn(h, b) \cup {m}
      BY <1>1, <2>2 DEF MinutesIn
    <3> QED
      BY <1>2, <2>1, <2>2, <3>1
  <2>3. CASE BucketOf(TenMinutes, m) # b
    <3>1. MinutesIn(p, b) = MinutesIn(h, b)
      BY <1>1, <2>3 DEF MinutesIn
    <3>2. SumOver(p, MinutesIn(h, b)) = SumOver(h, MinutesIn(h, b))
      BY <1>2, <2>1
    <3> QED
      BY <2>1, <2>3, <3>1, <3>2
  <2> QED
    BY <2>2, <2>3
<1> QED
  BY <1>1, <1>3, <1>4 DEF p

-----------------------------------------------------------------------------
(***************************************************************************)
(* A poll: the windows that have ended are stored, and what the scrape     *)
(* adds is booked in those that are open                                   *)
(***************************************************************************)
\* What stands goes on to stand as time passes, and as more is known of what cuts windows short.
LEMMA WindowsStandOn ==
    ASSUME NEW h \in TablesOf(Nat), NEW g \in TablesOf(Nat), NEW min \in Windows, NEW ten \in Windows,
           NEW t \in Nat, NEW u \in Nat, t <= u, NEW S, NEW R, S \subseteq R,
           StoredAgree(h, g, t, S), OpenAgree(h, g, min, ten, t, S)
    PROVE  StoredAgree(h, g, u, R) /\ OpenAgree(h, g, min, ten, u, R)
<1>1. /\ BucketOf(Minute, t) \in Nat /\ BucketOf(Minute, u) \in Nat
      /\ BucketOf(TenMinutes, t) \in Nat /\ BucketOf(TenMinutes, u) \in Nat
      /\ BucketOf(Minute, t) <= BucketOf(Minute, u)
      /\ BucketOf(TenMinutes, t) <= BucketOf(TenMinutes, u)
  BY BucketsAscend, WidthsAre
<1>2. \A b : CutShort(b, S) => CutShort(b, R)
  BY DEF CutShort
<1>3. \A n, b, more : TellsOf(n, h, b, more, S) => TellsOf(n, h, b, more, R)
  BY <1>2 DEF TellsOf
<1>4. (\A m \in DOMAIN h : m \in Nat) /\ \A b \in DOMAIN g : b \in Nat
  BY MinutesAreCounted
<1>5. \A m \in DOMAIN h : m < BucketOf(Minute, u)
  BY <1>1, <1>4 DEF StoredAgree
<1>6. \A b \in DOMAIN g : b < BucketOf(TenMinutes, u)
  BY <1>1, <1>4 DEF StoredAgree
<1>7. \A b \in DOMAIN g : TellsOf(g[b], h, b, 0, R)
  BY <1>3 DEF StoredAgree
<1>8. MinuteStands(h, min, ten, t) => MinuteStands(h, min, ten, u)
  <2>1. min.ts \in Nat /\ min.ts <= BucketOf(Minute, t) => min.ts <= BucketOf(Minute, u)
    BY <1>1
  <2> QED
    BY <2>1 DEF MinuteStands
<1>9. TenStand(h, g, min, ten, t, S) => TenStand(h, g, min, ten, u, R)
  <2>1. ten.ts \in Nat /\ ten.ts <= BucketOf(TenMinutes, t) => ten.ts <= BucketOf(TenMinutes, u)
    BY <1>1
  <2> QED
    BY <1>3, <2>1 DEF TenStand
<1>10. MinutesAreOf(h, ten, u, R)
  <2> SUFFICES ASSUME NEW m \in DOMAIN h
               PROVE  \/ BucketOf(TenMinutes, m) < BucketOf(TenMinutes, u)
                      \/ CutShort(BucketOf(TenMinutes, m), R)
                      \/ ten.ts = BucketOf(TenMinutes, m) /\ ten.acc.count # 0
    BY DEF MinutesAreOf
  <2>1. \/ BucketOf(TenMinutes, m) < BucketOf(TenMinutes, t)
        \/ CutShort(BucketOf(TenMinutes, m), S)
        \/ ten.ts = BucketOf(TenMinutes, m) /\ ten.acc.count # 0
    BY DEF OpenAgree, MinutesAreOf
  <2>2. BucketOf(TenMinutes, m) \in Nat
    BY <1>4, BucketIs, WidthsAre
  <2>3. BucketOf(TenMinutes, m) < BucketOf(TenMinutes, t)
          => BucketOf(TenMinutes, m) < BucketOf(TenMinutes, u)
    BY <1>1, <2>2
  <2> QED
    BY <1>2, <2>1, <2>3
<1> QED
  BY <1>5, <1>6, <1>7, <1>8, <1>9, <1>10 DEF StoredAgree, OpenAgree

\* What becomes of a table when a poll at start ends the window.
Stored(h, window, start) ==
    IF Ended(window, start) /\ window.acc.count > 0 THEN Put(h, window.ts, window.acc.count) ELSE h

\* The window that is open for a moment: the one that was, or an empty one.
LEMMA OpenedIs ==
    ASSUME NEW window \in Windows, NEW start \in Nat
    PROVE  /\ Opened(window, start) \in Windows /\ Opened(window, start).ts = start
           /\ window.ts = start => Opened(window, start) = window
           /\ window.ts # start => Opened(window, start).acc.count = 0
           /\ Opened(window, start).acc.count # 0 => Opened(window, start) = window
<1>1. EmptyAccum \in Accums /\ EmptyAccum.count = 0
  BY DEF EmptyAccum, Accums, Labels
<1> QED
  BY <1>1 DEF Opened, Windows

\* First the minute: its requests move from the open minute to the stored ones.
LEMMA MinuteRolls ==
    ASSUME NEW h \in TablesOf(Nat), NEW g \in TablesOf(Nat), NEW min \in Windows, NEW ten \in Windows,
           NEW t \in Nat, NEW S, StoredAgree(h, g, t, S), OpenAgree(h, g, min, ten, t, S),
           NEW h1, h1 = Stored(h, min, BucketOf(Minute, t)),
           NEW min1, min1 = Opened(min, BucketOf(Minute, t))
    PROVE  /\ h1 \in TablesOf(Nat) /\ min1 \in Windows /\ min1.ts = BucketOf(Minute, t)
           /\ min1.acc.count # 0 => min1 = min
           /\ StoredAgree(h1, g, t, S) /\ OpenAgree(h1, g, min1, ten, t, S)
           /\ SumOver(h1, DOMAIN h1) + min1.acc.count = SumOver(h, DOMAIN h) + min.acc.count
<1> DEFINE start == BucketOf(Minute, t)
           n == min.acc.count
<1>1. start \in Nat /\ n \in Nat /\ SumOver(h, DOMAIN h) \in Nat
  BY BucketIs, WidthsAre, MinutesAreCounted DEF Windows, Accums
<1>2. /\ min1 \in Windows /\ min1.ts = start /\ (min.ts = start => min1 = min)
      /\ (min.ts # start => min1.acc.count = 0) /\ (min1.acc.count # 0 => min1 = min)
  BY <1>1, OpenedIs
<1>3. OpenAgree(h, g, min, ten, t, S) /\ (n # 0 => MinuteStands(h, min, ten, t))
  BY DEF OpenAgree
<1>4. CASE n = 0 \/ min.ts = start
  <2>1. h1 = h /\ min1.acc.count = n
    BY <1>1, <1>2, <1>4 DEF Stored, Ended
  <2>2. min1.acc.count # 0 => min1 = min
    BY <1>2
  <2>3. OpenAgree(h1, g, min1, ten, t, S)
    <3>1. min1.acc.count # 0 => MinuteStands(h1, min1, ten, t)
      BY <1>3, <2>1, <2>2
    <3>2. ten.acc.count # 0 => TenStand(h1, g, min1, ten, t, S)
      BY <2>1 DEF OpenAgree, TenStand
    <3> QED
      BY <2>1, <3>1, <3>2 DEF OpenAgree
  <2> QED
    BY <1>2, <2>1, <2>3
<1>5. CASE n # 0 /\ min.ts # start
  <2>1. /\ min.ts \in Nat /\ min.ts <= start /\ (\A m \in DOMAIN h : m < min.ts)
        /\ ten.acc.count # 0 /\ ten.ts = BucketOf(TenMinutes, min.ts)
    BY <1>3, <1>5 DEF MinuteStands
  <2>2. h1 = Put(h, min.ts, n) /\ min1.acc.count = 0
    BY <1>1, <1>2, <1>5, <2>1 DEF Stored, Ended, None
  <2>3. min.ts \notin DOMAIN h
    <3>1. \A m \in DOMAIN h : m \in Nat
      BY MinutesAreCounted
    <3> QED
      BY <2>1, <3>1
  <2>4. /\ h1 \in TablesOf(Nat) /\ DOMAIN h1 = DOMAIN h \cup {min.ts}
        /\ SumOver(h1, DOMAIN h1) = SumOver(h, DOMAIN h) + n
        /\ \A b : SumOver(h1, MinutesIn(h1, b))
                    = SumOver(h, MinutesIn(h, b)) + (IF ten.ts = b THEN n ELSE 0)
    <3> DEFINE m == min.ts
    <3>1. m \in Nat /\ m \notin DOMAIN h /\ n \in Nat /\ h1 = Put(h, m, n) /\ ten.ts = BucketOf(TenMinutes, m)
      BY <1>1, <2>1, <2>2, <2>3
    <3> HIDE DEF n, m
    <3>2. /\ Put(h, m, n) \in TablesOf(Nat) /\ DOMAIN Put(h, m, n) = DOMAIN h \cup {m}
          /\ SumOver(Put(h, m, n), DOMAIN Put(h, m, n)) = SumOver(h, DOMAIN h) + n
          /\ \A b : SumOver(Put(h, m, n), MinutesIn(Put(h, m, n), b))
                      = SumOver(h, MinutesIn(h, b)) + (IF BucketOf(TenMinutes, m) = b THEN n ELSE 0)
      BY <3>1, MinuteIsStored
    <3> QED
      BY <3>1, <3>2 DEF m
  <2>5. TenStand(h, g, min, ten, t, S)
    BY <2>1 DEF OpenAgree
  <2>6. StoredAgree(h1, g, t, S)
    <3>1. \A m \in DOMAIN h1 : m < start
      <4>1. min.ts < start
        BY <1>1, <1>5, <2>1
      <4> QED
        BY <2>4, <4>1 DEF StoredAgree
    <3>2. ASSUME NEW b \in DOMAIN g PROVE b < BucketOf(TenMinutes, t) /\ TellsOf(g[b], h1, b, 0, S)
      <4>1. b \in Nat /\ b < ten.ts /\ ten.ts \in Nat
        BY <2>5, MinutesAreCounted DEF TenStand
      <4>2. SumOver(h, MinutesIn(h, b)) \in Nat
        BY MinutesAreCounted
      <4>3. SumOver(h1, MinutesIn(h1, b)) = SumOver(h, MinutesIn(h, b))
        BY <2>4, <4>1, <4>2
      <4> QED
        BY <4>3 DEF StoredAgree, TellsOf
    <3> QED
      BY <3>1, <3>2 DEF StoredAgree
  <2>7. TenStand(h1, g, min1, ten, t, S)
    <3>1. SumOver(h, MinutesIn(h, ten.ts)) \in Nat
      BY MinutesAreCounted
    <3>2. SumOver(h1, MinutesIn(h1, ten.ts)) = SumOver(h, MinutesIn(h, ten.ts)) + n
      BY <2>4
    <3>3. SumOver(h1, MinutesIn(h1, ten.ts)) + min1.acc.count = SumOver(h, MinutesIn(h, ten.ts)) + n
      BY <1>1, <2>2, <3>1, <3>2
    <3> QED
      BY <2>5, <3>3 DEF TenStand, TellsOf
  <2>8. MinutesAreOf(h1, ten, t, S)
    BY <2>1, <2>4 DEF OpenAgree, MinutesAreOf
  <2>9. SumOver(h1, DOMAIN h1) + min1.acc.count = SumOver(h, DOMAIN h) + n
    BY <1>1, <2>2, <2>4
  <2> QED
    BY <1>2, <2>2, <2>4, <2>6, <2>7, <2>8, <2>9 DEF OpenAgree
<1> QED
  BY <1>4, <1>5

\* Then the ten minutes, whose minutes are all stored by then.
LEMMA TenRoll ==
    ASSUME NEW h \in TablesOf(Nat), NEW g \in TablesOf(Nat), NEW min \in Windows, NEW ten \in Windows,
           NEW t \in Nat, NEW S, StoredAgree(h, g, t, S), OpenAgree(h, g, min, ten, t, S),
           min.ts = BucketOf(Minute, t),
           NEW g1, g1 = Stored(g, ten, BucketOf(TenMinutes, t)),
           NEW ten1, ten1 = Opened(ten, BucketOf(TenMinutes, t))
    PROVE  /\ g1 \in TablesOf(Nat) /\ ten1 \in Windows /\ ten1.ts = BucketOf(TenMinutes, t)
           /\ ten1.acc.count # 0 => ten1 = ten
           /\ StoredAgree(h, g1, t, S) /\ OpenAgree(h, g1, min, ten1, t, S)
<1> DEFINE start == BucketOf(TenMinutes, t)
           n == ten.acc.count
<1>1. start \in Nat /\ n \in Nat /\ min.acc.count \in Nat
  BY BucketIs, WidthsAre DEF Windows, Accums
<1>2. /\ ten1 \in Windows /\ ten1.ts = start /\ (ten.ts = start => ten1 = ten)
      /\ (ten.ts # start => ten1.acc.count = 0) /\ (ten1.acc.count # 0 => ten1 = ten)
  BY <1>1, OpenedIs
<1>3. /\ OpenAgree(h, g, min, ten, t, S) /\ (n # 0 => TenStand(h, g, min, ten, t, S))
      /\ (min.acc.count # 0 => MinuteStands(h, min, ten, t))
      /\ MinutesAreOf(h, ten, t, S)
  BY DEF OpenAgree
<1>4. min.acc.count # 0 => n # 0 /\ ten.ts = start
  BY <1>3, MinutesAreInTens DEF MinuteStands
<1>5. CASE ten.ts = start
  BY <1>2, <1>3, <1>5 DEF Stored, Ended
<1>6. CASE n = 0 /\ ten.ts # start
  <2>1. g1 = g /\ ten1.acc.count = 0 /\ min.acc.count = 0
    BY <1>1, <1>2, <1>4, <1>6 DEF Stored
  <2>2. MinutesAreOf(h, ten1, t, S)
    BY <1>3, <1>6 DEF MinutesAreOf
  <2> QED
    BY <1>2, <2>1, <2>2 DEF OpenAgree
<1>7. CASE n # 0 /\ ten.ts # start
  <2>1. /\ ten.ts \in Nat /\ ten.ts <= start /\ (\A b \in DOMAIN g : b < ten.ts)
        /\ TellsOf(n, h, ten.ts, min.acc.count, S)
    BY <1>3, <1>7 DEF TenStand
  <2>2. g1 = Put(g, ten.ts, n) /\ ten1.acc.count = 0 /\ min.acc.count = 0 /\ ten.ts < start
    BY <1>1, <1>2, <1>4, <1>7, <2>1 DEF Stored, Ended, None
  <2>3. /\ g1 \in TablesOf(Nat) /\ DOMAIN g1 = DOMAIN g \cup {ten.ts} /\ g1[ten.ts] = n
        /\ \A b \in DOMAIN g : b # ten.ts => g1[b] = g[b]
    BY <1>1, <2>1, <2>2, PutType DEF Put
  <2>4. StoredAgree(h, g1, t, S)
    <3>1. ASSUME NEW b \in DOMAIN g1 PROVE b < start /\ TellsOf(g1[b], h, b, 0, S)
      <4>1. CASE b = ten.ts
        BY <2>1, <2>2, <2>3, <4>1
      <4>2. CASE b # ten.ts
        BY <2>3, <4>2 DEF StoredAgree
      <4> QED
        BY <4>1, <4>2
    <3> QED
      BY <3>1 DEF StoredAgree
  <2>5. MinutesAreOf(h, ten1, t, S)
    BY <1>3, <2>2 DEF MinutesAreOf
  <2> QED
    BY <1>2, <2>2, <2>3, <2>4, <2>5 DEF OpenAgree
<1> QED
  BY <1>5, <1>6, <1>7

\* What a scrape adds goes into both.
Booked(window, d) == [window EXCEPT !.acc = AddAccum(window.acc, d)]

\* What a scrape adds to both of the open windows.
LEMMA ScrapeIsBooked ==
    ASSUME NEW h \in TablesOf(Nat), NEW g \in TablesOf(Nat), NEW min \in Windows, NEW ten \in Windows,
           NEW t \in Nat, NEW S, StoredAgree(h, g, t, S), OpenAgree(h, g, min, ten, t, S),
           min.ts = BucketOf(Minute, t), ten.ts = BucketOf(TenMinutes, t),
           NEW d \in Accums, d.count # 0,
           ten.acc.count # 0 => ten.acc.le = d.le \/ CutShort(ten.ts, S),
           NEW min1, min1 = Booked(min, d),
           NEW ten1, ten1 = Booked(ten, d)
    PROVE  /\ min1 \in Windows /\ ten1 \in Windows /\ ten1.acc.le = d.le /\ ten1.ts = ten.ts
           /\ OpenAgree(h, g, min1, ten1, t, S)
           /\ min1.acc.count <= min.acc.count + d.count
<1> DEFINE n == ten.acc.count
           m == min.acc.count
           sum == SumOver(h, MinutesIn(h, ten.ts))
<1>1. /\ n \in Nat /\ m \in Nat /\ sum \in Nat /\ d.count \in Nat /\ d.count # 0
      /\ min.ts \in Nat /\ ten.ts \in Nat
      /\ min.ts = BucketOf(Minute, t) /\ ten.ts = BucketOf(TenMinutes, t)
  BY BucketIs, WidthsAre, MinutesAreCounted DEF Windows, Accums
<1>2. /\ min1 \in Windows /\ min1.ts = min.ts /\ ten1 \in Windows /\ ten1.ts = ten.ts
      /\ min1.acc = AddAccum(min.acc, d) /\ ten1.acc = AddAccum(ten.acc, d)
      /\ min1.acc.le = d.le /\ ten1.acc.le = d.le
      /\ min1.acc.count = (IF m = 0 \/ min.acc.le # d.le THEN d.count ELSE m + d.count)
      /\ ten1.acc.count = (IF n = 0 \/ ten.acc.le # d.le THEN d.count ELSE n + d.count)
  BY DEF Booked, AddAccum, Windows, Accums
<1>3. /\ m # 0 => n # 0 /\ min.acc.le = ten.acc.le
      /\ n # 0 => TellsOf(n, h, ten.ts, m, S)
      /\ MinutesAreOf(h, ten, t, S)
  BY DEF OpenAgree, MinuteStands, TenStand
<1>4. (\A k \in DOMAIN h : k < min.ts) /\ \A b \in DOMAIN g : b < ten.ts
  BY <1>1 DEF StoredAgree
<1>5. min1.acc.count \in Nat /\ ten1.acc.count \in Nat /\ min1.acc.count # 0 /\ ten1.acc.count # 0
  BY <1>1, <1>2
<1>6. MinuteStands(h, min1, ten1, t)
  BY <1>1, <1>2, <1>4, <1>5, MinutesAreInTens DEF MinuteStands
<1>7. TellsOf(ten1.acc.count, h, ten.ts, min1.acc.count, S)
  <2>1. CASE n = 0
    <3>1. min1.acc.count = d.count /\ ten1.acc.count = d.count
      BY <1>2, <1>3, <2>1
    <3>2. CASE MinutesIn(h, ten.ts) = {}
      <4>1. sum = 0
        BY <3>2, FS_EmptySet, SumSplit
      <4> QED
        BY <1>1, <3>1, <4>1 DEF TellsOf
    <3>3. CASE MinutesIn(h, ten.ts) # {}
      <4>1. PICK k \in DOMAIN h : BucketOf(TenMinutes, k) = ten.ts
        BY <3>3 DEF MinutesIn
      <4>2. ~(ten.ts < BucketOf(TenMinutes, t))
        BY <1>1
      <4>3. CutShort(ten.ts, S)
        BY <1>3, <2>1, <4>1, <4>2 DEF MinutesAreOf
      <4> QED
        BY <1>1, <3>1, <4>3 DEF TellsOf
    <3> QED
      BY <3>2, <3>3
  <2>2. CASE n # 0 /\ ten.acc.le # d.le
    <3>1. ten1.acc.count = d.count /\ min1.acc.count = d.count
      BY <1>2, <1>3, <2>2
    <3> QED
      BY <1>1, <2>2, <3>1 DEF TellsOf
  <2>3. CASE n # 0 /\ ten.acc.le = d.le
    <3>1. ten1.acc.count = n + d.count
      BY <1>2, <2>3
    <3>2. min1.acc.count = m + d.count
      BY <1>1, <1>2, <1>3, <2>3
    <3> QED
      BY <1>1, <1>3, <2>3, <3>1, <3>2 DEF TellsOf
  <2> QED
    BY <2>1, <2>2, <2>3
<1>8. TenStand(h, g, min1, ten1, t, S)
  BY <1>1, <1>2, <1>4, <1>7 DEF TenStand
<1>9. MinutesAreOf(h, ten1, t, S)
  BY <1>2, <1>3, <1>5 DEF MinutesAreOf
<1>10. min1.acc.count <= m + d.count
  BY <1>1, <1>2
<1> QED
  BY <1>2, <1>6, <1>8, <1>9, <1>10 DEF OpenAgree

\* What a poll at ts finds open, and what its scrape adds.
OpenAt(t, ts) == [w \in Widths |-> Opened(t.open[w], BucketOf(w, ts))]
Gained(t, set) == IF t.prev.count = None THEN EmptyAccum ELSE Delta(t.prev, set)

\* What a sample makes of the open windows and of the scrape before it.
LEMMA TrackedIs ==
    ASSUME NEW t \in Trackers, NEW ts \in Nat, NEW set \in Scrapes
    PROVE  /\ Tracked(t, ts, set) \in Trackers
           /\ OpenAt(t, ts) \in [Widths -> Windows]
           /\ set.count = None => /\ Tracked(t, ts, set).prev = t.prev
                                  /\ Tracked(t, ts, set).open = OpenAt(t, ts)
           /\ set.count # None =>
                  /\ Tracked(t, ts, set).prev = set /\ Gained(t, set) \in Accums
                  /\ Tracked(t, ts, set).open =
                         IF Gained(t, set).count = 0 THEN OpenAt(t, ts)
                         ELSE [w \in Widths |-> [OpenAt(t, ts)[w] EXCEPT
                                                    !.acc = AddAccum(OpenAt(t, ts)[w].acc, Gained(t, set))]]
<1> DEFINE recent == IF Ended(t.open[Minute], BucketOf(Minute, ts))
                     THEN Pushed(t.recent, t.open[Minute]) ELSE t.recent
           since == ts - (RecentMinutes + 1) * Minute
           left == Selected(recent, {w \in ToSet(recent) : w.ts > since})
           d == Gained(t, set)
           open == OpenAt(t, ts)
           more == [w \in Widths |-> [open[w] EXCEPT !.acc = AddAccum(open[w].acc, d)]]
<1>1. /\ t.prev \in Scrapes /\ t.open \in [Widths -> Windows] /\ t.recent \in Seq(Windows)
      /\ t = [prev |-> t.prev, open |-> t.open, recent |-> t.recent]
  BY DEF Trackers
<1>2. \A w \in Widths : BucketOf(w, ts) \in Nat
  BY BucketIs, WidthsAre
<1>3. open \in [Widths -> Windows]
  BY <1>1, <1>2, OpenedIs DEF OpenAt
<1>4. recent \in Seq(Windows)
  <2>1. t.open[Minute] \in Windows
    BY <1>1, WidthsAre
  <2> DEFINE r == Append(t.recent, t.open[Minute])
  <2>2. r \in Seq(Windows) /\ r # <<>>
    BY <1>1, <2>1
  <2>3. Tail(r) \in Seq(Windows)
    <3> HIDE DEF r
    <3> QED
      BY <2>2
  <2>4. Pushed(t.recent, t.open[Minute]) \in Seq(Windows)
    BY <2>2, <2>3 DEF Pushed
  <2> QED
    BY <1>1, <2>4
<1>5. left \in Seq(Windows)
  <2> HIDE DEF recent, since
  <2> QED
    BY <1>4, SelectedType
<1>6. set.count # None => d \in Accums
  BY <1>1 DEF Gained, Delta, EmptyAccum, Accums, Labels, Scrapes, None
<1>7. d \in Accums => more \in [Widths -> Windows]
  <2> SUFFICES ASSUME d \in Accums, NEW w \in Widths
               PROVE  [open[w] EXCEPT !.acc = AddAccum(open[w].acc, d)] \in Windows
    OBVIOUS
  <2>1. open[w] \in Windows
    BY <1>3
  <2> HIDE DEF open, d
  <2>2. AddAccum(open[w].acc, d) \in Accums
    BY <2>1 DEF AddAccum, Accums, Windows
  <2> QED
    BY <2>1, <2>2 DEF Windows
<1>8. CASE set.count = None
  <2>1. Tracked(t, ts, set) = [prev |-> t.prev, open |-> open, recent |-> recent]
    <3>1. Tracked(t, ts, set) = [t EXCEPT !.open = open, !.recent = recent]
      BY <1>8, Zenon DEF Tracked, OpenAt, Widths
    <3> HIDE DEF open, recent
    <3> QED
      BY <1>1, <3>1
  <2> HIDE DEF open, recent
  <2> QED
    BY <1>1, <1>3, <1>4, <1>8, <2>1 DEF Trackers, open
<1>9. CASE set.count # None
  <2>1. Tracked(t, ts, set) = [prev |-> set, open |-> IF d.count = 0 THEN open ELSE more, recent |-> left]
    BY <1>9, Zenon DEF Tracked, OpenAt, Gained, Widths
  <2>2. Tracked(t, ts, set) \in Trackers
    <3> HIDE DEF open, left, d, more
    <3> QED
      BY <1>3, <1>5, <1>6, <1>7, <1>9, <2>1 DEF Trackers
  <2> QED
    BY <1>3, <1>6, <1>9, <2>1, <2>2
<1> QED
  BY <1>8, <1>9

\* The tracker of a collector that has seen no scrape.
QuietTrackers ==
    {t \in Trackers : t.prev = NoSet /\ \A w \in Widths : t.open[w].acc.count = 0}

\* A scrape that did not answer is one.
LEMMA NoSetIs == NoSet \in Scrapes /\ NoSet.count = None
BY DEF NoSet, Scrapes, Labels, EmptyAccum

\* A new tracker has nothing open ...
LEMMA NewTrackerIsQuiet == NewTracker \in QuietTrackers
<1>1. NoWindow \in Windows /\ NoWindow.acc.count = 0
  BY DEF NoWindow, Windows, Accums, EmptyAccum, Labels
<1>2. <<>> \in Seq(Windows)
  OBVIOUS
<1>3. [w \in {Minute, TenMinutes} |-> NoWindow] \in [Widths -> Windows]
  BY <1>1 DEF Widths
<1>4. /\ NewTracker \in Trackers /\ NewTracker.prev = NoSet
      /\ \A w \in Widths : NewTracker.open[w] = NoWindow
  BY <1>2, <1>3, NoSetIs DEF NewTracker, Trackers, Widths
<1> QED
  BY <1>1, <1>4 DEF QuietTrackers

\* ... and keeps nothing open while no scrape answers ...
LEMMA QuietStaysQuiet ==
    ASSUME NEW t \in QuietTrackers, NEW ts \in Nat
    PROVE  Tracked(t, ts, NoSet) \in QuietTrackers
<1>1. /\ t \in Trackers /\ t.prev = NoSet /\ t.open \in [Widths -> Windows]
      /\ \A w \in Widths : t.open[w].acc.count = 0
  BY DEF QuietTrackers, Trackers
<1>2. /\ Tracked(t, ts, NoSet) \in Trackers /\ Tracked(t, ts, NoSet).prev = t.prev
      /\ Tracked(t, ts, NoSet).open = OpenAt(t, ts)
  <2>1. NoSet \in Scrapes /\ NoSet.count = None
    BY NoSetIs
  <2>2. /\ Tracked(t, ts, NoSet) \in Trackers
        /\ NoSet.count = None => /\ Tracked(t, ts, NoSet).prev = t.prev
                                 /\ Tracked(t, ts, NoSet).open = OpenAt(t, ts)
    BY <1>1, <2>1, TrackedIs, Zenon
  <2> QED
    BY <2>1, <2>2
<1>3. ASSUME NEW w \in Widths PROVE OpenAt(t, ts)[w].acc.count = 0
  <2>1. BucketOf(w, ts) \in Nat /\ t.open[w] \in Windows /\ t.open[w].acc.count = 0
    BY <1>1, BucketIs, WidthsAre
  <2>2. OpenAt(t, ts)[w] = Opened(t.open[w], BucketOf(w, ts))
    BY DEF OpenAt
  <2> QED
    BY <2>1, <2>2, OpenedIs
<1> QED
  BY <1>1, <1>2, <1>3 DEF QuietTrackers

\* The samples that are replayed bring no histograms.
ReplayedTracker(seq) == FoldLeft(LAMBDA t, s : Tracked(t, s.ts, NoSet), NewTracker, seq)

\* ... as none does when the samples of the database are replayed.
LEMMA ReplayIsQuiet ==
    ASSUME NEW seq \in Seq(Readings)
    PROVE  ReplayedTracker(seq) \in QuietTrackers
<1> DEFINE n == Len(seq)
           P(h) == h = [s \in SUBSET (DOMAIN seq) |->
                          IF s = {} THEN NewTracker
                          ELSE Tracked(h[s \ {Max(s)}], seq[Max(s)].ts, NoSet)]
           iter == CHOOSE h : P(h)
           step == [p \in (1 .. n) \X QuietTrackers |-> Tracked(p[2], seq[p[1]].ts, NoSet)]
<1>1. n \in Nat /\ DOMAIN seq = 1 .. n /\ \A i \in 1 .. n : seq[i] \in Readings /\ seq[i].ts \in Nat
  BY DEF Readings
<1>2. step \in [(1 .. n) \X QuietTrackers -> QuietTrackers]
  BY <1>1, QuietStaysQuiet
<1>3. PICK g \in [SUBSET (1 .. n) -> QuietTrackers] : FoldsUp(g, n, NewTracker, step)
  <2> HIDE DEF n, step
  <2> QED
    BY <1>1, <1>2, FoldUpExists, NewTrackerIsQuiet
<1>4. g[{}] = NewTracker
  BY <1>3 DEF FoldsUp
<1>5. ASSUME NEW s \in SUBSET (1 .. n), s # {}
      PROVE  Max(s) \in s /\ g[s] = Tracked(g[s \ {Max(s)}], seq[Max(s)].ts, NoSet)
  <2>1. Max(s) \in s /\ g[s] = step[<<Max(s), g[s \ {Max(s)}]>>]
    <3> HIDE DEF step
    <3> QED
      BY <1>3, <1>5 DEF FoldsUp
  <2>2. g[s \ {Max(s)}] \in QuietTrackers /\ Max(s) \in 1 .. n
    BY <1>3, <2>1
  <2> QED
    BY <2>1, <2>2
<1>6. P(g)
  <2>1. g = [s \in SUBSET (1 .. n) |-> g[s]]
    BY <1>3
  <2>2. \A s \in SUBSET (1 .. n) :
            g[s] = IF s = {} THEN NewTracker ELSE Tracked(g[s \ {Max(s)}], seq[Max(s)].ts, NoSet)
    BY <1>4, <1>5
  <2> HIDE DEF n
  <2> QED
    BY <1>1, <2>1, <2>2
<1>7. P(iter)
  <2> HIDE DEF P
  <2> QED
    BY <1>6, Zenon
<1>8. ReplayedTracker(seq) = iter[DOMAIN seq]
  BY DEF ReplayedTracker, FoldLeft, MapThenFoldSet
<1> HIDE DEF iter
<1>9. iter[1 .. n] = g[1 .. n]
  <2> DEFINE ch == [s \in SUBSET (1 .. n) |-> Max(s)]
  <2>1. iter[{}] = g[{}]
    BY <1>1, <1>4, <1>7
  <2>2. ASSUME NEW s \in SUBSET (1 .. n), s # {}
        PROVE  ch[s] \in s /\ (iter[s \ {ch[s]}] = g[s \ {ch[s]}] => iter[s] = g[s])
    <3>1. ch[s] = Max(s)
      OBVIOUS
    <3>2. iter[s] = Tracked(iter[s \ {Max(s)}], seq[Max(s)].ts, NoSet)
      BY <1>1, <1>7, <2>2
    <3> HIDE DEF ch, P
    <3> QED
      BY <1>5, <2>2, <3>1, <3>2
  <2>3. FoldAlike(ch, 1 .. n, iter, g)
    <3> HIDE DEF ch, P, n
    <3> QED
      BY <2>1, <2>2 DEF FoldAlike
  <2>4. IsFiniteSet(1 .. n)
    BY <1>1, FS_Interval
  <2> HIDE DEF ch, P, n
  <2> QED
    BY <2>3, <2>4, FoldsAgree
<1>10. g[1 .. n] \in QuietTrackers
  BY <1>3
<1> QED
  BY <1>1, <1>8, <1>9, <1>10

\* The windows after the poll at u, whatever its scrape brought.
WindowsKept(h, g, tr, u, R, set) ==
    LET h1 == Stored(h, tr.open[Minute], BucketOf(Minute, u))
        g1 == Stored(g, tr.open[TenMinutes], BucketOf(TenMinutes, u))
        tr1 == Tracked(tr, u, set)
    IN  /\ h1 \in TablesOf(Nat) /\ g1 \in TablesOf(Nat) /\ tr1 \in Trackers
        /\ WindowsOf(h1, g1, tr1, u, R)
        /\ SumOver(h1, DOMAIN h1) + tr1.open[Minute].acc.count
             <= SumOver(h, DOMAIN h) + tr.open[Minute].acc.count
                  + (IF set.count = None THEN 0 ELSE Gained(tr, set).count)

\* A sample closes what has ended, opens what begins and books its scrape, and the windows stand.
LEMMA PollKeepsWindows ==
    ASSUME NEW h \in TablesOf(Nat), NEW g \in TablesOf(Nat), NEW tr \in Trackers,
           NEW t \in Nat, NEW u \in Nat, t <= u, NEW S, NEW R, S \subseteq R,
           WindowsOf(h, g, tr, t, S), NEW set \in Scrapes,
           set.count # None /\ tr.prev.count # None /\ tr.prev.le # set.le => u \in R
    PROVE  WindowsKept(h, g, tr, u, R, set)
<1> DEFINE h1 == Stored(h, tr.open[Minute], BucketOf(Minute, u))
           g1 == Stored(g, tr.open[TenMinutes], BucketOf(TenMinutes, u))
           tr1 == Tracked(tr, u, set)
           min == tr.open[Minute]
           ten == tr.open[TenMinutes]
           min1 == Opened(min, BucketOf(Minute, u))
           ten1 == Opened(ten, BucketOf(TenMinutes, u))
           d == Gained(tr, set)
<1>1. min \in Windows /\ ten \in Windows /\ tr.prev \in Scrapes
  BY WidthsAre DEF Trackers
<1>2. StoredAgree(h, g, u, R) /\ OpenAgree(h, g, min, ten, u, R)
  <2>1. StoredAgree(h, g, t, S) /\ OpenAgree(h, g, min, ten, t, S)
    BY DEF WindowsOf
  <2> HIDE DEF min, ten
  <2> QED
    BY <1>1, <2>1, WindowsStandOn
<1>3. /\ h1 \in TablesOf(Nat) /\ min1 \in Windows /\ min1.ts = BucketOf(Minute, u)
      /\ min1.acc.count # 0 => min1 = min
      /\ StoredAgree(h1, g, u, R) /\ OpenAgree(h1, g, min1, ten, u, R)
      /\ SumOver(h1, DOMAIN h1) + min1.acc.count = SumOver(h, DOMAIN h) + min.acc.count
  <2> HIDE DEF min, ten
  <2>1. h1 = Stored(h, min, BucketOf(Minute, u))
    BY DEF min, h1
  <2> HIDE DEF h1, min1
  <2>2. min1 = Opened(min, BucketOf(Minute, u))
    BY DEF min1
  <2> QED
    BY <1>1, <1>2, <2>1, <2>2, MinuteRolls
<1>4. /\ g1 \in TablesOf(Nat) /\ ten1 \in Windows /\ ten1.ts = BucketOf(TenMinutes, u)
      /\ ten1.acc.count # 0 => ten1 = ten
      /\ StoredAgree(h1, g1, u, R) /\ OpenAgree(h1, g1, min1, ten1, u, R)
  <2> HIDE DEF min, ten, min1
  <2>1. g1 = Stored(g, ten, BucketOf(TenMinutes, u))
    BY DEF ten, g1
  <2>2. ten1 = Opened(ten, BucketOf(TenMinutes, u))
    BY DEF ten1
  <2> HIDE DEF h1, g1, ten1
  <2> QED
    BY <1>1, <1>3, <2>1, <2>2, TenRoll
<1>5. /\ tr1 \in Trackers
      /\ set.count = None => tr1.prev = tr.prev /\ tr1.open = OpenAt(tr, u)
      /\ set.count # None =>
             /\ tr1.prev = set /\ d \in Accums
             /\ tr1.open = IF d.count = 0 THEN OpenAt(tr, u)
                           ELSE [w \in Widths |-> [OpenAt(tr, u)[w] EXCEPT
                                                      !.acc = AddAccum(OpenAt(tr, u)[w].acc, d)]]
  <2>1. /\ Tracked(tr, u, set) \in Trackers
        /\ set.count = None => /\ Tracked(tr, u, set).prev = tr.prev
                               /\ Tracked(tr, u, set).open = OpenAt(tr, u)
        /\ set.count # None =>
               /\ Tracked(tr, u, set).prev = set /\ Gained(tr, set) \in Accums
               /\ Tracked(tr, u, set).open =
                      IF Gained(tr, set).count = 0 THEN OpenAt(tr, u)
                      ELSE [w \in Widths |-> [OpenAt(tr, u)[w] EXCEPT
                                                 !.acc = AddAccum(OpenAt(tr, u)[w].acc, Gained(tr, set))]]
    BY TrackedIs, ZenonT(30)
  <2> QED
    BY <2>1, Zenon DEF d
<1>6. OpenAt(tr, u)[Minute] = min1 /\ OpenAt(tr, u)[TenMinutes] = ten1
  BY WidthsAre DEF OpenAt
<1>7. LayoutStands(tr.prev, min1, ten1, R) /\ (ten1.acc.count # 0 => ten1.acc.le = tr.prev.le \/ CutShort(ten1.ts, R))
  <2>1. LayoutStands(tr.prev, min, ten, S)
    BY DEF WindowsOf
  <2>2. ten.acc.count # 0 => ten.acc.le = tr.prev.le \/ CutShort(ten.ts, R)
    BY <2>1 DEF LayoutStands, CutShort
  <2> HIDE DEF min, ten, min1, ten1
  <2>3. tr.prev.count = None => min1.acc.count = 0 /\ ten1.acc.count = 0
    BY <1>3, <1>4, <2>1 DEF LayoutStands
  <2>4. ten1.acc.count # 0 => ten1.acc.le = tr.prev.le \/ CutShort(ten1.ts, R)
    BY <1>4, <2>2
  <2> QED
    BY <2>3, <2>4 DEF LayoutStands
<1>8. SumOver(h1, DOMAIN h1) \in Nat /\ SumOver(h, DOMAIN h) \in Nat /\ min.acc.count \in Nat
      /\ min1.acc.count \in Nat
  BY <1>1, <1>3, MinutesAreCounted DEF Windows, Accums
<1> SUFFICES /\ h1 \in TablesOf(Nat) /\ g1 \in TablesOf(Nat) /\ tr1 \in Trackers
             /\ WindowsOf(h1, g1, tr1, u, R)
             /\ SumOver(h1, DOMAIN h1) + tr1.open[Minute].acc.count
                  <= SumOver(h, DOMAIN h) + tr.open[Minute].acc.count
                       + (IF set.count = None THEN 0 ELSE Gained(tr, set).count)
  BY DEF WindowsKept
<1> HIDE DEF min, ten, min1, ten1, d, h1, g1, tr1
<1>9. CASE set.count = None
  <2>1. tr1.open[Minute] = min1 /\ tr1.open[TenMinutes] = ten1 /\ tr1.prev = tr.prev
    BY <1>5, <1>6, <1>9
  <2>2. WindowsOf(h1, g1, tr1, u, R)
    BY <1>4, <1>7, <2>1 DEF WindowsOf
  <2> QED
    BY <1>3, <1>4, <1>5, <1>8, <1>9, <2>1, <2>2 DEF min
<1>10. CASE set.count # None
  \* A change of the layout falls into the open ten minutes.
  <2>1. tr.prev.count # None /\ tr.prev.le # set.le => CutShort(ten1.ts, R)
    <3>1. BucketOf(TenMinutes, u) <= u /\ u < BucketOf(TenMinutes, u) + TenMinutes
      BY BucketIs, WidthsAre
    <3> QED
      BY <1>4, <1>10, <3>1 DEF CutShort
  <2>2. d.count # 0 => tr.prev.count # None /\ d.le = set.le
    BY DEF d, Gained, Delta, EmptyAccum
  <2>3. ten1.acc.count # 0 => ten1.acc.le = set.le \/ CutShort(ten1.ts, R)
    BY <1>7, <2>1 DEF LayoutStands
  <2>4. d \in Accums /\ tr1.prev = set /\ d.count \in Nat
    BY <1>5, <1>10 DEF Accums
  <2>5. CASE d.count = 0
    <3>1. tr1.open[Minute] = min1 /\ tr1.open[TenMinutes] = ten1
      BY <1>5, <1>6, <1>10, <2>5
    <3>2. LayoutStands(set, min1, ten1, R)
      BY <1>10, <2>3 DEF LayoutStands
    <3>3. WindowsOf(h1, g1, tr1, u, R)
      BY <1>4, <2>4, <3>1, <3>2 DEF WindowsOf
    <3> QED
      BY <1>3, <1>4, <1>5, <1>8, <1>10, <2>5, <3>1, <3>3 DEF min, d
  <2>6. CASE d.count # 0
    <3> DEFINE min2 == Booked(min1, d)
               ten2 == Booked(ten1, d)
    <3>1. tr1.open[Minute] = min2 /\ tr1.open[TenMinutes] = ten2
      BY <1>5, <1>6, <1>10, <2>6, WidthsAre DEF Booked
    <3>2. ten1.acc.count # 0 => ten1.acc.le = d.le \/ CutShort(ten1.ts, R)
      BY <2>2, <2>3, <2>6
    <3>3. /\ min2 \in Windows /\ ten2 \in Windows /\ ten2.acc.le = d.le /\ ten2.ts = ten1.ts
          /\ OpenAgree(h1, g1, min2, ten2, u, R)
          /\ min2.acc.count <= min1.acc.count + d.count
      <4>1. min2 = Booked(min1, d) /\ ten2 = Booked(ten1, d)
        OBVIOUS
      <4> HIDE DEF min2, ten2
      <4> QED
        BY <1>3, <1>4, <2>4, <2>6, <3>2, <4>1, ScrapeIsBooked
    <3> HIDE DEF min2, ten2
    <3>4. LayoutStands(set, min2, ten2, R)
      BY <1>10, <2>2, <2>6, <3>3 DEF LayoutStands
    <3>5. WindowsOf(h1, g1, tr1, u, R)
      BY <1>4, <2>4, <3>1, <3>3, <3>4 DEF WindowsOf
    <3>6. min2.acc.count \in Nat
      BY <3>3 DEF Windows, Accums
    <3>7. SumOver(h1, DOMAIN h1) + min2.acc.count <= SumOver(h, DOMAIN h) + min.acc.count + d.count
      BY <1>3, <1>8, <2>4, <3>3, <3>6
    <3> QED
      BY <1>3, <1>4, <1>5, <1>10, <3>1, <3>5, <3>7 DEF min, d
  <2> QED
    BY <2>5, <2>6
<1> QED
  BY <1>9, <1>10

-----------------------------------------------------------------------------
(***************************************************************************)
(* The latency windows: the steps                                          *)
(***************************************************************************)
\* They stand before the first poll.
LEMMA WindowsBegin == AccountsStart => WindowsInv
<1> SUFFICES ASSUME AccountsStart PROVE WindowsInv
  OBVIOUS
<1>1. LedgerInv
  BY LedgerBegins
<1>2. PICK stored \in Seq(SampleType), t \in Nat, owed \in BOOLEAN, e \in Engines :
          AccountsInit(stored, t, owed, e)
  BY DEF AccountsStart
<1>3. /\ tracker = NewTracker /\ hist = [w \in Widths |-> <<>>] /\ asked = 0
      /\ read = NoSample
  BY <1>2 DEF AccountsInit
<1>4. NewTracker \in QuietTrackers
  BY NewTrackerIsQuiet
<1>5. /\ tracker \in Trackers /\ tracker.prev = NoSet /\ \A w \in Widths : tracker.open[w].acc.count = 0
  BY <1>3, <1>4 DEF QuietTrackers
<1>6. /\ hist[Minute] = <<>> /\ hist[TenMinutes] = <<>> /\ DOMAIN hist[Minute] = {}
      /\ DOMAIN hist[TenMinutes] = {}
  BY <1>3, WidthsAre
<1>7. hist \in [Widths -> TablesOf(Nat)]
  BY <1>3, EmptyTable
<1>8. tracker.open[Minute].acc.count = 0 /\ tracker.open[TenMinutes].acc.count = 0
  BY <1>5, WidthsAre
<1>9. SumOver(hist[Minute], DOMAIN hist[Minute]) = 0
  BY <1>6, FS_EmptySet, SumSplit
<1>10. WindowsStand
  BY <1>6, <1>8 DEF WindowsStand, WindowsOf, StoredAgree, OpenAgree, MinutesAreOf, LayoutStands
<1> QED
  BY <1>1, <1>3, <1>5, <1>7, <1>8, <1>9, <1>10, NoSetIs DEF WindowsInv, WindowType, NoneTwice, PrevIsRead

\* A poll that read the counter: what its histograms add is at most what the engine answered.
LEMMA ScrapeIsAnswered ==
    ASSUME WindowsInv, NEW s, NEW e, Polls(s, e), HistogramsRead(s)
    PROVE  /\ SetOf(s) \in Scrapes /\ asked' \in Int
           /\ SetOf(s).count = s.count
           /\ s.count = None => asked' = asked
           /\ s.count # None => Gained(tracker, SetOf(s)).count <= asked' - asked
           /\ s.count # None /\ tracker.prev.count # None /\ tracker.prev.le # s.config
                => s.ts \in layouts'
           /\ layouts \subseteq layouts'
<1>1. /\ s \in Readings /\ e \in Engines /\ engine \in Engines
      /\ s.life \in {engine.life, e.life} /\ e.life >= engine.life
      /\ s.life = engine.life => s.config = engine.config
  BY DEF Polls, WindowsInv, LedgerInv, Outside, OutsideType
<1>2. /\ s.count \in Nat \cup {None} /\ s.config \in Configs /\ s.life \in Nat
      /\ engine.life \in Nat /\ engine.life # 0 /\ e.life \in Nat
  BY <1>1 DEF Readings, SampleType, Engines
<1>3. SetOf(s) \in Scrapes /\ SetOf(s).count = s.count /\ (s.count # None => SetOf(s).le = s.config)
  BY <1>2, NoSetIs DEF SetOf, Scrapes, Labels
<1>4. /\ asked \in Int /\ tracker.prev \in Scrapes
      /\ tracker.prev.count # None => read # NoSample /\ tracker.prev = SetOf(read)
      /\ ReadIsOfARun
  BY DEF WindowsInv, WindowType, Trackers, PrevIsRead, LedgerInv, Outside
<1>5. CASE s.count = None
  BY <1>3, <1>4, <1>5 DEF HistogramsRead
<1>6. CASE s.count # None
  <2> DEFINE grown == IF read.life = s.life THEN s.count - read.count ELSE s.count
  <2>1. ReadingFacts(s)
    BY <1>6, ReadingIsGood DEF WindowsInv, LedgerInv, Outside
  <2>2. asked' = asked + grown
    BY <1>6 DEF HistogramsRead
  <2>3. layouts' = IF tracker.prev.count # None /\ tracker.prev.le # s.config
                   THEN layouts \cup {s.ts} ELSE layouts
    BY <1>6 DEF HistogramsRead
  <2>4. read.life = s.life => read.count \in Nat /\ read.count <= s.count /\ read.config = s.config
    <3> SUFFICES ASSUME read.life = s.life
                 PROVE  read.count \in Nat /\ read.count <= s.count /\ read.config = s.config
      OBVIOUS
    <3>1. read # NoSample
      BY <2>1, NoSampleIs DEF ReadingFacts
    <3>2. /\ read \in Readings /\ read.count # None /\ read.life <= engine.life
          /\ read.life = engine.life => read.config = engine.config
      BY <1>4, <3>1 DEF ReadIsOfARun
    <3>3. read.count \in Nat
      BY <3>2 DEF Readings, SampleType
    <3>4. s.life = engine.life
      BY <1>1, <1>2, <3>2
    <3> QED
      BY <1>1, <2>1, <3>2, <3>3, <3>4 DEF ReadingFacts
  <2>5. grown \in Nat
    BY <1>2, <1>6, <2>4
  <2>6. Gained(tracker, SetOf(s)).count <= grown
    <3>1. CASE tracker.prev.count = None
      BY <2>5, <3>1 DEF Gained, EmptyAccum
    <3>2. CASE tracker.prev.count # None
      <4>1. read # NoSample /\ read.count # None
        BY <1>4, <3>2 DEF ReadIsOfARun
      <4>2. tracker.prev.le = read.config /\ tracker.prev.count = read.count /\ read.count \in Nat
        BY <1>4, <3>2, <4>1 DEF SetOf, ReadIsOfARun, Readings, SampleType
      <4>3. Gained(tracker, SetOf(s)) = Delta(tracker.prev, SetOf(s))
        BY <3>2 DEF Gained
      <4>4. SetOf(s) = [le |-> s.config, count |-> s.count]
        BY <1>6 DEF SetOf
      <4>5. CASE read.life = s.life
        <5>1. Delta(tracker.prev, SetOf(s)).count = s.count - read.count
          BY <1>2, <1>6, <2>4, <4>2, <4>4, <4>5 DEF Delta
        <5> QED
          BY <4>3, <4>5, <5>1, <2>5
      <4>6. CASE read.life # s.life
        <5>1. Delta(tracker.prev, SetOf(s)).count <= s.count
          BY <1>2, <1>6, <4>2, <4>4 DEF Delta
        <5> QED
          BY <4>3, <4>6, <5>1
      <4> QED
        BY <4>5, <4>6
    <3> QED
      BY <3>1, <3>2
  <2>7. Gained(tracker, SetOf(s)).count \in Int
    <3>1. /\ SetOf(s).count # None => Gained(tracker, SetOf(s)) \in Accums
      <4>1. tracker \in Trackers /\ s.ts \in Nat
        BY <1>1 DEF WindowsInv, WindowType, Readings
      <4> QED
        BY <1>3, <4>1, TrackedIs
    <3> QED
      BY <1>3, <1>6, <3>1 DEF Accums
  <2> HIDE DEF grown
  <2> QED
    BY <1>3, <1>4, <1>6, <2>2, <2>3, <2>5, <2>6, <2>7
<1> QED
  BY <1>5, <1>6

\* They stand after a poll that is stored ...
LEMMA PollKeepsWindowsInv ==
    ASSUME WindowsInv, NEW s, NEW e, NEW logged \in FiniteSubsets(Nat), NEW described, NEW came,
           Polls(s, e), Poll(s, e, logged, described, came)
    PROVE  WindowsInv'
<1>1. LedgerInv'
  BY PollKeepsBooks DEF WindowsInv
<1>2. /\ ObserveLatency(s.ts, SetOf(s)) /\ HistogramsRead(s) /\ BooksRead(s)
      /\ now' = s.ts /\ starts' = starts
  BY DEF Poll
<1>3. /\ tracker \in Trackers /\ hist \in [Widths -> TablesOf(Nat)] /\ asked \in Int
      /\ now \in Nat /\ s.ts \in Nat /\ now <= s.ts
  BY DEF WindowsInv, WindowType, LedgerInv, Outside, OutsideType, Polls, Readings
<1> DEFINE h == hist[Minute]
           g == hist[TenMinutes]
           set == SetOf(s)
           S == starts \cup layouts
           R == starts \cup layouts'
           h1 == Stored(h, tracker.open[Minute], BucketOf(Minute, s.ts))
           g1 == Stored(g, tracker.open[TenMinutes], BucketOf(TenMinutes, s.ts))
           tr1 == Tracked(tracker, s.ts, set)
<1>4. /\ set \in Scrapes /\ asked' \in Int /\ set.count = s.count
      /\ s.count = None => asked' = asked
      /\ s.count # None => Gained(tracker, set).count <= asked' - asked
      /\ s.count # None /\ tracker.prev.count # None /\ tracker.prev.le # s.config => s.ts \in R
      /\ S \subseteq R
  BY <1>2, ScrapeIsAnswered
<1>5. tracker' = tr1 /\ hist' = [w \in Widths |-> Stored(hist[w], tracker.open[w], BucketOf(w, s.ts))]
  BY <1>2, Zenon DEF ObserveLatency, Closed, Stored, Widths
<1>6. hist'[Minute] = h1 /\ hist'[TenMinutes] = g1
  BY <1>5, WidthsAre
<1>7. h \in TablesOf(Nat) /\ g \in TablesOf(Nat)
  BY <1>3, WidthsAre
<1>8. s.count # None => set.le = s.config
  BY DEF SetOf
<1>9. WindowsOf(h, g, tracker, now, S)
  BY DEF WindowsInv, WindowsStand
<1>10. /\ h1 \in TablesOf(Nat) /\ g1 \in TablesOf(Nat) /\ tr1 \in Trackers
       /\ WindowsOf(h1, g1, tr1, s.ts, R)
       /\ SumOver(h1, DOMAIN h1) + tr1.open[Minute].acc.count
            <= SumOver(h, DOMAIN h) + tracker.open[Minute].acc.count
                 + (IF set.count = None THEN 0 ELSE Gained(tracker, set).count)
  <2>1. set.count # None /\ tracker.prev.count # None /\ tracker.prev.le # set.le => s.ts \in R
    BY <1>4, <1>8
  <2>2. WindowsKept(h, g, tracker, s.ts, R, set)
    <3> HIDE DEF h, g, S, R, set
    <3> QED
      BY <1>3, <1>4, <1>7, <1>9, <2>1, PollKeepsWindows
  <2> QED
    BY <2>2, Zenon DEF WindowsKept
<1> HIDE DEF set
<1>11. WindowType'
  <2>1. hist' \in [Widths -> TablesOf(Nat)]
    <3>1. \A w \in Widths : Stored(hist[w], tracker.open[w], BucketOf(w, s.ts)) \in TablesOf(Nat)
      BY <1>10 DEF Widths
    <3> QED
      BY <1>5, <3>1
  <2> QED
    BY <1>4, <1>5, <1>10, <2>1 DEF WindowType
<1>12. WindowsStand'
  BY <1>2, <1>5, <1>6, <1>10 DEF WindowsStand
<1>13. NoneTwice'
  <2>1. SumOver(h, DOMAIN h) + tracker.open[Minute].acc.count <= asked
    BY DEF WindowsInv, NoneTwice
  <2>2. /\ SumOver(h, DOMAIN h) \in Nat /\ tracker.open[Minute].acc.count \in Nat
        /\ SumOver(h1, DOMAIN h1) \in Nat /\ tr1.open[Minute].acc.count \in Nat
    <3>1. tracker.open[Minute] \in Windows /\ tr1.open[Minute] \in Windows
      BY <1>3, <1>10, WidthsAre DEF Trackers
    <3> QED
      BY <1>7, <1>10, <3>1, MinutesAreCounted DEF Windows, Accums
  <2>3. s.count # None => Gained(tracker, set) \in Accums
    BY <1>3, <1>4, TrackedIs
  <2>4. s.count # None => Gained(tracker, set).count \in Nat
    BY <2>3 DEF Accums
  <2> HIDE DEF h, h1, tr1
  <2>5. SumOver(h1, DOMAIN h1) + tr1.open[Minute].acc.count <= asked'
    BY <1>3, <1>4, <1>10, <2>1, <2>2, <2>4
  <2> QED
    BY <1>5, <1>6, <2>5 DEF NoneTwice
<1>14. PrevIsRead'
  <2>1. CASE s.count = None
    <3>1. tr1.prev = tracker.prev
      BY <1>3, <1>4, <2>1, TrackedIs
    <3>2. read' = read
      BY <1>2, <2>1 DEF BooksRead
    <3> QED
      BY <1>5, <3>1, <3>2 DEF WindowsInv, PrevIsRead, SetOf
  <2>2. CASE s.count # None
    <3>1. tr1.prev = set
      BY <1>3, <1>4, <2>2, TrackedIs
    <3>2. read' = s
      BY <1>2, <2>2 DEF BooksRead
    <3>3. s # NoSample
      BY <2>2, NoSampleIs
    <3> QED
      BY <1>5, <3>1, <3>2, <3>3 DEF PrevIsRead, SetOf, set
  <2> QED
    BY <2>1, <2>2
<1> QED
  BY <1>1, <1>11, <1>12, <1>13, <1>14 DEF WindowsInv

\* ... after one that dies with the collector ...
LEMMA DeathKeepsWindows ==
    ASSUME WindowsInv, NEW s, NEW e, Polls(s, e), PollDies(s, e)
    PROVE  WindowsInv'
<1>1. LedgerInv'
  BY DeathKeepsBooks DEF WindowsInv
<1>2. now' = s.ts /\ UNCHANGED <<tracker, hist, starts, layouts, asked, read>>
  BY DEF PollDies, latency_vars
<1>3. /\ tracker \in Trackers /\ hist \in [Widths -> TablesOf(Nat)]
      /\ now \in Nat /\ s.ts \in Nat /\ now <= s.ts
  BY DEF WindowsInv, WindowType, LedgerInv, Outside, OutsideType, Polls, Readings
<1>4. /\ hist[Minute] \in TablesOf(Nat) /\ hist[TenMinutes] \in TablesOf(Nat)
      /\ tracker.open[Minute] \in Windows /\ tracker.open[TenMinutes] \in Windows
  BY <1>3, WidthsAre DEF Trackers
<1>5. WindowsOf(hist[Minute], hist[TenMinutes], tracker, now, starts \cup layouts)
  BY DEF WindowsInv, WindowsStand
<1>6. WindowsOf(hist[Minute], hist[TenMinutes], tracker, s.ts, starts \cup layouts)
  BY <1>3, <1>4, <1>5, WindowsStandOn DEF WindowsOf
<1>7. WindowsStand'
  BY <1>2, <1>6 DEF WindowsStand
<1> QED
  BY <1>1, <1>2, <1>7 DEF WindowsInv, WindowType, NoneTwice, PrevIsRead, SetOf

\* ... and when the collector starts again on the windows that were stored.
LEMMA StartKeepsWindows ==
    ASSUME WindowsInv, NEW t \in Nat, StartCollector(t)
    PROVE  WindowsInv'
<1>1. LedgerInv'
  BY StartKeepsBooks DEF WindowsInv
<1>2. /\ now' = t /\ t > now /\ StartLatency(ToReplay(t)) /\ starts' = starts \cup {t}
      /\ UNCHANGED <<layouts, asked>>
  BY DEF StartCollector
<1>3. /\ tracker \in Trackers /\ hist \in [Widths -> TablesOf(Nat)] /\ asked \in Int /\ now \in Nat
  BY DEF WindowsInv, WindowType, LedgerInv, Outside, OutsideType
<1>4. hist' = hist /\ tracker' \in QuietTrackers
  <2>1. ToReplay(t) \in Seq(Readings)
    <3>1. samples \in Seq(Readings)
      BY DEF WindowsInv, LedgerInv, TierType
    <3> QED
      BY <3>1, SelectedType DEF ToReplay, Between
  <2>2. tracker' = ReplayedTracker(ToReplay(t)) /\ hist' = hist
    BY <1>2 DEF StartLatency, ReplayedTracker
  <2> QED
    BY <2>1, <2>2, ReplayIsQuiet
<1>5. /\ tracker' \in Trackers /\ tracker'.prev = NoSet
      /\ tracker'.open[Minute].acc.count = 0 /\ tracker'.open[TenMinutes].acc.count = 0
  BY <1>4, WidthsAre DEF QuietTrackers
<1> DEFINE h == hist[Minute]
           g == hist[TenMinutes]
           min == tracker.open[Minute]
           ten == tracker.open[TenMinutes]
           S == starts \cup layouts
           R == (starts \cup {t}) \cup layouts
<1>6. h \in TablesOf(Nat) /\ g \in TablesOf(Nat) /\ min \in Windows /\ ten \in Windows
  BY <1>3, WidthsAre DEF Trackers
<1>7. StoredAgree(h, g, now, S) /\ OpenAgree(h, g, min, ten, now, S)
  BY DEF WindowsInv, WindowsStand, WindowsOf
<1>8. StoredAgree(h, g, t, R) /\ OpenAgree(h, g, min, ten, t, R)
  <2>1. S \subseteq R /\ now <= t
    BY <1>2, <1>3
  <2> HIDE DEF h, g, min, ten, S, R
  <2> QED
    BY <1>3, <1>6, <1>7, <2>1, WindowsStandOn
\* The ten minutes that were open are over now, or the collector starts in them.
<1>9. MinutesAreOf(h, tracker'.open[TenMinutes], t, R)
  <2> SUFFICES ASSUME NEW m \in DOMAIN h
               PROVE  \/ BucketOf(TenMinutes, m) < BucketOf(TenMinutes, t)
                      \/ CutShort(BucketOf(TenMinutes, m), R)
    BY DEF MinutesAreOf
  <2> DEFINE b == BucketOf(TenMinutes, m)
  <2>1. \/ b < BucketOf(TenMinutes, t) \/ CutShort(b, R)
        \/ ten.ts = b /\ ten.acc.count # 0
    BY <1>8 DEF OpenAgree, MinutesAreOf
  <2>2. CASE ten.ts = b /\ ten.acc.count # 0
    <3>1. b \in Nat /\ b <= BucketOf(TenMinutes, t)
      BY <1>8, <2>2 DEF OpenAgree, TenStand
    <3>2. /\ BucketOf(TenMinutes, t) \in Nat /\ BucketOf(TenMinutes, t) <= t
          /\ t < BucketOf(TenMinutes, t) + TenMinutes
      BY BucketIs, WidthsAre
    <3> HIDE DEF b
    <3>3. b = BucketOf(TenMinutes, t) => CutShort(b, R)
      BY <3>2 DEF CutShort
    <3>4. b # BucketOf(TenMinutes, t) => b < BucketOf(TenMinutes, t)
      BY <3>1, <3>2
    <3> QED
      BY <3>3, <3>4 DEF b
  <2> QED
    BY <2>1, <2>2
<1>10. WindowsStand'
  <2>1. WindowsOf(h, g, tracker', t, R)
    BY <1>5, <1>8, <1>9 DEF WindowsOf, OpenAgree, LayoutStands
  <2> QED
    BY <1>2, <1>4, <2>1 DEF WindowsStand
<1>11. NoneTwice'
  <2>1. SumOver(h, DOMAIN h) + min.acc.count <= asked
    BY DEF WindowsInv, NoneTwice
  <2>2. SumOver(h, DOMAIN h) \in Nat /\ min.acc.count \in Nat
    BY <1>6, MinutesAreCounted DEF Windows, Accums
  <2> HIDE DEF min
  <2>3. SumOver(h, DOMAIN h) + 0 <= asked
    BY <1>3, <2>1, <2>2
  <2> QED
    BY <1>2, <1>4, <1>5, <2>3 DEF NoneTwice
<1>12. WindowType'
  BY <1>2, <1>3, <1>4, <1>5 DEF WindowType
<1>13. PrevIsRead'
  BY <1>5, NoSetIs DEF PrevIsRead
<1> QED
  BY <1>1, <1>10, <1>11, <1>12, <1>13 DEF WindowsInv

\* So they stand after every step.
LEMMA WindowsGoOn == WindowsInv /\ [AccountsNext]_account_vars => WindowsInv'
<1> SUFFICES ASSUME WindowsInv, [AccountsNext]_account_vars PROVE WindowsInv'
  OBVIOUS
<1>0. LedgerInv'
  BY BooksGoOn DEF WindowsInv
<1>1. ASSUME NEW t \in Nat, NEW e \in Engines, NEW how \in Hows, NEW failed \in Failures,
             NEW speed \in Nat, NEW logged \in SUBSET Nat, NEW described \in BOOLEAN,
             NEW came \in 0 .. 1, NEW dies \in BOOLEAN,
             PollAt(t, e, how, failed, speed, logged, described, came, dies)
      PROVE  WindowsInv'
  <2>1. PICK s \in Readings :
            /\ Polls(s, e) /\ logged \in FiniteSubsets(Nat)
            /\ IF dies THEN PollDies(s, e) ELSE Poll(s, e, logged, described, came)
    BY <1>1, PollsAre DEF WindowsInv, LedgerInv, Outside
  <2>2. CASE dies
    BY <2>1, <2>2, DeathKeepsWindows
  <2>3. CASE ~dies
    BY <2>1, <2>3, PollKeepsWindowsInv
  <2> QED
    BY <2>2, <2>3
<1>2. ASSUME NEW t \in Nat, StartCollector(t) PROVE WindowsInv'
  BY <1>2, StartKeepsWindows
<1>3. CASE UNCHANGED <<tracker, hist, asked, starts, layouts, read, now>>
  BY <1>0, <1>3 DEF WindowsInv, WindowType, WindowsStand, NoneTwice, PrevIsRead, SetOf
<1>4. CASE StopCollector
  <2>1. UNCHANGED <<tracker, hist, asked, starts, layouts, read, now>>
    BY <1>4 DEF StopCollector, latency_vars, books_history
  <2> QED
    BY <1>3, <2>1
<1>5. CASE BackfillStep
  <2>1. UNCHANGED <<tracker, hist, asked, starts, layouts, read, now>>
    BY <1>5 DEF BackfillStep, latency_vars, books_history, env_vars
  <2> QED
    BY <1>3, <2>1
<1>6. CASE UNCHANGED account_vars
  <2>1. UNCHANGED <<tracker, hist, asked, starts, layouts, read, now>>
    BY <1>6 DEF account_vars, latency_vars, books_history, env_vars
  <2> QED
    BY <1>3, <2>1
<1> QED
  BY <1>1, <1>2, <1>4, <1>5, <1>6 DEF AccountsNext

\* Windows that stand agree.
LEMMA WindowsDoAgree == WindowsInv => WindowsAgree
<1> SUFFICES ASSUME WindowsInv PROVE WindowsAgree
  OBVIOUS
<1>1. \A b : MinutesOf(b) = MinutesIn(hist[Minute], b)
  BY DEF MinutesOf, MinutesIn
<1>2. \A D : Asked(D) = SumOver(hist[Minute], D)
  BY DEF Asked, SumOver
<1>3. hist[Minute] \in TablesOf(Nat) /\ hist \in [Widths -> TablesOf(Nat)]
  BY WidthsAre DEF WindowsInv, WindowType
<1>4. ASSUME NEW b \in DOMAIN hist[TenMinutes]
      PROVE  /\ hist[TenMinutes][b] <= Asked(MinutesOf(b))
             /\ hist[TenMinutes][b] # Asked(MinutesOf(b)) =>
                    \E t \in starts \cup layouts : t >= b /\ t < b + TenMinutes
  <2>1. TellsOf(hist[TenMinutes][b], hist[Minute], b, 0, starts \cup layouts)
    BY DEF WindowsInv, WindowsStand, WindowsOf, StoredAgree
  <2>2. SumOver(hist[Minute], MinutesIn(hist[Minute], b)) \in Nat
    BY <1>3, MinutesAreCounted
  <2>3. Asked(MinutesOf(b)) = SumOver(hist[Minute], MinutesIn(hist[Minute], b))
    BY <1>1, <1>2
  <2> QED
    BY <2>1, <2>2, <2>3 DEF TellsOf, CutShort
<1>5. Asked(DOMAIN hist[Minute]) + tracker.open[Minute].acc.count <= asked
  BY <1>2 DEF WindowsInv, NoneTwice
<1> QED
  BY <1>4, <1>5 DEF WindowsAgree

\* Whatever engine and collector do, the two widths of the latency windows tell of the same
\* requests, and no request is in two minutes (hist.rs:345).
THEOREM WindowsAlwaysAgree == AccountsSpec => []WindowsAgree
<1>1. WindowsInv /\ [AccountsNext]_account_vars => WindowsInv'
  BY WindowsGoOn
<1> QED
  BY <1>1, WindowsBegin, WindowsDoAgree, PTL DEF AccountsSpec
-----------------------------------------------------------------------------
(***************************************************************************)
(* The loadouts: the inductive invariant                                   *)
(***************************************************************************)
AccountType ==
    [runs: Nat, last_started: Nat, samples: Seq(Nat), steps: Seq(Nat \X Nat), probes: Seq(Nat),
     cold_starts: Seq(Nat \X Nat)]
Seens == [by: {"nobody", "container", "self"}, started: Nat]

\* One of the samples in T was taken at ts ...
WasTaken(T, ts) == \E x \in T : x.ts = ts

\* ... one after ts ...
WasTakenAfter(T, ts) == \E x \in T : ts < x.ts

\* ... and one failed a moment before the start that was timed.
WasWatched(T, cold) ==
    \E x \in T : ~x.up /\ x.ts >= cold[1] /\ x.ts < cold[2] /\ x.ts >= cold[2] - ColdWindow

\* A sample younger than those in T, and V are those with it.
Younger(s, T, V) ==
    T \subseteq Readings /\ s \in Readings /\ V = T \cup {s} /\ \A x \in T : x.ts < s.ts

Ascends(seq) == \A i, j \in 1 .. Len(seq) : i < j => seq[i] < seq[j]

\* Samples and intervals as they were taken, and each once.
SamplesStand(acc, T) ==
    /\ Ascends(acc.samples)
    /\ \A i \in 1 .. Len(acc.samples) : WasTaken(T, acc.samples[i])

StepsStand(acc, T) ==
    /\ \A i, j \in 1 .. Len(acc.steps) : i < j => acc.steps[i][2] < acc.steps[j][2]
    /\ \A i \in 1 .. Len(acc.steps) : WasTaken(T, acc.steps[i][2])

\* Readings likewise, but those that were late may be there twice.
ProbesStand(acc, T, L) ==
    /\ \A i, j \in 1 .. Len(acc.probes) : i < j =>
           \/ acc.probes[i] < acc.probes[j]
           \/ acc.probes[i] = acc.probes[j] /\ acc.probes[i] \in L
    /\ \A i \in 1 .. Len(acc.probes) : WasTakenAfter(T, acc.probes[i])

ColdsStand(acc, T) == \A i \in 1 .. Len(acc.cold_starts) : WasWatched(T, acc.cold_starts[i])

AccStands(acc, T, L) ==
    /\ acc \in AccountType
    /\ SamplesStand(acc, T) /\ StepsStand(acc, T) /\ ProbesStand(acc, T, L) /\ ColdsStand(acc, T)

Counts(acc, ts) == \E i \in 1 .. Len(acc.samples) : acc.samples[i] = ts

\* What an account of a container counts is of its configuration.
OwnConfig(acc, id, T, P) ==
    id[1] = "container" =>
        \A x \in T : x.up /\ x.ts \notin P /\ Counts(acc, x.ts) => x.config = id[2]

\* The samples table is in the order of its clock, and its last row is the last poll.
InOrder(table, T) ==
    /\ \A i, j \in 1 .. Len(table) : i < j => table[i].ts < table[j].ts
    /\ \A i \in 1 .. Len(table) : table[i] \in T

TableOf(table, T) ==
    InOrder(table, T) /\ \A x \in T : \E i \in 1 .. Len(table) : x.ts <= table[i].ts

TableStands == TableOf(samples, taken)

ReadingsStand ==
    /\ probes \in Seq(Nat) /\ Ascends(probes)
    /\ \A i \in 1 .. Len(probes) : WasTakenAfter(taken, probes[i])

\* What was read since the run that serves has started is of its configuration.
RunsServe == ~mixed => \A x \in taken : x.ts >= engine.started => x.config = engine.config

\* Of the accounts on record each stands for itself ...
RecordsStand ==
    /\ \A id \in DOMAIN loadouts : id \in Ids /\ AccStands(loadouts[id], taken, late)
    /\ ~mixed => \A id \in DOMAIN loadouts : OwnConfig(loadouts[id], id, taken, pending)

\* ... and so does the current one, which has a place among them.
CurrentStands ==
    /\ current.seen_as \in Seens /\ AccStands(current.acc, taken, late)
    /\ current.id = <<>> => current.seen_as.by = "nobody"
    /\ current.id # <<>> =>
           /\ current.id \in Ids /\ current.id \in DOMAIN loadouts
           /\ current.seen_as.by = current.id[1]
    /\ ~mixed =>
           /\ current.id # <<>> => OwnConfig(current.acc, current.id, taken, pending)
           /\ current.seen_as.by = "container" =>
                  /\ current.seen_as.started <= engine.started
                  /\ current.seen_as.started = engine.started => current.id[2] = engine.config

\* Nothing that was seen since the collector started is missing.
Missed(x, cur, table) ==
    LET id == <<"container", x.config>>
    IN  ~(id \in DOMAIN table /\ Counts(IF cur.id = id THEN cur.acc ELSE table[id], x.ts))

NoneMissed ==
    alive /\ ~mixed => \A x \in taken :
        x.up /\ x.ts \notin pending /\ x.ts >= started_at /\ x.started > 0
            => ~Missed(x, current, loadouts)

LastDownStands == last_down = None \/ \E x \in taken : ~x.up /\ x.ts = last_down

LoadoutInv ==
    /\ LedgerInv /\ TableStands /\ ReadingsStand /\ RunsServe
    /\ current \in [id: Ids \cup {<<>>}, acc: AccountType, seen_as: Seens]
    /\ loadout_prev \in Previous /\ mixed \in BOOLEAN
    /\ RecordsStand /\ CurrentStands /\ NoneMissed /\ LastDownStands

-----------------------------------------------------------------------------
(***************************************************************************)
(* The loadouts: what goes into an account                                 *)
(***************************************************************************)
\* What was taken is among more that was taken.
LEMMA AccStandsOn ==
    ASSUME NEW acc, NEW T, NEW V, T \subseteq V, NEW L, NEW K, L \subseteq K, AccStands(acc, T, L)
    PROVE  AccStands(acc, V, K)
<1>1. \A ts : WasTaken(T, ts) => WasTaken(V, ts)
  BY DEF WasTaken
<1>2. \A ts : WasTakenAfter(T, ts) => WasTakenAfter(V, ts)
  BY DEF WasTakenAfter
<1>3. \A cold : WasWatched(T, cold) => WasWatched(V, cold)
  BY DEF WasWatched
<1>4. SamplesStand(acc, V) /\ StepsStand(acc, V)
  BY <1>1 DEF AccStands, SamplesStand, StepsStand
<1>5. ProbesStand(acc, V, K)
  BY <1>2 DEF AccStands, ProbesStand
<1>6. ColdsStand(acc, V)
  BY <1>3 DEF AccStands, ColdsStand
<1> QED
  BY <1>4, <1>5, <1>6 DEF AccStands

\* An empty account stands.
LEMMA EmptyAccStands == \A T, L : AccStands(EmptyAcc, T, L)
<1>1. EmptyAcc \in AccountType /\ EmptyAcc.samples = <<>> /\ EmptyAcc.steps = <<>>
      /\ EmptyAcc.probes = <<>> /\ EmptyAcc.cold_starts = <<>>
  BY DEF EmptyAcc, AccountType
<1> QED
  BY <1>1 DEF AccStands, SamplesStand, StepsStand, ProbesStand, ColdsStand, Ascends

\* A list with one element more.
LEMMA OneMore ==
    ASSUME NEW S, NEW seq \in Seq(S), NEW x \in S
    PROVE  /\ Append(seq, x) \in Seq(S) /\ Len(Append(seq, x)) = Len(seq) + 1 /\ Len(seq) \in Nat
           /\ Append(seq, x)[Len(seq) + 1] = x
           /\ \A i \in 1 .. Len(seq) : Append(seq, x)[i] = seq[i] /\ i < Len(seq) + 1
           /\ \A i \in 1 .. Len(seq) + 1 : i \in 1 .. Len(seq) \/ i = Len(seq) + 1
OBVIOUS

\* The samples of an account after one more, which is younger.
LEMMA OneSampleMore ==
    ASSUME NEW T \in SUBSET Readings, NEW s \in Readings, \A x \in T : x.ts < s.ts,
           NEW seq \in Seq(Nat), Ascends(seq), \A i \in 1 .. Len(seq) : WasTaken(T, seq[i])
    PROVE  LET more == Append(seq, s.ts)
           IN  /\ more \in Seq(Nat) /\ Ascends(more)
               /\ \A i \in 1 .. Len(more) : WasTaken(T \cup {s}, more[i])
<1> DEFINE more == Append(seq, s.ts)
           n == Len(seq)
<1>0. s.ts \in Nat
  BY DEF Readings
<1>1. /\ more \in Seq(Nat) /\ Len(more) = n + 1 /\ n \in Nat /\ more[n + 1] = s.ts
      /\ \A i \in 1 .. n : more[i] = seq[i] /\ i < n + 1
      /\ \A i \in 1 .. n + 1 : i \in 1 .. n \/ i = n + 1
  BY <1>0, OneMore
<1>2. \A i \in 1 .. n : seq[i] < s.ts
  BY DEF WasTaken
<1> HIDE DEF more, n
<1>3. ASSUME NEW i \in 1 .. n + 1, NEW j \in 1 .. n + 1, i < j PROVE more[i] < more[j]
  <2>1. i \in 1 .. n
    BY <1>1, <1>3
  <2>2. CASE j = n + 1
    BY <1>1, <1>2, <2>1, <2>2 DEF n
  <2>3. CASE j \in 1 .. n
    BY <1>1, <1>3, <2>1, <2>3 DEF n, Ascends
  <2> QED
    BY <1>1, <2>2, <2>3
<1>4. ASSUME NEW i \in 1 .. n + 1 PROVE WasTaken(T \cup {s}, more[i])
  <2>1. CASE i = n + 1
    BY <1>1, <2>1 DEF WasTaken
  <2>2. CASE i \in 1 .. n
    BY <1>1, <2>2 DEF n, WasTaken
  <2> QED
    BY <1>1, <2>1, <2>2
<1> QED
  BY <1>1, <1>3, <1>4 DEF Ascends, more

\* The intervals likewise.
LEMMA OneStepMore ==
    ASSUME NEW T \in SUBSET Readings, NEW s \in Readings, \A x \in T : x.ts < s.ts,
           NEW seq \in Seq(Nat \X Nat), NEW from \in Nat,
           \A i, j \in 1 .. Len(seq) : i < j => seq[i][2] < seq[j][2],
           \A i \in 1 .. Len(seq) : WasTaken(T, seq[i][2])
    PROVE  LET more == Append(seq, <<from, s.ts>>)
           IN  /\ more \in Seq(Nat \X Nat)
               /\ \A i, j \in 1 .. Len(more) : i < j => more[i][2] < more[j][2]
               /\ \A i \in 1 .. Len(more) : WasTaken(T \cup {s}, more[i][2])
<1> DEFINE new == <<from, s.ts>>
           more == Append(seq, new)
           n == Len(seq)
<1>0. s.ts \in Nat /\ new \in Nat \X Nat /\ new[2] = s.ts
  BY DEF Readings
<1> HIDE DEF new
<1>1. /\ more \in Seq(Nat \X Nat) /\ Len(more) = n + 1 /\ n \in Nat /\ more[n + 1] = new
      /\ \A i \in 1 .. n : more[i] = seq[i] /\ i < n + 1
      /\ \A i \in 1 .. n + 1 : i \in 1 .. n \/ i = n + 1
  BY <1>0, OneMore
<1>2. \A i \in 1 .. n : seq[i][2] < s.ts
  BY DEF WasTaken
<1> HIDE DEF more, n
<1>3. ASSUME NEW i \in 1 .. n + 1, NEW j \in 1 .. n + 1, i < j PROVE more[i][2] < more[j][2]
  <2>1. i \in 1 .. n
    BY <1>1, <1>3
  <2>2. CASE j = n + 1
    BY <1>0, <1>1, <1>2, <2>1, <2>2 DEF n
  <2>3. CASE j \in 1 .. n
    BY <1>1, <1>3, <2>1, <2>3 DEF n
  <2> QED
    BY <1>1, <2>2, <2>3
<1>4. ASSUME NEW i \in 1 .. n + 1 PROVE WasTaken(T \cup {s}, more[i][2])
  <2>1. CASE i = n + 1
    BY <1>0, <1>1, <2>1 DEF WasTaken
  <2>2. CASE i \in 1 .. n
    BY <1>1, <2>2 DEF n, WasTaken
  <2> QED
    BY <1>1, <2>1, <2>2
<1> QED
  BY <1>1, <1>3, <1>4 DEF more, new

\* LoadoutAcc::observe appends the sample, and leaves the readings alone.
LEMMA ObserveIs ==
    ASSUME NEW acc \in AccountType, NEW prev, NEW s
    PROVE  /\ ObserveAcc(acc, prev, s).probes = acc.probes
           /\ ObserveAcc(acc, prev, s).samples = Append(acc.samples, s.ts)
BY DEF ObserveAcc, AccountType

\* LoadoutAcc::observe of a sample that is younger than all before it.
LEMMA ObserveStands ==
    ASSUME NEW T, NEW L, NEW acc, NEW prev \in Previous, NEW s, NEW V, Younger(s, T, V),
           AccStands(acc, V, L), SamplesStand(acc, T), StepsStand(acc, T)
    PROVE  AccStands(ObserveAcc(acc, prev, s), V, L)
<1> DEFINE new == ObserveAcc(acc, prev, s)
<1>1. /\ acc \in AccountType /\ SamplesStand(acc, T) /\ StepsStand(acc, T)
      /\ AccStands(acc, V, L)
      /\ T \in SUBSET Readings /\ s \in Readings /\ V = T \cup {s} /\ \A x \in T : x.ts < s.ts
  BY DEF AccStands, Younger
<1>2. /\ acc.samples \in Seq(Nat) /\ acc.steps \in Seq(Nat \X Nat) /\ acc.probes \in Seq(Nat)
      /\ acc.cold_starts \in Seq(Nat \X Nat) /\ acc.runs \in Nat /\ acc.last_started \in Nat
      /\ acc = [runs |-> acc.runs, last_started |-> acc.last_started, samples |-> acc.samples,
                steps |-> acc.steps, probes |-> acc.probes, cold_starts |-> acc.cold_starts]
  BY <1>1 DEF AccountType
<1> DEFINE more == Append(acc.samples, s.ts)
           steps == IF Steps(prev, s) THEN Append(acc.steps, <<prev.ts, s.ts>>) ELSE acc.steps
<1>3. new = [runs |-> acc.runs, last_started |-> acc.last_started, samples |-> more,
             steps |-> steps, probes |-> acc.probes, cold_starts |-> acc.cold_starts]
  <2>1. new = [acc EXCEPT !.samples = more, !.steps = steps]
    BY DEF ObserveAcc
  <2> HIDE DEF new, more, steps
  <2> QED
    BY <1>2, <2>1
<1>4. /\ Append(acc.samples, s.ts) \in Seq(Nat) /\ Ascends(Append(acc.samples, s.ts))
      /\ \A i \in 1 .. Len(Append(acc.samples, s.ts)) : WasTaken(V, Append(acc.samples, s.ts)[i])
  BY <1>1, <1>2, OneSampleMore DEF SamplesStand
<1>5. /\ new.steps \in Seq(Nat \X Nat)
      /\ \A i, j \in 1 .. Len(new.steps) : i < j => new.steps[i][2] < new.steps[j][2]
      /\ \A i \in 1 .. Len(new.steps) : WasTaken(V, new.steps[i][2])
  <2>1. CASE Steps(prev, s)
    <3>1. prev.ts \in Nat
      BY <2>1, NoSampleIs DEF Steps, Previous, Readings
    <3>2. new.steps = Append(acc.steps, <<prev.ts, s.ts>>)
      BY <1>3, <2>1
    <3> HIDE DEF new
    <3> QED
      BY <1>1, <1>2, <3>1, <3>2, OneStepMore DEF StepsStand
  <2>2. CASE ~Steps(prev, s)
    <3>1. new.steps = acc.steps
      BY <1>3, <2>2
    <3> HIDE DEF new
    <3> QED
      BY <1>1, <1>2, <3>1 DEF AccStands, StepsStand
  <2> QED
    BY <2>1, <2>2
<1>6. /\ new.samples = Append(acc.samples, s.ts) /\ new.probes = acc.probes
      /\ new.cold_starts = acc.cold_starts /\ new \in AccountType
  <2>1. more \in Seq(Nat) /\ new.steps = steps
    BY <1>3, <1>4
  <2> HIDE DEF new, more, steps
  <2>2. steps \in Seq(Nat \X Nat)
    BY <1>5, <2>1
  <2>3. new \in AccountType
    BY <1>2, <1>3, <2>1, <2>2 DEF AccountType
  <2> QED
    BY <1>3, <2>3 DEF more
<1> HIDE DEF new
<1>7. SamplesStand(new, V) /\ StepsStand(new, V)
  BY <1>4, <1>5, <1>6 DEF SamplesStand, StepsStand
<1>8. ProbesStand(new, V, L) /\ ColdsStand(new, V)
  BY <1>1, <1>6 DEF AccStands, ProbesStand, ColdsStand
<1> QED
  BY <1>6, <1>7, <1>8 DEF AccStands, new

\* Samples, intervals and readings that stand do so in another account.
LEMMA SameListsStand ==
    ASSUME NEW T, NEW L, NEW acc, AccStands(acc, T, L), NEW new \in AccountType,
           new.samples = acc.samples, new.steps = acc.steps, new.probes = acc.probes,
           ColdsStand(new, T)
    PROVE  AccStands(new, T, L)
<1>1. SamplesStand(new, T)
  BY DEF AccStands, SamplesStand
<1>2. StepsStand(new, T)
  BY DEF AccStands, StepsStand
<1>3. ProbesStand(new, T, L)
  BY DEF AccStands, ProbesStand
<1> QED
  BY <1>1, <1>2, <1>3 DEF AccStands

\* LoadoutAcc::note_run counts a run, and LoadoutAcc::note_cold_start a start that was watched.
LEMMA NotesStand ==
    ASSUME NEW T \in SUBSET Readings, NEW L, NEW acc, AccStands(acc, T, L),
           NEW started \in Nat, NEW ts \in Nat,
           last_down = None \/ \E x \in T : ~x.up /\ x.ts = last_down /\ x.ts < ts
    PROVE  LET new == NoteCold(NoteRun(acc, started), started, ts)
           IN  /\ AccStands(new, T, L) /\ new.probes = acc.probes /\ new.samples = acc.samples
               /\ new.steps = acc.steps
<1> DEFINE run == NoteRun(acc, started)
           new == NoteCold(run, started, ts)
<1>1. /\ acc \in AccountType /\ SamplesStand(acc, T) /\ StepsStand(acc, T) /\ ProbesStand(acc, T, L)
      /\ ColdsStand(acc, T)
  BY DEF AccStands
<1>2. /\ run \in AccountType /\ run.samples = acc.samples /\ run.steps = acc.steps
      /\ run.probes = acc.probes /\ run.cold_starts = acc.cold_starts
  <2>1. CASE started # acc.last_started \/ acc.runs = 0
    <3>1. run = [acc EXCEPT !.runs = acc.runs + 1, !.last_started = started]
      BY <2>1 DEF NoteRun
    <3>2. acc.runs + 1 \in Nat
      BY <1>1 DEF AccountType
    <3> HIDE DEF run
    <3> QED
      BY <1>1, <3>1, <3>2 DEF AccountType
  <2>2. CASE ~(started # acc.last_started \/ acc.runs = 0)
    <3>1. run = acc
      BY <2>2 DEF NoteRun
    <3> HIDE DEF run
    <3> QED
      BY <1>1, <3>1
  <2> QED
    BY <2>1, <2>2
<1> HIDE DEF run
<1> DEFINE more == Append(run.cold_starts, <<started, ts>>)
<1>3. CASE ~(WatchedCold(last_down, started, ts) /\ ts > started)
  <2>1. new = run
    BY <1>3, Zenon DEF NoteCold
  <2>2. ColdsStand(run, T)
    BY <1>1, <1>2 DEF ColdsStand
  <2> HIDE DEF new
  <2> QED
    BY <1>2, <2>1, <2>2, SameListsStand DEF new, run
<1>4. CASE WatchedCold(last_down, started, ts) /\ ts > started
  <2>1. new = [run EXCEPT !.cold_starts = LastCold(more)]
    BY <1>4 DEF NoteCold
  <2>2. run.cold_starts \in Seq(Nat \X Nat) /\ <<started, ts>> \in Nat \X Nat
    BY <1>2 DEF AccountType
  <2>3. /\ more \in Seq(Nat \X Nat) /\ Len(more) = Len(run.cold_starts) + 1
        /\ more[Len(more)] = <<started, ts>>
        /\ \A i \in 1 .. Len(run.cold_starts) : more[i] = run.cold_starts[i]
        /\ \A i \in 1 .. Len(more) : i \in 1 .. Len(run.cold_starts) \/ i = Len(more)
    BY <2>2, OneMore
  <2>4. WasWatched(T, <<started, ts>>)
    <3>1. PICK x \in T : ~x.up /\ x.ts = last_down /\ x.ts < ts
      BY <1>4 DEF WatchedCold
    <3>2. x.ts \in Nat /\ x.ts >= started /\ ts - x.ts <= ColdWindow /\ x.ts < ts /\ ColdWindow \in Nat
      BY <1>4, <3>1, LoadoutsAssumption DEF WatchedCold, Readings
    <3>3. x.ts >= ts - ColdWindow
      BY <3>2
    <3> QED
      BY <3>1, <3>2, <3>3 DEF WasWatched
  <2> HIDE DEF more
  <2>5. \A i \in 1 .. Len(more) : WasWatched(T, more[i])
    BY <1>1, <1>2, <2>3, <2>4 DEF ColdsStand
  <2>6. /\ LastCold(more) \in Seq(Nat \X Nat)
        /\ \A i \in 1 .. Len(LastCold(more)) : WasWatched(T, LastCold(more)[i])
    <3>1. CASE Len(more) > ColdKept
      <4>1. LastCold(more) = Tail(more) /\ more # <<>>
        BY <3>1, LoadoutsAssumption DEF LastCold
      <4>2. /\ Tail(more) \in Seq(Nat \X Nat) /\ Len(Tail(more)) = Len(more) - 1 /\ Len(more) \in Nat
            /\ \A i \in 1 .. Len(Tail(more)) : Tail(more)[i] = more[i + 1]
        BY <2>3, <4>1, HeadTailProperties
      <4>3. \A i \in 1 .. Len(Tail(more)) : i + 1 \in 1 .. Len(more)
        BY <4>2
      <4> QED
        BY <2>5, <4>1, <4>2, <4>3
    <3>2. CASE ~(Len(more) > ColdKept)
      BY <2>3, <2>5, <3>2 DEF LastCold
    <3> QED
      BY <3>1, <3>2
  <2>7. /\ new \in AccountType /\ new.samples = acc.samples /\ new.steps = acc.steps
        /\ new.probes = acc.probes /\ new.cold_starts = LastCold(more)
    BY <1>2, <2>1, <2>6 DEF AccountType
  <2> HIDE DEF new
  <2>8. ColdsStand(new, T)
    BY <2>6, <2>7 DEF ColdsStand
  <2> QED
    BY <2>7, <2>8, SameListsStand DEF new, run
<1> QED
  BY <1>3, <1>4

\* The readings that come in with the poll, one at most.
NewReadings(came, ts) == [i \in 1 .. came |-> ts - 1]

\* They go behind those of the account, all of which are earlier, or are late.
LEMMA ArriveStands ==
    ASSUME NEW T, NEW L, NEW acc, AccStands(acc, T, L), NEW came \in 0 .. 1, NEW ts \in Nat, ts > 0,
           \A i \in 1 .. Len(acc.probes) : acc.probes[i] < ts - 1 \/
                                           (acc.probes[i] = ts - 1 /\ (came = 1 => ts - 1 \in L)),
           WasTaken(T, ts)
    PROVE  AccStands([acc EXCEPT !.probes = acc.probes \o NewReadings(came, ts)], T, L)
<1> DEFINE more == acc.probes \o NewReadings(came, ts)
           new == [acc EXCEPT !.probes = more]
           n == Len(acc.probes)
<1>1. /\ acc \in AccountType /\ SamplesStand(acc, T) /\ StepsStand(acc, T) /\ ProbesStand(acc, T, L)
      /\ ColdsStand(acc, T) /\ acc.probes \in Seq(Nat) /\ n \in Nat
  BY DEF AccStands, AccountType
<1>2. more \in Seq(Nat) /\ ProbesStand([probes |-> more], T, L)
  <2>1. CASE came = 0
    <3>1. NewReadings(came, ts) = <<>>
      BY <2>1 DEF NewReadings
    <3>2. more = acc.probes
      BY <1>1, <3>1
    <3> HIDE DEF more
    <3> QED
      BY <1>1, <3>2 DEF ProbesStand
  <2>2. CASE came = 1
    <3>1. NewReadings(came, ts) = <<ts - 1>>
      BY <2>2 DEF NewReadings
    <3>2. ts - 1 \in Nat /\ more = Append(acc.probes, ts - 1)
      BY <1>1, <3>1
    <3>3. /\ more \in Seq(Nat) /\ Len(more) = n + 1 /\ more[n + 1] = ts - 1
          /\ \A i \in 1 .. n : more[i] = acc.probes[i] /\ i < n + 1
          /\ \A i \in 1 .. n + 1 : i \in 1 .. n \/ i = n + 1
      BY <1>1, <3>2, OneMore
    <3> HIDE DEF more, n
    <3>4. ASSUME NEW i \in 1 .. n + 1, NEW j \in 1 .. n + 1, i < j
          PROVE  more[i] < more[j] \/ (more[i] = more[j] /\ more[i] \in L)
      <4>1. i \in 1 .. n
        BY <1>1, <3>3, <3>4
      <4>2. CASE j = n + 1
        BY <2>2, <3>3, <4>1, <4>2 DEF n
      <4>3. CASE j \in 1 .. n
        BY <1>1, <3>3, <3>4, <4>1, <4>3 DEF n, ProbesStand
      <4> QED
        BY <3>3, <4>2, <4>3
    <3>5. ASSUME NEW i \in 1 .. n + 1 PROVE WasTakenAfter(T, more[i])
      <4>1. CASE i = n + 1
        BY <3>3, <4>1 DEF WasTaken, WasTakenAfter
      <4>2. CASE i \in 1 .. n
        BY <1>1, <3>3, <4>2 DEF n, ProbesStand
      <4> QED
        BY <3>3, <4>1, <4>2
    <3> QED
      BY <3>3, <3>4, <3>5 DEF ProbesStand
  <2> QED
    BY <2>1, <2>2
<1> HIDE DEF more
<1>3. /\ new \in AccountType /\ new.samples = acc.samples /\ new.steps = acc.steps
      /\ new.probes = more /\ new.cold_starts = acc.cold_starts
  BY <1>1, <1>2 DEF AccountType
<1> HIDE DEF new
<1>4. ProbesStand(new, T, L)
  BY <1>2, <1>3 DEF ProbesStand
<1>5. SamplesStand(new, T) /\ StepsStand(new, T) /\ ColdsStand(new, T)
  BY <1>1, <1>3 DEF SamplesStand, StepsStand, ColdsStand
<1> QED
  BY <1>3, <1>4, <1>5 DEF AccStands, new, more

\* The filling of an account, one sample after another.
FillStep(a, s) == [acc |-> ObserveAcc(a.acc, a.prev, s), prev |-> s]
FillState == [acc: AccountType, prev: Previous]
NoFill == [acc |-> EmptyAcc, prev |-> NoSample]
Fills(f, seq) ==
    /\ f \in [0 .. Len(seq) -> FillState] /\ f[0] = NoFill
    /\ \A i \in 1 .. Len(seq) : f[i] = FillStep(f[i - 1], seq[i])

\* An account is of its type after a sample.
LEMMA FillStepType ==
    ASSUME NEW a \in FillState, NEW s \in Readings
    PROVE  FillStep(a, s) \in FillState
<1>1. a.acc \in AccountType /\ a.prev \in Previous /\ s.ts \in Nat /\ s \in Previous
  BY DEF FillState, Readings, Previous
<1>2. ObserveAcc(a.acc, a.prev, s) \in AccountType
  <2> DEFINE acc == a.acc
             more == Append(acc.samples, s.ts)
             steps == IF Steps(a.prev, s) THEN Append(acc.steps, <<a.prev.ts, s.ts>>) ELSE acc.steps
  <2>1. ObserveAcc(acc, a.prev, s) = [acc EXCEPT !.samples = more, !.steps = steps]
    BY DEF ObserveAcc
  <2>2. acc.samples \in Seq(Nat) /\ acc.steps \in Seq(Nat \X Nat)
    BY <1>1 DEF AccountType
  <2>3. Steps(a.prev, s) => a.prev.ts \in Nat
    BY <1>1, NoSampleIs DEF Steps, Previous, Readings
  <2>4. more \in Seq(Nat) /\ steps \in Seq(Nat \X Nat)
    BY <1>1, <2>2, <2>3
  <2> HIDE DEF more, steps
  <2> QED
    BY <1>1, <2>1, <2>4 DEF AccountType
<1> QED
  BY <1>1, <1>2 DEF FillStep, FillState

\* What backfill makes of a list of samples.
Fill(seq) ==
    FoldLeft(LAMBDA a, s : [acc |-> ObserveAcc(a.acc, a.prev, s), prev |-> s],
             [acc |-> EmptyAcc, prev |-> NoSample], seq)

\* An account is filled with one sample after another.
LEMMA FillFolds ==
    ASSUME NEW seq \in Seq(Readings)
    PROVE  \E f : Fills(f, seq) /\ Fill(seq) = f[Len(seq)]
<1> DEFINE n == Len(seq)
           P(h) == h = [s \in SUBSET (DOMAIN seq) |->
                          IF s = {} THEN [acc |-> EmptyAcc, prev |-> NoSample]
                          ELSE [acc |-> ObserveAcc(h[s \ {Max(s)}].acc, h[s \ {Max(s)}].prev, seq[Max(s)]),
                                prev |-> seq[Max(s)]]]
           iter == CHOOSE h : P(h)
           step == [p \in (1 .. n) \X FillState |-> FillStep(p[2], seq[p[1]])]
<1>1. n \in Nat /\ DOMAIN seq = 1 .. n /\ \A i \in 1 .. n : seq[i] \in Readings
  OBVIOUS
<1>2. step \in [(1 .. n) \X FillState -> FillState]
  BY <1>1, FillStepType
<1>3. NoFill \in FillState
  <2>1. AccStands(EmptyAcc, {}, {})
    BY EmptyAccStands
  <2> QED
    BY <2>1 DEF AccStands, NoFill, FillState, Previous
<1>4. PICK g \in [SUBSET (1 .. n) -> FillState] : FoldsUp(g, n, NoFill, step)
  <2> HIDE DEF n, step
  <2> QED
    BY <1>1, <1>2, <1>3, FoldUpExists
<1>5. g[{}] = NoFill
  BY <1>4 DEF FoldsUp
<1>6. ASSUME NEW s \in SUBSET (1 .. n), s # {}
      PROVE  Max(s) \in s /\ g[s] = FillStep(g[s \ {Max(s)}], seq[Max(s)])
  <2>1. Max(s) \in s /\ g[s] = step[<<Max(s), g[s \ {Max(s)}]>>]
    <3> HIDE DEF step
    <3> QED
      BY <1>4, <1>6 DEF FoldsUp
  <2>2. g[s \ {Max(s)}] \in FillState /\ Max(s) \in 1 .. n
    BY <1>4, <2>1
  <2> QED
    BY <2>1, <2>2
<1>7. P(g)
  <2>1. g = [s \in SUBSET (1 .. n) |-> g[s]]
    BY <1>4
  <2>2. \A s \in SUBSET (1 .. n) :
            g[s] = IF s = {} THEN [acc |-> EmptyAcc, prev |-> NoSample]
                   ELSE [acc |-> ObserveAcc(g[s \ {Max(s)}].acc, g[s \ {Max(s)}].prev, seq[Max(s)]),
                         prev |-> seq[Max(s)]]
    BY <1>5, <1>6 DEF FillStep, NoFill
  <2> HIDE DEF n
  <2> QED
    BY <1>1, <2>1, <2>2
<1>8. P(iter)
  <2> HIDE DEF P
  <2> QED
    BY <1>7, Zenon
<1>9. Fill(seq) = iter[DOMAIN seq]
  BY DEF Fill, FoldLeft, MapThenFoldSet
<1> HIDE DEF iter
<1>10. iter[1 .. n] = g[1 .. n]
  <2> DEFINE ch == [s \in SUBSET (1 .. n) |-> Max(s)]
  <2>1. iter[{}] = g[{}]
    BY <1>1, <1>5, <1>8 DEF NoFill
  <2>2. ASSUME NEW s \in SUBSET (1 .. n), s # {}
        PROVE  ch[s] \in s /\ (iter[s \ {ch[s]}] = g[s \ {ch[s]}] => iter[s] = g[s])
    <3>1. ch[s] = Max(s)
      OBVIOUS
    <3>2. iter[s] = FillStep(iter[s \ {Max(s)}], seq[Max(s)])
      BY <1>1, <1>8, <2>2 DEF FillStep
    <3> HIDE DEF ch, P
    <3> QED
      BY <1>6, <2>2, <3>1, <3>2
  <2>3. FoldAlike(ch, 1 .. n, iter, g)
    <3> HIDE DEF ch, P, n
    <3> QED
      BY <2>1, <2>2 DEF FoldAlike
  <2>4. IsFiniteSet(1 .. n)
    BY <1>1, FS_Interval
  <2> HIDE DEF ch, P, n
  <2> QED
    BY <2>3, <2>4, FoldsAgree
<1> DEFINE f == [i \in 0 .. n |-> UpTo(g, i)]
<1>11. GoesUp(g, n, FillState, NoFill, step)
  <2> HIDE DEF n, step
  <2> QED
    BY <1>1, <1>2, <1>3, <1>4, FoldGoesUp
<1>12. f \in [0 .. n -> FillState] /\ f[0] = NoFill /\ f[n] = g[1 .. n]
  <2> HIDE DEF step, P
  <2> QED
    BY <1>1, <1>11 DEF GoesUp, UpTo
<1>13. ASSUME NEW i \in 1 .. n PROVE f[i] = FillStep(f[i - 1], seq[i])
  <2>1. UpTo(g, i) = step[<<i, UpTo(g, i - 1)>>]
    <3> HIDE DEF step, n
    <3> QED
      BY <1>11 DEF GoesUp
  <2>2. i \in 0 .. n /\ i - 1 \in 0 .. n
    BY <1>1
  <2>3. UpTo(g, i - 1) \in FillState
    BY <1>11, <2>2 DEF GoesUp
  <2>4. <<i, UpTo(g, i - 1)>> \in (1 .. n) \X FillState
    BY <2>3
  <2>5. step[<<i, UpTo(g, i - 1)>>] = FillStep(UpTo(g, i - 1), seq[i])
    BY <2>4
  <2> HIDE DEF step, P
  <2> QED
    BY <2>1, <2>2, <2>5
<1>14. Fills(f, seq)
  <2> HIDE DEF step, P, f
  <2> QED
    BY <1>12, <1>13 DEF Fills
<1>15. Fill(seq) = f[Len(seq)]
  <2> HIDE DEF step, P, f
  <2> QED
    BY <1>1, <1>9, <1>10, <1>12
<1> QED
  BY <1>14, <1>15

\* An account filled with samples in the order of their clock stands.
LEMMA FillStands ==
    ASSUME NEW seq \in Seq(Readings),
           \A i, j \in 1 .. Len(seq) : i < j => seq[i].ts < seq[j].ts
    PROVE  /\ AccStands(Fill(seq).acc, {seq[k] : k \in 1 .. Len(seq)}, {})
           /\ Fill(seq).acc.probes = <<>>
<1> DEFINE n == Len(seq)
           Prefix(i) == {seq[k] : k \in 1 .. i}
<1>1. PICK f : Fills(f, seq) /\ Fill(seq) = f[n]
  BY FillFolds
<1>2. n \in Nat /\ \A i \in 1 .. n : seq[i] \in Readings /\ seq[i].ts \in Nat
  BY DEF Readings
<1> DEFINE Good(i) == AccStands(f[i].acc, Prefix(i), {}) /\ f[i].acc.probes = <<>>
           N == {i \in Nat : i <= n => Good(i)}
<1>3. 0 \in N
  <2>1. f[0] = NoFill /\ Prefix(0) = {}
    BY <1>1 DEF Fills
  <2>2. Good(0)
    <3>1. f[0].acc = EmptyAcc
      BY <2>1 DEF NoFill
    <3>2. EmptyAcc.probes = <<>>
      BY DEF EmptyAcc
    <3> HIDE DEF Prefix
    <3> QED
      BY <3>1, <3>2, EmptyAccStands
  <2> QED
    BY <2>2
<1>4. ASSUME NEW i \in Nat, i \in N PROVE i + 1 \in N
  <2> SUFFICES ASSUME i + 1 <= n PROVE Good(i + 1)
    OBVIOUS
  <2>1. i \in 0 .. n /\ i + 1 \in 1 .. n /\ (i + 1) - 1 = i /\ Good(i)
    BY <1>2, <1>4
  <2>2. f[i] \in FillState /\ f[i + 1] = FillStep(f[i], seq[i + 1])
    BY <1>1, <2>1 DEF Fills
  <2>3. f[i + 1].acc = ObserveAcc(f[i].acc, f[i].prev, seq[i + 1])
    BY <2>2 DEF FillStep
  <2>4. f[i].prev \in Previous
    BY <2>2 DEF FillState
  <2>5. /\ Prefix(i) \in SUBSET Readings /\ Prefix(i + 1) = Prefix(i) \cup {seq[i + 1]}
        /\ \A x \in Prefix(i) : x.ts < seq[i + 1].ts
    <3>1. \A k \in 1 .. i : k \in 1 .. n /\ k < i + 1
      BY <2>1
    <3>2. \A k \in 1 .. i + 1 : k \in 1 .. i \/ k = i + 1
      BY <2>1
    <3>3. i + 1 \in 1 .. i + 1 /\ \A k \in 1 .. i : k \in 1 .. i + 1
      BY <2>1
    <3> QED
      BY <1>2, <2>1, <3>1, <3>2, <3>3
  <2> HIDE DEF Prefix
  <2>6. /\ AccStands(ObserveAcc(f[i].acc, f[i].prev, seq[i + 1]), Prefix(i) \cup {seq[i + 1]}, {})
        /\ ObserveAcc(f[i].acc, f[i].prev, seq[i + 1]).probes = f[i].acc.probes
    <3> DEFINE acc == f[i].acc
               prev == f[i].prev
               s == seq[i + 1]
               T == Prefix(i)
               V == T \cup {s}
    <3>1. AccStands(acc, T, {}) /\ prev \in Previous /\ Younger(s, T, V) /\ T \subseteq V
      BY <1>2, <2>1, <2>4, <2>5 DEF Younger
    <3> HIDE DEF acc, prev, s, T, V
    <3>2. AccStands(acc, V, {}) /\ SamplesStand(acc, T) /\ StepsStand(acc, T)
      <4>1. SamplesStand(acc, T) /\ StepsStand(acc, T)
        BY <3>1 DEF AccStands
      <4> QED
        BY <3>1, <4>1, AccStandsOn
    <3>3. /\ AccStands(ObserveAcc(acc, prev, s), V, {})
          /\ ObserveAcc(acc, prev, s).probes = acc.probes
      <4>1. AccStands(ObserveAcc(acc, prev, s), V, {})
        BY <3>1, <3>2, ObserveStands
      <4>2. acc \in AccountType
        BY <3>1 DEF AccStands
      <4> QED
        BY <4>1, <4>2, ObserveIs
    <3> QED
      BY <3>3 DEF acc, prev, s, T, V
  <2> QED
    BY <2>1, <2>3, <2>5, <2>6
<1>5. Nat \subseteq N
  <2> HIDE DEF N
  <2> QED
    BY <1>3, <1>4, NumbersAreReached
<1>6. Good(n)
  <2>1. n \in N
    <3> HIDE DEF N
    <3> QED
      BY <1>2, <1>5
  <2> HIDE DEF Good
  <2> QED
    BY <1>2, <2>1
<1> QED
  BY <1>1, <1>6

\* A selection of an ascending list ascends.
LEMMA SelectedAscends ==
    ASSUME NEW seq \in Seq(Nat), Ascends(seq), NEW set
    PROVE  /\ Selected(seq, set) \in Seq(Nat) /\ Ascends(Selected(seq, set))
           /\ \A i \in 1 .. Len(Selected(seq, set)) :
                  \E j \in 1 .. Len(seq) : Selected(seq, set)[i] = seq[j] /\ seq[j] \in set
<1> DEFINE sel == Selected(seq, set)
<1>1. sel \in Seq(Nat) /\ \E f : Selects(f, sel, seq, set, Len(seq))
  BY SelectedIs DEF IsSelection
<1> HIDE DEF sel
<1>2. PICK f : Selects(f, sel, seq, set, Len(seq))
  BY <1>1
<1>3. \A i \in 1 .. Len(sel) : f[i] \in 1 .. Len(seq) /\ seq[f[i]] \in set /\ sel[i] = seq[f[i]]
  BY <1>2 DEF Selects
<1>4. \A i, j \in 1 .. Len(sel) : i < j => f[i] < f[j]
  BY <1>2 DEF Selects
<1>5. Ascends(sel)
  BY <1>3, <1>4 DEF Ascends
<1> QED
  BY <1>1, <1>3, <1>5 DEF sel

\* The samples stored of a time are a list in the order of their clock.
LEMMA StoredSinceIs ==
    ASSUME NEW stored \in Seq(Readings), NEW from \in Nat, NEW ts \in Nat,
           \A i, j \in 1 .. Len(stored) : i < j => stored[i].ts < stored[j].ts
    PROVE  LET seq == StoredSince(stored, from, ts)
           IN  /\ seq \in Seq(Readings)
               /\ \A i, j \in 1 .. Len(seq) : i < j => seq[i].ts < seq[j].ts
               /\ \A i \in 1 .. Len(seq) :
                      /\ \E k \in 1 .. Len(stored) : seq[i] = stored[k]
                      /\ seq[i].ts >= from /\ seq[i].ts < ts
<1> DEFINE set == {s \in ToSet(stored) : s.ts >= from /\ s.ts < ts}
           seq == Selected(stored, set)
<1>1. seq \in Seq(Readings) /\ \E f : Selects(f, seq, stored, set, Len(stored))
  BY SelectedIs DEF IsSelection
<1>2. \A x \in set : x.ts >= from /\ x.ts < ts
  OBVIOUS
<1> HIDE DEF set, seq
<1>3. PICK f : Selects(f, seq, stored, set, Len(stored))
  BY <1>1
<1>4. \A i \in 1 .. Len(seq) : f[i] \in 1 .. Len(stored) /\ stored[f[i]] \in set /\ seq[i] = stored[f[i]]
  BY <1>3 DEF Selects
<1>5. \A i, j \in 1 .. Len(seq) : i < j => f[i] < f[j]
  BY <1>3 DEF Selects
<1>6. \A i, j \in 1 .. Len(seq) : i < j => seq[i].ts < seq[j].ts
  BY <1>4, <1>5
<1>7. StoredSince(stored, from, ts) = seq
  BY DEF StoredSince, seq, set
<1> QED
  BY <1>1, <1>2, <1>4, <1>6, <1>7

\* The stored readings with the new one, and when they were taken at the latest.
ReadingsUpTo(all, T, ts) ==
    /\ all \in Seq(Nat) /\ Ascends(all)
    /\ \A i \in 1 .. Len(all) : all[i] <= ts - 1 /\ WasTakenAfter(T, all[i])

\* backfill() of a container's run: an account of what is stored of it.
LEMMA FilledStands ==
    ASSUME NEW stored \in Seq(Readings), NEW all, NEW from \in Nat, NEW ts \in Nat, NEW T, NEW L,
           InOrder(stored, T), ReadingsUpTo(all, T, ts)
    PROVE  LET acc == Filled(stored, all, from, ts)
               V == {x \in T : x.ts >= from /\ x.ts < ts}
           IN  /\ AccStands(acc, T, L) /\ SamplesStand(acc, V) /\ StepsStand(acc, V)
               /\ \A i \in 1 .. Len(acc.probes) : acc.probes[i] <= ts - 1
<1> DEFINE seq == StoredSince(stored, from, ts)
           V == {x \in T : x.ts >= from /\ x.ts < ts}
           W == {seq[k] : k \in 1 .. Len(seq)}
           bare == Fill(seq).acc
           some == Selected(all, from .. ts - 1)
           acc == Filled(stored, all, from, ts)
<1>1. /\ seq \in Seq(Readings) /\ \A i, j \in 1 .. Len(seq) : i < j => seq[i].ts < seq[j].ts
      /\ \A i \in 1 .. Len(seq) : /\ \E k \in 1 .. Len(stored) : seq[i] = stored[k]
                                  /\ seq[i].ts >= from /\ seq[i].ts < ts
  BY StoredSinceIs DEF InOrder
<1>2. acc = [bare EXCEPT !.probes = some]
  BY DEF Filled, Fill
<1>3. W \subseteq V /\ V \cup T = T
  BY <1>1 DEF InOrder
<1> HIDE DEF seq
<1>4. AccStands(bare, W, {}) /\ bare.probes = <<>>
  BY <1>1, FillStands
<1> HIDE DEF W, V, bare, acc
<1>5. AccStands(bare, V, {})
  BY <1>3, <1>4, AccStandsOn
<1>6. /\ some \in Seq(Nat) /\ Ascends(some)
      /\ \A i \in 1 .. Len(some) : \E j \in 1 .. Len(all) : some[i] = all[j]
  BY SelectedAscends DEF ReadingsUpTo
<1> HIDE DEF some
<1>7. /\ acc \in AccountType /\ acc.samples = bare.samples /\ acc.steps = bare.steps
      /\ acc.probes = some /\ acc.cold_starts = bare.cold_starts
  BY <1>2, <1>5, <1>6 DEF AccStands, AccountType
<1>8. AccStands(bare, V \cup T, L)
  BY <1>5, AccStandsOn
<1>9. ProbesStand(acc, V \cup T, L)
  <2>1. \A i \in 1 .. Len(some) : WasTakenAfter(T, some[i])
    BY <1>6 DEF ReadingsUpTo
  <2>2. \A i \in 1 .. Len(some) : WasTakenAfter(V \cup T, some[i])
    BY <2>1 DEF WasTakenAfter
  <2>3. \A i, j \in 1 .. Len(some) : i < j => some[i] < some[j]
    BY <1>6 DEF Ascends
  <2> QED
    BY <1>7, <2>2, <2>3 DEF ProbesStand
<1>10. SamplesStand(acc, V \cup T)
  BY <1>7, <1>8 DEF AccStands, SamplesStand
<1>11. StepsStand(acc, V \cup T)
  BY <1>7, <1>8 DEF AccStands, StepsStand
<1>12. ColdsStand(acc, V \cup T)
  BY <1>7, <1>8 DEF AccStands, ColdsStand
<1>13. AccStands(acc, V \cup T, L)
  BY <1>7, <1>9, <1>10, <1>11, <1>12 DEF AccStands
<1>14. SamplesStand(acc, V) /\ StepsStand(acc, V)
  BY <1>5, <1>7 DEF AccStands, SamplesStand, StepsStand
<1>15. \A i \in 1 .. Len(acc.probes) : acc.probes[i] <= ts - 1
  BY <1>6, <1>7 DEF ReadingsUpTo
<1> QED
  BY <1>3, <1>13, <1>14, <1>15 DEF acc, V

-----------------------------------------------------------------------------
(***************************************************************************)
(* The loadouts: what a poll finds                                         *)
(***************************************************************************)
\* What docker and the scrape tell of the run that serves, once both tell of the same.
LEMMA RunGoesOn ==
    ASSUME OutsideType, RunsServe, NEW s, NEW e, Polls(s, e), Serves(e, s.ts),
           mixed \in BOOLEAN, mixed' = (mixed \/ ReadsTwo(s, e))
    PROVE  /\ RunsServe' /\ mixed' \in BOOLEAN /\ engine.started <= e.started
           /\ engine.started \in Nat /\ e.started \in Nat
           /\ e.started = engine.started => e.config = engine.config
           /\ ~mixed' => ~mixed /\ s.config = e.config /\ s.started \in {0, e.started}
<1>1. /\ s \in Readings /\ e \in Engines /\ engine \in Engines /\ engine' = e
      /\ taken' = taken \cup {s} /\ (s.life = e.life => s.config = e.config)
  BY DEF Polls, OutsideType
<1>2. /\ engine.started \in Nat /\ e.started \in Nat /\ engine.life \in Nat /\ e.life \in Nat
      /\ \A x \in taken : x.ts \in Nat
  BY <1>1 DEF Engines, OutsideType, Readings
<1>3. \/ e.life = engine.life /\ e.started = engine.started /\ e.config = engine.config
      \/ e.started > engine.started /\ \A x \in taken : x.ts < e.started
  <2>1. CASE e = [engine EXCEPT !.count = e.count]
    BY <1>1, <2>1 DEF Engines
  <2>2. CASE e.started \in engine.started + 1 .. s.ts /\ \A x \in taken : x.ts < e.started
    BY <1>1, <1>2, <2>2 DEF Readings
  <2> QED
    BY <2>1, <2>2 DEF Serves
<1>4. mixed' \in BOOLEAN /\ (~mixed' => ~mixed /\ ~ReadsTwo(s, e))
  BY Zenon
<1>5. ASSUME ~mixed' PROVE ~mixed /\ s.config = e.config /\ s.started \in {0, e.started}
  <2>1. ~mixed /\ ~ReadsTwo(s, e)
    BY <1>4, <1>5, Zenon
  <2>2. s.config = e.config /\ s.started \in {0, e.started}
    BY <1>1, <2>1 DEF ReadsTwo
  <2> QED
    BY <2>1, <2>2, Zenon
<1>6. ASSUME ~mixed', NEW x \in taken', x.ts >= e.started PROVE x.config = e.config
  <2>1. CASE x = s
    BY <1>5, <1>6, <2>1
  <2>2. CASE x \in taken
    <3>1. e.started = engine.started /\ e.config = engine.config
      BY <1>2, <1>3, <1>6, <2>2
    <3> QED
      BY <1>5, <1>6, <2>2, <3>1 DEF RunsServe
  <2>3. x \in taken \/ x = s
    BY <1>1
  <2> QED
    BY <2>1, <2>2, <2>3, Zenon
<1>7. RunsServe'
  BY <1>1, <1>6 DEF RunsServe
<1>8. engine.started <= e.started /\ (e.started = engine.started => e.config = engine.config)
  BY <1>2, <1>3
<1> QED
  BY <1>2, <1>4, <1>5, <1>7, <1>8

\* A sample younger than those of the table is younger than all that were ever taken ...
LEMMA YoungestOfAll ==
    ASSUME taken \subseteq Readings, TableStands, NEW s \in Readings, samples \in Seq(Readings),
           \A x \in ToSet(samples) : s.ts > x.ts
    PROVE  Younger(s, taken, taken \cup {s})
<1>1. ASSUME NEW x \in taken PROVE x.ts < s.ts
  <2>1. PICK i \in 1 .. Len(samples) : x.ts <= samples[i].ts
    BY DEF TableStands, TableOf, InOrder
  <2>2. samples[i] \in Readings /\ samples[i] \in ToSet(samples)
    BY DEF ToSet
  <2>3. x.ts \in Nat /\ samples[i].ts \in Nat /\ s.ts \in Nat /\ s.ts > samples[i].ts
    BY <2>2 DEF Readings
  <2> QED
    BY <2>1, <2>3
<1> QED
  BY <1>1 DEF Younger

\* ... so that the table stays in order with it, pruned or not.
LEMMA TableGoesOn ==
    ASSUME TierType, TableStands, NEW s, Younger(s, taken, taken \cup {s}),
           taken' = taken \cup {s}, StoreAndFold(s) \/ StoreOnly(s)
    PROVE  LET stored == Append(samples, s)
           IN  TableStands' /\ stored \in Seq(Readings) /\ InOrder(stored, taken')
<1> DEFINE stored == Append(samples, s)
           n == Len(samples)
           V == taken \cup {s}
           set == {x \in ToSet(stored) : x.ts >= s.ts - KeepRaw}
           young == Selected(stored, set)
<1>1. samples \in Seq(Readings) /\ s \in Readings /\ s.ts \in Nat /\ KeepRaw \in Nat
      /\ \A x \in taken : x.ts \in Nat /\ x.ts < s.ts
  BY TiersAssumption DEF TierType, Younger, Readings
<1>2. /\ stored \in Seq(Readings) /\ Len(stored) = n + 1 /\ n \in Nat /\ stored[n + 1] = s
      /\ \A i \in 1 .. n : stored[i] = samples[i] /\ i < n + 1
      /\ \A i \in 1 .. n + 1 : i \in 1 .. n \/ i = n + 1
  BY <1>1, OneMore
<1>3. \A i \in 1 .. n : samples[i] \in taken /\ samples[i].ts < s.ts
  BY <1>1 DEF TableStands, TableOf, InOrder
<1>4. (samples' = stored \/ samples' = young) /\ taken' = V
  BY DEF StoreAndFold, StoreOnly
<1>5. n + 1 \in 1 .. Len(stored) /\ s \in set
  BY <1>1, <1>2 DEF ToSet
<1>6. young \in Seq(Readings) /\ \E f : Selects(f, young, stored, set, Len(stored))
  BY <1>2, SelectedIs DEF IsSelection
<1> HIDE DEF stored, set, young, V
<1>7. ASSUME NEW i \in 1 .. Len(stored), NEW j \in 1 .. Len(stored), i < j
      PROVE  stored[i].ts < stored[j].ts
  <2>1. i \in 1 .. n
    BY <1>2, <1>7
  <2>2. CASE j = n + 1
    BY <1>2, <1>3, <2>1, <2>2
  <2>3. CASE j \in 1 .. n
    BY <1>2, <1>7, <2>1, <2>3 DEF TableStands, TableOf, InOrder
  <2> QED
    BY <1>2, <2>2, <2>3
<1>8. \A i \in 1 .. Len(stored) : stored[i] \in V
  BY <1>2, <1>3 DEF V
<1>9. ASSUME NEW x \in V PROVE x.ts <= s.ts
  BY <1>1, <1>9 DEF V
<1>10. ASSUME samples' = stored PROVE TableOf(samples', taken')
  <2>1. \A x \in V : \E i \in 1 .. Len(stored) : x.ts <= stored[i].ts
    BY <1>2, <1>5, <1>9
  <2> QED
    BY <1>4, <1>7, <1>8, <1>10, <2>1 DEF TableOf, InOrder
<1>11. ASSUME samples' = young PROVE TableOf(samples', taken')
  <2>1. PICK f : Selects(f, young, stored, set, Len(stored))
    BY <1>6
  <2>2. \A i \in 1 .. Len(young) : f[i] \in 1 .. Len(stored) /\ young[i] = stored[f[i]]
    BY <2>1 DEF Selects
  <2>3. \A i, j \in 1 .. Len(young) : i < j => f[i] < f[j]
    BY <2>1 DEF Selects
  <2>4. PICK k \in 1 .. Len(young) : f[k] = n + 1
    BY <1>2, <1>5, <2>1 DEF Selects
  <2>5. young[k] = s
    BY <1>2, <2>2, <2>4
  <2>6. \A i, j \in 1 .. Len(young) : i < j => young[i].ts < young[j].ts
    BY <1>7, <2>2, <2>3
  <2>7. \A i \in 1 .. Len(young) : young[i] \in V
    BY <1>8, <2>2
  <2>8. \A x \in V : \E i \in 1 .. Len(young) : x.ts <= young[i].ts
    BY <1>9, <2>4, <2>5
  <2> QED
    BY <1>4, <1>11, <2>6, <2>7, <2>8 DEF TableOf, InOrder
<1> QED
  BY <1>2, <1>4, <1>7, <1>8, <1>10, <1>11 DEF TableStands, InOrder, stored

\* The reading that comes in with the poll is younger than those stored.
LEMMA ReadingsArrive ==
    ASSUME ReadingsStand, NEW s, NEW V, Younger(s, taken, V), NEW came \in 0 .. 1, s.ts > 0
    PROVE  ReadingsUpTo(probes \o NewReadings(came, s.ts), V, s.ts)
<1> DEFINE n == Len(probes)
           new == s.ts - 1
           all == probes \o NewReadings(came, s.ts)
<1>1. /\ probes \in Seq(Nat) /\ n \in Nat /\ s.ts \in Nat /\ new \in Nat /\ new < s.ts /\ s \in V
      /\ taken \subseteq V /\ \A x \in taken : x.ts \in Nat /\ x.ts < s.ts
  BY DEF ReadingsStand, Younger, Readings
<1>2. \A i \in 1 .. n : probes[i] < new /\ WasTakenAfter(V, probes[i])
  <2>1. TAKE i \in 1 .. n
  <2>2. PICK x \in taken : probes[i] < x.ts
    BY DEF ReadingsStand, WasTakenAfter
  <2>3. probes[i] \in Nat
    BY <1>1
  <2> QED
    BY <1>1, <2>2, <2>3 DEF WasTakenAfter
<1>3. CASE came = 0
  <2>1. NewReadings(came, s.ts) = <<>>
    BY <1>3 DEF NewReadings
  <2>2. all = probes
    BY <1>1, <2>1
  <2> HIDE DEF all
  <2>3. \A i \in 1 .. n : probes[i] <= s.ts - 1
    BY <1>1, <1>2
  <2> QED
    BY <1>1, <1>2, <2>2, <2>3 DEF ReadingsUpTo, ReadingsStand, all
<1>4. CASE came = 1
  <2>1. NewReadings(came, s.ts) = <<new>>
    BY <1>4 DEF NewReadings
  <2>2. all = Append(probes, new)
    BY <1>1, <2>1
  <2> HIDE DEF all, new
  <2>3. /\ all \in Seq(Nat) /\ Len(all) = n + 1 /\ all[n + 1] = new
        /\ \A i \in 1 .. n : all[i] = probes[i] /\ i < n + 1
        /\ \A i \in 1 .. n + 1 : i \in 1 .. n \/ i = n + 1
    BY <1>1, <2>2, OneMore
  <2>4. ASSUME NEW i \in 1 .. n + 1, NEW j \in 1 .. n + 1, i < j PROVE all[i] < all[j]
    <3>1. i \in 1 .. n
      BY <1>1, <2>3, <2>4
    <3>2. CASE j = n + 1
      BY <1>2, <2>3, <3>1, <3>2
    <3>3. CASE j \in 1 .. n
      BY <1>1, <2>3, <2>4, <3>1, <3>3 DEF ReadingsStand, Ascends
    <3> QED
      BY <2>3, <3>2, <3>3
  <2>5. ASSUME NEW i \in 1 .. n + 1 PROVE all[i] <= new /\ WasTakenAfter(V, all[i])
    <3>1. CASE i = n + 1
      BY <1>1, <2>3, <3>1 DEF WasTakenAfter
    <3>2. CASE i \in 1 .. n
      <4>1. probes[i] \in Nat /\ probes[i] < new /\ WasTakenAfter(V, probes[i])
        BY <1>1, <1>2, <3>2
      <4> QED
        BY <1>1, <2>3, <3>2, <4>1
    <3> QED
      BY <2>3, <3>1, <3>2
  <2>6. Ascends(all)
    BY <2>3, <2>4 DEF Ascends
  <2> QED
    BY <2>3, <2>5, <2>6 DEF ReadingsUpTo, all, new
<1> QED
  BY <1>3, <1>4

-----------------------------------------------------------------------------
(***************************************************************************)
(* The loadouts: the account a poll counts for                             *)
(***************************************************************************)
\* An account to which the poll of s may go, with the readings that came in.
Ready(acc, s, T, V, L, came) ==
    /\ AccStands(acc, V, L) /\ SamplesStand(acc, T) /\ StepsStand(acc, T)
    /\ \A i \in 1 .. Len(acc.probes) :
           \/ acc.probes[i] < s.ts - 1
           \/ acc.probes[i] = s.ts - 1 /\ (came = 1 => s.ts - 1 \in L)

\* An account from before the poll is one ...
LEMMA HoldIsReady ==
    ASSUME NEW s, NEW T, NEW V, Younger(s, T, V), NEW K, NEW L, K \subseteq L, NEW came,
           NEW acc, AccStands(acc, T, K)
    PROVE  Ready(acc, s, T, V, L, came)
<1>1. T \subseteq V /\ s.ts \in Nat /\ \A x \in T : x.ts \in Nat /\ x.ts < s.ts
  BY DEF Younger, Readings
<1>2. AccStands(acc, V, L)
  BY <1>1, AccStandsOn
<1>3. SamplesStand(acc, T) /\ StepsStand(acc, T) /\ ProbesStand(acc, T, K) /\ acc.probes \in Seq(Nat)
  BY DEF AccStands, AccountType
<1>4. ASSUME NEW i \in 1 .. Len(acc.probes) PROVE acc.probes[i] < s.ts - 1
  <2>1. PICK x \in T : acc.probes[i] < x.ts
    BY <1>3 DEF ProbesStand, WasTakenAfter
  <2>2. acc.probes[i] \in Nat
    BY <1>3
  <2> QED
    BY <1>1, <2>1, <2>2
<1> QED
  BY <1>2, <1>3, <1>4 DEF Ready

\* ... one that is filled with what is stored is one, and counts nothing from before its run ...
LEMMA FilledIsReady ==
    ASSUME NEW s, NEW T, NEW V, Younger(s, T, V), NEW L, NEW came, NEW stored \in Seq(Readings),
           InOrder(stored, V), NEW all, ReadingsUpTo(all, V, s.ts), NEW from \in Nat,
           came = 1 => s.ts - 1 \in L
    PROVE  LET acc == Filled(stored, all, from, s.ts)
           IN  Ready(acc, s, T, V, L, came) /\ \A ts : Counts(acc, ts) => ts >= from
<1> DEFINE acc == Filled(stored, all, from, s.ts)
           W == {x \in V : x.ts >= from /\ x.ts < s.ts}
<1>1. s.ts \in Nat /\ W \subseteq T
  BY DEF Younger, Readings
<1>2. /\ AccStands(acc, V, L) /\ SamplesStand(acc, W) /\ StepsStand(acc, W)
      /\ \A i \in 1 .. Len(acc.probes) : acc.probes[i] <= s.ts - 1
  <2> DEFINE ts == s.ts
  <2>1. ts \in Nat /\ ReadingsUpTo(all, V, ts)
    BY <1>1
  <2> HIDE DEF ts
  <2>2. LET a == Filled(stored, all, from, ts)
            U == {x \in V : x.ts >= from /\ x.ts < ts}
        IN  /\ AccStands(a, V, L) /\ SamplesStand(a, U) /\ StepsStand(a, U)
            /\ \A i \in 1 .. Len(a.probes) : a.probes[i] <= ts - 1
    BY <2>1, FilledStands
  <2> QED
    BY <2>2 DEF ts
<1>3. \A x \in W : x.ts >= from
  OBVIOUS
<1> HIDE DEF acc, W
<1>4. SamplesStand(acc, T) /\ StepsStand(acc, T)
  BY <1>1, <1>2 DEF SamplesStand, StepsStand, WasTaken
<1>5. ASSUME NEW ts, Counts(acc, ts) PROVE ts >= from
  BY <1>2, <1>3, <1>5 DEF Counts, SamplesStand, WasTaken
<1>6. acc.probes \in Seq(Nat)
  BY <1>2 DEF AccStands, AccountType
<1>7. \A i \in 1 .. Len(acc.probes) :
          acc.probes[i] < s.ts - 1 \/ (acc.probes[i] = s.ts - 1 /\ (came = 1 => s.ts - 1 \in L))
  <2>1. TAKE i \in 1 .. Len(acc.probes)
  <2>2. acc.probes[i] \in Nat /\ acc.probes[i] <= s.ts - 1
    BY <1>2, <1>6
  <2> QED
    BY <1>1, <2>2
<1> QED
  BY <1>2, <1>4, <1>5, <1>7 DEF Ready, acc

\* ... and it is one when its run and a start of it have been noted.
LEMMA NotedIsReady ==
    ASSUME NEW s, NEW T, NEW V, Younger(s, T, V), NEW L, NEW came, NEW acc,
           Ready(acc, s, T, V, L, came), NEW started \in Nat,
           last_down = None \/ \E x \in T : ~x.up /\ x.ts = last_down
    PROVE  LET new == NoteCold(NoteRun(acc, started), started, s.ts)
           IN  Ready(new, s, T, V, L, came) /\ new.samples = acc.samples
<1> DEFINE ts == s.ts
           new == NoteCold(NoteRun(acc, started), started, ts)
<1>1. /\ V \in SUBSET Readings /\ ts \in Nat
      /\ last_down = None \/ \E x \in V : ~x.up /\ x.ts = last_down /\ x.ts < ts
      /\ AccStands(acc, V, L) /\ SamplesStand(acc, T) /\ StepsStand(acc, T)
  BY DEF Younger, Readings, Ready
<1> HIDE DEF ts
<1>2. /\ AccStands(new, V, L) /\ new.probes = acc.probes /\ new.samples = acc.samples
      /\ new.steps = acc.steps
  BY <1>1, NotesStand
<1> HIDE DEF new
<1>3. SamplesStand(new, T) /\ StepsStand(new, T)
  BY <1>1, <1>2 DEF SamplesStand, StepsStand
<1>4. Ready(new, s, T, V, L, came)
  BY <1>2, <1>3 DEF Ready
<1> QED
  BY <1>2, <1>4 DEF new, ts

\* An account with the poll in it stands, before its readings came in and after it.
LEMMA PolledStands ==
    ASSUME NEW s, NEW T, NEW V, Younger(s, T, V), NEW L, NEW came \in 0 .. 1, NEW acc,
           Ready(acc, s, T, V, L, came), NEW prev \in Previous, s.ts > 0
    PROVE  LET new == ObserveAcc(acc, prev, s)
               more == [new EXCEPT !.probes = new.probes \o NewReadings(came, s.ts)]
           IN  AccStands(new, V, L) /\ AccStands(more, V, L)
<1> DEFINE new == ObserveAcc(acc, prev, s)
           ts == s.ts
           more == [new EXCEPT !.probes = new.probes \o NewReadings(came, ts)]
<1>1. AccStands(acc, V, L) /\ SamplesStand(acc, T) /\ StepsStand(acc, T) /\ acc \in AccountType
  BY DEF Ready, AccStands
<1>2. new.probes = acc.probes /\ new.samples = Append(acc.samples, s.ts)
  BY <1>1, ObserveIs
<1>3. AccStands(new, V, L)
  BY <1>1, ObserveStands
<1>4. ts \in Nat /\ ts > 0 /\ WasTaken(V, ts)
  BY DEF Younger, Readings, WasTaken
<1>5. \A i \in 1 .. Len(new.probes) :
          new.probes[i] < ts - 1 \/ (new.probes[i] = ts - 1 /\ (came = 1 => ts - 1 \in L))
  BY <1>2 DEF Ready
<1> HIDE DEF new, ts
<1>6. AccStands(more, V, L)
  BY <1>3, <1>4, <1>5, ArriveStands
<1> QED
  BY <1>3, <1>6 DEF new, ts

\* It counts the poll, and all it counted before.
LEMMA PolledCounts ==
    ASSUME NEW acc \in AccountType, NEW new, NEW ts \in Nat, new.samples = Append(acc.samples, ts)
    PROVE  \A at : Counts(new, at) <=> Counts(acc, at) \/ at = ts
<1> DEFINE old == acc.samples
           n == Len(old)
<1>1. old \in Seq(Nat)
  BY DEF AccountType
<1>2. /\ Len(new.samples) = n + 1 /\ n \in Nat /\ new.samples[n + 1] = ts
      /\ \A i \in 1 .. n : new.samples[i] = old[i] /\ i < n + 1
      /\ \A i \in 1 .. n + 1 : i \in 1 .. n \/ i = n + 1
  BY <1>1, OneMore
<1>3. n + 1 \in 1 .. n + 1 /\ \A i \in 1 .. n : i \in 1 .. n + 1
  BY <1>2
<1> HIDE DEF n
<1> QED
  BY <1>2, <1>3 DEF Counts, n

\* What it counts is of its configuration, when what it counted and the poll are.
LEMMA OwnConfigOn ==
    ASSUME NEW s, NEW T, NEW V, Younger(s, T, V), NEW P, NEW Q, P \subseteq Q, NEW acc, NEW id,
           SamplesStand(acc, T), OwnConfig(acc, id, T, P)
    PROVE  OwnConfig(acc, id, V, Q)
<1>1. s.ts \in Nat /\ V = T \cup {s} /\ \A x \in T : x.ts < s.ts /\ x.ts \in Nat
  BY DEF Younger, Readings
<1>2. ~Counts(acc, s.ts)
  BY <1>1 DEF Counts, SamplesStand, WasTaken
<1> QED
  BY <1>1, <1>2 DEF OwnConfig

\* The poll itself, with what was counted.
LEMMA OwnConfigPolled ==
    ASSUME NEW s, NEW T, NEW V, Younger(s, T, V), NEW Q, NEW acc \in AccountType, NEW id, NEW new,
           OwnConfig(acc, id, V, Q), new.samples = Append(acc.samples, s.ts),
           id[1] = "container" /\ s.up /\ s.ts \notin Q => s.config = id[2]
    PROVE  OwnConfig(new, id, V, Q)
<1>1. s.ts \in Nat /\ V = T \cup {s} /\ \A x \in T : x.ts < s.ts /\ x.ts \in Nat
  BY DEF Younger, Readings
<1>2. \A at : Counts(new, at) => Counts(acc, at) \/ at = s.ts
  BY <1>1, PolledCounts
<1>3. \A x \in V : x.ts = s.ts => x = s
  BY <1>1
<1> QED
  BY <1>2, <1>3 DEF OwnConfig

-----------------------------------------------------------------------------
(***************************************************************************)
(* The loadouts: a poll                                                    *)
(***************************************************************************)
\* The loadout a poll finds, or switches to, and the records then.
Handed(s, described, stored, all) ==
    IF Switched(s) /\ described THEN Arrived(s, stored, all)
    ELSE [current |-> current, table |-> loadouts]

\* The account a switch begins with: the one that was current, one on record, or a filled one.
BeganWith(id, acc, s, stored, all) ==
    \/ id = current.id /\ acc = current.acc
    \/ id # current.id /\ id \in DOMAIN loadouts /\ acc = loadouts[id]
    \/ id # current.id /\ id \notin DOMAIN loadouts /\ acc = Filled(stored, all, s.started, s.ts)

\* All that a poll has to do with.
Arrives(s, V, L, stored, all, came) ==
    /\ Younger(s, taken, V) /\ s.ts > 0 /\ late \subseteq L
    /\ stored \in Seq(Readings) /\ InOrder(stored, V) /\ ReadingsUpTo(all, V, s.ts)

\* What is serving, as a sample shows it.
LEMMA SeenIs ==
    ASSUME NEW s \in Readings
    PROVE  /\ SeenAs(s) \in Seens
           /\ SeenAs(s).by # "nobody" =>
                  /\ s.up /\ IdentityOf(s) \in Ids /\ IdentityOf(s) = <<SeenAs(s).by, s.config>>
                  /\ SeenAs(s).started = s.started
                  /\ SeenAs(s).by = "container" <=> s.started > 0
           /\ s.up => SeenAs(s).by # "nobody" /\ (s.started > 0 => SeenAs(s).by = "container")
<1>1. s.started \in Nat /\ s.config \in Configs /\ s.up \in BOOLEAN
  BY DEF Readings, SampleType
<1>2. CASE ~s.up
  <2>1. SeenAs(s) = NobodySeen
    BY <1>2, Zenon DEF SeenAs
  <2> QED
    BY <1>2, <2>1 DEF NobodySeen, Seens
<1>3. CASE s.up
  <2>1. SeenAs(s) = [by |-> IF s.started > 0 THEN "container" ELSE "self", started |-> s.started]
    BY <1>3, Zenon DEF SeenAs
  <2>2. SeenAs(s).by \in {"container", "self"} /\ (SeenAs(s).by = "container" <=> s.started > 0)
    BY <2>1
  <2>3. SeenAs(s).started = s.started /\ SeenAs(s) \in Seens
    BY <1>1, <2>1 DEF Seens
  <2>4. IdentityOf(s) \in Ids /\ IdentityOf(s) = <<SeenAs(s).by, s.config>>
    BY <1>1, <2>2 DEF IdentityOf, Ids
  <2> QED
    BY <1>3, <2>2, <2>3, <2>4
<1> QED
  BY <1>1, <1>2, <1>3

\* What a poll is handed is ready for it.
LEMMA HandedIsReady ==
    ASSUME LoadoutInv, NEW s, NEW V, NEW L, NEW stored, NEW all, NEW came, NEW described \in BOOLEAN,
           Arrives(s, V, L, stored, all, came),
           Switched(s) /\ described /\ ~SameLoadout(s) /\ came = 1 => s.ts - 1 \in L
    PROVE  LET n == Handed(s, described, stored, all).current
           IN  /\ n \in [id: Ids \cup {<<>>}, acc: AccountType, seen_as: Seens]
               /\ IF Switched(s) /\ described
                  THEN n.id = IdentityOf(s) /\ n.id \in Ids /\ n.seen_as = SeenAs(s)
                  ELSE n = current
               /\ Ready(n.acc, s, taken, V, L, came)
               /\ \E a \in AccountType : /\ a.samples = n.acc.samples
                                         /\ BeganWith(n.id, a, s, stored, all)
<1> DEFINE n == Handed(s, described, stored, all).current
<1>1. /\ s \in Readings /\ s.ts \in Nat /\ s.started \in Nat /\ Younger(s, taken, V) /\ late \subseteq L
      /\ stored \in Seq(Readings) /\ InOrder(stored, V) /\ ReadingsUpTo(all, V, s.ts)
  BY DEF Arrives, Younger, Readings, SampleType
<1>2. /\ current \in [id: Ids \cup {<<>>}, acc: AccountType, seen_as: Seens]
      /\ AccStands(current.acc, taken, late) /\ LastDownStands
      /\ \A id \in DOMAIN loadouts : AccStands(loadouts[id], taken, late)
  BY DEF LoadoutInv, CurrentStands, RecordsStand
<1>3. CASE ~(Switched(s) /\ described)
  <2>1. n = current
    BY <1>3 DEF Handed
  <2>2. Ready(current.acc, s, taken, V, L, came)
    BY <1>1, <1>2, HoldIsReady
  <2> QED
    BY <1>2, <1>3, <2>1, <2>2 DEF BeganWith
<1>4. CASE Switched(s) /\ described
  <2> DEFINE started == SeenAs(s).started
             id == IdentityOf(s)
             filled == Filled(stored, all, started, s.ts)
             table == IF current.id = <<>> THEN loadouts ELSE Put(loadouts, current.id, current.acc)
             acc == IF SameLoadout(s) THEN current.acc ELSE Started(id, table, filled)
             noted == NoteCold(NoteRun(acc, started), started, s.ts)
  <2>1. n = [id |-> id, seen_as |-> SeenAs(s), acc |-> noted]
    BY <1>4 DEF Handed, Arrived
  <2>2. started = s.started /\ id \in Ids /\ SeenAs(s) \in Seens
    BY <1>1, <1>4, SeenIs DEF Switched
  <2>3. SameLoadout(s) <=> id = current.id
    BY DEF SameLoadout
  <2>4. Ready(acc, s, taken, V, L, came) /\ BeganWith(id, acc, s, stored, all)
    <3>1. CASE SameLoadout(s)
      <4>1. acc = current.acc
        BY <3>1
      <4>2. Ready(current.acc, s, taken, V, L, came)
        BY <1>1, <1>2, HoldIsReady
      <4> HIDE DEF acc
      <4> QED
        BY <2>3, <3>1, <4>1, <4>2 DEF BeganWith
    <3>2. CASE ~SameLoadout(s) /\ id \in DOMAIN loadouts
      <4>1. acc = loadouts[id]
        BY <2>3, <3>2 DEF Started, Put
      <4>2. AccStands(loadouts[id], taken, late)
        BY <1>2, <3>2
      <4> HIDE DEF acc
      <4>3. Ready(acc, s, taken, V, L, came)
        BY <1>1, <4>1, <4>2, HoldIsReady
      <4> QED
        BY <2>3, <3>2, <4>1, <4>3 DEF BeganWith
    <3>3. CASE ~SameLoadout(s) /\ id \notin DOMAIN loadouts
      <4>1. acc = filled
        BY <2>3, <3>3 DEF Started, Put
      <4>2. Ready(Filled(stored, all, s.started, s.ts), s, taken, V, L, came)
        BY <1>1, <1>4, <3>3, FilledIsReady
      <4>3. acc = Filled(stored, all, s.started, s.ts)
        BY <2>2, <4>1
      <4> HIDE DEF acc
      <4> QED
        BY <2>3, <3>3, <4>2, <4>3 DEF BeganWith
    <3> QED
      BY <3>1, <3>2, <3>3
  <2> HIDE DEF acc, started
  <2>5. Ready(noted, s, taken, V, L, came) /\ noted.samples = acc.samples
    <3>1. last_down = None \/ \E x \in taken : ~x.up /\ x.ts = last_down
      BY <1>2 DEF LastDownStands
    <3>2. started \in Nat /\ Younger(s, taken, V) /\ Ready(acc, s, taken, V, L, came)
      BY <1>1, <2>2, <2>4
    <3> QED
      BY <3>1, <3>2, NotedIsReady
  <2>6. acc \in AccountType /\ noted \in AccountType
    BY <2>4, <2>5 DEF Ready, AccStands
  <2> HIDE DEF noted, id, n
  <2>7. /\ n.id = id /\ n.seen_as = SeenAs(s) /\ n.acc = noted
        /\ n \in [id: Ids \cup {<<>>}, acc: AccountType, seen_as: Seens]
    BY <2>1, <2>2, <2>6
  <2> QED
    BY <1>4, <2>2, <2>4, <2>5, <2>6, <2>7 DEF id, n
<1> QED
  BY <1>3, <1>4

\* Nobody's loadout is not on record.
LEMMA NobodyHasNoId == <<>> \notin Ids
BY DEF Ids

\* What a poll makes of the records: the account it is handed is among them, the one that was
\* current too, and the others are what they were.
LEMMA RecordsBecome ==
    ASSUME NEW s, NEW described \in BOOLEAN, NEW stored, NEW all, NEW arrived,
           OnSample(s, described, stored, all, arrived),
           <<>> \notin DOMAIN loadouts, current.id # <<>> => current.id \in DOMAIN loadouts
    PROVE  LET n == Handed(s, described, stored, all).current
               acc == ObserveAcc(n.acc, IF Switched(s) /\ described THEN NoSample ELSE loadout_prev, s)
           IN  /\ current' = IF n.id = <<>> THEN n
                             ELSE [n EXCEPT !.acc = [acc EXCEPT !.probes = acc.probes \o arrived]]
               /\ \A id \in DOMAIN loadouts' :
                      \/ id \in DOMAIN loadouts /\ loadouts'[id] = loadouts[id]
                      \/ id = current.id /\ id # <<>> /\ loadouts'[id] = current.acc
                      \/ id = n.id /\ id # <<>> /\ loadouts'[id] \in {n.acc, acc}
               /\ \A id \in DOMAIN loadouts :
                      /\ id \in DOMAIN loadouts'
                      /\ id # n.id => loadouts'[id] = IF id = current.id THEN current.acc
                                                      ELSE loadouts[id]
               /\ n.id # <<>> /\ n.id # current.id => n.id \in DOMAIN loadouts'
<1> DEFINE sw == Switched(s) /\ described
           h == Handed(s, described, stored, all)
           n == h.current
           other == sw /\ ~SameLoadout(s)
           table == IF other THEN Put(h.table, n.id, n.acc) ELSE loadouts
           acc == ObserveAcc(n.acc, IF sw THEN NoSample ELSE loadout_prev, s)
           at == IF other THEN s.ts ELSE loadout_saved
           save == n.id # <<>> /\ s.ts - at >= SaveEvery
<1>1. /\ current' = IF n.id = <<>> THEN n
                    ELSE [n EXCEPT !.acc = [acc EXCEPT !.probes = acc.probes \o arrived]]
      /\ loadouts' = IF save THEN Put(table, n.id, acc) ELSE table
  BY DEF OnSample, Handed
<1>2. /\ ~other => n.id = current.id
      /\ other => n.id # current.id /\ h.table = IF current.id = <<>> THEN loadouts
                                                  ELSE Put(loadouts, current.id, current.acc)
      /\ other => n.id # <<>>
  BY DEF Handed, Arrived, SameLoadout, IdentityOf
<1>0. save => n.id # <<>>
  OBVIOUS
<1> HIDE DEF sw, h, n, other, acc, at, save
<1>3. /\ \A id \in DOMAIN table :
             \/ id \in DOMAIN loadouts /\ table[id] = loadouts[id]
             \/ id = current.id /\ id # <<>> /\ table[id] = current.acc
             \/ id = n.id /\ id # <<>> /\ table[id] = n.acc
      /\ \A id \in DOMAIN loadouts :
             /\ id \in DOMAIN table
             /\ id # n.id => table[id] = IF id = current.id THEN current.acc ELSE loadouts[id]
      /\ n.id # <<>> => n.id \in DOMAIN table
  <2>1. CASE ~other
    <3>1. table = loadouts /\ n.id = current.id
      BY <1>2, <2>1
    <3> HIDE DEF table
    <3> QED
      BY <3>1
  <2>2. CASE other /\ current.id = <<>>
    <3>1. table = Put(loadouts, n.id, n.acc)
      BY <1>2, <2>2
    <3>2. /\ DOMAIN table = DOMAIN loadouts \cup {n.id}
          /\ \A id \in DOMAIN table : table[id] = IF id = n.id THEN n.acc ELSE loadouts[id]
      BY <3>1 DEF Put
    <3>3. n.id # current.id /\ n.id # <<>>
      BY <1>2, <2>2
    <3> HIDE DEF table
    <3>4. \A id \in DOMAIN loadouts : id # current.id
      BY <2>2
    <3> QED
      BY <2>2, <3>2, <3>3, <3>4
  <2>3. CASE other /\ current.id # <<>>
    <3> DEFINE with == Put(loadouts, current.id, current.acc)
    <3>1. table = Put(with, n.id, n.acc) /\ n.id # current.id /\ n.id # <<>>
      BY <1>2, <2>3
    <3>2. /\ DOMAIN with = DOMAIN loadouts \cup {current.id}
          /\ \A id \in DOMAIN with :
                 with[id] = IF id = current.id THEN current.acc ELSE loadouts[id]
      BY DEF Put
    <3> HIDE DEF with
    <3>3. /\ DOMAIN table = DOMAIN with \cup {n.id}
          /\ \A id \in DOMAIN table : table[id] = IF id = n.id THEN n.acc ELSE with[id]
      BY <3>1 DEF Put
    <3> HIDE DEF table
    <3> QED
      BY <2>3, <3>1, <3>2, <3>3
  <2> QED
    BY <2>1, <2>2, <2>3
<1> HIDE DEF table
<1>4. /\ \A id \in DOMAIN loadouts' :
             \/ id \in DOMAIN table /\ loadouts'[id] = table[id]
             \/ id = n.id /\ id # <<>> /\ loadouts'[id] = acc
      /\ \A id \in DOMAIN table :
             id \in DOMAIN loadouts' /\ (id # n.id => loadouts'[id] = table[id])
  <2>1. CASE save
    <3>1. loadouts' = Put(table, n.id, acc) /\ n.id # <<>>
      BY <1>0, <1>1, <2>1
    <3> QED
      BY <3>1 DEF Put
  <2>2. CASE ~save
    BY <1>1, <2>2
  <2> QED
    BY <2>1, <2>2
<1>5. \A id \in DOMAIN loadouts' :
          \/ id \in DOMAIN loadouts /\ loadouts'[id] = loadouts[id]
          \/ id = current.id /\ id # <<>> /\ loadouts'[id] = current.acc
          \/ id = n.id /\ id # <<>> /\ loadouts'[id] \in {n.acc, acc}
  BY <1>3, <1>4
<1>6. \A id \in DOMAIN loadouts :
          /\ id \in DOMAIN loadouts'
          /\ id # n.id => loadouts'[id] = IF id = current.id THEN current.acc ELSE loadouts[id]
  BY <1>3, <1>4
<1>7. n.id # <<>> => n.id \in DOMAIN loadouts'
  BY <1>3, <1>4
<1> QED
  BY <1>1, <1>5, <1>6, <1>7 DEF n, h, acc, sw

\* Scrape and docker tell of the same run, e.
TellOf(s, e) ==
    /\ ~mixed /\ s.config = e.config /\ s.started \in {0, e.started}
    /\ engine.started \in Nat /\ e.started \in Nat /\ engine.started <= e.started
    /\ e.started = engine.started => e.config = engine.config

\* Then the loadout a described sample is handed to is its own ...
LEMMA HandedIsItsOwn ==
    ASSUME LoadoutInv, NEW s \in Readings, NEW e, NEW described \in BOOLEAN, NEW stored, NEW all,
           TellOf(s, e)
    PROVE  LET n == Handed(s, described, stored, all).current
           IN  (IF Switched(s) /\ described
                THEN n.id = IdentityOf(s) /\ n.seen_as = SeenAs(s) ELSE n = current) =>
               /\ n.seen_as.by = "container" =>
                      /\ n.seen_as.started <= e.started
                      /\ n.seen_as.started = e.started => n.id[2] = e.config
               /\ n.id # <<>> /\ n.id[1] = "container" /\ s.up /\ described => s.config = n.id[2]
               /\ described /\ s.up /\ s.started > 0 => n.id = <<"container", s.config>>
<1> DEFINE n == Handed(s, described, stored, all).current
<1>1. /\ current.seen_as \in Seens /\ (current.id = <<>> => current.seen_as.by = "nobody")
      /\ current.id # <<>> => current.id \in Ids /\ current.seen_as.by = current.id[1]
      /\ current.seen_as.by = "container" =>
             /\ current.seen_as.started <= engine.started
             /\ current.seen_as.started = engine.started => current.id[2] = engine.config
  BY DEF LoadoutInv, CurrentStands, TellOf
<1>2. /\ s.config = e.config /\ s.started \in {0, e.started}
      /\ engine.started \in Nat /\ e.started \in Nat /\ engine.started <= e.started
      /\ e.started = engine.started => e.config = engine.config
  BY DEF TellOf
<1>3. /\ SeenAs(s) \in Seens
      /\ SeenAs(s).by # "nobody" =>
             /\ s.up /\ IdentityOf(s) \in Ids /\ IdentityOf(s) = <<SeenAs(s).by, s.config>>
             /\ SeenAs(s).started = s.started
             /\ SeenAs(s).by = "container" <=> s.started > 0
      /\ s.up => SeenAs(s).by # "nobody" /\ (s.started > 0 => SeenAs(s).by = "container")
  BY SeenIs
<1> HIDE DEF n
<1>4. ASSUME Switched(s) /\ described, n.id = IdentityOf(s), n.seen_as = SeenAs(s)
      PROVE  /\ n.seen_as.by = "container" =>
                    n.seen_as.started <= e.started /\ n.id[2] = e.config
             /\ n.id[2] = s.config
             /\ s.started > 0 => n.id = <<"container", s.config>>
  <2>1. SeenAs(s).by # "nobody"
    BY <1>4 DEF Switched
  <2>2. n.id = <<SeenAs(s).by, s.config>> /\ SeenAs(s).started = s.started
        /\ (SeenAs(s).by = "container" <=> s.started > 0)
    BY <1>3, <1>4, <2>1
  <2> QED
    BY <1>2, <1>4, <2>2
<1>5. current.seen_as.by = "container" =>
          /\ current.seen_as.started <= e.started
          /\ current.seen_as.started = e.started => current.id[2] = e.config
  BY <1>1, <1>2 DEF Seens
<1>6. ASSUME ~Switched(s), s.up PROVE current.seen_as = SeenAs(s) /\ SeenAs(s).by # "nobody"
  BY <1>3, <1>6 DEF Switched
<1>7. ASSUME ~Switched(s), s.up, SeenAs(s).by = "container"
      PROVE  current.id = <<"container", s.config>>
  <2>1. current.seen_as.by = "container" /\ current.seen_as.started = s.started /\ s.started = e.started
    BY <1>2, <1>3, <1>6, <1>7
  <2>2. current.id # <<>> /\ current.id \in Ids /\ current.id[1] = "container"
        /\ current.id[2] = s.config
    BY <1>1, <1>2, <1>5, <2>1
  <2> QED
    BY <2>2 DEF Ids
<1>8. ASSUME ~Switched(s), s.up, current.id # <<>>, current.id[1] = "container"
      PROVE  s.config = current.id[2]
  <2>1. SeenAs(s).by = "container"
    BY <1>1, <1>6, <1>8
  <2> QED
    BY <1>7, <1>8, <2>1
<1>9. CASE ~(Switched(s) /\ described)
  BY <1>3, <1>5, <1>7, <1>8, <1>9 DEF n
<1>10. CASE Switched(s) /\ described
  BY <1>4, <1>10 DEF n
<1> QED
  BY <1>9, <1>10

\* ... and so is all the account it is handed counts.
LEMMA HandedCountsItsOwn ==
    ASSUME LoadoutInv, NEW s, NEW e, NEW V, Younger(s, taken, V), TellOf(s, e), NEW Q, pending \subseteq Q,
           \A x \in V : x.ts >= e.started => x.config = e.config,
           NEW stored \in Seq(Readings), InOrder(stored, V), NEW all, ReadingsUpTo(all, V, s.ts),
           NEW id \in Ids, NEW acc, BeganWith(id, acc, s, stored, all),
           id # current.id => id = IdentityOf(s) /\ SeenAs(s).by # "nobody"
    PROVE  OwnConfig(acc, id, V, Q)
<1>1. /\ s \in Readings /\ s.ts \in Nat /\ s.started \in Nat
      /\ AccStands(current.acc, taken, late)
      /\ \A i \in DOMAIN loadouts : AccStands(loadouts[i], taken, late)
  BY DEF LoadoutInv, CurrentStands, RecordsStand, Younger, Readings, SampleType
<1>2. /\ current.id # <<>> => OwnConfig(current.acc, current.id, taken, pending)
      /\ \A i \in DOMAIN loadouts : OwnConfig(loadouts[i], i, taken, pending)
  BY DEF LoadoutInv, CurrentStands, RecordsStand, TellOf
<1>3. CASE id = current.id /\ acc = current.acc
  <2>1. SamplesStand(acc, taken) /\ OwnConfig(acc, id, taken, pending)
    BY <1>1, <1>2, <1>3, NobodyHasNoId DEF AccStands
  <2> QED
    BY <2>1, OwnConfigOn
<1>4. CASE id \in DOMAIN loadouts /\ acc = loadouts[id]
  <2>1. SamplesStand(acc, taken) /\ OwnConfig(acc, id, taken, pending)
    BY <1>1, <1>2, <1>4 DEF AccStands
  <2> QED
    BY <2>1, OwnConfigOn
<1>5. CASE id # current.id /\ acc = Filled(stored, all, s.started, s.ts)
  <2>1. \A ts : Counts(acc, ts) => ts >= s.started
    <3>1. 0 = 1 => s.ts - 1 \in {}
      OBVIOUS
    <3> QED
      BY <1>1, <1>5, <3>1, FilledIsReady
  <2>2. id[1] = "container" => s.started = e.started /\ id[2] = e.config
    <3>1. /\ id = <<SeenAs(s).by, s.config>>
          /\ SeenAs(s).by = "container" <=> s.started > 0
      BY <1>1, <1>5, SeenIs
    <3> QED
      BY <1>1, <3>1 DEF TellOf
  <2> QED
    BY <2>1, <2>2 DEF OwnConfig
<1> QED
  BY <1>3, <1>4, <1>5 DEF BeganWith

\* A poll that goes to its account leaves records that stand, and forgets nothing.
LEMMA PollKeepsRecords ==
    ASSUME LoadoutInv, NEW s, NEW e, NEW described \in BOOLEAN, NEW stored, NEW all, NEW came \in 0 .. 1,
           Arrives(s, taken', late', stored, all, came),
           OnSample(s, described, stored, all, NewReadings(came, s.ts)),
           Switched(s) /\ described /\ ~SameLoadout(s) /\ came = 1 => s.ts - 1 \in late',
           pending' = IF described THEN pending ELSE pending \cup {s.ts},
           ~mixed' => TellOf(s, e), RunsServe', engine' = e, alive, started_at' = started_at
    PROVE  /\ RecordsStand' /\ CurrentStands' /\ NoneMissed'
           /\ current' \in [id: Ids \cup {<<>>}, acc: AccountType, seen_as: Seens]
<1> DEFINE n == Handed(s, described, stored, all).current
           prev == IF Switched(s) /\ described THEN NoSample ELSE loadout_prev
           acc == ObserveAcc(n.acc, prev, s)
           new == NewReadings(came, s.ts)
           more == [acc EXCEPT !.probes = acc.probes \o new]
           V == taken'
           L == late'
           Q == pending'
<1>1. /\ s \in Readings /\ s.ts \in Nat /\ Younger(s, taken, V) /\ late \subseteq L /\ s.ts > 0
      /\ stored \in Seq(Readings) /\ InOrder(stored, V) /\ ReadingsUpTo(all, V, s.ts)
      /\ V = taken \cup {s} /\ taken \subseteq V /\ pending \subseteq Q
      /\ \A x \in taken : x.ts \in Nat /\ x.ts < s.ts
  BY DEF Arrives, Younger, Readings
<1>2. /\ \A id \in DOMAIN loadouts : id \in Ids /\ AccStands(loadouts[id], taken, late)
      /\ AccStands(current.acc, taken, late) /\ prev \in Previous
      /\ current \in [id: Ids \cup {<<>>}, acc: AccountType, seen_as: Seens]
      /\ current.id = <<>> => current.seen_as.by = "nobody"
      /\ current.id # <<>> =>
             current.id \in Ids /\ current.id \in DOMAIN loadouts /\ current.seen_as.by = current.id[1]
  BY DEF LoadoutInv, RecordsStand, CurrentStands, Previous
<1>3. /\ n \in [id: Ids \cup {<<>>}, acc: AccountType, seen_as: Seens]
      /\ IF Switched(s) /\ described
         THEN n.id = IdentityOf(s) /\ n.id \in Ids /\ n.seen_as = SeenAs(s)
         ELSE n = current
      /\ Ready(n.acc, s, taken, V, L, came)
      /\ \E a \in AccountType : a.samples = n.acc.samples /\ BeganWith(n.id, a, s, stored, all)
  BY HandedIsReady
<1>4. /\ current' = IF n.id = <<>> THEN n ELSE [n EXCEPT !.acc = more]
      /\ \A id \in DOMAIN loadouts' :
             \/ id \in DOMAIN loadouts /\ loadouts'[id] = loadouts[id]
             \/ id = current.id /\ id # <<>> /\ loadouts'[id] = current.acc
             \/ id = n.id /\ id # <<>> /\ loadouts'[id] \in {n.acc, acc}
      /\ \A id \in DOMAIN loadouts :
             /\ id \in DOMAIN loadouts'
             /\ id # n.id => loadouts'[id] = IF id = current.id THEN current.acc ELSE loadouts[id]
      /\ n.id # <<>> /\ n.id # current.id => n.id \in DOMAIN loadouts'
  BY <1>2, RecordsBecome, NobodyHasNoId
<1>5. /\ AccStands(acc, V, L) /\ AccStands(more, V, L) /\ acc.samples = Append(n.acc.samples, s.ts)
      /\ more.samples = acc.samples /\ AccStands(n.acc, V, L) /\ n.acc \in AccountType
  <2> DEFINE a == n.acc
  <2>1. Ready(a, s, taken, V, L, came) /\ a \in AccountType /\ AccStands(a, V, L)
    BY <1>3 DEF Ready
  <2> HIDE DEF a, V, L, prev
  <2> DEFINE b == ObserveAcc(a, prev, s)
             c == [b EXCEPT !.probes = b.probes \o NewReadings(came, s.ts)]
  <2>2. AccStands(b, V, L) /\ AccStands(c, V, L)
    BY <1>1, <1>2, <2>1, PolledStands
  <2>3. b.samples = Append(a.samples, s.ts)
    BY <2>1, ObserveIs
  <2> HIDE DEF b
  <2>4. c.samples = b.samples
    BY <2>2 DEF AccStands, AccountType
  <2> QED
    BY <2>1, <2>2, <2>3, <2>4 DEF a, b, prev
<1>6. \A id : AccStands(current.acc, V, L)
              /\ (id \in DOMAIN loadouts => AccStands(loadouts[id], V, L))
  BY <1>1, <1>2, AccStandsOn
<1>7. Switched(s) => SeenAs(s).by # "nobody"
  BY DEF Switched
<1> HIDE DEF n, prev, acc, new, more, V, L, Q
<1>8. /\ current' \in [id: Ids \cup {<<>>}, acc: AccountType, seen_as: Seens]
      /\ current'.id = n.id /\ current'.seen_as = n.seen_as
      /\ current'.acc = IF n.id = <<>> THEN n.acc ELSE more
      /\ AccStands(current'.acc, V, L)
  <2>1. more \in AccountType
    BY <1>5 DEF AccStands
  <2> QED
    BY <1>3, <1>4, <1>5, <2>1
<1>9. \A id \in DOMAIN loadouts' : id \in Ids /\ AccStands(loadouts'[id], V, L)
  <2>1. TAKE id \in DOMAIN loadouts'
  <2>2. CASE id \in DOMAIN loadouts /\ loadouts'[id] = loadouts[id]
    BY <1>2, <1>6, <2>2
  <2>3. CASE id = current.id /\ id # <<>> /\ loadouts'[id] = current.acc
    BY <1>2, <1>6, <2>3
  <2>4. CASE id = n.id /\ id # <<>> /\ loadouts'[id] \in {n.acc, acc}
    <3>1. AccStands(loadouts'[id], V, L)
      BY <1>5, <2>4
    <3>2. id \in Ids
      BY <1>3, <2>4
    <3> QED
      BY <3>1, <3>2
  <2> QED
    BY <1>4, <2>2, <2>3, <2>4
<1>10. /\ AccStands(current'.acc, V, L) /\ current'.seen_as \in Seens
       /\ current'.id = <<>> => current'.seen_as.by = "nobody"
       /\ current'.id # <<>> =>
              /\ current'.id \in Ids /\ current'.id \in DOMAIN loadouts'
              /\ current'.seen_as.by = current'.id[1]
  <2>1. CASE Switched(s) /\ described
    <3>1. SeenAs(s).by # "nobody"
      BY <2>1 DEF Switched
    <3>2. IdentityOf(s) = <<SeenAs(s).by, s.config>> /\ IdentityOf(s) \in Ids /\ SeenAs(s) \in Seens
      BY <1>1, <3>1, SeenIs
    <3>3. n.id = IdentityOf(s) /\ n.seen_as = SeenAs(s) /\ n.id # <<>> /\ n.id[1] = n.seen_as.by
      BY <1>3, <2>1, <3>2, NobodyHasNoId
    <3>4. n.id \in DOMAIN loadouts'
      BY <1>2, <1>4, <3>3
    <3> QED
      BY <1>8, <3>2, <3>3, <3>4
  <2>2. CASE ~(Switched(s) /\ described)
    <3>1. n = current
      BY <1>3, <2>2
    <3> QED
      BY <1>2, <1>4, <1>8, <3>1
  <2> QED
    BY <2>1, <2>2
<1>11. ASSUME ~mixed'
       PROVE  /\ TellOf(s, e) /\ \A x \in V : x.ts >= e.started => x.config = e.config
              /\ n.seen_as.by = "container" =>
                     /\ n.seen_as.started <= e.started
                     /\ n.seen_as.started = e.started => n.id[2] = e.config
              /\ n.id # <<>> /\ n.id[1] = "container" /\ s.up /\ described => s.config = n.id[2]
              /\ described /\ s.up /\ s.started > 0 => n.id = <<"container", s.config>>
  <2>1. TellOf(s, e) /\ \A x \in V : x.ts >= e.started => x.config = e.config
    BY <1>11 DEF RunsServe, V
  <2>2. IF Switched(s) /\ described
        THEN n.id = IdentityOf(s) /\ n.seen_as = SeenAs(s) ELSE n = current
    BY <1>3
  <2> QED
    BY <1>1, <2>1, <2>2, HandedIsItsOwn DEF n
<1>12. ASSUME ~mixed', n.id # <<>>
       PROVE  /\ OwnConfig(n.acc, n.id, V, Q) /\ OwnConfig(acc, n.id, V, Q)
              /\ OwnConfig(more, n.id, V, Q)
  <2>1. PICK a \in AccountType : a.samples = n.acc.samples /\ BeganWith(n.id, a, s, stored, all)
    BY <1>3
  <2> DEFINE id == n.id
  <2>2. id \in Ids /\ (id # current.id => id = IdentityOf(s) /\ SeenAs(s).by # "nobody")
    BY <1>3, <1>7, <1>12
  <2> HIDE DEF id
  <2>3. BeganWith(id, a, s, stored, all)
    BY <2>1 DEF id
  <2>4. OwnConfig(a, id, V, Q)
    BY <1>1, <1>11, <1>12, <2>2, <2>3, HandedCountsItsOwn
  <2>5. OwnConfig(n.acc, id, V, Q)
    BY <2>1, <2>4 DEF OwnConfig, Counts
  <2>6. id[1] = "container" /\ s.up /\ s.ts \notin Q => s.config = id[2]
    BY <1>11, <1>12 DEF Q, id
  <2> DEFINE b == n.acc
  <2>7. b \in AccountType /\ OwnConfig(b, id, V, Q) /\ acc.samples = Append(b.samples, s.ts)
    BY <1>5, <2>5
  <2> HIDE DEF b
  <2>8. OwnConfig(acc, id, V, Q)
    BY <1>1, <2>6, <2>7, OwnConfigPolled
  <2>9. OwnConfig(more, id, V, Q)
    BY <1>5, <2>8 DEF OwnConfig, Counts
  <2> QED
    BY <2>5, <2>8, <2>9 DEF id
<1>13. ASSUME ~mixed', NEW id \in DOMAIN loadouts' PROVE OwnConfig(loadouts'[id], id, V, Q)
  <2>1. /\ current.id # <<>> => OwnConfig(current.acc, current.id, taken, pending)
        /\ \A i \in DOMAIN loadouts : OwnConfig(loadouts[i], i, taken, pending)
    BY <1>11, <1>13 DEF TellOf, LoadoutInv, RecordsStand, CurrentStands
  <2>2. CASE id \in DOMAIN loadouts /\ loadouts'[id] = loadouts[id]
    <3>1. SamplesStand(loadouts[id], taken)
      BY <1>2, <2>2 DEF AccStands
    <3> QED
      BY <1>1, <2>1, <2>2, <3>1, OwnConfigOn
  <2>3. CASE id = current.id /\ id # <<>> /\ loadouts'[id] = current.acc
    <3> DEFINE held == current.acc
    <3>1. SamplesStand(held, taken) /\ OwnConfig(held, id, taken, pending)
      BY <1>2, <2>1, <2>3 DEF AccStands
    <3> HIDE DEF held
    <3>2. OwnConfig(held, id, V, Q)
      BY <1>1, <3>1, OwnConfigOn
    <3> QED
      BY <2>3, <3>2 DEF held
  <2>4. CASE id = n.id /\ id # <<>> /\ loadouts'[id] \in {n.acc, acc}
    BY <1>12, <1>13, <2>4
  <2> QED
    BY <1>4, <1>13, <2>2, <2>3, <2>4
<1>14. RecordsStand'
  BY <1>9, <1>13 DEF RecordsStand, V, L, Q
<1>15. CurrentStands'
  <2>1. ASSUME ~mixed'
        PROVE  /\ current'.id # <<>> => OwnConfig(current'.acc, current'.id, V, Q)
               /\ current'.seen_as.by = "container" =>
                      /\ current'.seen_as.started <= e.started
                      /\ current'.seen_as.started = e.started => current'.id[2] = e.config
    BY <1>8, <1>11, <1>12, <2>1
  <2> QED
    BY <1>10, <2>1 DEF CurrentStands, V, L, Q
<1>16. ASSUME ~mixed', NEW x \in V, x.up, x.ts \notin Q, x.ts >= started_at', x.started > 0
       PROVE  ~Missed(x, current', loadouts')
  <2> DEFINE id == <<"container", x.config>>
             b == n.acc
  <2>1. id # <<>> /\ ~mixed
    BY <1>11, <1>16 DEF TellOf
  <2>2. b \in AccountType /\ acc.samples = Append(b.samples, s.ts) /\ more.samples = acc.samples
    BY <1>5
  <2> HIDE DEF b
  <2>3. \A at : Counts(more, at) <=> Counts(b, at) \/ at = s.ts
    <3>1. \A at : Counts(acc, at) <=> Counts(b, at) \/ at = s.ts
      BY <1>1, <2>2, PolledCounts
    <3> QED
      BY <2>2, <3>1 DEF Counts
  <2>4. CASE x = s
    <3>1. described
      BY <1>16, <2>4 DEF Q
    <3>2. n.id = id
      BY <1>11, <1>16, <2>4, <3>1
    <3> HIDE DEF id
    <3>3. current'.id = id /\ current'.acc = more /\ id \in DOMAIN loadouts'
      BY <1>8, <1>10, <2>1, <3>2
    <3>4. Counts(more, x.ts)
      BY <2>3, <2>4
    <3> QED
      BY <3>3, <3>4 DEF Missed, id
  <2>5. CASE x \in taken
    <3>1. ~Missed(x, current, loadouts)
      BY <1>1, <1>16, <2>1, <2>5 DEF LoadoutInv, NoneMissed
    <3>2. id \in DOMAIN loadouts /\ Counts(IF current.id = id THEN current.acc ELSE loadouts[id], x.ts)
      BY <3>1 DEF Missed
    <3> HIDE DEF id
    <3>3. id \in DOMAIN loadouts'
      BY <1>4, <3>2
    <3>4. CASE id = n.id
      <4>1. PICK a \in AccountType : a.samples = n.acc.samples /\ BeganWith(n.id, a, s, stored, all)
        BY <1>3
      <4>2. Counts(a, x.ts)
        BY <3>2, <3>4, <4>1 DEF BeganWith
      <4>3. Counts(b, x.ts)
        BY <4>1, <4>2 DEF Counts, b
      <4>4. current'.id = id /\ current'.acc = more
        BY <1>8, <2>1, <3>4
      <4> QED
        BY <2>3, <3>3, <4>3, <4>4 DEF Missed, id
    <3>5. CASE id # n.id
      <4>1. loadouts'[id] = IF id = current.id THEN current.acc ELSE loadouts[id]
        BY <1>4, <3>2, <3>5
      <4>2. current'.id # id /\ Counts(loadouts'[id], x.ts)
        BY <1>8, <3>2, <3>5, <4>1
      <4> QED
        BY <3>3, <4>2 DEF Missed, id
    <3> QED
      BY <3>4, <3>5
  <2>6. x \in taken \/ x = s
    BY <1>1
  <2> QED
    BY <2>4, <2>5, <2>6
<1>17. NoneMissed'
  BY <1>16 DEF NoneMissed, V, Q
<1> QED
  BY <1>8, <1>14, <1>15, <1>17

-----------------------------------------------------------------------------
(***************************************************************************)
(* The loadouts: the invariant is inductive                                *)
(***************************************************************************)
\* The invariant holds at the beginning: no account has been opened ...
LEMMA LoadoutsBegin == AccountsStart => LoadoutInv
<1> SUFFICES ASSUME AccountsStart PROVE LoadoutInv
  OBVIOUS
<1>1. LedgerInv
  BY LedgerBegins
<1>2. PICK stored \in Seq(SampleType), t \in Nat, owed \in BOOLEAN, e \in Engines :
          /\ \A i \in DOMAIN stored :
                 /\ stored[i].ts \in 0 .. t /\ stored[i].life <= e.life
                 /\ stored[i].ts >= e.started => stored[i].config = e.config
                 /\ \A l \in stored[i].log : l <= stored[i].ts
                 /\ \A j \in 1 .. i - 1 : stored[j].ts < stored[i].ts
          /\ t >= SaveEvery
          /\ AccountsInit(stored, t, owed, e)
  BY DEF AccountsStart
<1>3. /\ alive = FALSE /\ engine = e /\ probes = <<>> /\ samples = stored /\ taken = ToSet(stored)
      /\ current = NoCurrent /\ loadouts = <<>> /\ loadout_prev = NoSample /\ last_down = None
      /\ mixed = FALSE
  BY <1>2 DEF AccountsInit
<1>4. Len(stored) \in Nat /\ DOMAIN stored = 1 .. Len(stored)
  OBVIOUS
<1>5. TableStands
  <2>1. \A i, j \in 1 .. Len(stored) : i < j => stored[i].ts < stored[j].ts
    <3>1. TAKE i, j \in 1 .. Len(stored)
    <3>2. i < j => i \in 1 .. j - 1
      BY <1>4
    <3> QED
      BY <1>2, <1>4, <3>2
  <2>2. \A i \in 1 .. Len(stored) : stored[i].ts <= stored[i].ts
    BY <1>2, <1>4
  <2>3. \A x \in ToSet(stored) : \E i \in 1 .. Len(stored) : x = stored[i]
    BY <1>4 DEF ToSet
  <2>4. \A i \in 1 .. Len(stored) : stored[i] \in ToSet(stored)
    BY <1>4 DEF ToSet
  <2> QED
    BY <1>3, <2>1, <2>2, <2>3, <2>4 DEF TableStands, TableOf, InOrder
<1>6. RunsServe
  <2>1. \A x \in ToSet(stored) : x.ts >= e.started => x.config = e.config
    BY <1>2 DEF ToSet
  <2> QED
    BY <1>3, <2>1 DEF RunsServe
<1>7. ReadingsStand
  BY <1>3 DEF ReadingsStand, Ascends
<1>8. /\ current.id = <<>> /\ current.acc = EmptyAcc /\ current.seen_as.by = "nobody"
      /\ current.seen_as \in Seens /\ EmptyAcc \in AccountType
      /\ current \in [id: Ids \cup {<<>>}, acc: AccountType, seen_as: Seens]
  <2>1. EmptyAcc \in AccountType
    BY EmptyAccStands DEF AccStands
  <2>2. current = [id |-> <<>>, acc |-> EmptyAcc, seen_as |-> NobodySeen]
    BY <1>3 DEF NoCurrent
  <2>3. NobodySeen \in Seens /\ NobodySeen.by = "nobody"
    BY DEF NobodySeen, Seens
  <2> QED
    BY <2>1, <2>2, <2>3
<1>9. CurrentStands
  BY <1>8, EmptyAccStands DEF CurrentStands
<1>10. RecordsStand /\ NoneMissed /\ LastDownStands
  BY <1>3 DEF RecordsStand, NoneMissed, LastDownStands
<1>11. loadout_prev \in Previous /\ mixed \in BOOLEAN
  BY <1>3 DEF Previous
<1> QED
  BY <1>1, <1>5, <1>6, <1>7, <1>8, <1>9, <1>10, <1>11 DEF LoadoutInv

\* ... it is kept by a poll ...
LEMMA PollKeepsLoadouts ==
    ASSUME LoadoutInv, NEW s, NEW e, NEW logged \in FiniteSubsets(Nat), NEW described \in BOOLEAN,
           NEW came \in 0 .. 1, Polls(s, e), Serves(e, s.ts), Poll(s, e, logged, described, came)
    PROVE  LoadoutInv'
<1> DEFINE new == NewReadings(came, s.ts)
           stored == Append(samples, s)
           all == probes \o new
           n == Handed(s, described, stored, all).current
<1>1. /\ LedgerInv /\ Outside /\ OutsideType /\ TierType /\ TableStands /\ ReadingsStand /\ RunsServe
      /\ mixed \in BOOLEAN /\ LastDownStands
      /\ current.id # <<>> => current.id \in DOMAIN loadouts
      /\ \A id \in DOMAIN loadouts : id \in Ids
  BY DEF LoadoutInv, LedgerInv, Outside, CurrentStands, RecordsStand
<1>2. /\ OnSample(s, described, stored, all, new) /\ StoreAndFold(s) /\ probes' = all
      /\ pending' = (IF described THEN pending ELSE pending \cup {s.ts})
      /\ mixed' = (mixed \/ ReadsTwo(s, e)) /\ started_at' = started_at
      /\ late' = IF current'.id # current.id THEN late \cup ToSet(new) ELSE late
  BY DEF Poll, NewReadings
<1>3. /\ s \in Readings /\ e \in Engines /\ s.ts \in Nat /\ s.ts >= now /\ alive /\ engine' = e
      /\ taken' = taken \cup {s} /\ \A x \in ToSet(samples) : s.ts > x.ts
  BY DEF Polls, Readings
<1>4. LedgerInv'
  BY <1>1, PollKeepsBooks
<1>5. s.ts > 0
  BY <1>1, <1>3, SamplesAssumption DEF OutsideType
<1>6. Younger(s, taken, taken')
  BY <1>1, <1>3, YoungestOfAll DEF OutsideType, TierType
<1>7. TableStands' /\ stored \in Seq(Readings) /\ InOrder(stored, taken')
  BY <1>1, <1>2, <1>3, <1>6, TableGoesOn
<1>8. ReadingsUpTo(all, taken', s.ts)
  BY <1>1, <1>5, <1>6, ReadingsArrive
<1>9. /\ RunsServe' /\ mixed' \in BOOLEAN /\ engine.started <= e.started
      /\ engine.started \in Nat /\ e.started \in Nat
      /\ e.started = engine.started => e.config = engine.config
      /\ ~mixed' => ~mixed /\ s.config = e.config /\ s.started \in {0, e.started}
  BY <1>1, <1>2, RunGoesOn
<1> HIDE DEF new, stored, all, n
<1>10. Arrives(s, taken', late', stored, all, came)
  BY <1>2, <1>5, <1>6, <1>7, <1>8 DEF Arrives
<1>11. ASSUME Switched(s) /\ described /\ ~SameLoadout(s) /\ came = 1 PROVE s.ts - 1 \in late'
  <2> DEFINE prev == IF Switched(s) /\ described THEN NoSample ELSE loadout_prev
             acc == ObserveAcc(n.acc, prev, s)
             more == [acc EXCEPT !.probes = acc.probes \o new]
  <2>1. current' = IF n.id = <<>> THEN n ELSE [n EXCEPT !.acc = more]
    BY <1>2 DEF OnSample, Handed, n
  <2> HIDE DEF more
  <2>2. \E a : current' = IF n.id = <<>> THEN n ELSE [n EXCEPT !.acc = a]
    BY <2>1
  <2>3. \E a : n = [id |-> IdentityOf(s), seen_as |-> SeenAs(s), acc |-> a]
    BY <1>11 DEF n, Handed, Arrived
  <2>4. current'.id = IdentityOf(s)
    BY <2>2, <2>3
  <2>5. current'.id # current.id
    BY <1>11, <2>4 DEF SameLoadout
  <2>6. new = <<s.ts - 1>>
    BY <1>11 DEF new, NewReadings
  <2> QED
    BY <1>2, <2>5, <2>6 DEF ToSet
<1>12. ~mixed' => TellOf(s, e)
  BY <1>9 DEF TellOf
<1>13. /\ RecordsStand' /\ CurrentStands' /\ NoneMissed'
       /\ current' \in [id: Ids \cup {<<>>}, acc: AccountType, seen_as: Seens]
  BY <1>2, <1>3, <1>9, <1>10, <1>11, <1>12, PollKeepsRecords DEF new
<1>14. loadout_prev' \in Previous /\ LastDownStands'
  <2>1. loadout_prev' = s /\ last_down' = IF s.up THEN last_down ELSE s.ts
    BY <1>2 DEF OnSample
  <2> QED
    BY <1>1, <1>3, <2>1 DEF Previous, LastDownStands
<1>15. ReadingsStand'
  BY <1>2, <1>8 DEF ReadingsStand, ReadingsUpTo
<1> QED
  BY <1>4, <1>7, <1>9, <1>13, <1>14, <1>15 DEF LoadoutInv

\* ... by one that dies with the collector ...
LEMMA DeathKeepsLoadouts ==
    ASSUME LoadoutInv, NEW s, NEW e, Polls(s, e), Serves(e, s.ts), PollDies(s, e)
    PROVE  LoadoutInv'
<1>1. /\ LedgerInv /\ Outside /\ OutsideType /\ TierType /\ TableStands /\ ReadingsStand /\ RunsServe
      /\ mixed \in BOOLEAN /\ LastDownStands /\ RecordsStand /\ CurrentStands
      /\ loadout_prev \in Previous
      /\ current \in [id: Ids \cup {<<>>}, acc: AccountType, seen_as: Seens]
  BY DEF LoadoutInv, LedgerInv, Outside
<1>2. /\ StoreOnly(s) /\ mixed' = (mixed \/ ReadsTwo(s, e)) /\ alive' = FALSE
      /\ current' = current /\ loadouts' = loadouts /\ loadout_prev' = loadout_prev
      /\ last_down' = last_down /\ probes' = probes /\ pending' = pending /\ late' = late
  BY DEF PollDies, loadout_vars
<1>3. /\ s \in Readings /\ s.ts \in Nat /\ engine' = e
      /\ taken' = taken \cup {s} /\ \A x \in ToSet(samples) : s.ts > x.ts
  BY DEF Polls, Readings
<1>4. LedgerInv'
  BY <1>1, DeathKeepsBooks
<1>5. Younger(s, taken, taken') /\ taken \subseteq taken'
  BY <1>1, <1>3, YoungestOfAll DEF OutsideType, TierType
<1>6. TableStands'
  BY <1>1, <1>2, <1>3, <1>5, TableGoesOn
<1>7. ReadingsStand' /\ LastDownStands'
  BY <1>1, <1>2, <1>5 DEF ReadingsStand, WasTakenAfter, LastDownStands
<1>8. /\ RunsServe' /\ mixed' \in BOOLEAN /\ engine.started <= e.started
      /\ engine.started \in Nat /\ e.started \in Nat
      /\ e.started = engine.started => e.config = engine.config
      /\ ~mixed' => ~mixed /\ s.config = e.config /\ s.started \in {0, e.started}
  BY <1>1, <1>2, RunGoesOn
<1>9. \A id : id \in DOMAIN loadouts => AccStands(loadouts[id], taken', late)
  BY <1>1, <1>5, AccStandsOn DEF RecordsStand
<1>10. AccStands(current.acc, taken', late)
  BY <1>1, <1>5, AccStandsOn DEF CurrentStands
<1>11. ASSUME ~mixed', NEW id \in DOMAIN loadouts PROVE OwnConfig(loadouts[id], id, taken', pending)
  <2>1. OwnConfig(loadouts[id], id, taken, pending) /\ SamplesStand(loadouts[id], taken)
    BY <1>1, <1>8, <1>11 DEF RecordsStand, AccStands
  <2> QED
    BY <1>5, <2>1, OwnConfigOn
<1>12. ASSUME ~mixed', current.id # <<>> PROVE OwnConfig(current.acc, current.id, taken', pending)
  <2> DEFINE acc == current.acc
             id == current.id
  <2>1. OwnConfig(acc, id, taken, pending) /\ SamplesStand(acc, taken)
    BY <1>1, <1>8, <1>12 DEF CurrentStands, AccStands
  <2> HIDE DEF acc, id
  <2>2. OwnConfig(acc, id, taken', pending)
    BY <1>5, <2>1, OwnConfigOn
  <2> QED
    BY <2>2 DEF acc, id
<1>13. RecordsStand'
  BY <1>1, <1>2, <1>9, <1>11 DEF RecordsStand
<1>14. CurrentStands'
  <2>1. ASSUME ~mixed', current.seen_as.by = "container"
        PROVE  /\ current.seen_as.started <= e.started
               /\ current.seen_as.started = e.started => current.id[2] = e.config
    <3>1. /\ current.seen_as.started <= engine.started /\ current.seen_as.started \in Nat
          /\ current.seen_as.started = engine.started => current.id[2] = engine.config
      BY <1>1, <1>8, <2>1 DEF CurrentStands, Seens
    <3> QED
      BY <1>8, <3>1
  <2> QED
    BY <1>1, <1>2, <1>3, <1>10, <1>12, <2>1 DEF CurrentStands
<1>15. NoneMissed'
  BY <1>2 DEF NoneMissed
<1> QED
  BY <1>1, <1>2, <1>4, <1>6, <1>7, <1>8, <1>13, <1>14, <1>15 DEF LoadoutInv

\* ... and by a start, which keeps the records and asks again who is serving.
LEMMA StartKeepsLoadouts ==
    ASSUME LoadoutInv, NEW t \in Nat, StartCollector(t)
    PROVE  LoadoutInv'
<1>1. /\ LedgerInv /\ OutsideType /\ TakenIsPast /\ TableStands /\ ReadingsStand /\ RunsServe
      /\ mixed \in BOOLEAN /\ RecordsStand
  BY DEF LoadoutInv, LedgerInv, Outside
<1>2. /\ t > now /\ started_at' = t /\ current' = NoCurrent /\ loadout_prev' = NoSample
      /\ last_down' = None /\ loadouts' = loadouts /\ samples' = samples
      /\ UNCHANGED <<engine, probes, taken, pending, mixed, late>>
  BY DEF StartCollector, StartTiers, StartLoadouts
<1>3. LedgerInv'
  BY <1>1, StartKeepsBooks
<1>4. NoneMissed'
  <2>1. \A x \in taken : x.ts < t
    BY <1>1, <1>2 DEF OutsideType, TakenIsPast, Readings
  <2>2. \A x \in taken : x.ts \in Nat
    BY <1>1 DEF OutsideType, Readings
  <2>3. \A x \in taken : ~(x.ts >= t)
    BY <2>1, <2>2
  <2> QED
    BY <1>2, <2>3 DEF NoneMissed
<1>5. /\ NoCurrent.id = <<>> /\ NoCurrent.acc = EmptyAcc /\ NoCurrent.seen_as.by = "nobody"
      /\ NoCurrent.seen_as \in Seens
      /\ NoCurrent \in [id: Ids \cup {<<>>}, acc: AccountType, seen_as: Seens]
  <2>1. EmptyAcc \in AccountType
    BY EmptyAccStands DEF AccStands
  <2>2. NobodySeen \in Seens /\ NobodySeen.by = "nobody"
    BY DEF NobodySeen, Seens
  <2> QED
    BY <2>1, <2>2 DEF NoCurrent
<1>6. CurrentStands'
  BY <1>2, <1>5, EmptyAccStands DEF CurrentStands
<1>7. TableStands' /\ ReadingsStand' /\ RunsServe' /\ LastDownStands' /\ RecordsStand'
  BY <1>1, <1>2 DEF TableStands, ReadingsStand, RunsServe, LastDownStands, RecordsStand
<1>8. loadout_prev' \in Previous /\ mixed' \in BOOLEAN
  BY <1>1, <1>2 DEF Previous
<1> QED
  BY <1>2, <1>3, <1>4, <1>5, <1>6, <1>7, <1>8 DEF LoadoutInv

\* So it holds after every step.
LEMMA LoadoutsGoOn == LoadoutInv /\ [AccountsNext]_account_vars => LoadoutInv'
<1> SUFFICES ASSUME LoadoutInv, [AccountsNext]_account_vars PROVE LoadoutInv'
  OBVIOUS
<1>0. LedgerInv'
  BY BooksGoOn DEF LoadoutInv
<1>1. ASSUME NEW t \in Nat, NEW e \in Engines, NEW how \in Hows, NEW failed \in Failures,
             NEW speed \in Nat, NEW logged \in SUBSET Nat, NEW described \in BOOLEAN,
             NEW came \in 0 .. 1, NEW dies \in BOOLEAN,
             PollAt(t, e, how, failed, speed, logged, described, came, dies)
      PROVE  LoadoutInv'
  <2>1. PICK s \in Readings :
            /\ Polls(s, e) /\ logged \in FiniteSubsets(Nat)
            /\ IF dies THEN PollDies(s, e) ELSE Poll(s, e, logged, described, came)
    <3>1. OutsideType
      BY DEF LoadoutInv, LedgerInv, Outside
    <3> QED
      BY <1>1, <3>1, PollsAre
  <2>2. Serves(e, s.ts)
    <3>1. Serves(e, t) /\ now' = t
      BY <1>1 DEF PollAt, Poll, PollDies, Sampled
    <3>2. now' = s.ts
      BY <2>1 DEF Polls
    <3> QED
      BY <3>1, <3>2
  <2>3. CASE dies
    BY <2>1, <2>2, <2>3, DeathKeepsLoadouts
  <2>4. CASE ~dies
    BY <2>1, <2>2, <2>4, PollKeepsLoadouts
  <2> QED
    BY <2>3, <2>4
<1>2. ASSUME NEW t \in Nat, StartCollector(t) PROVE LoadoutInv'
  BY <1>2, StartKeepsLoadouts
<1>3. CASE UNCHANGED <<loadout_vars, engine, probes, samples, taken, started_at, pending, mixed, late>>
           /\ alive' \in {alive, FALSE}
  <2>1. UNCHANGED <<current, loadouts, loadout_prev, last_down>>
    BY <1>3 DEF loadout_vars
  <2>2. TableStands' /\ ReadingsStand' /\ RunsServe'
    BY <1>3 DEF LoadoutInv, TableStands, ReadingsStand, RunsServe
  <2>3. RecordsStand' /\ CurrentStands' /\ LastDownStands'
    BY <1>3, <2>1 DEF LoadoutInv, RecordsStand, CurrentStands, LastDownStands
  <2>4. NoneMissed'
    BY <1>3, <2>1 DEF LoadoutInv, NoneMissed
  <2> QED
    BY <1>0, <1>3, <2>1, <2>2, <2>3, <2>4 DEF LoadoutInv
<1>4. CASE StopCollector
  <2>1. UNCHANGED <<loadout_vars, engine, probes, samples, taken, started_at, pending, mixed, late>>
        /\ alive' = FALSE
    BY <1>4 DEF StopCollector, books_history, tier_vars
  <2> QED
    BY <1>3, <2>1
<1>5. CASE BackfillStep
  <2>1. UNCHANGED <<loadout_vars, engine, probes, samples, taken, started_at, pending, mixed, late>>
        /\ alive' = alive
    BY <1>5 DEF BackfillStep, BackfillChunk, BackfillDone, books_history, env_vars
  <2> QED
    BY <1>3, <2>1
<1>6. CASE UNCHANGED account_vars
  <2>1. UNCHANGED <<loadout_vars, engine, probes, samples, taken, started_at, pending, mixed, late>>
        /\ alive' = alive
    BY <1>6 DEF account_vars, books_history, env_vars, tier_vars
  <2> QED
    BY <1>3, <2>1
<1> QED
  BY <1>1, <1>2, <1>4, <1>5, <1>6 DEF AccountsNext

\* A list of which no two members are the same is as long as it has members.
LEMMA DistinctIs ==
    ASSUME NEW S, NEW seq \in Seq(S), \A i, j \in 1 .. Len(seq) : i < j => seq[i] # seq[j]
    PROVE  Distinct(seq)
<1> DEFINE n == Len(seq)
           f == [i \in 1 .. n |-> seq[i]]
           set == ToSet(seq)
<1>1. n \in Nat /\ set = {seq[i] : i \in 1 .. n}
  BY DEF ToSet
<1>2. \A i, j \in 1 .. n : seq[i] = seq[j] => i = j
  <2>1. TAKE i, j \in 1 .. n
  <2>2. i < j \/ j < i \/ i = j
    BY <1>1
  <2> QED
    BY <2>2
<1>3. f \in [1 .. n -> set] /\ (\A i, j \in 1 .. n : f[i] = f[j] => i = j)
      /\ \A x \in set : \E i \in 1 .. n : f[i] = x
  BY <1>1, <1>2
<1>4. f \in Bijection(1 .. n, set)
  <2> HIDE DEF f, n, set
  <2> QED
    BY <1>3 DEF Bijection, Injection, Surjection, IsInjective
<1>5. ExistsBijection(1 .. n, set)
  BY <1>4 DEF ExistsBijection
<1>6. Cardinality(set) = n
  <2> HIDE DEF f, n, set
  <2>1. IsFiniteSet(1 .. n) /\ Cardinality(1 .. n) = n
    BY <1>1, FS_Interval
  <2> QED
    BY <1>5, <2>1, FS_Bijection
<1> QED
  BY <1>6 DEF Distinct

\* An account that stands is what the property asks of it.
LEMMA StandingIsDistinct ==
    ASSUME NEW acc, NEW T, NEW L, AccStands(acc, T, L)
    PROVE  /\ Distinct(acc.samples) /\ Distinct(acc.steps)
           /\ Distinct(Selected(acc.probes, ToSet(acc.probes) \ L))
           /\ \A cold \in ToSet(acc.cold_starts) : WasWatched(T, cold)
<1>1. /\ acc.samples \in Seq(Nat) /\ acc.steps \in Seq(Nat \X Nat) /\ acc.probes \in Seq(Nat)
      /\ acc.cold_starts \in Seq(Nat \X Nat)
      /\ SamplesStand(acc, T) /\ StepsStand(acc, T) /\ ProbesStand(acc, T, L) /\ ColdsStand(acc, T)
  BY DEF AccStands, AccountType
<1>2. Distinct(acc.samples)
  <2> DEFINE seq == acc.samples
  <2>1. seq \in Seq(Nat) /\ \A i, j \in 1 .. Len(seq) : i < j => seq[i] < seq[j]
    BY <1>1 DEF SamplesStand, Ascends
  <2> HIDE DEF seq
  <2>2. \A i \in 1 .. Len(seq) : seq[i] \in Nat
    BY <2>1
  <2>3. \A i, j \in 1 .. Len(seq) : i < j => seq[i] # seq[j]
    BY <2>1, <2>2
  <2>4. Distinct(seq)
    BY <2>1, <2>3, DistinctIs
  <2> QED
    BY <2>4 DEF seq
<1>3. Distinct(acc.steps)
  <2> DEFINE seq == acc.steps
  <2>1. seq \in Seq(Nat \X Nat) /\ \A i, j \in 1 .. Len(seq) : i < j => seq[i][2] < seq[j][2]
    BY <1>1 DEF StepsStand
  <2> HIDE DEF seq
  <2>2. \A i \in 1 .. Len(seq) : seq[i][2] \in Nat
    BY <2>1
  <2>3. \A i, j \in 1 .. Len(seq) : i < j => seq[i] # seq[j]
    BY <2>1, <2>2
  <2>4. Distinct(seq)
    BY <2>1, <2>3, DistinctIs
  <2> QED
    BY <2>4 DEF seq
<1>4. Distinct(Selected(acc.probes, ToSet(acc.probes) \ L))
  <2> DEFINE seq == acc.probes
             set == ToSet(seq) \ L
             sel == Selected(seq, set)
  <2>1. /\ seq \in Seq(Nat)
        /\ \A i, j \in 1 .. Len(seq) : i < j => seq[i] < seq[j] \/ (seq[i] = seq[j] /\ seq[i] \in L)
    BY <1>1 DEF ProbesStand
  <2>2. \A x \in set : x \notin L
    OBVIOUS
  <2> HIDE DEF seq, set
  <2>3. sel \in Seq(Nat) /\ \E f : Selects(f, sel, seq, set, Len(seq))
    BY <2>1, SelectedIs DEF IsSelection
  <2> HIDE DEF sel
  <2>4. PICK f : Selects(f, sel, seq, set, Len(seq))
    BY <2>3
  <2>5. \A i \in 1 .. Len(sel) : f[i] \in 1 .. Len(seq) /\ seq[f[i]] \in set /\ sel[i] = seq[f[i]]
    BY <2>4 DEF Selects
  <2>6. \A i, j \in 1 .. Len(sel) : i < j => f[i] < f[j]
    BY <2>4 DEF Selects
  <2>7. \A i \in 1 .. Len(seq) : seq[i] \in Nat
    BY <2>1
  <2>8. \A i, j \in 1 .. Len(sel) : i < j => sel[i] # sel[j]
    <3>1. TAKE i, j \in 1 .. Len(sel)
    <3>2. HAVE i < j
    <3>3. seq[f[i]] < seq[f[j]]
      BY <2>1, <2>2, <2>5, <2>6, <3>2
    <3> QED
      BY <2>5, <2>7, <3>3
  <2>9. Distinct(sel)
    BY <2>3, <2>8, DistinctIs
  <2> QED
    BY <2>9 DEF sel, set, seq
<1>5. \A cold \in ToSet(acc.cold_starts) : WasWatched(T, cold)
  <2>1. DOMAIN acc.cold_starts = 1 .. Len(acc.cold_starts)
    BY <1>1
  <2>2. \A cold \in ToSet(acc.cold_starts) :
            \E i \in 1 .. Len(acc.cold_starts) : cold = acc.cold_starts[i]
    BY <2>1 DEF ToSet
  <2> QED
    BY <1>1, <2>2 DEF ColdsStand
<1> QED
  BY <1>2, <1>3, <1>4, <1>5

\* What the invariant says of the loadouts, in the words of the property.
LEMMA LoadoutsAreTheirOwn == LoadoutInv => LoadoutIsItsOwn
<1> SUFFICES ASSUME LoadoutInv PROVE LoadoutIsItsOwn
  OBVIOUS
<1>1. ASSUME NEW acc \in Accs
      PROVE  /\ Distinct(acc.samples) /\ Distinct(acc.steps)
             /\ Distinct(Selected(acc.probes, ToSet(acc.probes) \ late))
             /\ \A cold \in ToSet(acc.cold_starts) : cold[1] > 0 =>
                   \E s \in taken : /\ ~s.up /\ s.ts >= cold[1] /\ s.ts < cold[2]
                                    /\ s.ts >= cold[2] - ColdWindow
  <2>1. AccStands(acc, taken, late)
    <3>1. PICK id \in DOMAIN loadouts \cup {current.id} : acc = AccountOf(id)
      BY <1>1 DEF Accs
    <3>2. AccStands(current.acc, taken, late)
          /\ \A i \in DOMAIN loadouts : AccStands(loadouts[i], taken, late)
      BY DEF LoadoutInv, CurrentStands, RecordsStand
    <3>3. CASE current.id = id
      BY <3>1, <3>2, <3>3 DEF AccountOf
    <3>4. CASE current.id # id
      BY <3>1, <3>2, <3>4 DEF AccountOf
    <3> QED
      BY <3>3, <3>4
  <2> QED
    BY <2>1, StandingIsDistinct DEF WasWatched
<1>2. ASSUME ~mixed, NEW s \in taken, s.up, s.ts \notin pending
      PROVE  LET id == <<"container", s.config>>
             IN  /\ current.id # <<>> /\ current.id[1] = "container"
                       /\ s.ts \in ToSet(current.acc.samples) => current.id = id
                 /\ alive /\ s.ts >= started_at /\ s.started > 0 =>
                       id \in DOMAIN loadouts /\ s.ts \in ToSet(AccountOf(id).samples)
  <2> DEFINE id == <<"container", s.config>>
  <2>0. current.acc \in AccountType /\ \A i \in DOMAIN loadouts : loadouts[i] \in AccountType
    BY DEF LoadoutInv, CurrentStands, RecordsStand, AccStands
  <2>1. \A acc \in AccountType : Counts(acc, s.ts) <=> s.ts \in ToSet(acc.samples)
    <3>1. \A acc \in AccountType : DOMAIN acc.samples = 1 .. Len(acc.samples)
      BY DEF AccountType
    <3> QED
      BY <3>1 DEF Counts, ToSet
  <2>2. ASSUME current.id # <<>>, current.id[1] = "container", s.ts \in ToSet(current.acc.samples)
        PROVE  current.id = id
    <3>1. Counts(current.acc, s.ts)
      BY <2>0, <2>1, <2>2
    <3>2. OwnConfig(current.acc, current.id, taken, pending) /\ current.id \in Ids
      BY <1>2, <2>2 DEF LoadoutInv, CurrentStands
    <3>3. s.config = current.id[2]
      BY <1>2, <2>2, <3>1, <3>2 DEF OwnConfig
    <3> QED
      BY <2>2, <3>2, <3>3 DEF Ids
  <2>3. ASSUME alive, s.ts >= started_at, s.started > 0
        PROVE  id \in DOMAIN loadouts /\ s.ts \in ToSet(AccountOf(id).samples)
    <3>1. ~Missed(s, current, loadouts)
      BY <1>2, <2>3 DEF LoadoutInv, NoneMissed
    <3>2. id \in DOMAIN loadouts /\ Counts(IF current.id = id THEN current.acc ELSE loadouts[id], s.ts)
      BY <3>1 DEF Missed
    <3>3. AccountOf(id) = IF current.id = id THEN current.acc ELSE loadouts[id]
      BY DEF AccountOf
    <3> HIDE DEF id
    <3> QED
      BY <2>0, <2>1, <3>2, <3>3
  <2> QED
    BY <2>2, <2>3
<1> QED
  BY <1>1, <1>2 DEF LoadoutIsItsOwn

\* Wherever engine, docker and collector go (loadouts.rs:107), no sample or interval counts twice
\* for a loadout, and a reading only when it came in with the poll that opened the account; a
\* container's start that was timed was watched; and unless a poll ever read one run under the start of another, a
\* container's account counts its own configuration, and all of it that was seen since the
\* collector started.
THEOREM LoadoutsAreAlwaysTheirOwn == AccountsSpec => []LoadoutIsItsOwn
<1>1. LoadoutInv /\ [AccountsNext]_account_vars => LoadoutInv'
  BY LoadoutsGoOn
<1> QED
  BY <1>1, LoadoutsBegin, LoadoutsAreTheirOwn, PTL DEF AccountsSpec
=============================================================================

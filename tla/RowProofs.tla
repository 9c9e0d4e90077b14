----------------------------- MODULE RowProofs ------------------------------
(***************************************************************************)
(* Theorems about the rows the collector rolls its samples up into, and    *)
(* about money, which is made of such rows: that a row is what its samples *)
(* tell, whoever wrote it (Tiers.tla, Accounts.tla); that a bill is made   *)
(* of the prices that were agreed to, for every plan a person can type, on *)
(* every calendar (Tariff.tla); and that the windows a person reads are    *)
(* those of the calendar, on every one whose days are 86 400 seconds long  *)
(* but for less than half a day in sum (Spending.tla).                     *)
(***************************************************************************)
EXTENDS AccountProofs, Spending, Tariff, FiniteSetTheorems

-----------------------------------------------------------------------------
(***************************************************************************)
(* The rollup: the inductive invariant                                     *)
(*                                                                         *)
(* T are the samples that were taken, S the starts of the collector, and   *)
(* what was taken before k may have been dropped by the retention.         *)
(***************************************************************************)
\* Finitely many samples, each with a clock reading of its own.
Apart(T) == T \subseteq Readings /\ IsFiniteSet(T) /\ \A x, y \in T : x.ts = y.ts => x = y

Prior(T, x) == {p \in T : p.ts < x.ts}
ShownOf(T) == [x \in T |-> IF Prior(T, x) = {} THEN 0 ELSE Growth(Newest(Prior(T, x)), x)]

\* The sample before it may have been dropped.
Bereft(T, k) == {x \in T : Prior(T, x) # {} /\ Newest(Prior(T, x)).ts < k}

FirstSince(T, from, x) == x.ts >= from /\ ~\E p \in Prior(T, x) : p.ts >= from
CutOf(T, S, k) ==
    {x \in T : Prior(T, x) = {} \/ x \in Bereft(T, k) \/ \E t \in S : FirstSince(T, OpenFrom(t), x)}

HeldIn(T, acc) == {x \in T : x.ts \in acc.in}

\* n tokens are no more than the samples in H showed, but for one that lost the sample before it.
NoMore(n, H, T, k) ==
    \/ n <= SumOver(ShownOf(T), H)
    \/ \E x \in H : \E p \in Prior(T, x) :
          x \in Bereft(T, k) /\ n <= SumOver(ShownOf(T), H \ {x}) + Growth(p, x)

\* An aggregate is of samples of one bucket, each once.
AggOf(acc, w, b, T, S, k) ==
    /\ acc.in = {x.ts : x \in HeldIn(T, acc)}
    /\ \A x \in HeldIn(T, acc) : BucketOf(w, x.ts) = b
    /\ acc.n = Cardinality(HeldIn(T, acc))
    /\ SumOver(ShownOf(T), HeldIn(T, acc) \ CutOf(T, S, k)) <= acc.tok
    /\ NoMore(acc.tok, HeldIn(T, acc), T, k)

\* A row is of a bucket that has ended, and of all of it.
WholeOf(acc, w, b, T, k) == \A x \in T : BucketOf(w, x.ts) = b => x.ts \in acc.in \/ x.ts < k
HasEnded(w, b, T) == \E p \in T : b < BucketOf(w, p.ts)
RowOf(acc, w, b, T, S, k) ==
    AggOf(acc, w, b, T, S, k) /\ WholeOf(acc, w, b, T, k) /\ HasEnded(w, b, T)
RowsOf(table, T, S, k) ==
    \A w \in Widths : \A b \in DOMAIN table[w] : RowOf(table[w][b], w, b, T, S, k)

\* An open bucket is that of the last sample that was pushed, and of all of it so far.
SoFar(T, prev) == {x \in T : x.ts <= prev.ts}
OpenOf(roller, w, prev, T, S, k) ==
    /\ roller.bucket = BucketOf(w, prev.ts)
    /\ AggOf(roller.acc, w, roller.bucket, T, S, k)
    /\ \A i \in roller.acc.in : i <= prev.ts
    /\ WholeOf(roller.acc, w, roller.bucket, SoFar(T, prev), k)

\* A log counts a line no more often than samples brought it.
Bringing(T, b, l) == {x \in T : BucketOf(TenMinutes, x.ts) = b /\ l \in x.log}
LogOf(log, b, T) == \A l \in DOMAIN log : log[l] <= Cardinality(Bringing(T, b, l))
GateOf(gate, prev, T) ==
    gate.bucket = BucketOf(TenMinutes, prev.ts) /\ LogOf(gate.log, gate.bucket, SoFar(T, prev))
GatelogOf(table, T) ==
    \A b \in DOMAIN table : LogOf(table[b], b, T) /\ HasEnded(TenMinutes, b, T)

PipeOf(pipe, T, S, k) ==
    \/ pipe = NewPipeline
    \/ /\ pipe.prev \in T
       /\ \A w \in Widths : OpenOf(pipe.rollers[w], w, pipe.prev, T, S, k)
       /\ GateOf(pipe.gate, pipe.prev, T)

DbOf(db, T, S, k) ==
    PipeOf(db.pipe, T, S, k) /\ RowsOf(db.rows, T, S, k) /\ GatelogOf(db.gatelog, T)

\* The sample a pipeline is given next: none that is still there lies between, and if one did,
\* a new ten minutes have begun.
Follows(prev, s, T, S, k) ==
    /\ s \in T
    /\ \/ /\ prev = NoSample /\ s \in CutOf(T, S, k)
          /\ \A x \in Prior(T, s) :
                 BucketOf(TenMinutes, x.ts) = BucketOf(TenMinutes, s.ts) => x.ts < k
       \/ /\ prev # NoSample /\ prev.ts < s.ts
          /\ \A x \in Prior(T, s) : prev.ts < x.ts =>
                 x.ts < k /\ BucketOf(TenMinutes, prev.ts) # BucketOf(TenMinutes, s.ts)

InARow(x, w, table) == BucketOf(w, x.ts) \in DOMAIN table[w] /\ x.ts \in table[w][BucketOf(w, x.ts)].in
IsOpenIn(x, w, pipe) == pipe.rollers[w].bucket = BucketOf(w, x.ts) /\ x.ts \in pipe.rollers[w].acc.in

RawFrom == now - KeepRaw
KeepOf(w) == IF w = Minute THEN KeepM1 ELSE KeepM10

\* The samples table holds the newest samples, and all that the retention leaves.
SamplesStay ==
    /\ \A x \in taken : x.ts >= RawFrom => x \in ToSet(samples)
    /\ \A x \in taken, y \in ToSet(samples) : y.ts <= x.ts => x \in ToSet(samples)

StartsStand ==
    /\ IsFiniteSet(starts) /\ (\A t \in starts : t <= started_at) /\ started_at <= now
    /\ starts # {} => started_at \in starts
    /\ starts = {} => ~alive /\ pipeline = NewPipeline /\ backfill.until = 0

TiersStand ==
    /\ DbOf(Tables(pipeline), taken, starts, RawFrom)
    /\ PipeOf(backfill.pipe, taken, starts, RawFrom)

\* The live pipeline begins with the ten minutes the collector started in; while it lives, it
\* has all since.
PipelineStands ==
    /\ pipeline # NewPipeline => pipeline.prev.ts >= OpenFrom(started_at)
    /\ alive => \A x \in taken : x.ts >= OpenFrom(started_at) =>
           pipeline # NewPipeline /\ x.ts <= pipeline.prev.ts

Reached(x, w, pipe) ==
    \/ x.ts < RawFrom \/ BucketOf(w, x.ts) < now - KeepOf(w)
    \/ InARow(x, w, rows) \/ IsOpenIn(x, w, pipe)

\* The back-fill has all that is still there up to where it is.
BackfillStands ==
    /\ backfill.from <= backfill.until /\ backfill.until <= OpenFrom(started_at)
    /\ BucketOf(TenMinutes, backfill.from) = backfill.from
    /\ BucketOf(TenMinutes, backfill.until) = backfill.until
    /\ backfill.owed /\ starts # {} => \E t \in starts : backfill.until = OpenFrom(t)
    /\ backfill.pipe = NewPipeline => backfill.from = 0
    /\ backfill.pipe # NewPipeline =>
           /\ backfill.pipe.prev.ts < backfill.from
           /\ \A x \in taken : backfill.pipe.prev.ts < x.ts /\ x.ts < backfill.from => x.ts < RawFrom
    /\ backfill.owed => \A x \in taken, w \in Widths :
           x.ts < backfill.from => Reached(x, w, backfill.pipe)

\* No sample is lost but in the ways the property names, or before a collector is back.
Unpushed(x) == IF pipeline = NewPipeline THEN x.ts >= started_at ELSE x.ts > pipeline.prev.ts
AllAreRolled ==
    starts # {} => \A x \in taken, w \in Widths :
        Reached(x, w, pipeline) \/ LostInAGap(w, x) \/ NotYetBackfilled(x) \/ (~alive /\ Unpushed(x))

\* How often a line was brought, and how often it may have been read back.
Brought(T, l) == {x \in T : l \in x.log}
Backs(S, l) == {t \in S : l <= t /\ t <= l + LogWindow}

LinesStand ==
    /\ cursor \in Nat \cup {None} /\ \A l \in lines : l <= now
    /\ \A x \in taken : \A l \in x.log : l <= x.ts /\ (alive => l \in lines \/ l < now)
    /\ \A l \in lines :
           /\ Cardinality(Brought(taken, l)) <= 1 + Cardinality(Backs(starts, l))
           /\ alive => \/ l <= cursor \/ l < now - LogWindow
                       \/ Cardinality(Brought(taken, l)) <= Cardinality(Backs(starts, l))

RollInv ==
    /\ LoadoutInv /\ Apart(taken) /\ SamplesStay /\ StartsStand
    /\ TiersStand /\ PipelineStands /\ BackfillStands /\ AllAreRolled

-----------------------------------------------------------------------------
(***************************************************************************)
(* The rollup: what a sample showed, as more samples are taken             *)
(***************************************************************************)
\* There is a newest of the samples before one ...
LEMMA NewestIs ==
    ASSUME NEW T, Apart(T), NEW x \in Readings, Prior(T, x) # {}
    PROVE  /\ Newest(Prior(T, x)) \in Prior(T, x)
           /\ \A q \in Prior(T, x) : q.ts <= Newest(Prior(T, x)).ts
<1> DEFINE X == Prior(T, x)
           times == {p.ts : p \in X}
<1>1. x.ts \in Nat /\ \A p \in X : p.ts \in Nat /\ p.ts < x.ts
  BY DEF Prior, Apart, Readings
<1>2. times \subseteq 0 .. x.ts /\ times # {}
  BY <1>1
<1> HIDE DEF X, times
<1>3. Max(times) \in times /\ \A k \in times : k <= Max(times)
  BY <1>1, <1>2, LargestExists
<1>4. PICK p \in X : p.ts = Max(times)
  BY <1>3 DEF times
<1>5. \A q \in X : q.ts <= p.ts
  BY <1>3, <1>4 DEF times
<1>6. Newest(X) \in X /\ \A q \in X : q.ts <= Newest(X).ts
  BY <1>4, <1>5 DEF Newest
<1> QED
  BY <1>6 DEF X

\* ... and it is the only one.
LEMMA NewestIsTheOne ==
    ASSUME NEW T, Apart(T), NEW X \in SUBSET T, NEW p \in X, \A q \in X : q.ts <= p.ts
    PROVE  Newest(X) = p
<1>1. Newest(X) \in X /\ \A q \in X : q.ts <= Newest(X).ts
  BY DEF Newest
<1>2. p.ts \in Nat /\ Newest(X).ts \in Nat
  BY <1>1 DEF Apart, Readings
<1>3. p.ts = Newest(X).ts
  BY <1>1, <1>2
<1> QED
  BY <1>1, <1>3 DEF Apart

\* What a sample showed is a natural number of tokens.
LEMMA ShownIsNatural ==
    ASSUME NEW T, Apart(T)
    PROVE  \A x \in T : ShownOf(T)[x] \in Nat /\ ShownOf(T)[x] \in Int
<1> SUFFICES ASSUME NEW x \in T PROVE ShownOf(T)[x] \in Nat
  OBVIOUS
<1>1. x \in Readings
  BY DEF Apart
<1>2. CASE Prior(T, x) = {}
  BY <1>2 DEF ShownOf
<1>3. CASE Prior(T, x) # {}
  <2>1. Newest(Prior(T, x)) \in Previous
    BY <1>1, <1>3, NewestIs DEF Prior, Apart, Previous
  <2>2. Growth(Newest(Prior(T, x)), x) \in Nat
    BY <1>1, <2>1, GrowthType
  <2> QED
    BY <1>3, <2>2 DEF ShownOf
<1> QED
  BY <1>2, <1>3

\* Samples are taken, collectors start and the retention drops.
Wider(T, S, k, V, R, m) ==
    /\ Apart(T) /\ Apart(V) /\ T \subseteq V /\ \A x \in V \ T : \A y \in T : y.ts < x.ts
    /\ S \subseteq R /\ k \in Int /\ m \in Int /\ k <= m

\* Nothing changes of what was before a sample ...
LEMMA PriorStays ==
    ASSUME NEW T, NEW S, NEW k, NEW V, NEW R, NEW m, Wider(T, S, k, V, R, m), NEW x \in T
    PROVE  Prior(V, x) = Prior(T, x)
<1>1. ASSUME NEW p \in V, p.ts < x.ts PROVE p \in T
  <2>1. p.ts \in Nat /\ x.ts \in Nat
    BY DEF Wider, Apart, Readings
  <2> QED
    BY <1>1, <2>1 DEF Wider
<1> QED
  BY <1>1 DEF Prior, Wider

\* ... nor of what samples showed ...
LEMMA ShownStays ==
    ASSUME NEW T, NEW S, NEW k, NEW V, NEW R, NEW m, Wider(T, S, k, V, R, m), NEW H \in SUBSET T
    PROVE  SumOver(ShownOf(V), H) = SumOver(ShownOf(T), H)
<1>1. IsFiniteSet(H) /\ \A x \in H : ShownOf(T)[x] \in Int
  BY ShownIsNatural, FS_Subset DEF Wider, Apart
<1>2. ASSUME NEW x \in H PROVE ShownOf(V)[x] = ShownOf(T)[x]
  <2>1. x \in T /\ x \in V
    BY DEF Wider
  <2>2. Prior(V, x) = Prior(T, x)
    BY <2>1, PriorStays
  <2> QED
    BY <2>1, <2>2 DEF ShownOf
<1> QED
  BY <1>1, <1>2, SumsOfTheSame

\* ... but more may have lost the sample before them.
LEMMA CutsStay ==
    ASSUME NEW T, NEW S, NEW k, NEW V, NEW R, NEW m, Wider(T, S, k, V, R, m)
    PROVE  Bereft(T, k) \subseteq Bereft(V, m) /\ CutOf(T, S, k) \subseteq CutOf(V, R, m)
<1>1. ASSUME NEW x \in Bereft(T, k) PROVE x \in Bereft(V, m)
  <2>1. x \in T /\ x \in Readings /\ Prior(T, x) # {} /\ Newest(Prior(T, x)).ts < k
    BY DEF Bereft, Wider, Apart
  <2>a. x \in V
    BY <2>1 DEF Wider
  <2>2. Prior(V, x) = Prior(T, x)
    BY <2>1, PriorStays
  <2>3. Newest(Prior(T, x)) \in T
    BY <2>1, NewestIs DEF Wider, Prior
  <2>4. Newest(Prior(T, x)).ts \in Nat /\ k \in Int /\ m \in Int /\ k <= m
    BY <2>3 DEF Wider, Apart, Readings
  <2> QED
    BY <2>1, <2>2, <2>4, <2>a DEF Bereft
<1>2. ASSUME NEW x \in CutOf(T, S, k) PROVE x \in CutOf(V, R, m)
  <2>1. x \in T /\ x \in V
    BY DEF CutOf, Wider
  <2>a. S \subseteq R
    BY DEF Wider
  <2>2. Prior(V, x) = Prior(T, x)
    BY <2>1, PriorStays
  <2>3. \A t \in S : FirstSince(T, OpenFrom(t), x) => FirstSince(V, OpenFrom(t), x)
    BY <2>2 DEF FirstSince
  <2>4. CASE Prior(T, x) = {}
    BY <2>1, <2>2, <2>4 DEF CutOf
  <2>5. CASE x \in Bereft(T, k)
    BY <2>1, <2>5, <1>1 DEF CutOf
  <2>6. CASE \E t \in S : FirstSince(T, OpenFrom(t), x)
    BY <2>1, <2>a, <2>3, <2>6 DEF CutOf
  <2> QED
    BY <2>4, <2>5, <2>6 DEF CutOf
<1> QED
  BY <1>1, <1>2

\* An aggregate stays what it is.
LEMMA AggStays ==
    ASSUME NEW T, NEW S, NEW k, NEW V, NEW R, NEW m, Wider(T, S, k, V, R, m),
           NEW acc \in Aggs, NEW w, NEW b, AggOf(acc, w, b, T, S, k)
    PROVE  AggOf(acc, w, b, V, R, m)
<1> DEFINE H == HeldIn(T, acc)
<1>1. HeldIn(V, acc) = H
  <2>1. ASSUME NEW x \in V, x.ts \in acc.in PROVE x \in T
    <3>1. PICK y \in T : y.ts = x.ts
      BY <2>1 DEF AggOf, HeldIn
    <3>2. x = y
      BY <3>1 DEF Wider, Apart
    <3> QED
      BY <3>2
  <2> QED
    BY <2>1 DEF HeldIn, Wider
<1>2. H \subseteq T /\ IsFiniteSet(H)
  <2>1. H \subseteq T
    BY DEF HeldIn
  <2> QED
    BY <2>1, FS_Subset DEF Wider, Apart
<1>3. Bereft(T, k) \subseteq Bereft(V, m) /\ CutOf(T, S, k) \subseteq CutOf(V, R, m)
  BY CutsStay
<1> HIDE DEF H
<1>4. \A G \in SUBSET H : SumOver(ShownOf(V), G) = SumOver(ShownOf(T), G)
  BY <1>2, ShownStays
<1>5. SumOver(ShownOf(V), H \ CutOf(V, R, m)) <= acc.tok
  <2> DEFINE A == H \ CutOf(T, S, k)
             B == H \ CutOf(V, R, m)
  <2>1. B \subseteq A /\ A \subseteq H
    BY <1>3
  <2> HIDE DEF A, B
  <2>2. IsFiniteSet(A) /\ \A x \in A : ShownOf(T)[x] \in Nat
    BY <1>2, <2>1, ShownIsNatural, FS_Subset DEF Wider
  <2>3. /\ SumOver(ShownOf(T), B) \in Nat /\ SumOver(ShownOf(T), A) \in Nat
        /\ SumOver(ShownOf(T), B) <= SumOver(ShownOf(T), A)
    BY <2>1, <2>2, SumOfPart, SumOfNaturals
  <2>4. SumOver(ShownOf(T), A) <= acc.tok
    BY DEF AggOf, A, H
  <2>5. acc.tok \in Nat
    BY DEF Aggs
  <2>6. SumOver(ShownOf(V), B) = SumOver(ShownOf(T), B)
    BY <1>4, <2>1
  <2> QED
    BY <2>3, <2>4, <2>5, <2>6 DEF B
<1>6. NoMore(acc.tok, H, V, m)
  <2>1. NoMore(acc.tok, H, T, k)
    BY DEF AggOf, H
  <2>2. CASE acc.tok <= SumOver(ShownOf(T), H)
    BY <1>4, <2>2 DEF NoMore
  <2>3. ASSUME NEW x \in H, NEW p \in Prior(T, x), x \in Bereft(T, k),
               acc.tok <= SumOver(ShownOf(T), H \ {x}) + Growth(p, x)
        PROVE  NoMore(acc.tok, H, V, m)
    <3>1. x \in T /\ Prior(V, x) = Prior(T, x) /\ x \in Bereft(V, m)
      BY <1>2, <1>3, <2>3, PriorStays
    <3>2. SumOver(ShownOf(V), H \ {x}) = SumOver(ShownOf(T), H \ {x})
      BY <1>4
    <3> QED
      BY <2>3, <3>1, <3>2 DEF NoMore
  <2> QED
    BY <2>1, <2>2, <2>3 DEF NoMore
<1> QED
  BY <1>1, <1>5, <1>6 DEF AggOf, H

\* A row stays what it is: what is taken later is of later buckets.
LEMMA RowStays ==
    ASSUME NEW T, NEW S, NEW k, NEW V, NEW R, NEW m, Wider(T, S, k, V, R, m),
           NEW acc \in Aggs, NEW w \in Widths, NEW b \in Nat, RowOf(acc, w, b, T, S, k)
    PROVE  RowOf(acc, w, b, V, R, m)
<1>1. AggOf(acc, w, b, V, R, m)
  BY AggStays DEF RowOf
<1>2. PICK p \in T : b < BucketOf(w, p.ts)
  BY DEF RowOf, HasEnded
<1>3. HasEnded(w, b, V)
  BY <1>2 DEF HasEnded, Wider
<1>4. WholeOf(acc, w, b, V, m)
  <2>1. ASSUME NEW x \in V, BucketOf(w, x.ts) = b PROVE x.ts \in acc.in \/ x.ts < m
    <3>1. x.ts \in Nat /\ p.ts \in Nat /\ k \in Int /\ m \in Int /\ k <= m
      BY <1>2 DEF Wider, Apart, Readings
    <3>2. CASE x \in T
      BY <2>1, <3>1, <3>2 DEF RowOf, WholeOf
    <3>3. CASE x \notin T
      <4>1. p.ts < x.ts
        BY <1>2, <3>3 DEF Wider
      <4>2. BucketOf(w, p.ts) <= BucketOf(w, x.ts) /\ BucketOf(w, p.ts) \in Nat
        BY <3>1, <4>1, BucketsAscend, WidthsAre
      <4> QED
        BY <1>2, <2>1, <4>2
    <3> QED
      BY <3>2, <3>3
  <2> QED
    BY <2>1 DEF WholeOf
<1> QED
  BY <1>1, <1>3, <1>4 DEF RowOf

\* What was taken so far is what was taken until then.
LEMMA SoFarStays ==
    ASSUME NEW T, NEW S, NEW k, NEW V, NEW R, NEW m, Wider(T, S, k, V, R, m), NEW p \in T
    PROVE  SoFar(V, p) = SoFar(T, p)
<1>1. ASSUME NEW x \in V, x.ts <= p.ts PROVE x \in T
  <2>1. p.ts \in Nat /\ x.ts \in Nat
    BY DEF Wider, Apart, Readings
  <2> QED
    BY <1>1, <2>1 DEF Wider
<1> QED
  BY <1>1 DEF SoFar, Wider

\* So an open bucket stays what it is ...
LEMMA OpenStays ==
    ASSUME NEW T, NEW S, NEW k, NEW V, NEW R, NEW m, Wider(T, S, k, V, R, m),
           NEW roller \in Rollers, NEW w, NEW p \in T, OpenOf(roller, w, p, T, S, k)
    PROVE  OpenOf(roller, w, p, V, R, m)
<1>1. roller.acc \in Aggs
  BY DEF Rollers
<1>2. AggOf(roller.acc, w, roller.bucket, V, R, m)
  BY <1>1, AggStays DEF OpenOf
<1>3. SoFar(V, p) = SoFar(T, p)
  BY SoFarStays
<1>4. ASSUME NEW x \in SoFar(T, p), x.ts < k PROVE x.ts < m
  <2>1. x.ts \in Nat /\ k \in Int /\ m \in Int /\ k <= m
    BY DEF SoFar, Wider, Apart, Readings
  <2> QED
    BY <1>4, <2>1
<1>5. WholeOf(roller.acc, w, roller.bucket, SoFar(V, p), m)
  BY <1>3, <1>4 DEF OpenOf, WholeOf
<1> QED
  BY <1>2, <1>5 DEF OpenOf

\* ... and a pipeline ...
LEMMA PipeStays ==
    ASSUME NEW T, NEW S, NEW k, NEW V, NEW R, NEW m, Wider(T, S, k, V, R, m),
           NEW pipe \in Pipes, PipeOf(pipe, T, S, k)
    PROVE  PipeOf(pipe, V, R, m)
<1>1. CASE pipe = NewPipeline
  BY <1>1 DEF PipeOf
<1>2. CASE pipe # NewPipeline
  <2>1. /\ pipe.prev \in T /\ \A w \in Widths : OpenOf(pipe.rollers[w], w, pipe.prev, T, S, k)
        /\ GateOf(pipe.gate, pipe.prev, T)
    BY <1>2 DEF PipeOf
  <2>2. \A w \in Widths : pipe.rollers[w] \in Rollers
    BY DEF Pipes
  <2>3. \A w \in Widths : OpenOf(pipe.rollers[w], w, pipe.prev, V, R, m)
    BY <2>1, <2>2, OpenStays
  <2>4. GateOf(pipe.gate, pipe.prev, V)
    BY <2>1, SoFarStays DEF GateOf
  <2>5. pipe.prev \in V
    BY <2>1 DEF Wider
  <2> QED
    BY <2>3, <2>4, <2>5 DEF PipeOf
<1> QED
  BY <1>1, <1>2

\* ... and the tables.
LEMMA RowsStay ==
    ASSUME NEW T, NEW S, NEW k, NEW V, NEW R, NEW m, Wider(T, S, k, V, R, m),
           NEW table \in [Widths -> TablesOf(Aggs)], RowsOf(table, T, S, k)
    PROVE  RowsOf(table, V, R, m)
<1> SUFFICES ASSUME NEW w \in Widths, NEW b \in DOMAIN table[w]
             PROVE  RowOf(table[w][b], w, b, V, R, m)
  BY DEF RowsOf
<1>1. table[w] \in TablesOf(Aggs)
  OBVIOUS
<1>2. table[w][b] \in Aggs /\ b \in Nat
  BY <1>1, TableIs DEF FiniteSubsets
<1>3. RowOf(table[w][b], w, b, T, S, k)
  BY DEF RowsOf
<1> QED
  BY <1>2, <1>3, RowStays

\* More samples bring a line no less often.
LEMMA BringingGrows ==
    ASSUME NEW T, NEW V, T \subseteq V, IsFiniteSet(V), NEW b, NEW l
    PROVE  /\ Cardinality(Bringing(T, b, l)) \in Nat /\ Cardinality(Bringing(V, b, l)) \in Nat
           /\ Cardinality(Bringing(T, b, l)) <= Cardinality(Bringing(V, b, l))
<1>1. Bringing(T, b, l) \subseteq Bringing(V, b, l) /\ Bringing(V, b, l) \subseteq V
  BY DEF Bringing
<1>2. IsFiniteSet(Bringing(V, b, l))
  BY <1>1, FS_Subset
<1> QED
  BY <1>1, <1>2, FS_Subset, FS_CardinalityType

\* So a log stays within what was brought.
LEMMA LogStays ==
    ASSUME NEW log \in TablesOf(Nat), NEW b, NEW T, NEW V, T \subseteq V, IsFiniteSet(V),
           LogOf(log, b, T)
    PROVE  LogOf(log, b, V)
<1>1. ASSUME NEW l \in DOMAIN log PROVE log[l] <= Cardinality(Bringing(V, b, l))
  <2>1. log[l] \in Nat
    BY TableIs
  <2>2. log[l] <= Cardinality(Bringing(T, b, l))
    BY DEF LogOf
  <2> QED
    BY <2>1, <2>2, BringingGrows
<1> QED
  BY <1>1 DEF LogOf

\* The tables of the log stay right as samples are added.
LEMMA GatelogStays ==
    ASSUME NEW T, NEW V, T \subseteq V, IsFiniteSet(V), NEW table \in TablesOf(TablesOf(Nat)),
           GatelogOf(table, T)
    PROVE  GatelogOf(table, V)
<1> SUFFICES ASSUME NEW b \in DOMAIN table
             PROVE  LogOf(table[b], b, V) /\ HasEnded(TenMinutes, b, V)
  BY DEF GatelogOf
<1>1. table[b] \in TablesOf(Nat)
  BY TableIs
<1>2. LogOf(table[b], b, V)
  BY <1>1, LogStays DEF GatelogOf
<1>3. HasEnded(TenMinutes, b, V)
  BY DEF GatelogOf, HasEnded
<1> QED
  BY <1>2, <1>3

\* So does all that the tiers hold.
LEMMA DbStays ==
    ASSUME NEW T, NEW S, NEW k, NEW V, NEW R, NEW m, Wider(T, S, k, V, R, m),
           NEW db \in Dbs, DbOf(db, T, S, k)
    PROVE  DbOf(db, V, R, m)
<1>1. /\ db.pipe \in Pipes /\ db.rows \in [Widths -> TablesOf(Aggs)]
      /\ db.gatelog \in TablesOf(TablesOf(Nat))
  BY DEF Dbs
<1>2. T \subseteq V /\ IsFiniteSet(V)
  BY DEF Wider, Apart
<1>3. PipeOf(db.pipe, V, R, m)
  BY <1>1, PipeStays DEF DbOf
<1>4. RowsOf(db.rows, V, R, m)
  BY <1>1, RowsStay DEF DbOf
<1>5. GatelogOf(db.gatelog, V)
  BY <1>1, <1>2, GatelogStays DEF DbOf
<1> QED
  BY <1>3, <1>4, <1>5 DEF DbOf

-----------------------------------------------------------------------------
(***************************************************************************)
(* The rollup: a sample is pushed                                          *)
(***************************************************************************)
\* The sum over one member more.
LEMMA SumOfOneMore ==
    ASSUME NEW H, IsFiniteSet(H), NEW f, NEW s, s \notin H, f[s] \in Int, \A x \in H : f[x] \in Int
    PROVE  /\ SumOver(f, H) \in Int /\ SumOver(f, H \cup {s}) = SumOver(f, H) + f[s]
           /\ IsFiniteSet(H \cup {s}) /\ Cardinality(H \cup {s}) = Cardinality(H) + 1
<1> DEFINE U == H \cup {s}
<1>1. IsFiniteSet(U) /\ Cardinality(U) = Cardinality(H) + 1
  BY FS_AddElement
<1>2. s \in U /\ U \ {s} = H /\ \A x \in U : f[x] \in Int
  OBVIOUS
<1> HIDE DEF U
<1>3. SumOver(f, U) = f[s] + SumOver(f, H) /\ SumOver(f, H) \in Int
  BY <1>1, <1>2, SumWithout
<1>4. SumOver(f, U) = SumOver(f, H) + f[s]
  BY <1>3
<1> QED
  BY <1>1, <1>3, <1>4 DEF U

\* What a sample grows by is what it showed, when none lies between ...
LEMMA GrowthIsShown ==
    ASSUME NEW T, Apart(T), NEW s \in T, NEW p \in T, p.ts < s.ts,
           \A x \in Prior(T, s) : x.ts <= p.ts
    PROVE  Growth(p, s) = ShownOf(T)[s]
<1>1. p \in Prior(T, s) /\ Prior(T, s) \in SUBSET T
  BY DEF Prior
<1>2. Newest(Prior(T, s)) = p
  BY <1>1, NewestIsTheOne
<1> QED
  BY <1>1, <1>2 DEF ShownOf

\* ... and otherwise it has lost the sample before it.
LEMMA GrowthOfNext ==
    ASSUME NEW T, Apart(T), NEW S, NEW k \in Int, NEW prev \in T \cup {NoSample}, NEW s,
           Follows(prev, s, T, S, k)
    PROVE  \/ Growth(prev, s) = ShownOf(T)[s]
           \/ Growth(prev, s) = 0 /\ s \in CutOf(T, S, k)
           \/ prev \in Prior(T, s) /\ s \in Bereft(T, k)
<1>0. s \in T /\ s.ts \in Nat /\ s \in Readings
  BY DEF Follows, Apart, Readings
<1>1. CASE prev = NoSample
  <2>1. Growth(prev, s) = 0
    BY <1>1, NoSampleIs DEF Growth
  <2>2. s \in CutOf(T, S, k)
    BY <1>1 DEF Follows
  <2> QED
    BY <2>1, <2>2
<1>2. CASE prev # NoSample
  <2>1. /\ prev \in T /\ prev.ts < s.ts /\ prev.ts \in Nat
        /\ \A x \in Prior(T, s) : prev.ts < x.ts => x.ts < k
    BY <1>2 DEF Follows, Apart, Readings
  <2>2. prev \in Prior(T, s)
    BY <2>1 DEF Prior
  <2>3. CASE \A x \in Prior(T, s) : x.ts <= prev.ts
    BY <1>0, <2>1, <2>3, GrowthIsShown
  <2>4. ASSUME NEW x \in Prior(T, s), ~(x.ts <= prev.ts) PROVE s \in Bereft(T, k)
    <3> DEFINE q == Newest(Prior(T, s))
    <3>1. q \in Prior(T, s) /\ x.ts <= q.ts
      BY <1>0, <2>4, NewestIs
    <3>2. q.ts \in Nat /\ x.ts \in Nat
      BY <3>1 DEF Prior, Apart, Readings
    <3> HIDE DEF q
    <3>3. prev.ts < q.ts
      BY <2>1, <2>4, <3>1, <3>2
    <3>4. q.ts < k
      BY <2>1, <3>1, <3>3
    <3> QED
      BY <1>0, <2>2, <3>4 DEF Bereft, q
  <2> QED
    BY <2>2, <2>3, <2>4
<1> QED
  BY <1>1, <1>2

\* The first sample of a bucket is an aggregate ...
LEMMA FirstIsAgg ==
    ASSUME NEW T, Apart(T), NEW S, NEW k \in Int, NEW prev \in T \cup {NoSample}, NEW s,
           Follows(prev, s, T, S, k), NEW w, NEW acc \in Aggs,
           acc.in = {s.ts}, acc.n = 1, acc.tok = Growth(prev, s)
    PROVE  AggOf(acc, w, BucketOf(w, s.ts), T, S, k)
<1> DEFINE f == ShownOf(T)
<1>0. s \in T /\ f[s] \in Nat /\ f[s] \in Int
  BY ShownIsNatural DEF Follows
<1>1. HeldIn(T, acc) = {s}
  BY <1>0 DEF HeldIn, Apart
<1>2. {s} \ {s} = {} /\ IsFiniteSet({}) /\ IsFiniteSet({s}) /\ Cardinality({s}) = 1
  BY FS_EmptySet, FS_Singleton
<1> HIDE DEF f
<1>3. SumOver(f, {}) = 0
  BY <1>2, SumSplit
<1>4. SumOver(f, {s}) = f[s]
  <2>1. SumOver(f, {s}) = f[s] + SumOver(f, {s} \ {s})
    BY <1>0, <1>2, SumWithout
  <2> QED
    BY <1>0, <1>2, <1>3, <2>1
<1>5. acc.tok \in Nat
  BY DEF Aggs
<1>6. \/ acc.tok = f[s]
      \/ acc.tok = 0 /\ s \in CutOf(T, S, k)
      \/ prev \in Prior(T, s) /\ s \in Bereft(T, k)
  BY GrowthOfNext DEF f
<1>7. SumOver(f, {s} \ CutOf(T, S, k)) <= acc.tok
  <2>1. CASE s \in CutOf(T, S, k)
    <3>1. {s} \ CutOf(T, S, k) = {}
      BY <2>1
    <3> QED
      BY <1>3, <1>5, <3>1
  <2>2. CASE s \notin CutOf(T, S, k)
    <3>1. {s} \ CutOf(T, S, k) = {s} /\ s \notin Bereft(T, k)
      BY <1>0, <2>2 DEF CutOf
    <3> QED
      BY <1>0, <1>4, <1>6, <2>2, <3>1
  <2> QED
    BY <2>1, <2>2
<1>8. NoMore(acc.tok, {s}, T, k)
  <2>1. CASE acc.tok = f[s] \/ acc.tok = 0
    <3>1. acc.tok <= SumOver(f, {s})
      BY <1>0, <1>4, <2>1
    <3> QED
      BY <3>1 DEF NoMore, f
  <2>2. CASE prev \in Prior(T, s) /\ s \in Bereft(T, k)
    <3>1. acc.tok <= SumOver(f, {s} \ {s}) + Growth(prev, s)
      BY <1>2, <1>3, <1>5
    <3> QED
      BY <2>2, <3>1 DEF NoMore, f
  <2> QED
    BY <1>6, <2>1, <2>2
<1> QED
  BY <1>1, <1>2, <1>7, <1>8 DEF AggOf, f

\* ... and so is one with another sample of its bucket.
LEMMA MoreIsAgg ==
    ASSUME NEW T, Apart(T), NEW S, NEW k \in Int, NEW acc \in Aggs, NEW w, NEW b,
           AggOf(acc, w, b, T, S, k), NEW s \in T, BucketOf(w, s.ts) = b, s.ts \notin acc.in,
           NEW new \in Aggs, new.in = acc.in \cup {s.ts}, new.n = acc.n + 1,
           new.tok = acc.tok + ShownOf(T)[s]
    PROVE  AggOf(new, w, b, T, S, k)
<1> DEFINE f == ShownOf(T)
           H == HeldIn(T, acc)
           C == CutOf(T, S, k)
<1>0. (\A x \in T : f[x] \in Nat /\ f[x] \in Int) /\ f[s] \in Int
  BY ShownIsNatural
<1>1. HeldIn(T, new) = H \cup {s} /\ s \notin H /\ H \subseteq T /\ IsFiniteSet(H)
  <2>1. H \subseteq T
    BY DEF HeldIn
  <2>2. IsFiniteSet(H)
    BY <2>1, FS_Subset DEF Apart
  <2>3. HeldIn(T, new) = H \cup {s}
    BY DEF HeldIn, Apart
  <2> QED
    BY <2>1, <2>2, <2>3 DEF HeldIn
<1>2. acc.tok \in Nat /\ acc.n \in Nat /\ acc.n = Cardinality(H) /\ acc.in = {x.ts : x \in H}
  BY DEF Aggs, AggOf
<1>3. SumOver(f, H \ C) <= acc.tok /\ NoMore(acc.tok, H, T, k)
  BY DEF AggOf
<1> HIDE DEF f, H, C
<1>4. /\ SumOver(f, H) \in Int /\ SumOver(f, H \cup {s}) = SumOver(f, H) + f[s]
      /\ Cardinality(H \cup {s}) = Cardinality(H) + 1
  <2>1. \A x \in H : f[x] \in Int
    BY <1>0, <1>1
  <2> QED
    BY <1>0, <1>1, <2>1, SumOfOneMore
<1>5. SumOver(f, (H \cup {s}) \ C) <= new.tok
  <2> DEFINE D == H \ C
  <2>1. IsFiniteSet(D) /\ s \notin D /\ \A x \in D : f[x] \in Int
    BY <1>0, <1>1, FS_Subset
  <2>2. SumOver(f, D) \in Int /\ SumOver(f, D \cup {s}) = SumOver(f, D) + f[s]
    <3> HIDE DEF D
    <3> QED
      BY <1>0, <2>1, SumOfOneMore
  <2>3. (H \cup {s}) \ C \in {D, D \cup {s}}
    OBVIOUS
  <2>4. SumOver(f, D) <= acc.tok
    BY <1>3
  <2> HIDE DEF D
  <2>5. f[s] \in Nat /\ new.tok = acc.tok + f[s]
    BY <1>0 DEF f
  <2>6. SumOver(f, D) <= new.tok /\ SumOver(f, D \cup {s}) <= new.tok
    BY <1>2, <2>2, <2>4, <2>5
  <2> QED
    BY <2>3, <2>6
<1>6. NoMore(new.tok, H \cup {s}, T, k)
  <2>0. f[s] \in Nat /\ new.tok = acc.tok + f[s]
    BY <1>0 DEF f
  <2>1. CASE acc.tok <= SumOver(f, H)
    <3>1. new.tok <= SumOver(f, H \cup {s})
      BY <1>2, <1>4, <2>0, <2>1
    <3> QED
      BY <3>1 DEF NoMore, f
  <2>2. ASSUME NEW x \in H, NEW p \in Prior(T, x), x \in Bereft(T, k),
               acc.tok <= SumOver(f, H \ {x}) + Growth(p, x)
        PROVE  NoMore(new.tok, H \cup {s}, T, k)
    <3> DEFINE D == H \ {x}
    <3>1. (H \cup {s}) \ {x} = D \cup {s}
      BY <1>1
    <3>a. IsFiniteSet(D) /\ s \notin D /\ f[s] \in Int /\ \A y \in D : f[y] \in Int
      BY <1>0, <1>1, FS_Subset
    <3> HIDE DEF D
    <3>2. SumOver(f, D) \in Int /\ SumOver(f, D \cup {s}) = SumOver(f, D) + f[s]
      BY <3>a, SumOfOneMore
    <3>3. Growth(p, x) \in Nat
      <4>1. x \in T /\ p \in T
        BY <1>1 DEF Prior
      <4>2. x \in Readings /\ p \in Previous
        BY <4>1 DEF Apart, Previous
      <4> QED
        BY <4>2, GrowthType
    <3>4. acc.tok <= SumOver(f, D) + Growth(p, x)
      BY <2>2 DEF D
    <3>5. new.tok <= SumOver(f, D \cup {s}) + Growth(p, x)
      BY <1>2, <2>0, <3>2, <3>3, <3>4
    <3>6. new.tok <= SumOver(f, (H \cup {s}) \ {x}) + Growth(p, x) /\ x \in H \cup {s}
      BY <3>1, <3>5
    <3> QED
      BY <2>2, <3>6 DEF NoMore, f
  <2> QED
    BY <1>3, <2>1, <2>2 DEF NoMore, f
<1>7. new.n = Cardinality(H \cup {s}) /\ new.in = {x.ts : x \in H \cup {s}}
  BY <1>2, <1>4
<1>8. \A x \in H \cup {s} : BucketOf(w, x.ts) = b
  BY DEF AggOf, H
<1> QED
  BY <1>1, <1>5, <1>6, <1>7, <1>8 DEF AggOf, f, C

\* Two readings of one bucket, of either width, are of the same ten minutes.
LEMMA SameBucketSameTen ==
    ASSUME NEW w \in Widths, NEW x \in Nat, NEW y \in Nat, BucketOf(w, x) = BucketOf(w, y)
    PROVE  BucketOf(TenMinutes, x) = BucketOf(TenMinutes, y)
<1>1. CASE w = TenMinutes
  BY <1>1
<1>2. CASE w = Minute
  <2>1. /\ BucketOf(TenMinutes, BucketOf(Minute, x)) = BucketOf(TenMinutes, x)
        /\ BucketOf(TenMinutes, BucketOf(Minute, y)) = BucketOf(TenMinutes, y)
    BY MinutesAreInTens
  <2> QED
    BY <1>2, <2>1
<1> QED
  BY <1>1, <1>2 DEF Widths

\* The open bucket after a sample is that of the sample.
LEMMA OpenAfter ==
    ASSUME NEW T, Apart(T), NEW S, NEW k \in Int, NEW prev \in T \cup {NoSample}, NEW s,
           Follows(prev, s, T, S, k), NEW w \in Widths, NEW roller \in Rollers,
           prev = NoSample => roller = NoBucket,
           prev # NoSample => OpenOf(roller, w, prev, T, S, k),
           NEW tok, tok = Growth(prev, s)
    PROVE  OpenOf(AddTo(roller, w, s, tok), w, s, T, S, k)
<1> DEFINE b == BucketOf(w, s.ts)
           new == AddTo(roller, w, s, tok)
<1>0. /\ s \in T /\ s \in Readings /\ s.ts \in Nat /\ w \in Nat \ {0} /\ b \in Nat
      /\ \A x \in T : x.ts \in Nat
  <2>1. s \in T /\ s \in Readings /\ s.ts \in Nat /\ w \in Nat \ {0} /\ \A x \in T : x.ts \in Nat
    BY WidthsAre DEF Follows, Apart, Readings
  <2> QED
    BY <2>1, BucketIs
<1>1. prev \in Previous
  BY DEF Apart, Previous
<1>2. tok \in Nat
  BY <1>0, <1>1, GrowthType
<1>3. new \in Rollers
  BY <1>0, <1>2, AddToType
<1>4. new.bucket = b
  BY DEF AddTo
<1>5. /\ new.acc.in = (IF roller.bucket = b THEN roller.acc ELSE EmptyAgg).in \cup {s.ts}
      /\ new.acc.n = (IF roller.bucket = b THEN roller.acc ELSE EmptyAgg).n + 1
      /\ new.acc.tok = (IF roller.bucket = b THEN roller.acc ELSE EmptyAgg).tok + tok
      /\ new.acc \in Aggs /\ roller.acc \in Aggs
  <2>1. new.acc \in Aggs /\ roller.acc \in Aggs
    BY <1>3 DEF Rollers
  <2> QED
    BY <2>1 DEF AddTo
<1> HIDE DEF new
<1>6. ASSUME roller.bucket = b PROVE OpenOf(new, w, s, T, S, k)
  <2>1. prev \in T /\ prev # NoSample /\ OpenOf(roller, w, prev, T, S, k) /\ prev.ts \in Nat
    <3>1. prev # NoSample
      BY <1>0, <1>6 DEF NoBucket, None
    <3> QED
      BY <1>0, <3>1
  <2>2. prev.ts < s.ts /\ \A x \in Prior(T, s) : x.ts <= prev.ts
    <3>1. BucketOf(w, prev.ts) = BucketOf(w, s.ts)
      BY <1>6, <2>1 DEF OpenOf
    <3>2. BucketOf(TenMinutes, prev.ts) = BucketOf(TenMinutes, s.ts)
      BY <1>0, <2>1, <3>1, SameBucketSameTen
    <3>3. prev.ts < s.ts /\ \A x \in Prior(T, s) : ~(prev.ts < x.ts)
      BY <2>1, <3>2 DEF Follows
    <3>4. \A x \in Prior(T, s) : x.ts \in Nat
      BY <1>0 DEF Prior
    <3> QED
      BY <2>1, <3>3, <3>4
  <2>3. tok = ShownOf(T)[s]
    BY <1>0, <2>1, <2>2, GrowthIsShown
  <2>4. \A i \in roller.acc.in : i \in Nat /\ i <= prev.ts
    BY <1>5, <2>1 DEF OpenOf, Aggs
  <2>5. s.ts \notin roller.acc.in
    BY <1>0, <2>1, <2>2, <2>4
  <2>6. AggOf(roller.acc, w, b, T, S, k)
    BY <1>6, <2>1 DEF OpenOf
  <2>7. /\ new.acc.in = roller.acc.in \cup {s.ts} /\ new.acc.n = roller.acc.n + 1
        /\ new.acc.tok = roller.acc.tok + ShownOf(T)[s]
    BY <1>5, <1>6, <2>3
  <2>8. AggOf(new.acc, w, b, T, S, k)
    BY <1>0, <1>5, <2>5, <2>6, <2>7, MoreIsAgg
  <2>9. \A i \in new.acc.in : i <= s.ts
    BY <1>0, <2>1, <2>2, <2>4, <2>7
  <2>10. ASSUME NEW x \in SoFar(T, s), BucketOf(w, x.ts) = b
         PROVE  x.ts \in new.acc.in \/ x.ts < k
    <3>1. x \in T /\ x.ts <= s.ts /\ x.ts \in Nat
      BY <1>0 DEF SoFar
    <3>2. CASE x.ts = s.ts
      BY <2>7, <3>2
    <3>3. CASE x.ts # s.ts
      <4>1. x \in Prior(T, s)
        BY <1>0, <3>1, <3>3 DEF Prior
      <4>2. x \in SoFar(T, prev)
        BY <2>2, <3>1, <4>1 DEF SoFar
      <4> QED
        BY <1>6, <2>1, <2>7, <2>10, <4>2 DEF OpenOf, WholeOf
    <3> QED
      BY <3>2, <3>3
  <2> QED
    BY <1>4, <2>8, <2>9, <2>10 DEF OpenOf, WholeOf
<1>7. ASSUME roller.bucket # b PROVE OpenOf(new, w, s, T, S, k)
  <2>1. new.acc.in = {s.ts} /\ new.acc.n = 1 /\ new.acc.tok = Growth(prev, s)
    BY <1>2, <1>5, <1>7 DEF EmptyAgg
  <2>2. AggOf(new.acc, w, b, T, S, k)
    BY <1>5, <2>1, FirstIsAgg
  <2>3. \A i \in new.acc.in : i <= s.ts
    BY <1>0, <2>1
  <2>4. ASSUME NEW x \in SoFar(T, s), BucketOf(w, x.ts) = b, x.ts # s.ts
        PROVE  x.ts < k
    <3>1. x \in T /\ x.ts <= s.ts /\ x.ts \in Nat /\ x \in Prior(T, s)
      BY <1>0, <2>4 DEF SoFar, Prior
    <3>2. CASE prev = NoSample
      <4>1. BucketOf(TenMinutes, x.ts) = BucketOf(TenMinutes, s.ts)
        BY <1>0, <2>4, <3>1, SameBucketSameTen
      <4> QED
        BY <3>1, <3>2, <4>1 DEF Follows
    <3>3. CASE prev # NoSample
      <4>1. prev \in T /\ prev.ts \in Nat /\ roller.bucket = BucketOf(w, prev.ts) /\ prev.ts < s.ts
        BY <1>0, <3>3 DEF OpenOf, Follows
      <4>2. CASE prev.ts < x.ts
        BY <3>1, <3>3, <4>2 DEF Follows
      <4>3. CASE ~(prev.ts < x.ts)
        <5>1. x.ts <= prev.ts /\ prev.ts <= s.ts
          BY <1>0, <3>1, <4>1, <4>3
        <5>2. BucketOf(w, x.ts) <= BucketOf(w, prev.ts) /\ BucketOf(w, prev.ts) \in Nat
          BY <1>0, <3>1, <4>1, <5>1, BucketsAscend
        <5>3. BucketOf(w, prev.ts) <= BucketOf(w, s.ts)
          BY <1>0, <4>1, <5>1, BucketsAscend
        <5>4. BucketOf(w, prev.ts) = b
          BY <1>0, <2>4, <5>2, <5>3
        <5> QED
          BY <1>7, <4>1, <5>4
      <4> QED
        BY <4>2, <4>3
    <3> QED
      BY <3>2, <3>3
  <2>5. WholeOf(new.acc, w, b, SoFar(T, s), k)
    BY <2>1, <2>4 DEF WholeOf
  <2> QED
    BY <1>4, <2>2, <2>3, <2>5 DEF OpenOf
<1>8. OpenOf(new, w, s, T, S, k)
  BY <1>6, <1>7
<1> QED
  BY <1>8 DEF new

\* A bucket that is closed is a row.
LEMMA ClosedIsRow ==
    ASSUME NEW T, Apart(T), NEW S, NEW k \in Int, NEW prev \in T, NEW s,
           Follows(prev, s, T, S, k), prev # NoSample, NEW w \in Widths, NEW roller \in Rollers,
           OpenOf(roller, w, prev, T, S, k), Closes(roller, w, s.ts)
    PROVE  RowOf(roller.acc, w, roller.bucket, T, S, k)
<1>0. /\ s \in T /\ s.ts \in Nat /\ prev.ts \in Nat /\ prev.ts < s.ts /\ w \in Nat \ {0}
      /\ \A x \in T : x.ts \in Nat
  BY WidthsAre DEF Follows, Apart, Readings
<1>1. roller.bucket = BucketOf(w, prev.ts) /\ roller.bucket # BucketOf(w, s.ts)
  BY DEF OpenOf, Closes
<1>2. /\ BucketOf(w, prev.ts) \in Nat /\ BucketOf(w, s.ts) \in Nat
      /\ BucketOf(w, prev.ts) <= BucketOf(w, s.ts)
  BY <1>0, BucketsAscend
<1>3. roller.bucket < BucketOf(w, s.ts)
  BY <1>1, <1>2
<1>4. HasEnded(w, roller.bucket, T)
  BY <1>0, <1>3 DEF HasEnded
<1>5. ASSUME NEW x \in T, BucketOf(w, x.ts) = roller.bucket
      PROVE  x.ts \in roller.acc.in \/ x.ts < k
  <2>1. CASE x.ts <= prev.ts
    <3>1. x \in SoFar(T, prev)
      BY <2>1 DEF SoFar
    <3> QED
      BY <1>5, <3>1 DEF OpenOf, WholeOf
  <2>2. CASE ~(x.ts <= prev.ts)
    <3>1. x.ts < s.ts
      <4>1. CASE s.ts <= x.ts
        <5>1. BucketOf(w, s.ts) <= BucketOf(w, x.ts)
          BY <1>0, <4>1, BucketsAscend
        <5> QED
          BY <1>1, <1>2, <1>3, <1>5, <5>1
      <4> QED
        BY <1>0, <4>1
    <3>2. x \in Prior(T, s) /\ prev.ts < x.ts
      BY <1>0, <2>2, <3>1 DEF Prior
    <3> QED
      BY <3>2 DEF Follows
  <2> QED
    BY <2>1, <2>2
<1>6. WholeOf(roller.acc, w, roller.bucket, T, k)
  BY <1>5 DEF WholeOf
<1> QED
  BY <1>4, <1>6 DEF RowOf, OpenOf

\* What is written is a row of the table, unless there was one that is to stay.
LEMMA WriteIs ==
    ASSUME NEW table, NEW key, NEW row, NEW replace \in BOOLEAN
    PROVE  LET new == Write(table, key, row, replace)
           IN  /\ key \in DOMAIN new /\ DOMAIN table \subseteq DOMAIN new
               /\ \A b \in DOMAIN new : \/ b = key /\ new[b] = row
                                        \/ b \in DOMAIN table /\ new[b] = table[b]
BY DEF Write, Put

\* What a push does to the tables of one width ...
LEMMA PushedWidth ==
    ASSUME NEW db, NEW s, NEW replace, NEW w \in Widths
    PROVE  LET open == db.pipe.rollers[w]
               new == Push(db, s, replace)
           IN  /\ new.pipe.rollers[w] = AddTo(open, w, s, Growth(db.pipe.prev, s))
               /\ Closes(open, w, s.ts) => new.rows[w] = Write(db.rows[w], open.bucket, open.acc, replace)
               /\ ~Closes(open, w, s.ts) => new.rows[w] = db.rows[w]
BY DEF Push

\* ... and to the gate's log.
LEMMA PushedGate ==
    ASSUME NEW db, NEW s, NEW replace
    PROVE  LET gate == db.pipe.gate
               ten == BucketOf(TenMinutes, s.ts)
               new == Push(db, s, replace)
           IN  /\ new.pipe.prev = s
               /\ new.pipe.gate.bucket = ten
               /\ new.pipe.gate.log = Merge(IF gate.bucket = ten THEN gate.log ELSE <<>>, s.log)
               /\ new.gatelog = IF Closes(gate, TenMinutes, s.ts) /\ gate.log # <<>>
                                THEN Write(db.gatelog, gate.bucket, gate.log, replace)
                                ELSE db.gatelog
BY DEF Push

\* A pipeline is new, or has a last sample.
LEMMA PipesAre ==
    ASSUME NEW T, Apart(T), NEW S, NEW k, NEW pipe, PipeOf(pipe, T, S, k)
    PROVE  /\ pipe.prev \in T \cup {NoSample} /\ (pipe = NewPipeline <=> pipe.prev = NoSample)
           /\ pipe = NewPipeline =>
                  (\A w \in Widths : pipe.rollers[w] = NoBucket) /\ pipe.gate = [bucket |-> None, log |-> <<>>]
           /\ pipe # NewPipeline => pipe.prev \in T /\ pipe.prev.ts \in Nat
<1>1. NoSample \notin T
  BY NoSampleIs DEF Apart, Readings, None
<1>2. /\ NewPipeline.prev = NoSample /\ \A w \in Widths : NewPipeline.rollers[w] = NoBucket
      /\ NewPipeline.gate = [bucket |-> None, log |-> <<>>]
  BY DEF NewPipeline
<1> QED
  BY <1>1, <1>2 DEF PipeOf, Apart, Readings

\* A pipeline that stands, on tables that do, and the sample it is given next.
Given(db, s, T, S, k) ==
    Apart(T) /\ k \in Int /\ db \in Dbs /\ DbOf(db, T, S, k) /\ Follows(db.pipe.prev, s, T, S, k)

\* What the open bucket becomes, and what it was if it is closed.
LEMMA GivenWidth ==
    ASSUME NEW T, NEW S, NEW k, NEW db, NEW s, Given(db, s, T, S, k), NEW w \in Widths
    PROVE  /\ OpenOf(AddTo(db.pipe.rollers[w], w, s, Growth(db.pipe.prev, s)), w, s, T, S, k)
           /\ Closes(db.pipe.rollers[w], w, s.ts) =>
                  /\ RowOf(db.pipe.rollers[w].acc, w, db.pipe.rollers[w].bucket, T, S, k)
                  /\ db.pipe.rollers[w].bucket \in Nat /\ db.pipe.rollers[w].acc \in Aggs
<1> DEFINE prev == db.pipe.prev
           roller == db.pipe.rollers[w]
<1>1. Apart(T) /\ k \in Int /\ Follows(prev, s, T, S, k) /\ PipeOf(db.pipe, T, S, k)
  BY DEF Given, DbOf
<1>2. roller \in Rollers /\ roller.bucket \in Nat \cup {None} /\ roller.acc \in Aggs
  BY DEF Given, Dbs, Pipes, Rollers
<1>3. /\ prev \in T \cup {NoSample} /\ (db.pipe = NewPipeline <=> prev = NoSample)
      /\ db.pipe = NewPipeline => roller = NoBucket
  BY <1>1, PipesAre
<1>4. prev # NoSample => OpenOf(roller, w, prev, T, S, k)
  BY <1>1, <1>3 DEF PipeOf
<1>5. prev = NoSample => roller = NoBucket
  BY <1>3
<1>6. ASSUME Closes(roller, w, s.ts) PROVE prev # NoSample /\ prev \in T /\ roller.bucket \in Nat
  <2>1. roller.bucket # None
    BY <1>6 DEF Closes
  <2> QED
    BY <1>2, <1>3, <2>1 DEF NoBucket
<1> HIDE DEF prev, roller
<1>7. OpenOf(AddTo(roller, w, s, Growth(prev, s)), w, s, T, S, k)
  BY <1>1, <1>2, <1>3, <1>4, <1>5, OpenAfter
<1>8. Closes(roller, w, s.ts) => RowOf(roller.acc, w, roller.bucket, T, S, k)
  BY <1>1, <1>2, <1>4, <1>6, ClosedIsRow
<1> QED
  BY <1>2, <1>6, <1>7, <1>8 DEF prev, roller

\* The rows after a push are whole, as those before it were.
LEMMA RowsAfter ==
    ASSUME NEW T, NEW S, NEW k, NEW db, NEW s, Given(db, s, T, S, k), NEW replace \in BOOLEAN
    PROVE  RowsOf(Push(db, s, replace).rows, T, S, k)
<1> DEFINE new == Push(db, s, replace)
<1> SUFFICES ASSUME NEW w \in Widths, NEW b \in DOMAIN new.rows[w]
             PROVE  RowOf(new.rows[w][b], w, b, T, S, k)
  BY DEF RowsOf
<1> DEFINE open == db.pipe.rollers[w]
<1>1. /\ Closes(open, w, s.ts) => new.rows[w] = Write(db.rows[w], open.bucket, open.acc, replace)
      /\ ~Closes(open, w, s.ts) => new.rows[w] = db.rows[w]
  BY PushedWidth
<1>2. Closes(open, w, s.ts) => RowOf(open.acc, w, open.bucket, T, S, k)
  BY GivenWidth
<1>3. \A c \in DOMAIN db.rows[w] : RowOf(db.rows[w][c], w, c, T, S, k)
  BY DEF Given, DbOf, RowsOf
<1> HIDE DEF new, open
<1>4. CASE Closes(open, w, s.ts)
  <2>1. \/ b = open.bucket /\ new.rows[w][b] = open.acc
        \/ b \in DOMAIN db.rows[w] /\ new.rows[w][b] = db.rows[w][b]
    BY <1>1, <1>4, WriteIs
  <2> QED
    BY <1>2, <1>3, <1>4, <2>1
<1>5. CASE ~Closes(open, w, s.ts)
  BY <1>1, <1>3, <1>5
<1> QED
  BY <1>4, <1>5

\* A log that is merged has each line of the sample once more.
LEMMA LogAfter ==
    ASSUME NEW T, Apart(T), NEW b, NEW s \in T, BucketOf(TenMinutes, s.ts) = b,
           NEW V \in SUBSET T, s \notin V, NEW log \in TablesOf(Nat), LogOf(log, b, V)
    PROVE  LogOf(Merge(log, s.log), b, V \cup {s})
<1> SUFFICES ASSUME NEW l \in DOMAIN Merge(log, s.log)
             PROVE  Merge(log, s.log)[l] <= Cardinality(Bringing(V \cup {s}, b, l))
  BY DEF LogOf
<1> DEFINE B == Bringing(V, b, l)
           C == Bringing(V \cup {s}, b, l)
           had == IF l \in DOMAIN log THEN log[l] ELSE 0
<1>1. IsFiniteSet(B) /\ s \notin B
  <2>1. B \subseteq T /\ s \notin B
    BY DEF Bringing
  <2> QED
    BY <2>1, FS_Subset DEF Apart
<1>2. had \in Nat /\ Cardinality(B) \in Nat /\ had <= Cardinality(B)
  <2>1. Cardinality(B) \in Nat
    BY <1>1, FS_CardinalityType
  <2>2. l \in DOMAIN log => log[l] \in Nat /\ log[l] <= Cardinality(B)
    BY TableIs DEF LogOf
  <2> HIDE DEF B
  <2> QED
    BY <2>1, <2>2
<1>3. Merge(log, s.log)[l] = had + (IF l \in s.log THEN 1 ELSE 0)
  BY DEF Merge
<1> HIDE DEF had
<1>4. CASE l \in s.log
  <2>1. C = B \cup {s}
    BY <1>4 DEF Bringing
  <2> HIDE DEF B, C
  <2>2. Cardinality(C) = Cardinality(B) + 1
    BY <1>1, <2>1, FS_AddElement
  <2> QED
    BY <1>2, <1>3, <1>4, <2>2 DEF C
<1>5. CASE l \notin s.log
  <2>1. C = B
    BY <1>5 DEF Bringing
  <2> HIDE DEF B, C
  <2> QED
    BY <1>2, <1>3, <1>5, <2>1 DEF C
<1> QED
  BY <1>4, <1>5

\* The gate's part of a pipeline and its table after a push.
LEMMA GateAfter ==
    ASSUME NEW T, NEW S, NEW k, NEW db, NEW s, Given(db, s, T, S, k), NEW replace \in BOOLEAN
    PROVE  LET new == Push(db, s, replace)
           IN  GateOf(new.pipe.gate, s, T) /\ GatelogOf(new.gatelog, T)
<1> DEFINE gate == db.pipe.gate
           prev == db.pipe.prev
           ten == BucketOf(TenMinutes, s.ts)
           new == Push(db, s, replace)
           log == IF gate.bucket = ten THEN gate.log ELSE <<>>
<1>1. /\ Apart(T) /\ k \in Int /\ Follows(prev, s, T, S, k) /\ PipeOf(db.pipe, T, S, k)
      /\ GatelogOf(db.gatelog, T)
  BY DEF Given, DbOf
<1>2. /\ new.pipe.gate.bucket = ten /\ new.pipe.gate.log = Merge(log, s.log)
      /\ new.gatelog = IF Closes(gate, TenMinutes, s.ts) /\ gate.log # <<>>
                       THEN Write(db.gatelog, gate.bucket, gate.log, replace)
                       ELSE db.gatelog
  BY PushedGate
<1>3. gate.log \in TablesOf(Nat) /\ <<>> \in TablesOf(Nat)
  BY EmptyTable DEF Given, Dbs, Pipes, GateLogs
<1>4. /\ prev \in T \cup {NoSample} /\ (db.pipe = NewPipeline <=> prev = NoSample)
      /\ db.pipe = NewPipeline => gate = [bucket |-> None, log |-> <<>>]
      /\ db.pipe # NewPipeline => prev \in T /\ prev.ts \in Nat
  BY <1>1, PipesAre
<1>5. db.pipe # NewPipeline => GateOf(gate, prev, T) /\ prev.ts < s.ts
  BY <1>1, <1>4 DEF PipeOf, Follows
<1>6. s \in T /\ s.ts \in Nat /\ (\A x \in T : x.ts \in Nat) /\ ten \in Nat
  <2>1. s \in T /\ s.ts \in Nat /\ \A x \in T : x.ts \in Nat
    BY <1>1 DEF Follows, Apart, Readings
  <2> QED
    BY <2>1, WidthsAre, BucketIs
<1> HIDE DEF gate, prev, new
<1>7. GateOf(new.pipe.gate, s, T)
  <2> DEFINE V == SoFar(T, s) \ {s}
  <2>1. V \in SUBSET T /\ s \notin V /\ V \cup {s} = SoFar(T, s)
    BY <1>6 DEF SoFar
  <2>2. LogOf(log, ten, V)
    <3>1. CASE gate.bucket = ten
      <4>1. db.pipe # NewPipeline
        BY <1>4, <1>6, <3>1 DEF None
      <4>2. LogOf(gate.log, ten, SoFar(T, prev)) /\ prev.ts < s.ts /\ prev.ts \in Nat
        BY <1>4, <1>5, <3>1, <4>1 DEF GateOf
      <4>3. SoFar(T, prev) \subseteq V
        BY <1>6, <4>2 DEF SoFar
      <4>4. IsFiniteSet(V)
        BY <1>1, <2>1, FS_Subset DEF Apart
      <4> HIDE DEF V, ten
      <4>5. LogOf(gate.log, ten, V)
        BY <1>3, <4>2, <4>3, <4>4, LogStays
      <4> QED
        BY <3>1, <4>5
    <3>2. CASE gate.bucket # ten
      BY <3>2 DEF LogOf
    <3> QED
      BY <3>1, <3>2
  <2>3. log \in TablesOf(Nat)
    BY <1>3
  <2> HIDE DEF V, log
  <2>4. LogOf(Merge(log, s.log), ten, V \cup {s})
    BY <1>1, <1>6, <2>1, <2>2, <2>3, LogAfter
  <2> QED
    BY <1>2, <2>1, <2>4 DEF GateOf
<1> HIDE DEF log
<1>8. ASSUME Closes(gate, TenMinutes, s.ts)
      PROVE  LogOf(gate.log, gate.bucket, T) /\ HasEnded(TenMinutes, gate.bucket, T)
  <2>1. gate.bucket # None /\ gate.bucket # ten
    BY <1>8 DEF Closes
  <2>2. db.pipe # NewPipeline
    BY <1>4, <2>1
  <2>3. gate.bucket = BucketOf(TenMinutes, prev.ts) /\ LogOf(gate.log, gate.bucket, SoFar(T, prev))
    BY <1>5, <2>2 DEF GateOf
  <2>4. BucketOf(TenMinutes, prev.ts) <= BucketOf(TenMinutes, s.ts) /\ BucketOf(TenMinutes, prev.ts) \in Nat
    <3>1. prev.ts \in Nat /\ s.ts \in Nat /\ prev.ts <= s.ts /\ TenMinutes \in Nat \ {0}
      BY <1>4, <1>5, <1>6, <2>2, WidthsAre
    <3> QED
      BY <3>1, BucketsAscend
  <2>5. gate.bucket < ten
    BY <1>6, <2>1, <2>3, <2>4
  <2>6. SoFar(T, prev) \subseteq T /\ IsFiniteSet(T)
    BY <1>1 DEF SoFar, Apart
  <2>7. LogOf(gate.log, gate.bucket, T)
    BY <1>3, <2>3, <2>6, LogStays
  <2> QED
    BY <1>6, <2>5, <2>7 DEF HasEnded
<1>9. ASSUME NEW b \in DOMAIN new.gatelog
      PROVE  \/ b \in DOMAIN db.gatelog /\ new.gatelog[b] = db.gatelog[b]
             \/ Closes(gate, TenMinutes, s.ts) /\ b = gate.bucket /\ new.gatelog[b] = gate.log
  <2>1. CASE Closes(gate, TenMinutes, s.ts) /\ gate.log # <<>>
    <3>1. new.gatelog = Write(db.gatelog, gate.bucket, gate.log, replace)
      BY <1>2, <2>1
    <3> QED
      BY <2>1, <3>1, WriteIs
  <2>2. CASE ~(Closes(gate, TenMinutes, s.ts) /\ gate.log # <<>>)
    BY <1>2, <2>2
  <2> QED
    BY <2>1, <2>2
<1>10. GatelogOf(new.gatelog, T)
  BY <1>1, <1>8, <1>9 DEF GatelogOf
<1> QED
  BY <1>7, <1>10 DEF new

\* What is in a row or open stays in one or open, as long as the samples of it are there.
Carries(db, new, T, k) ==
    \A x \in T, w \in Widths :
        /\ InARow(x, w, db.rows) => InARow(x, w, new.rows) \/ x.ts < k
        /\ IsOpenIn(x, w, db.pipe) => InARow(x, w, new.rows) \/ IsOpenIn(x, w, new.pipe) \/ x.ts < k

IsRolled(x, db, k) == \A w \in Widths : InARow(x, w, db.rows) \/ IsOpenIn(x, w, db.pipe) \/ x.ts < k

\* What is carried twice is carried.
LEMMA CarriesOn ==
    ASSUME NEW T, NEW k, NEW db, NEW mid, NEW new, Carries(db, mid, T, k), Carries(mid, new, T, k)
    PROVE  Carries(db, new, T, k) /\ \A x \in T : IsRolled(x, mid, k) => IsRolled(x, new, k)
BY DEF Carries, IsRolled

\* A push keeps it all.
LEMMA PushStands ==
    ASSUME NEW T, NEW S, NEW k, NEW db, NEW s, Given(db, s, T, S, k), NEW replace \in BOOLEAN
    PROVE  LET new == Push(db, s, replace)
           IN  /\ new \in Dbs /\ DbOf(new, T, S, k) /\ new.pipe.prev = s
               /\ Carries(db, new, T, k) /\ IsRolled(s, new, k)
<1> DEFINE new == Push(db, s, replace)
           tok == Growth(db.pipe.prev, s)
<1>1. s \in T /\ s \in Readings /\ db \in Dbs /\ \A x \in T : x.ts \in Nat
  BY DEF Given, Follows, Apart, Readings
<1>2. new \in Dbs
  BY <1>1, PushType
<1>3. new.pipe.prev = s /\ GateOf(new.pipe.gate, s, T) /\ GatelogOf(new.gatelog, T)
  BY PushedGate, GateAfter
<1>4. RowsOf(new.rows, T, S, k)
  BY RowsAfter
<1>5. \A w \in Widths : new.pipe.rollers[w] = AddTo(db.pipe.rollers[w], w, s, tok)
  BY PushedWidth
<1>6. \A w \in Widths : OpenOf(new.pipe.rollers[w], w, s, T, S, k)
  <2>1. \A w \in Widths : OpenOf(AddTo(db.pipe.rollers[w], w, s, tok), w, s, T, S, k)
    BY GivenWidth
  <2> HIDE DEF new, tok
  <2> QED
    BY <1>5, <2>1
<1>7. ASSUME NEW w \in Widths
      PROVE  LET open == db.pipe.rollers[w]
             IN  /\ Closes(open, w, s.ts) => new.rows[w] = Write(db.rows[w], open.bucket, open.acc, replace)
                 /\ ~Closes(open, w, s.ts) => new.rows[w] = db.rows[w]
  BY PushedWidth
<1> HIDE DEF new, tok
<1>8. DbOf(new, T, S, k)
  BY <1>1, <1>3, <1>4, <1>6 DEF DbOf, PipeOf
<1>0. ASSUME NEW w \in Widths
      PROVE  LET was == db.pipe.rollers[w]
                 is == new.pipe.rollers[w]
             IN  /\ is.bucket = BucketOf(w, s.ts) /\ s.ts \in is.acc.in
                 /\ was.bucket = BucketOf(w, s.ts) => was.acc.in \subseteq is.acc.in
  <2> DEFINE was == db.pipe.rollers[w]
             next == AddTo(was, w, s, tok)
  <2>1. /\ next.bucket = BucketOf(w, s.ts) /\ s.ts \in next.acc.in
        /\ was.bucket = BucketOf(w, s.ts) => was.acc.in \subseteq next.acc.in
    <3> HIDE DEF was
    <3> QED
      BY DEF AddTo
  <2>2. new.pipe.rollers[w] = next
    BY <1>5
  <2> HIDE DEF was, next
  <2> QED
    BY <2>1, <2>2 DEF was
<1>9. IsRolled(s, new, k)
  BY <1>0 DEF IsRolled, IsOpenIn
<1>10. ASSUME NEW x \in T, NEW w \in Widths
       PROVE  /\ InARow(x, w, db.rows) => InARow(x, w, new.rows) \/ x.ts < k
              /\ IsOpenIn(x, w, db.pipe) =>
                     InARow(x, w, new.rows) \/ IsOpenIn(x, w, new.pipe) \/ x.ts < k
  <2> DEFINE b == BucketOf(w, x.ts)
             open == db.pipe.rollers[w]
  <2>1. b \in Nat
    BY <1>1, WidthsAre, BucketIs
  <2>2. Closes(open, w, s.ts) => WholeOf(open.acc, w, open.bucket, T, k)
    BY GivenWidth DEF RowOf
  <2>3. \A c \in DOMAIN db.rows[w] : WholeOf(db.rows[w][c], w, c, T, k)
    BY DEF Given, DbOf, RowsOf, RowOf
  <2>4. CASE Closes(open, w, s.ts)
    <3>1. /\ open.bucket \in DOMAIN new.rows[w] /\ DOMAIN db.rows[w] \subseteq DOMAIN new.rows[w]
          /\ \A c \in DOMAIN new.rows[w] :
                 \/ c = open.bucket /\ new.rows[w][c] = open.acc
                 \/ c \in DOMAIN db.rows[w] /\ new.rows[w][c] = db.rows[w][c]
      <4>1. new.rows[w] = Write(db.rows[w], open.bucket, open.acc, replace)
        BY <1>7, <2>4
      <4> HIDE DEF open
      <4> QED
        BY <4>1, WriteIs
    <3>2. \A c \in DOMAIN new.rows[w] : WholeOf(new.rows[w][c], w, c, T, k)
      BY <2>2, <2>3, <2>4, <3>1
    <3>3. b \in DOMAIN new.rows[w] => InARow(x, w, new.rows) \/ x.ts < k
      BY <3>2 DEF InARow, WholeOf
    <3>4. InARow(x, w, db.rows) => b \in DOMAIN new.rows[w]
      BY <3>1 DEF InARow
    <3>5. IsOpenIn(x, w, db.pipe) => b \in DOMAIN new.rows[w]
      BY <3>1 DEF IsOpenIn
    <3> QED
      BY <3>3, <3>4, <3>5
  <2>5. CASE ~Closes(open, w, s.ts)
    <3>1. new.rows[w] = db.rows[w]
      BY <1>7, <2>5
    <3>2. InARow(x, w, db.rows) => InARow(x, w, new.rows)
      BY <3>1 DEF InARow
    <3>3. ASSUME IsOpenIn(x, w, db.pipe) PROVE IsOpenIn(x, w, new.pipe)
      <4>1. open.bucket = b /\ x.ts \in open.acc.in
        BY <3>3 DEF IsOpenIn
      <4>2. open.bucket = BucketOf(w, s.ts)
        BY <2>1, <2>5, <4>1 DEF Closes, None
      <4> QED
        BY <1>0, <4>1, <4>2 DEF IsOpenIn
    <3> QED
      BY <3>2, <3>3
  <2> QED
    BY <2>4, <2>5
<1>11. Carries(db, new, T, k)
  BY <1>10 DEF Carries
<1> QED
  BY <1>2, <1>3, <1>8, <1>9, <1>11 DEF new

\* Samples, each of which may be pushed after the one before it.
Chain(prev, seq, T, S, k) ==
    \A i \in 1 .. Len(seq) : Follows(IF i = 1 THEN prev ELSE seq[i - 1], seq[i], T, S, k)

\* So does a push of many.
LEMMA PushAllStands ==
    ASSUME NEW T, Apart(T), NEW S, NEW k \in Int, NEW db \in Dbs, DbOf(db, T, S, k),
           NEW seq \in Seq(Readings), Chain(db.pipe.prev, seq, T, S, k)
    PROVE  LET new == PushAll(db, seq)
           IN  /\ new \in Dbs /\ DbOf(new, T, S, k) /\ Carries(db, new, T, k)
               /\ new.pipe.prev = IF Len(seq) = 0 THEN db.pipe.prev ELSE seq[Len(seq)]
               /\ \A i \in 1 .. Len(seq) : IsRolled(seq[i], new, k)
<1>1. PICK acc : Pushes(acc, db, seq) /\ PushAll(db, seq) = acc[Len(seq)]
  BY PushAllPushes
<1> DEFINE n == Len(seq)
           Good(i) == /\ acc[i] \in Dbs /\ DbOf(acc[i], T, S, k) /\ Carries(db, acc[i], T, k)
                      /\ acc[i].pipe.prev = IF i = 0 THEN db.pipe.prev ELSE seq[i]
                      /\ \A j \in 1 .. n : j <= i => IsRolled(seq[j], acc[i], k)
           N == {i \in Nat : i <= n => Good(i)}
<1>2. n \in Nat /\ acc[0] = db /\ \A i \in 1 .. n : acc[i] = Push(acc[i - 1], seq[i], FALSE)
  <2>1. n \in Nat
    OBVIOUS
  <2> QED
    BY <1>1, <2>1 DEF Pushes
<1>3. 0 \in N
  <2>1. Carries(db, db, T, k)
    BY DEF Carries
  <2>2. Good(0)
    BY <1>2, <2>1
  <2> HIDE DEF Good
  <2> QED
    BY <2>2
<1>4. ASSUME NEW m \in N PROVE m + 1 \in N
  <2>1. m \in Nat
    OBVIOUS
  <2> SUFFICES ASSUME m + 1 <= n PROVE Good(m + 1)
    <3> HIDE DEF Good
    <3> QED
      BY <2>1
  <2>2. m <= n /\ m + 1 \in 1 .. n /\ (m + 1) - 1 = m
    BY <1>2, <2>1
  <2>3. Good(m)
    <3> HIDE DEF Good
    <3> QED
      BY <2>2
  <2> DEFINE s == seq[m + 1]
  <2>4. Follows(acc[m].pipe.prev, s, T, S, k)
    <3>1. Follows(IF m + 1 = 1 THEN db.pipe.prev ELSE seq[(m + 1) - 1], s, T, S, k)
      BY <2>2 DEF Chain
    <3>2. acc[m].pipe.prev = IF m + 1 = 1 THEN db.pipe.prev ELSE seq[(m + 1) - 1]
      BY <2>1, <2>2, <2>3
    <3> HIDE DEF s, Good
    <3> QED
      BY <3>1, <3>2
  <2>5. Given(acc[m], s, T, S, k)
    BY <2>3, <2>4 DEF Given
  <2>6. acc[m + 1] = Push(acc[m], s, FALSE)
    BY <1>2, <2>2
  <2> HIDE DEF s
  <2>7. /\ acc[m + 1] \in Dbs /\ DbOf(acc[m + 1], T, S, k) /\ acc[m + 1].pipe.prev = s
        /\ Carries(acc[m], acc[m + 1], T, k) /\ IsRolled(s, acc[m + 1], k)
    <3> DEFINE new == Push(acc[m], s, FALSE)
    <3>1. /\ new \in Dbs /\ DbOf(new, T, S, k) /\ new.pipe.prev = s
          /\ Carries(acc[m], new, T, k) /\ IsRolled(s, new, k)
      BY <2>5, PushStands
    <3> HIDE DEF new
    <3>2. acc[m + 1] = new
      BY <2>6 DEF new
    <3> QED
      BY <3>1, <3>2
  <2>8. /\ Carries(db, acc[m + 1], T, k)
        /\ \A x \in T : IsRolled(x, acc[m], k) => IsRolled(x, acc[m + 1], k)
    BY <2>3, <2>7, CarriesOn
  <2>9. ASSUME NEW j \in 1 .. n, j <= m + 1 PROVE IsRolled(seq[j], acc[m + 1], k)
    <3>1. CASE j = m + 1
      BY <2>7, <3>1 DEF s
    <3>2. CASE j # m + 1
      <4>1. j <= m
        BY <2>1, <2>9, <3>2
      <4>2. seq[j] \in T
        BY DEF Chain, Follows
      <4> QED
        BY <2>3, <2>8, <4>1, <4>2
    <3> QED
      BY <3>1, <3>2
  <2> QED
    BY <2>1, <2>7, <2>8, <2>9 DEF s
<1>5. N = Nat
  <2> HIDE DEF N
  <2>1. N \subseteq Nat
    BY DEF N
  <2> QED
    BY <1>3, <1>4, <2>1, NumbersAreReached
<1>6. Good(n)
  <2>1. n \in N
    <3> HIDE DEF N
    <3> QED
      BY <1>2, <1>5
  <2> HIDE DEF Good
  <2> QED
    BY <1>2, <2>1
<1> QED
  BY <1>1, <1>2, <1>6

-----------------------------------------------------------------------------
(***************************************************************************)
(* The rollup: the steps                                                   *)
(***************************************************************************)
\* What the invariant says of the types of what it is about.
LEMMA RollTypes ==
    ASSUME RollInv
    PROVE  /\ LedgerInv /\ OutsideType /\ TierType /\ TableStands
           /\ now \in Nat /\ started_at \in Nat /\ alive \in BOOLEAN /\ starts \subseteq Nat
           /\ (\A x \in taken : x \in Readings /\ x.ts \in Nat /\ x.ts <= now)
           /\ samples \in Seq(Readings) /\ Tables(pipeline) \in Dbs /\ Tables(NewPipeline) \in Dbs
           /\ pipeline \in Pipes /\ backfill.pipe \in Pipes
           /\ backfill.from \in Nat /\ backfill.until \in Nat /\ backfill.owed \in BOOLEAN
           /\ RawFrom \in Int /\ KeepRaw \in Nat
<1>1. LedgerInv /\ OutsideType /\ TierType /\ TakenIsPast /\ TableStands
  BY DEF RollInv, LoadoutInv, LedgerInv, Outside
<1>2. Tables(pipeline) \in Dbs
  BY <1>1 DEF Tables, Dbs, TierType
<1>3. Tables(NewPipeline) \in Dbs
  BY <1>1, ReplayType
<1>4. KeepRaw \in Nat
  BY TiersAssumption
<1> QED
  BY <1>1, <1>2, <1>3, <1>4 DEF OutsideType, TierType, TakenIsPast, Readings, RawFrom

\* The ten minutes a collector starts in begin before it.
LEMMA OpenFromIs ==
    ASSUME NEW t \in Nat
    PROVE  /\ OpenFrom(t) \in Nat /\ OpenFrom(t) <= t /\ t < OpenFrom(t) + TenMinutes
           /\ BucketOf(TenMinutes, OpenFrom(t)) = OpenFrom(t)
           /\ \A x \in Nat : x >= OpenFrom(t) => BucketOf(TenMinutes, x) >= OpenFrom(t)
<1>1. /\ OpenFrom(t) \in Nat /\ OpenFrom(t) <= t /\ t < OpenFrom(t) + TenMinutes
      /\ \E k \in Nat : OpenFrom(t) = TenMinutes * k
  BY WidthsAre, BucketIs DEF OpenFrom
<1>2. PICK k \in Nat : OpenFrom(t) = TenMinutes * k
  BY <1>1
<1>3. BucketOf(TenMinutes, OpenFrom(t)) = OpenFrom(t)
  <2>1. TenMinutes * k <= OpenFrom(t) /\ OpenFrom(t) < (TenMinutes * k) + TenMinutes
    BY <1>1, <1>2, WidthsAre
  <2> QED
    BY <1>1, <1>2, <2>1, WidthsAre, BucketIsTheOne
<1>4. ASSUME NEW x \in Nat, x >= OpenFrom(t) PROVE BucketOf(TenMinutes, x) >= OpenFrom(t)
  <2>1. OpenFrom(t) \in Nat /\ OpenFrom(t) <= x /\ TenMinutes \in Nat \ {0}
    BY <1>1, <1>4, WidthsAre
  <2>2. BucketOf(TenMinutes, OpenFrom(t)) <= BucketOf(TenMinutes, x) /\ BucketOf(TenMinutes, x) \in Nat
    BY <2>1, BucketsAscend
  <2> QED
    BY <1>3, <2>1, <2>2
<1> QED
  BY <1>1, <1>3, <1>4

\* A sample that is rolled stays so, and so does one the retention has come to.
LEMMA ReachedOn ==
    ASSUME RollInv, now' \in Nat, now <= now', NEW x \in taken, NEW w \in Widths,
           NEW pipe, NEW next, Reached(x, w, pipe),
           InARow(x, w, rows) => InARow(x, w, rows') \/ x.ts < RawFrom' \/ BucketOf(w, x.ts) < now' - KeepOf(w),
           IsOpenIn(x, w, pipe) => InARow(x, w, rows') \/ IsOpenIn(x, w, next) \/ x.ts < RawFrom'
               \/ BucketOf(w, x.ts) < now' - KeepOf(w)
    PROVE  (x.ts < RawFrom' \/ BucketOf(w, x.ts) < now' - KeepOf(w)
               \/ InARow(x, w, rows') \/ IsOpenIn(x, w, next))
<1>1. x.ts \in Nat /\ now \in Nat /\ KeepRaw \in Nat
  BY RollTypes
<1>2. BucketOf(w, x.ts) \in Nat /\ KeepOf(w) \in Nat
  <2>1. BucketOf(w, x.ts) \in Nat
    BY <1>1, WidthsAre, BucketIs
  <2> QED
    BY <2>1, TiersAssumption DEF KeepOf
<1>3. x.ts < RawFrom => x.ts < RawFrom'
  BY <1>1 DEF RawFrom
<1>4. BucketOf(w, x.ts) < now - KeepOf(w) => BucketOf(w, x.ts) < now' - KeepOf(w)
  BY <1>1, <1>2
<1> QED
  BY <1>3, <1>4 DEF Reached

\* What a poll adds to the samples is younger than all of them.
LEMMA PollWidens ==
    ASSUME RollInv, NEW s, NEW e, Polls(s, e), starts' = starts
    PROVE  /\ Younger(s, taken, taken') /\ taken' = taken \cup {s} /\ s \in Readings /\ s.ts \in Nat
           /\ now' = s.ts /\ now <= s.ts /\ RawFrom' = s.ts - KeepRaw /\ RawFrom <= RawFrom' /\ RawFrom' \in Int
           /\ Apart(taken') /\ Wider(taken, starts, RawFrom, taken', starts', RawFrom')
<1>1. /\ OutsideType /\ TableStands /\ samples \in Seq(Readings) /\ now \in Nat /\ KeepRaw \in Nat
      /\ Apart(taken)
  BY RollTypes DEF RollInv
<1>2. /\ s \in Readings /\ s.ts \in Nat /\ taken' = taken \cup {s} /\ now' = s.ts /\ s.ts >= now
      /\ \A x \in ToSet(samples) : s.ts > x.ts
  BY DEF Polls, Readings
<1>3. Younger(s, taken, taken')
  BY <1>1, <1>2, YoungestOfAll DEF OutsideType
<1>4. RawFrom' = s.ts - KeepRaw /\ RawFrom <= RawFrom' /\ RawFrom' \in Int /\ RawFrom \in Int
  BY <1>1, <1>2 DEF RawFrom
<1>5. Apart(taken')
  <2>1. IsFiniteSet(taken')
    BY <1>1, <1>2, FS_AddElement DEF Apart
  <2>2. \A x \in taken : x.ts \in Nat /\ x.ts < s.ts
    BY <1>1, <1>3 DEF Younger, Apart, Readings
  <2>3. \A x, y \in taken' : x.ts = y.ts => x = y
    BY <1>1, <1>2, <2>2 DEF Apart
  <2> QED
    BY <1>1, <1>2, <2>1, <2>3 DEF Apart
<1>6. Wider(taken, starts, RawFrom, taken', starts', RawFrom')
  BY <1>1, <1>2, <1>3, <1>4, <1>5 DEF Wider, Younger
<1> QED
  BY <1>1, <1>2, <1>3, <1>4, <1>5, <1>6

\* The members of a list are those at its places.
LEMMA MembersAre ==
    ASSUME NEW S, NEW seq \in Seq(S)
    PROVE  /\ Len(seq) \in Nat /\ \A x : x \in ToSet(seq) <=> \E i \in 1 .. Len(seq) : seq[i] = x
           /\ \A i \in 1 .. Len(seq) : seq[i] \in ToSet(seq)
<1>1. Len(seq) \in Nat /\ DOMAIN seq = 1 .. Len(seq)
  OBVIOUS
<1> HIDE DEF ToSet
<1> QED
  BY <1>1 DEF ToSet

\* A selection has the members that are selected.
LEMMA SelectedSet ==
    ASSUME NEW S, NEW seq \in Seq(S), NEW set
    PROVE  ToSet(Selected(seq, set)) = ToSet(seq) \cap set
<1> DEFINE sel == Selected(seq, set)
<1>1. sel \in Seq(S)
  BY SelectedType
<1>2. /\ \A i \in 1 .. Len(sel) : \E j \in 1 .. Len(seq) : sel[i] = seq[j] /\ seq[j] \in set
      /\ \A j \in 1 .. Len(seq) : seq[j] \in set => \E i \in 1 .. Len(sel) : sel[i] = seq[j]
  <2>1. /\ \A i \in 1 .. Len(Selected(seq, set)) :
               \E j \in 1 .. Len(seq) : Selected(seq, set)[i] = seq[j] /\ seq[j] \in set
        /\ \A j \in 1 .. Len(seq) : seq[j] \in set =>
               \E i \in 1 .. Len(Selected(seq, set)) : Selected(seq, set)[i] = seq[j]
    BY SelectedMembers
  <2> QED
    BY <2>1, Zenon
<1> HIDE DEF sel
<1>3. \A x : x \in ToSet(sel) <=> \E i \in 1 .. Len(sel) : sel[i] = x
  BY <1>1, MembersAre
<1>4. \A x : x \in ToSet(seq) <=> \E i \in 1 .. Len(seq) : seq[i] = x
  BY MembersAre
<1>5. ASSUME NEW x PROVE x \in ToSet(sel) <=> x \in ToSet(seq) /\ x \in set
  <2>1. ASSUME x \in ToSet(sel) PROVE x \in ToSet(seq) /\ x \in set
    <3>1. PICK i \in 1 .. Len(sel) : sel[i] = x
      BY <1>3, <2>1
    <3>2. PICK j \in 1 .. Len(seq) : sel[i] = seq[j] /\ seq[j] \in set
      BY <1>2
    <3> QED
      BY <1>4, <3>1, <3>2
  <2>2. ASSUME x \in ToSet(seq), x \in set PROVE x \in ToSet(sel)
    <3>1. PICK j \in 1 .. Len(seq) : seq[j] = x
      BY <1>4, <2>2
    <3> QED
      BY <1>2, <1>3, <2>2, <3>1
  <2> QED
    BY <2>1, <2>2
<1>6. ToSet(sel) = ToSet(seq) \cap set
  BY <1>5
<1> QED
  BY <1>6 DEF sel

\* The samples of a time, as they are stored.
LEMMA BetweenIs ==
    ASSUME samples \in Seq(Readings), TableStands, NEW from, NEW to
    PROVE  LET part == Between(from, to)
           IN  /\ part \in Seq(Readings) /\ Len(part) \in Nat
               /\ \A x : x \in ToSet(part) <=> x \in ToSet(samples) /\ x.ts >= from /\ x.ts < to
               /\ \A x \in ToSet(part) : \E i \in 1 .. Len(part) : part[i] = x
               /\ \A i \in 1 .. Len(part) : part[i] \in ToSet(part) /\ part[i] \in taken
               /\ \A i, j \in 1 .. Len(part) : i < j => part[i].ts < part[j].ts
               /\ part = <<>> <=> Len(part) = 0
<1> DEFINE set == {x \in ToSet(samples) : x.ts >= from /\ x.ts < to}
           part == Selected(samples, set)
<1>1. part \in Seq(Readings) /\ \E f : Selects(f, part, samples, set, Len(samples))
  BY SelectedIs DEF IsSelection
<1>2. ToSet(part) = ToSet(samples) \cap set
  <2> HIDE DEF set
  <2> QED
    BY SelectedSet
<1>3. \A x : x \in ToSet(part) <=> x \in ToSet(samples) /\ x.ts >= from /\ x.ts < to
  BY <1>2
<1>4. \A i \in 1 .. Len(samples) : samples[i] \in taken
  BY DEF TableStands, TableOf, InOrder
<1>5. \A i, j \in 1 .. Len(samples) : i < j => samples[i].ts < samples[j].ts
  BY DEF TableStands, TableOf, InOrder
<1> HIDE DEF set, part
<1>6. /\ Len(part) \in Nat /\ \A x \in ToSet(part) : \E i \in 1 .. Len(part) : part[i] = x
      /\ \A i \in 1 .. Len(part) : part[i] \in ToSet(part)
  BY <1>1, MembersAre
<1>7. PICK f : Selects(f, part, samples, set, Len(samples))
  BY <1>1
<1>8. \A i \in 1 .. Len(part) : f[i] \in 1 .. Len(samples) /\ part[i] = samples[f[i]]
  BY <1>7 DEF Selects
<1>9. \A i, j \in 1 .. Len(part) : i < j => f[i] < f[j]
  BY <1>7 DEF Selects
<1>10. /\ \A i, j \in 1 .. Len(part) : i < j => part[i].ts < part[j].ts
       /\ \A i \in 1 .. Len(part) : part[i] \in taken
  BY <1>4, <1>5, <1>8, <1>9
<1>11. part = <<>> <=> Len(part) = 0
  BY <1>1
<1>12. Between(from, to) = part
  BY DEF Between, part, set
<1> QED
  BY <1>1, <1>3, <1>6, <1>10, <1>11, <1>12

\* The table keeps the newest samples.
LEMMA PollKeepsSamples ==
    ASSUME RollInv, NEW s, NEW e, Polls(s, e), starts' = starts, StoreAndFold(s) \/ StoreOnly(s)
    PROVE  SamplesStay'
<1> DEFINE stored == Append(samples, s)
           young == {x \in ToSet(stored) : x.ts >= s.ts - KeepRaw}
<1>1. /\ samples \in Seq(Readings) /\ s \in Readings /\ s.ts \in Nat /\ KeepRaw \in Nat
      /\ (\A x \in taken : x.ts \in Nat /\ x.ts < s.ts)
      /\ taken' = taken \cup {s} /\ RawFrom' = s.ts - KeepRaw /\ RawFrom <= RawFrom'
      /\ RawFrom \in Int /\ RawFrom' \in Int
  BY RollTypes, PollWidens DEF Younger
<1>2. stored \in Seq(Readings) /\ ToSet(stored) = ToSet(samples) \cup {s}
  <2> DEFINE n == Len(samples)
  <2>1. /\ stored \in Seq(Readings) /\ Len(stored) = n + 1 /\ n \in Nat /\ stored[n + 1] = s
        /\ \A i \in 1 .. n : stored[i] = samples[i]
        /\ \A i \in 1 .. n + 1 : i \in 1 .. n \/ i = n + 1
    BY <1>1, OneMore
  <2>2. DOMAIN samples = 1 .. n /\ DOMAIN stored = 1 .. n + 1
    BY <1>1, <2>1
  <2>3. \A i \in 1 .. n : i \in 1 .. n + 1
    BY <2>1
  <2>4. n + 1 \in 1 .. n + 1
    BY <2>1
  <2> HIDE DEF stored, n
  <2> QED
    BY <2>1, <2>2, <2>3, <2>4 DEF ToSet
<1>3. ToSet(samples) \subseteq taken
  <2>1. TableStands
    BY RollTypes
  <2>2. Len(samples) \in Nat /\ DOMAIN samples = 1 .. Len(samples)
    BY <1>1
  <2> QED
    BY <2>1, <2>2 DEF TableStands, TableOf, InOrder, ToSet
<1>4. /\ \A x \in taken : x.ts >= RawFrom => x \in ToSet(samples)
      /\ \A x \in taken, y \in ToSet(samples) : y.ts <= x.ts => x \in ToSet(samples)
  BY DEF RollInv, SamplesStay
<1>5. \/ ToSet(samples') = ToSet(stored)
      \/ ToSet(samples') = {x \in ToSet(stored) : x.ts >= RawFrom'}
  <2>1. samples' = stored \/ samples' = Selected(stored, young)
    BY DEF StoreAndFold, StoreOnly
  <2>2. ToSet(Selected(stored, young)) = young
    <3>1. young \subseteq ToSet(stored)
      OBVIOUS
    <3> HIDE DEF young, stored
    <3>2. ToSet(Selected(stored, young)) = ToSet(stored) \cap young
      BY <1>2, SelectedSet
    <3> QED
      BY <3>1, <3>2
  <2>3. young = {x \in ToSet(stored) : x.ts >= RawFrom'}
    BY <1>1
  <2> HIDE DEF young, stored
  <2> QED
    BY <2>1, <2>2, <2>3
<1> HIDE DEF stored, young
<1>6. s \in ToSet(samples')
  BY <1>1, <1>2, <1>5
<1>7. ASSUME NEW x \in taken' PROVE x.ts >= RawFrom' => x \in ToSet(samples')
  <2>1. CASE x = s
    BY <1>6, <2>1
  <2>2. CASE x \in taken
    <3>1. x.ts >= RawFrom' => x.ts >= RawFrom
      BY <1>1, <2>2
    <3> QED
      BY <1>2, <1>4, <1>5, <2>2, <3>1
  <2> QED
    BY <1>1, <2>1, <2>2
<1>8. ASSUME NEW x \in taken', NEW y \in ToSet(samples'), y.ts <= x.ts PROVE x \in ToSet(samples')
  <2>1. CASE x = s
    BY <1>6, <2>1
  <2>2. CASE x \in taken
    <3>1. y \in ToSet(samples)
      <4>1. y \in ToSet(samples) \cup {s}
        BY <1>2, <1>5
      <4>2. y # s
        BY <1>1, <1>8, <2>2
      <4> QED
        BY <4>1, <4>2
    <3>2. x \in ToSet(stored)
      BY <1>2, <1>4, <1>8, <2>2, <3>1
    <3>3. y.ts \in Nat
      BY <1>1, <1>3, <3>1
    <3>4. y.ts >= RawFrom' => x.ts >= RawFrom'
      BY <1>1, <1>8, <2>2, <3>3
    <3> QED
      BY <1>5, <3>2, <3>4
  <2> QED
    BY <1>1, <2>1, <2>2
<1> QED
  BY <1>7, <1>8 DEF SamplesStay

\* A poll's sample follows the one before it, or is the first of its start.
LEMMA PollFollows ==
    ASSUME RollInv, NEW s, NEW e, Polls(s, e), starts' = starts
    PROVE  Given(Tables(pipeline), s, taken', starts', RawFrom')
<1> DEFINE k == RawFrom'
           T == taken'
           from == OpenFrom(started_at)
           prev == pipeline.prev
<1>1. /\ now \in Nat /\ started_at \in Nat /\ starts \subseteq Nat /\ Tables(pipeline) \in Dbs
      /\ pipeline \in Pipes
  BY RollTypes
<1>2. /\ Younger(s, taken, T) /\ T = taken \cup {s} /\ s \in Readings /\ s.ts \in Nat /\ now <= s.ts
      /\ k \in Int /\ Apart(T) /\ Wider(taken, starts, RawFrom, T, starts', k)
  BY PollWidens
<1>3. /\ alive /\ started_at \in starts /\ started_at <= now
  BY DEF Polls, RollInv, StartsStand
<1>4. /\ from \in Nat /\ from <= started_at
      /\ \A x \in Nat : x >= from => BucketOf(TenMinutes, x) >= from
  BY <1>1, OpenFromIs
<1>5. \A x \in taken : x.ts \in Nat /\ x.ts < s.ts
  BY <1>2 DEF Younger, Readings
<1>6. /\ pipeline # NewPipeline => prev.ts >= from
      /\ \A x \in taken : x.ts >= from => pipeline # NewPipeline /\ x.ts <= prev.ts
  BY <1>3 DEF RollInv, PipelineStands
<1>7. DbOf(Tables(pipeline), taken, starts, RawFrom) /\ PipeOf(pipeline, taken, starts, RawFrom)
  BY DEF RollInv, TiersStand, DbOf, Tables
<1>8. DbOf(Tables(pipeline), T, starts', k)
  BY <1>1, <1>2, <1>7, DbStays
<1>9. /\ prev \in taken \cup {NoSample} /\ (pipeline = NewPipeline <=> prev = NoSample)
      /\ pipeline # NewPipeline => prev \in taken /\ prev.ts \in Nat
  <2>1. Apart(taken)
    BY DEF RollInv
  <2> QED
    BY <1>7, <2>1, PipesAre
<1>10. Prior(T, s) \subseteq taken
  BY <1>2 DEF Prior
<1>11. Tables(pipeline).pipe.prev = prev
  BY DEF Tables
<1> HIDE DEF k, T, from, prev
<1>12. CASE pipeline = NewPipeline
  <2>1. \A x \in taken : ~(x.ts >= from)
    BY <1>6, <1>12
  <2>2. FirstSince(T, from, s)
    <3>1. s.ts >= from
      BY <1>1, <1>2, <1>3, <1>4
    <3>2. \A p \in Prior(T, s) : ~(p.ts >= from)
      BY <1>10, <2>1
    <3> QED
      BY <3>1, <3>2 DEF FirstSince
  <2>3. s \in CutOf(T, starts', k)
    BY <1>2, <1>3, <2>2 DEF CutOf, from
  <2>4. ASSUME NEW x \in Prior(T, s), BucketOf(TenMinutes, x.ts) = BucketOf(TenMinutes, s.ts)
        PROVE  FALSE
    <3>1. x \in taken /\ x.ts \in Nat /\ ~(x.ts >= from)
      BY <1>5, <1>10, <2>1
    <3>2. BucketOf(TenMinutes, s.ts) >= from
      BY <1>1, <1>2, <1>3, <1>4
    <3>3. BucketOf(TenMinutes, x.ts) <= x.ts /\ BucketOf(TenMinutes, x.ts) \in Nat
      BY <3>1, WidthsAre, BucketIs
    <3> QED
      BY <1>4, <2>4, <3>1, <3>2, <3>3
  <2>5. prev = NoSample
    BY <1>9, <1>12
  <2>6. Follows(prev, s, T, starts', k)
    BY <1>2, <2>3, <2>4, <2>5 DEF Follows
  <2> QED
    BY <1>1, <1>2, <1>8, <1>11, <2>6 DEF Given, T, k
<1>13. CASE pipeline # NewPipeline
  <2>1. prev # NoSample /\ prev \in taken /\ prev.ts < s.ts /\ prev.ts \in Nat /\ prev.ts >= from
    BY <1>5, <1>6, <1>9, <1>13
  <2>2. ASSUME NEW x \in Prior(T, s), prev.ts < x.ts PROVE FALSE
    <3>1. x \in taken /\ x.ts \in Nat
      BY <1>5, <1>10
    <3> QED
      BY <1>4, <1>6, <2>1, <2>2, <3>1
  <2>3. Follows(prev, s, T, starts', k)
    BY <1>2, <2>1, <2>2 DEF Follows
  <2> QED
    BY <1>1, <1>2, <1>8, <1>11, <2>3 DEF Given, T, k
<1> QED
  BY <1>12, <1>13

\* What a poll writes is what it pushed, but for what the retention drops.
LEMMA FoldedIs ==
    ASSUME TierType, NEW s \in Readings, StoreAndFold(s)
    PROVE  LET db == Push(Tables(pipeline), s, TRUE)
           IN  /\ pipeline' = db.pipe /\ backfill' = backfill
               /\ \A w \in Widths : \A b \in DOMAIN rows'[w] :
                      b \in DOMAIN db.rows[w] /\ rows'[w][b] = db.rows[w][b]
               /\ \A w \in Widths : \A b \in DOMAIN db.rows[w] :
                      b \in DOMAIN rows'[w] \/ b < s.ts - KeepOf(w)
               /\ \A b \in DOMAIN gatelog' : b \in DOMAIN db.gatelog /\ gatelog'[b] = db.gatelog[b]
<1> DEFINE db == Push(Tables(pipeline), s, TRUE)
           prune == PruneDue(s.ts)
<1>1. db \in Dbs
  <2>1. Tables(pipeline) \in Dbs
    BY DEF Tables, Dbs, TierType
  <2> QED
    BY <2>1, PushType
<1>2. /\ pipeline' = db.pipe /\ backfill' = backfill
      /\ rows' = IF prune THEN [w \in Widths |-> Kept(s.ts, db.rows[w], KeepOf(w))] ELSE db.rows
      /\ gatelog' = IF prune THEN Kept(s.ts, db.gatelog, KeepM10) ELSE db.gatelog
  BY DEF StoreAndFold, KeepOf
<1> HIDE DEF db, prune
<1>3. s.ts \in Nat /\ \A w \in Widths : KeepOf(w) \in Nat
  BY TiersAssumption DEF KeepOf, Readings
<1>4. ASSUME NEW V, NEW table \in TablesOf(V), NEW keep \in Nat
      PROVE  /\ \A b \in DOMAIN Kept(s.ts, table, keep) :
                    b \in DOMAIN table /\ Kept(s.ts, table, keep)[b] = table[b]
             /\ \A b \in DOMAIN table : b \in DOMAIN Kept(s.ts, table, keep) \/ b < s.ts - keep
  <2>1. \A b \in DOMAIN table : b \in Nat
    BY TableIs DEF FiniteSubsets
  <2> QED
    BY <1>3, <2>1 DEF Kept
<1>5. /\ \A w \in Widths : db.rows[w] \in TablesOf(Aggs)
      /\ db.gatelog \in TablesOf(TablesOf(Nat))
  BY <1>1 DEF Dbs
<1>6. ASSUME NEW w \in Widths
      PROVE  /\ \A b \in DOMAIN rows'[w] : b \in DOMAIN db.rows[w] /\ rows'[w][b] = db.rows[w][b]
             /\ \A b \in DOMAIN db.rows[w] : b \in DOMAIN rows'[w] \/ b < s.ts - KeepOf(w)
  <2>1. CASE prune
    <3>1. rows'[w] = Kept(s.ts, db.rows[w], KeepOf(w))
      BY <1>2, <2>1
    <3> QED
      BY <1>3, <1>4, <1>5, <3>1
  <2>2. CASE ~prune
    BY <1>2, <2>2
  <2> QED
    BY <2>1, <2>2
<1>7. \A b \in DOMAIN gatelog' : b \in DOMAIN db.gatelog /\ gatelog'[b] = db.gatelog[b]
  <2>1. CASE prune
    <3>1. gatelog' = Kept(s.ts, db.gatelog, KeepM10) /\ KeepM10 \in Nat
      BY <1>2, <2>1, TiersAssumption
    <3> QED
      BY <1>4, <1>5, <3>1
  <2>2. CASE ~prune
    BY <1>2, <2>2
  <2> QED
    BY <2>1, <2>2
<1> QED
  BY <1>2, <1>6, <1>7 DEF db

\* A poll keeps the tiers ...
LEMMA PollKeepsTiers ==
    ASSUME RollInv, NEW s, NEW e, Polls(s, e), StoreAndFold(s), starts' = starts
    PROVE  TiersStand'
<1> DEFINE db == Push(Tables(pipeline), s, TRUE)
<1>1. TierType /\ s \in Readings /\ backfill.pipe \in Pipes
  BY RollTypes DEF Polls
<1>2. Given(Tables(pipeline), s, taken', starts', RawFrom')
  BY PollFollows
<1>3. DbOf(db, taken', starts', RawFrom')
  BY <1>2, PushStands
<1>4. /\ pipeline' = db.pipe /\ backfill' = backfill
      /\ \A w \in Widths : \A b \in DOMAIN rows'[w] :
             b \in DOMAIN db.rows[w] /\ rows'[w][b] = db.rows[w][b]
      /\ \A b \in DOMAIN gatelog' : b \in DOMAIN db.gatelog /\ gatelog'[b] = db.gatelog[b]
  BY <1>1, FoldedIs
<1> HIDE DEF db
<1>5. RowsOf(rows', taken', starts', RawFrom')
  BY <1>3, <1>4 DEF DbOf, RowsOf
<1>6. GatelogOf(gatelog', taken')
  BY <1>3, <1>4 DEF DbOf, GatelogOf
<1>7. PipeOf(pipeline', taken', starts', RawFrom')
  BY <1>3, <1>4 DEF DbOf
<1>8. PipeOf(backfill'.pipe, taken', starts', RawFrom')
  <2>1. PipeOf(backfill.pipe, taken, starts, RawFrom)
    BY DEF RollInv, TiersStand
  <2>2. Wider(taken, starts, RawFrom, taken', starts', RawFrom')
    BY PollWidens
  <2> QED
    BY <1>1, <1>4, <2>1, <2>2, PipeStays
<1> QED
  BY <1>5, <1>6, <1>7, <1>8 DEF TiersStand, DbOf, Tables

\* ... the live pipeline ...
LEMMA PollKeepsPipeline ==
    ASSUME RollInv, NEW s, NEW e, Polls(s, e), StoreAndFold(s), UNCHANGED <<starts, started_at>>
    PROVE  PipelineStands'
<1>1. TierType /\ s \in Readings /\ started_at \in Nat /\ now \in Nat
  BY RollTypes DEF Polls
<1>2. Given(Tables(pipeline), s, taken', starts', RawFrom')
  BY PollFollows
<1>3. pipeline'.prev = s
  <2> DEFINE db == Push(Tables(pipeline), s, TRUE)
  <2>1. db.pipe.prev = s
    BY DEF Push
  <2>2. pipeline' = db.pipe
    BY <1>1, FoldedIs
  <2> QED
    BY <2>1, <2>2
<1>4. Younger(s, taken, taken') /\ taken' = taken \cup {s} /\ now <= s.ts /\ s.ts \in Nat
  BY PollWidens
<1>5. s # NoSample
  BY <1>1, NoSampleIs DEF Readings, None
<1>6. pipeline' # NewPipeline
  BY <1>3, <1>5 DEF NewPipeline
<1>7. OpenFrom(started_at) <= s.ts
  <2>1. started_at <= now /\ OpenFrom(started_at) \in Nat /\ OpenFrom(started_at) <= started_at
    BY <1>1, OpenFromIs DEF RollInv, StartsStand
  <2> QED
    BY <1>1, <1>4, <2>1
<1>8. \A x \in taken' : x.ts <= s.ts
  BY <1>4 DEF Younger, Readings
<1> QED
  BY <1>3, <1>6, <1>7, <1>8 DEF PipelineStands

\* What is rolled stays so.
LEMMA PollReaches ==
    ASSUME RollInv, NEW s, NEW e, Polls(s, e), StoreAndFold(s), starts' = starts,
           NEW x \in taken, NEW w \in Widths
    PROVE  /\ InARow(x, w, rows) => InARow(x, w, rows') \/ x.ts < RawFrom' \/ BucketOf(w, x.ts) < now' - KeepOf(w)
           /\ IsOpenIn(x, w, pipeline) => InARow(x, w, rows') \/ IsOpenIn(x, w, pipeline')
                  \/ x.ts < RawFrom' \/ BucketOf(w, x.ts) < now' - KeepOf(w)
<1> DEFINE db == Push(Tables(pipeline), s, TRUE)
<1>1. TierType /\ s \in Readings
  BY RollTypes DEF Polls
<1>2. Given(Tables(pipeline), s, taken', starts', RawFrom')
  BY PollFollows
<1>3. Carries(Tables(pipeline), db, taken', RawFrom')
  BY <1>2, PushStands
<1>4. x \in taken' /\ now' = s.ts
  BY PollWidens
<1>5. /\ pipeline' = db.pipe
      /\ \A b \in DOMAIN rows'[w] : b \in DOMAIN db.rows[w] /\ rows'[w][b] = db.rows[w][b]
      /\ \A b \in DOMAIN db.rows[w] : b \in DOMAIN rows'[w] \/ b < s.ts - KeepOf(w)
  BY <1>1, FoldedIs
<1>6. /\ InARow(x, w, rows) => InARow(x, w, db.rows) \/ x.ts < RawFrom'
      /\ IsOpenIn(x, w, pipeline) => InARow(x, w, db.rows) \/ IsOpenIn(x, w, db.pipe) \/ x.ts < RawFrom'
  <2>1. Tables(pipeline).rows = rows /\ Tables(pipeline).pipe = pipeline
    BY DEF Tables
  <2> HIDE DEF db
  <2> QED
    BY <1>3, <1>4, <2>1 DEF Carries
<1> HIDE DEF db
<1>7. InARow(x, w, db.rows) => InARow(x, w, rows') \/ BucketOf(w, x.ts) < now' - KeepOf(w)
  BY <1>4, <1>5 DEF InARow
<1> QED
  BY <1>5, <1>6, <1>7

\* ... what the back-fill has ...
LEMMA PollKeepsBackfill ==
    ASSUME RollInv, NEW s, NEW e, Polls(s, e), StoreAndFold(s), UNCHANGED <<starts, started_at>>
    PROVE  BackfillStands'
<1>1. /\ TierType /\ s \in Readings /\ started_at \in Nat /\ now \in Nat /\ now' \in Nat
      /\ backfill.from \in Nat /\ backfill.until \in Nat
  BY RollTypes, PollWidens
<1>2. backfill' = backfill
  BY <1>1, FoldedIs
<1>3. Younger(s, taken, taken') /\ taken' = taken \cup {s} /\ now <= s.ts /\ now' = s.ts /\ s.ts \in Nat
      /\ RawFrom <= RawFrom' /\ RawFrom' \in Int
  BY PollWidens
<1>4. BackfillStands
  BY DEF RollInv
<1>5. ~(s.ts < backfill.from)
  <2>1. started_at <= now /\ OpenFrom(started_at) \in Nat /\ OpenFrom(started_at) <= started_at
    BY <1>1, OpenFromIs DEF RollInv, StartsStand
  <2> QED
    BY <1>1, <1>3, <1>4, <2>1 DEF BackfillStands
<1>6. ASSUME backfill.pipe # NewPipeline, NEW x \in taken', backfill.pipe.prev.ts < x.ts, x.ts < backfill.from
      PROVE  x.ts < RawFrom'
  <2>1. x \in taken
    BY <1>3, <1>5, <1>6
  <2>2. x.ts < RawFrom /\ x.ts \in Nat /\ RawFrom \in Int
    BY <1>4, <1>6, <2>1, RollTypes DEF BackfillStands
  <2> QED
    BY <1>3, <2>2
<1>7. ASSUME backfill.owed, NEW x \in taken', NEW w \in Widths, x.ts < backfill.from
      PROVE  \/ x.ts < RawFrom' \/ BucketOf(w, x.ts) < now' - KeepOf(w)
             \/ InARow(x, w, rows') \/ IsOpenIn(x, w, backfill.pipe)
  <2>1. x \in taken
    BY <1>3, <1>5, <1>7
  <2>2. Reached(x, w, backfill.pipe)
    BY <1>4, <1>7, <2>1 DEF BackfillStands
  <2>3. InARow(x, w, rows) => InARow(x, w, rows') \/ x.ts < RawFrom' \/ BucketOf(w, x.ts) < now' - KeepOf(w)
    BY <2>1, PollReaches
  <2> QED
    BY <1>1, <1>3, <2>1, <2>2, <2>3, ReachedOn
<1> QED
  BY <1>2, <1>4, <1>6, <1>7 DEF BackfillStands, Reached

\* ... and that no sample is lost.
LEMMA PollLosesNone ==
    ASSUME RollInv, NEW s, NEW e, Polls(s, e), StoreAndFold(s), UNCHANGED <<starts, started_at, gaps>>
    PROVE  AllAreRolled'
<1>1. /\ TierType /\ s \in Readings /\ started_at \in Nat /\ now \in Nat /\ now' \in Nat
      /\ backfill.until \in Nat /\ alive
  BY RollTypes, PollWidens DEF Polls
<1>2. backfill' = backfill
  BY <1>1, FoldedIs
<1>3. /\ taken' = taken \cup {s} /\ now <= s.ts /\ now' = s.ts /\ s.ts \in Nat
  BY PollWidens
<1>4. Given(Tables(pipeline), s, taken', starts', RawFrom')
  BY PollFollows
<1>5. ASSUME NEW w \in Widths
      PROVE  InARow(s, w, rows') \/ IsOpenIn(s, w, pipeline') \/ s.ts < RawFrom'
                 \/ BucketOf(w, s.ts) < now' - KeepOf(w)
  <2> DEFINE db == Push(Tables(pipeline), s, TRUE)
  <2>1. IsRolled(s, db, RawFrom')
    BY <1>4, PushStands
  <2>2. /\ pipeline' = db.pipe
        /\ \A b \in DOMAIN rows'[w] : b \in DOMAIN db.rows[w] /\ rows'[w][b] = db.rows[w][b]
        /\ \A b \in DOMAIN db.rows[w] : b \in DOMAIN rows'[w] \/ b < s.ts - KeepOf(w)
    BY <1>1, FoldedIs
  <2> HIDE DEF db
  <2>3. InARow(s, w, db.rows) => InARow(s, w, rows') \/ BucketOf(w, s.ts) < now' - KeepOf(w)
    BY <1>3, <2>2 DEF InARow
  <2> QED
    BY <2>1, <2>2, <2>3 DEF IsRolled
<1>6. ASSUME NEW x \in taken, NotYetBackfilled(x) PROVE NotYetBackfilled(x)'
  <2>1. ~(s.ts < backfill.until)
    <3>1. started_at <= now /\ OpenFrom(started_at) \in Nat /\ OpenFrom(started_at) <= started_at
      BY <1>1, OpenFromIs DEF RollInv, StartsStand
    <3> QED
      BY <1>1, <1>3, <3>1 DEF RollInv, BackfillStands
  <2> QED
    BY <1>2, <1>3, <1>6, <2>1 DEF NotYetBackfilled
<1>7. ASSUME starts' # {}, NEW x \in taken', NEW w \in Widths
      PROVE  \/ x.ts < RawFrom' \/ BucketOf(w, x.ts) < now' - KeepOf(w)
             \/ InARow(x, w, rows') \/ IsOpenIn(x, w, pipeline')
             \/ LostInAGap(w, x)' \/ NotYetBackfilled(x)'
  <2>1. CASE x = s
    BY <1>5, <2>1
  <2>2. CASE x \in taken
    <3>1. Reached(x, w, pipeline) \/ LostInAGap(w, x) \/ NotYetBackfilled(x)
      BY <1>1, <1>7, <2>2 DEF RollInv, AllAreRolled
    <3>2. CASE Reached(x, w, pipeline)
      <4>1. /\ InARow(x, w, rows) => InARow(x, w, rows') \/ x.ts < RawFrom' \/ BucketOf(w, x.ts) < now' - KeepOf(w)
            /\ IsOpenIn(x, w, pipeline) => InARow(x, w, rows') \/ IsOpenIn(x, w, pipeline')
                   \/ x.ts < RawFrom' \/ BucketOf(w, x.ts) < now' - KeepOf(w)
        BY <2>2, PollReaches
      <4> QED
        BY <1>1, <1>3, <2>2, <3>2, <4>1, ReachedOn
    <3>3. CASE LostInAGap(w, x)
      BY <3>3 DEF LostInAGap
    <3> QED
      BY <1>6, <2>2, <3>1, <3>2, <3>3
  <2> QED
    BY <1>3, <2>1, <2>2
<1> QED
  BY <1>7 DEF AllAreRolled, Reached

\* The starts stand as long as none is added and the clock goes on.
LEMMA StartsStandOn ==
    ASSUME RollInv, alive, UNCHANGED <<starts, started_at>>, now' \in Nat, now <= now'
    PROVE  StartsStand'
<1>1. /\ IsFiniteSet(starts) /\ (\A t \in starts : t <= started_at) /\ started_at <= now
      /\ started_at \in starts
  BY DEF RollInv, StartsStand
<1>2. now \in Nat /\ started_at \in Nat /\ starts' = starts /\ started_at' = started_at
  BY RollTypes
<1>3. starts' # {} /\ started_at' <= now' /\ started_at' \in starts'
  BY <1>1, <1>2
<1>4. IsFiniteSet(starts') /\ \A t \in starts' : t <= started_at'
  BY <1>1, <1>2
<1> QED
  BY <1>3, <1>4 DEF StartsStand

\* A poll that dies leaves a sample that waits for the next start.
LEMMA DeathKeepsRollup ==
    ASSUME RollInv, NEW s, NEW e, Polls(s, e), PollDies(s, e), LoadoutInv'
    PROVE  RollInv'
<1>1. /\ UNCHANGED <<starts, started_at, gaps, rows, gatelog, pipeline, backfill>>
      /\ alive' = FALSE /\ StoreOnly(s) /\ alive
  BY DEF PollDies, StoreOnly
<1>2. /\ Younger(s, taken, taken') /\ taken' = taken \cup {s} /\ now <= s.ts /\ now' = s.ts /\ s.ts \in Nat
      /\ RawFrom <= RawFrom' /\ RawFrom' \in Int /\ Apart(taken')
      /\ Wider(taken, starts, RawFrom, taken', starts', RawFrom')
  BY <1>1, PollWidens
<1>3. /\ started_at \in Nat /\ now \in Nat /\ now' \in Nat /\ Tables(pipeline) \in Dbs
      /\ backfill.pipe \in Pipes /\ backfill.from \in Nat /\ backfill.until \in Nat
      /\ RawFrom \in Int
  BY <1>2, RollTypes
<1>4. started_at <= now /\ OpenFrom(started_at) \in Nat /\ OpenFrom(started_at) <= started_at
  BY <1>3, OpenFromIs DEF RollInv, StartsStand
<1>5. /\ TiersStand /\ PipelineStands /\ BackfillStands /\ AllAreRolled /\ Apart(taken)
  BY DEF RollInv
<1>6. SamplesStay'
  BY <1>1, PollKeepsSamples
<1>7. StartsStand'
  BY <1>1, <1>2, <1>3, StartsStandOn
<1>8. TiersStand'
  <2>1. DbOf(Tables(pipeline), taken', starts', RawFrom')
    BY <1>2, <1>3, <1>5, DbStays DEF TiersStand
  <2>2. PipeOf(backfill.pipe, taken', starts', RawFrom')
    BY <1>2, <1>3, <1>5, PipeStays DEF TiersStand
  <2> QED
    BY <1>1, <2>1, <2>2 DEF TiersStand, Tables
<1>9. PipelineStands'
  BY <1>1, <1>5 DEF PipelineStands
<1>10. ASSUME NEW x \in taken, NEW w \in Widths, NEW pipe, Reached(x, w, pipe)
       PROVE  \/ x.ts < RawFrom' \/ BucketOf(w, x.ts) < now' - KeepOf(w)
              \/ InARow(x, w, rows') \/ IsOpenIn(x, w, pipe)
  BY <1>1, <1>2, <1>3, <1>10, ReachedOn
<1>11. BackfillStands'
  <2>1. ~(s.ts < backfill.from) /\ ~(s.ts < backfill.until)
    BY <1>2, <1>3, <1>4, <1>5 DEF BackfillStands
  <2>2. ASSUME backfill.pipe # NewPipeline, NEW x \in taken', backfill.pipe.prev.ts < x.ts, x.ts < backfill.from
        PROVE  x.ts < RawFrom'
    <3>1. x \in taken
      BY <1>2, <2>1, <2>2
    <3>2. x.ts < RawFrom /\ x.ts \in Nat
      BY <1>5, <2>2, <3>1, RollTypes DEF BackfillStands
    <3> QED
      BY <1>2, <1>3, <3>2
  <2>3. ASSUME backfill.owed, NEW x \in taken', NEW w \in Widths, x.ts < backfill.from
        PROVE  \/ x.ts < RawFrom' \/ BucketOf(w, x.ts) < now' - KeepOf(w)
               \/ InARow(x, w, rows') \/ IsOpenIn(x, w, backfill.pipe)
    <3>1. x \in taken
      BY <1>2, <2>1, <2>3
    <3> QED
      BY <1>5, <1>10, <2>3, <3>1 DEF BackfillStands
  <2> QED
    BY <1>1, <1>5, <2>2, <2>3 DEF BackfillStands, Reached
<1>12. AllAreRolled'
  <2>1. ASSUME NEW x \in taken, NotYetBackfilled(x) PROVE NotYetBackfilled(x)'
    <3>1. ~(s.ts < backfill.until)
      BY <1>2, <1>3, <1>4, <1>5 DEF BackfillStands
    <3> QED
      BY <1>1, <1>2, <2>1, <3>1 DEF NotYetBackfilled
  <2>2. IF pipeline = NewPipeline THEN s.ts >= started_at ELSE s.ts > pipeline.prev.ts
    <3>1. CASE pipeline = NewPipeline
      BY <1>2, <1>3, <1>4, <3>1
    <3>2. CASE pipeline # NewPipeline
      <4>1. PipeOf(pipeline, taken, starts, RawFrom)
        BY <1>5 DEF TiersStand, DbOf, Tables
      <4>2. pipeline.prev \in taken
        BY <1>5, <3>2, <4>1, PipesAre
      <4> QED
        BY <1>2, <3>2, <4>2 DEF Younger, Readings
    <3> QED
      BY <3>1, <3>2
  <2>3. ASSUME starts # {}, NEW x \in taken, NEW w \in Widths
        PROVE  \/ x.ts < RawFrom' \/ BucketOf(w, x.ts) < now' - KeepOf(w)
               \/ InARow(x, w, rows') \/ IsOpenIn(x, w, pipeline)
               \/ LostInAGap(w, x)' \/ NotYetBackfilled(x)'
    <3>1. Reached(x, w, pipeline) \/ LostInAGap(w, x) \/ NotYetBackfilled(x)
      BY <1>1, <1>5, <2>3 DEF AllAreRolled
    <3>2. LostInAGap(w, x) => LostInAGap(w, x)'
      BY <1>1 DEF LostInAGap
    <3> QED
      BY <1>10, <2>1, <3>1, <3>2
  <2> QED
    BY <1>1, <1>2, <2>2, <2>3 DEF AllAreRolled, Reached, Unpushed
<1> QED
  BY <1>2, <1>6, <1>7, <1>8, <1>9, <1>11, <1>12 DEF RollInv

\* A poll keeps it all.
LEMMA PollKeepsRollup ==
    ASSUME RollInv, NEW s, NEW e, NEW logged, NEW described, NEW came, Polls(s, e),
           Poll(s, e, logged, described, came), LoadoutInv'
    PROVE  RollInv'
<1>1. /\ UNCHANGED <<starts, started_at, gaps, alive>> /\ StoreAndFold(s) /\ alive
  BY DEF Poll
<1>2. now' \in Nat /\ now <= now' /\ Apart(taken')
  BY <1>1, PollWidens
<1>3. SamplesStay' /\ StartsStand'
  BY <1>1, <1>2, PollKeepsSamples, StartsStandOn
<1>4. TiersStand' /\ PipelineStands' /\ BackfillStands' /\ AllAreRolled'
  BY <1>1, PollKeepsTiers, PollKeepsPipeline, PollKeepsBackfill, PollLosesNone
<1> QED
  BY <1>2, <1>3, <1>4 DEF RollInv

\* A start replays all samples of its ten minutes, and each follows the one before it.
LEMMA ReplayIs ==
    ASSUME RollInv, NEW t \in Nat, t > now
    PROVE  LET seq == ToReplay(t)
           IN  /\ seq \in Seq(Readings) /\ Len(seq) \in Nat
               /\ \A i \in 1 .. Len(seq) : seq[i] \in taken /\ seq[i].ts >= OpenFrom(t)
               /\ \A i, j \in 1 .. Len(seq) : i < j => seq[i].ts < seq[j].ts
               /\ \A x \in taken : x.ts >= OpenFrom(t) => \E i \in 1 .. Len(seq) : seq[i] = x
<1> DEFINE seq == Between(OpenFrom(t), t + 1)
<1>1. /\ now \in Nat /\ samples \in Seq(Readings) /\ TableStands /\ KeepRaw \in Nat
      /\ \A x \in taken : x.ts \in Nat /\ x.ts <= now
  BY RollTypes
<1>2. /\ seq \in Seq(Readings) /\ Len(seq) \in Nat
      /\ \A x : x \in ToSet(seq) <=> x \in ToSet(samples) /\ x.ts >= OpenFrom(t) /\ x.ts < t + 1
      /\ \A x \in ToSet(seq) : \E i \in 1 .. Len(seq) : seq[i] = x
      /\ \A i \in 1 .. Len(seq) : seq[i] \in ToSet(seq) /\ seq[i] \in taken
      /\ \A i, j \in 1 .. Len(seq) : i < j => seq[i].ts < seq[j].ts
  BY <1>1, BetweenIs
<1> HIDE DEF seq
<1>3. ASSUME NEW x \in taken, x.ts >= OpenFrom(t) PROVE \E i \in 1 .. Len(seq) : seq[i] = x
  <2>1. OpenFrom(t) \in Nat /\ t < OpenFrom(t) + TenMinutes /\ TenMinutes \in Nat /\ KeepRaw >= TenMinutes
    BY OpenFromIs, WidthsAre, TiersAssumption
  <2>2. x.ts >= RawFrom /\ x.ts < t + 1
    BY <1>1, <1>3, <2>1 DEF RawFrom
  <2>3. x \in ToSet(samples)
    BY <2>2 DEF RollInv, SamplesStay
  <2> QED
    BY <1>2, <1>3, <2>2, <2>3
<1>4. \A i \in 1 .. Len(seq) : seq[i].ts >= OpenFrom(t)
  BY <1>2
<1> QED
  BY <1>2, <1>3, <1>4 DEF ToReplay, seq

\* The samples a start replays follow each other.
LEMMA ReplayChains ==
    ASSUME RollInv, NEW t \in Nat, t > now, NEW S, t \in S, NEW k \in Int
    PROVE  Chain(NoSample, ToReplay(t), taken, S, k)
<1> DEFINE seq == ToReplay(t)
           from == OpenFrom(t)
<1>1. /\ seq \in Seq(Readings) /\ Len(seq) \in Nat
      /\ \A i \in 1 .. Len(seq) : seq[i] \in taken /\ seq[i].ts >= from
      /\ \A i, j \in 1 .. Len(seq) : i < j => seq[i].ts < seq[j].ts
      /\ \A x \in taken : x.ts >= from => \E i \in 1 .. Len(seq) : seq[i] = x
  BY ReplayIs
<1>2. /\ from \in Nat /\ \A x \in Nat : x >= from => BucketOf(TenMinutes, x) >= from
  BY OpenFromIs
<1>3. \A x \in taken : x.ts \in Nat /\ x \in Readings
  BY RollTypes
<1> HIDE DEF seq
<1>4. ASSUME NEW i \in 1 .. Len(seq)
      PROVE  Follows(IF i = 1 THEN NoSample ELSE seq[i - 1], seq[i], taken, S, k)
  <2> DEFINE s == seq[i]
  <2>1. s \in taken /\ s.ts >= from /\ s.ts \in Nat
    BY <1>1, <1>3
  <2>2. CASE i = 1
    <3>1. ASSUME NEW x \in Prior(taken, s), x.ts >= from PROVE FALSE
      <4>1. x \in taken /\ x.ts < s.ts /\ x.ts \in Nat
        BY <1>3 DEF Prior
      <4>2. PICK j \in 1 .. Len(seq) : seq[j] = x
        BY <1>1, <3>1, <4>1
      <4>3. j # 1
        BY <2>1, <2>2, <4>1, <4>2
      <4>4. seq[1].ts < seq[j].ts
        BY <1>1, <2>2, <4>3
      <4> QED
        BY <2>1, <2>2, <4>1, <4>2, <4>4
    <3>2. FirstSince(taken, from, s)
      BY <2>1, <3>1 DEF FirstSince
    <3>3. s \in CutOf(taken, S, k)
      BY <2>1, <3>2 DEF CutOf
    <3>4. ASSUME NEW x \in Prior(taken, s), BucketOf(TenMinutes, x.ts) = BucketOf(TenMinutes, s.ts)
          PROVE  FALSE
      <4>1. x.ts \in Nat /\ x \in taken
        BY <1>3 DEF Prior
      <4>2. BucketOf(TenMinutes, x.ts) \in Nat /\ BucketOf(TenMinutes, x.ts) <= x.ts
        BY <4>1, WidthsAre, BucketIs
      <4>3. BucketOf(TenMinutes, s.ts) >= from
        BY <1>2, <2>1
      <4>4. x.ts >= from
        BY <1>2, <3>4, <4>1, <4>2, <4>3
      <4> QED
        BY <3>1, <4>4
    <3> QED
      BY <2>1, <2>2, <3>3, <3>4 DEF Follows
  <2>3. CASE i # 1
    <3> DEFINE p == seq[i - 1]
    <3>1. i - 1 \in 1 .. Len(seq) /\ i - 1 < i
      BY <1>1, <2>3
    <3>2. p \in taken /\ p.ts >= from /\ p.ts < s.ts /\ p.ts \in Nat
      BY <1>1, <1>3, <3>1
    <3>3. p # NoSample
      BY <1>3, <3>2, NoSampleIs DEF None
    <3>4. ASSUME NEW x \in Prior(taken, s), p.ts < x.ts PROVE FALSE
      <4>1. x \in taken /\ x.ts < s.ts /\ x.ts \in Nat
        BY <1>3 DEF Prior
      <4>2. PICK j \in 1 .. Len(seq) : seq[j] = x
        BY <1>1, <1>2, <3>2, <3>4, <4>1
      <4>3. j < i
        <5>1. j = i => FALSE
          BY <2>1, <4>1, <4>2
        <5>2. i < j => FALSE
          BY <1>1, <2>1, <4>1, <4>2
        <5> QED
          BY <5>1, <5>2
      <4>4. ~(j < i - 1) /\ j # i - 1
        <5>1. j = i - 1 => FALSE
          BY <3>2, <3>4, <4>2
        <5>2. j < i - 1 => seq[j].ts < seq[i - 1].ts
          BY <1>1, <3>1
        <5> QED
          BY <3>2, <3>4, <4>1, <4>2, <5>1, <5>2
      <4> QED
        BY <1>1, <4>3, <4>4
    <3> QED
      BY <2>1, <2>3, <3>2, <3>3, <3>4 DEF Follows
  <2> QED
    BY <2>2, <2>3
<1> QED
  BY <1>4 DEF Chain, seq

\* What a start makes of the tables.
LEMMA ReplayStands ==
    ASSUME RollInv, NEW t \in Nat, t > now, NEW S, t \in S, starts \subseteq S,
           NEW k \in Int, RawFrom <= k
    PROVE  LET new == Replayed(t)
           IN  /\ DbOf(new, taken, S, k) /\ Carries(Tables(NewPipeline), new, taken, k)
               /\ \A x \in taken : x.ts >= OpenFrom(t) =>
                      IsRolled(x, new, k) /\ new.pipe # NewPipeline /\ x.ts <= new.pipe.prev.ts
               /\ new.pipe # NewPipeline => new.pipe.prev.ts >= OpenFrom(t)
<1> DEFINE seq == ToReplay(t)
           db == Tables(NewPipeline)
           n == Len(seq)
<1>1. /\ seq \in Seq(Readings) /\ n \in Nat
      /\ \A i \in 1 .. n : seq[i] \in taken /\ seq[i].ts >= OpenFrom(t)
      /\ \A i, j \in 1 .. n : i < j => seq[i].ts < seq[j].ts
      /\ \A x \in taken : x.ts >= OpenFrom(t) => \E i \in 1 .. n : seq[i] = x
  BY ReplayIs
<1>2. Apart(taken) /\ db \in Dbs /\ \A x \in taken : x \in Readings /\ x.ts \in Nat
  BY RollTypes DEF RollInv
<1>3. Wider(taken, starts, RawFrom, taken, S, k)
  BY <1>2, RollTypes DEF Wider
<1>4. DbOf(db, taken, S, k)
  <2>1. DbOf(db, taken, starts, RawFrom)
    BY DEF RollInv, TiersStand, DbOf, PipeOf, Tables
  <2> HIDE DEF db
  <2> QED
    BY <1>2, <1>3, <2>1, DbStays
<1>5. db.pipe.prev = NoSample /\ db.pipe = NewPipeline
  BY DEF Tables, NewPipeline
<1>6. Chain(db.pipe.prev, seq, taken, S, k)
  BY <1>5, ReplayChains
<1>7. Replayed(t) = PushAll(db, seq)
  BY DEF Replayed
<1> HIDE DEF seq, db
<1>8. LET new == PushAll(db, seq)
      IN  /\ new \in Dbs /\ DbOf(new, taken, S, k) /\ Carries(db, new, taken, k)
          /\ new.pipe.prev = IF Len(seq) = 0 THEN db.pipe.prev ELSE seq[Len(seq)]
          /\ \A i \in 1 .. Len(seq) : IsRolled(seq[i], new, k)
  BY <1>1, <1>2, <1>4, <1>6, PushAllStands
<1> DEFINE new == PushAll(db, seq)
<1> HIDE DEF new
<1>9. /\ DbOf(new, taken, S, k) /\ Carries(db, new, taken, k)
      /\ new.pipe.prev = IF n = 0 THEN NoSample ELSE seq[n]
      /\ \A i \in 1 .. n : IsRolled(seq[i], new, k)
  BY <1>5, <1>8 DEF new
<1>10. new.pipe = NewPipeline <=> new.pipe.prev = NoSample
  <2>1. PipeOf(new.pipe, taken, S, k)
    BY <1>9 DEF DbOf
  <2> QED
    BY <1>2, <2>1, PipesAre
<1>11. ASSUME n # 0
       PROVE  /\ new.pipe.prev = seq[n] /\ new.pipe # NewPipeline /\ n \in 1 .. n
              /\ seq[n].ts >= OpenFrom(t) /\ seq[n] \in taken
  <2>1. n \in 1 .. n
    BY <1>1, <1>11
  <2>2. seq[n] \in taken /\ seq[n].ts >= OpenFrom(t)
    BY <1>1, <2>1
  <2>3. seq[n] # NoSample
    BY <1>2, <2>2, NoSampleIs DEF None
  <2> QED
    BY <1>9, <1>10, <1>11, <2>1, <2>2, <2>3
<1>12. new.pipe # NewPipeline => n # 0
  BY <1>9, <1>10
<1>13. ASSUME NEW x \in taken, x.ts >= OpenFrom(t)
       PROVE  IsRolled(x, new, k) /\ new.pipe # NewPipeline /\ x.ts <= new.pipe.prev.ts
  <2>1. PICK i \in 1 .. n : seq[i] = x
    BY <1>1, <1>13
  <2>2. n # 0
    BY <1>1, <2>1
  <2>3. x.ts <= seq[n].ts
    <3>1. CASE i = n
      BY <1>2, <2>1, <3>1
    <3>2. CASE i # n
      <4>1. i < n
        BY <1>1, <3>2
      <4>2. seq[i].ts < seq[n].ts
        BY <1>1, <1>11, <2>2, <4>1
      <4>3. seq[n].ts \in Nat /\ x.ts \in Nat
        BY <1>2, <1>11, <2>2
      <4> QED
        BY <2>1, <4>2, <4>3
    <3> QED
      BY <3>1, <3>2
  <2> QED
    BY <1>9, <1>11, <2>1, <2>2, <2>3
<1> QED
  BY <1>7, <1>9, <1>11, <1>12, <1>13 DEF new, db

\* A start drops what was open; where that leaves a gap, the property says so.
LEMMA StartKeepsRollup ==
    ASSUME RollInv, NEW t \in Nat, StartCollector(t), LoadoutInv'
    PROVE  RollInv'
<1> DEFINE new == Replayed(t)
           k == RawFrom'
<1>1. /\ ~alive /\ t > now /\ now' = t /\ alive' = TRUE /\ started_at' = t
      /\ starts' = starts \cup {t} /\ taken' = taken /\ samples' = samples
      /\ pipeline' = new.pipe /\ rows' = new.rows /\ gatelog' = new.gatelog
      /\ backfill' = IF backfill.owed
                     THEN [backfill EXCEPT !.pipe = NewPipeline, !.from = 0, !.until = OpenFrom(t)]
                     ELSE backfill
      /\ gaps' = IF starts = {} THEN gaps
                 ELSE gaps \cup {[start |-> t,
                                  pushed |-> IF pipeline.prev.ts = None THEN started_at
                                             ELSE pipeline.prev.ts]}
  BY DEF StartCollector, StartTiers
<1>2. /\ now \in Nat /\ started_at \in Nat /\ starts \subseteq Nat /\ KeepRaw \in Nat /\ RawFrom \in Int
      /\ (\A x \in taken : x \in Readings /\ x.ts \in Nat /\ x.ts <= now)
      /\ backfill.pipe \in Pipes /\ backfill.from \in Nat /\ backfill.until \in Nat
      /\ backfill.owed \in BOOLEAN
      /\ backfill \in [owed: BOOLEAN, pipe: Pipes, from: Nat, until: Nat]
  BY RollTypes DEF TierType
<1>3. k = t - KeepRaw /\ k \in Int /\ RawFrom <= k
  BY <1>1, <1>2 DEF RawFrom
<1>4. /\ Apart(taken) /\ SamplesStay /\ StartsStand /\ TiersStand /\ PipelineStands /\ BackfillStands
      /\ AllAreRolled
  BY DEF RollInv
<1>5. /\ DbOf(new, taken, starts', k) /\ Carries(Tables(NewPipeline), new, taken, k)
      /\ \A x \in taken : x.ts >= OpenFrom(t) =>
             IsRolled(x, new, k) /\ new.pipe # NewPipeline /\ x.ts <= new.pipe.prev.ts
      /\ new.pipe # NewPipeline => new.pipe.prev.ts >= OpenFrom(t)
  <2>1. t \in starts' /\ starts \subseteq starts'
    BY <1>1
  <2> HIDE DEF new, k
  <2>2. LET db == Replayed(t)
        IN  /\ DbOf(db, taken, starts', k) /\ Carries(Tables(NewPipeline), db, taken, k)
            /\ \A x \in taken : x.ts >= OpenFrom(t) =>
                   IsRolled(x, db, k) /\ db.pipe # NewPipeline /\ x.ts <= db.pipe.prev.ts
            /\ db.pipe # NewPipeline => db.pipe.prev.ts >= OpenFrom(t)
    BY <1>1, <1>3, <2>1, ReplayStands
  <2> QED
    BY <2>2 DEF new
<1> HIDE DEF new
<1>6. /\ OpenFrom(t) \in Nat /\ OpenFrom(t) <= t /\ BucketOf(TenMinutes, OpenFrom(t)) = OpenFrom(t)
      /\ OpenFrom(started_at) <= OpenFrom(t) /\ OpenFrom(started_at) \in Nat
  <2>1. started_at <= t
    BY <1>1, <1>2, <1>4 DEF StartsStand
  <2>2. BucketOf(TenMinutes, started_at) <= BucketOf(TenMinutes, t)
    BY <1>2, <2>1, WidthsAre, BucketsAscend
  <2> QED
    BY <1>2, <2>2, OpenFromIs DEF OpenFrom
<1>7. SamplesStay'
  <2>1. \A x \in taken : x.ts >= k => x.ts >= RawFrom
    BY <1>2, <1>3
  <2> QED
    BY <1>1, <1>4, <2>1 DEF SamplesStay
<1>8. StartsStand'
  <2>1. IsFiniteSet(starts') /\ t \in starts'
    BY <1>1, <1>4, FS_AddElement DEF StartsStand
  <2>2. \A u \in starts' : u <= t
    BY <1>1, <1>2, <1>4 DEF StartsStand
  <2>3. started_at' = t /\ started_at' <= now' /\ starts' # {}
    BY <1>1, <2>1
  <2> QED
    BY <2>1, <2>2, <2>3 DEF StartsStand
<1>9. TiersStand'
  <2>2. PipeOf(backfill'.pipe, taken', starts', k)
    <3>1. CASE backfill.owed
      BY <1>1, <1>2, <3>1 DEF PipeOf
    <3>2. CASE ~backfill.owed
      <4>1. Wider(taken, starts, RawFrom, taken, starts', k)
        BY <1>1, <1>2, <1>3, <1>4 DEF Wider
      <4>2. PipeOf(backfill.pipe, taken, starts, RawFrom)
        BY <1>4 DEF TiersStand
      <4> QED
        BY <1>1, <1>2, <3>2, <4>1, <4>2, PipeStays
    <3> QED
      BY <3>1, <3>2
  <2>3. DbOf(Tables(pipeline)', taken', starts', k)
    BY <1>1, <1>5 DEF DbOf, Tables
  <2> QED
    BY <2>2, <2>3 DEF TiersStand
<1>10. PipelineStands'
  BY <1>1, <1>5 DEF PipelineStands
<1> HIDE DEF k
<1>11. ASSUME NEW x \in taken, NEW w \in Widths, InARow(x, w, rows)
       PROVE  InARow(x, w, rows') \/ x.ts < k
  BY <1>1, <1>5, <1>11 DEF Carries, Tables
<1>12. ASSUME NEW x \in taken, NEW w \in Widths, NEW pipe, Reached(x, w, pipe)
       PROVE  \/ x.ts < k \/ BucketOf(w, x.ts) < now' - KeepOf(w)
              \/ InARow(x, w, rows') \/ IsOpenIn(x, w, pipe)
  <2>1. now' \in Nat /\ now <= now'
    BY <1>1, <1>2
  <2>2. InARow(x, w, rows) => InARow(x, w, rows') \/ x.ts < RawFrom' \/ BucketOf(w, x.ts) < now' - KeepOf(w)
    BY <1>11 DEF k
  <2> QED
    BY <1>12, <2>1, <2>2, ReachedOn DEF k
<1>13. BackfillStands'
  <2>1. CASE backfill.owed
    <3>1. /\ backfill'.owed /\ backfill'.pipe = NewPipeline /\ backfill'.from = 0
          /\ backfill'.until = OpenFrom(t)
      BY <1>1, <1>2, <2>1
    <3>2. BucketOf(TenMinutes, 0) = 0
      <4>1. BucketOf(TenMinutes, 0) \in Nat /\ BucketOf(TenMinutes, 0) <= 0
        BY WidthsAre, BucketIs
      <4> QED
        BY <4>1
    <3>3. \A x \in taken : ~(x.ts < 0)
      BY <1>2
    <3>4. t \in starts'
      BY <1>1
    <3> QED
      BY <1>1, <1>6, <3>1, <3>2, <3>3, <3>4 DEF BackfillStands
  <2>2. CASE ~backfill.owed
    <3>1. backfill' = backfill
      BY <1>1, <2>2
    <3>2. backfill.until <= OpenFrom(t)
      BY <1>2, <1>4, <1>6 DEF BackfillStands
    <3>3. \A x \in taken : x.ts < RawFrom => x.ts < k
      BY <1>2, <1>3
    <3> QED
      BY <1>1, <1>4, <2>2, <3>1, <3>2, <3>3 DEF BackfillStands, k
  <2> QED
    BY <2>1, <2>2
<1>14. ASSUME NEW x \in taken, NEW w \in Widths, x.ts >= OpenFrom(t)
       PROVE  x.ts < k \/ InARow(x, w, rows') \/ IsOpenIn(x, w, pipeline')
  BY <1>1, <1>5, <1>14 DEF IsRolled
<1>15. ASSUME NEW x \in taken, NEW w \in Widths, x.ts < OpenFrom(t), starts = {}
       PROVE  NotYetBackfilled(x)'
  <2>1. starts' = {t} /\ backfill'.owed = backfill.owed
    BY <1>1, <1>2, <1>15
  <2>2. backfill'.owed \/ backfill'.until = 0
    BY <1>1, <1>4, <1>15, <2>1 DEF StartsStand
  <2>3. \A p \in taken : ~(p.ts < 0)
    BY <1>2
  <2>4. x.ts < BucketOf(TenMinutes, t) /\ t <= t
    BY <1>15 DEF OpenFrom
  <2> QED
    BY <1>1, <2>1, <2>2, <2>3, <2>4 DEF NotYetBackfilled
<1>16. ASSUME NEW x \in taken, NEW w \in Widths, x.ts < OpenFrom(t), starts # {}
       PROVE  \/ x.ts < k \/ BucketOf(w, x.ts) < now' - KeepOf(w)
              \/ InARow(x, w, rows') \/ LostInAGap(w, x)' \/ NotYetBackfilled(x)'
  <2> DEFINE pushed == IF pipeline.prev.ts = None THEN started_at ELSE pipeline.prev.ts
  <2>1. PipeOf(pipeline, taken, starts, RawFrom)
    BY <1>4 DEF TiersStand, DbOf, Tables
  <2>2. /\ pipeline = NewPipeline => pushed = started_at /\ \A v \in Widths : pipeline.rollers[v] = NoBucket
        /\ pipeline # NewPipeline => pushed = pipeline.prev.ts /\ pushed \in Nat
    <3>1. /\ pipeline = NewPipeline <=> pipeline.prev = NoSample
          /\ pipeline = NewPipeline => \A v \in Widths : pipeline.rollers[v] = NoBucket
          /\ pipeline # NewPipeline => pipeline.prev.ts \in Nat
      BY <1>4, <2>1, PipesAre
    <3> QED
      BY <3>1, NoSampleIs DEF None
  <2>3. ASSUME x.ts >= BucketOf(w, pushed) PROVE LostInAGap(w, x)'
    <3>1. [start |-> t, pushed |-> pushed] \in gaps'
      BY <1>1, <1>16
    <3> HIDE DEF pushed
    <3> QED
      BY <1>16, <2>3, <3>1 DEF LostInAGap, OpenFrom
  <2>4. pushed \in Nat
    BY <1>2, <2>2
  <2> HIDE DEF pushed
  <2>5. BucketOf(w, pushed) \in Nat /\ BucketOf(w, pushed) <= pushed
    BY <2>4, WidthsAre, BucketIs
  <2>6. CASE Reached(x, w, pipeline)
    <3>1. CASE IsOpenIn(x, w, pipeline)
      <4>1. pipeline.rollers[w].bucket = BucketOf(w, x.ts) /\ BucketOf(w, x.ts) <= x.ts
            /\ BucketOf(w, x.ts) \in Nat
        BY <1>2, <3>1, WidthsAre, BucketIs DEF IsOpenIn
      <4>2. pipeline # NewPipeline
        BY <2>2, <4>1 DEF NoBucket, None
      <4>3. pipeline.rollers[w].bucket = BucketOf(w, pushed)
        BY <2>1, <2>2, <4>2 DEF PipeOf, OpenOf
      <4>4. x.ts >= BucketOf(w, pushed)
        BY <1>2, <4>1, <4>3
      <4> QED
        BY <2>3, <4>4
    <3>2. CASE ~IsOpenIn(x, w, pipeline)
      BY <1>12, <2>6, <3>2
    <3> QED
      BY <3>1, <3>2
  <2>7. CASE LostInAGap(w, x)
    <3>1. gaps \subseteq gaps'
      BY <1>1
    <3> QED
      BY <2>7, <3>1 DEF LostInAGap
  <2>8. CASE NotYetBackfilled(x)
    <3>1. PICK u \in starts : x.ts < BucketOf(TenMinutes, u) /\ \A v \in starts : u <= v
      BY <2>8 DEF NotYetBackfilled
    <3>2. u \in starts' /\ \A v \in starts' : u <= v
      BY <1>1, <1>2, <1>4, <3>1 DEF StartsStand
    <3>3. backfill'.owed = backfill.owed /\ (~backfill.owed => backfill'.until = backfill.until)
      BY <1>1, <1>2
    <3> QED
      BY <1>1, <2>8, <3>1, <3>2, <3>3 DEF NotYetBackfilled
  <2>9. CASE Unpushed(x)
    <3>1. x.ts >= pushed
      BY <1>2, <2>2, <2>4, <2>9 DEF Unpushed
    <3>2. x.ts >= BucketOf(w, pushed)
      BY <1>2, <2>4, <2>5, <3>1
    <3> QED
      BY <2>3, <3>2
  <2> QED
    BY <1>4, <1>16, <2>6, <2>7, <2>8, <2>9 DEF AllAreRolled
<1>17. AllAreRolled'
  <2>1. ASSUME NEW x \in taken, NEW w \in Widths
        PROVE  \/ x.ts < k \/ BucketOf(w, x.ts) < now' - KeepOf(w)
               \/ InARow(x, w, rows') \/ IsOpenIn(x, w, pipeline')
               \/ LostInAGap(w, x)' \/ NotYetBackfilled(x)'
    <3>1. x.ts >= OpenFrom(t) \/ x.ts < OpenFrom(t)
      BY <1>2, <1>6
    <3> QED
      BY <1>14, <1>15, <1>16, <3>1
  <2> QED
    BY <1>1, <2>1 DEF AllAreRolled, Reached, k
<1> QED
  BY <1>1, <1>4, <1>7, <1>8, <1>9, <1>10, <1>13, <1>17 DEF RollInv

\* A chunk of the back-fill ends with ten minutes.
LEMMA ChunkEnds ==
    ASSUME NEW x \in Nat, NEW until \in Nat, BucketOf(TenMinutes, until) = until
    PROVE  LET end == BucketOf(Chunk, x) + Chunk
               to == IF end < until THEN end ELSE until
           IN  to \in Nat /\ to <= until /\ BucketOf(TenMinutes, to) = to /\ x < end
<1>1. Chunk \in Nat \ {0} /\ Chunk % TenMinutes = 0 /\ TenMinutes \in Nat \ {0}
  BY TiersAssumption, WidthsAre
<1> DEFINE q == Chunk \div TenMinutes
           end == BucketOf(Chunk, x) + Chunk
<1>2. q \in Nat /\ Chunk = TenMinutes * q
  BY <1>1
<1>3. PICK k \in Nat : BucketOf(Chunk, x) = Chunk * k
  BY <1>1, BucketIs
<1>4. BucketOf(Chunk, x) \in Nat /\ x < BucketOf(Chunk, x) + Chunk
  BY <1>1, BucketIs
<1>5. end \in Nat /\ x < end
  BY <1>1, <1>4
<1>6. end = TenMinutes * (q * (k + 1)) /\ q * (k + 1) \in Nat
  <2> HIDE DEF q
  <2>1. end = Chunk * k + Chunk
    BY <1>3
  <2>2. Chunk * k + Chunk = Chunk * (k + 1)
    BY <1>1
  <2>3. (TenMinutes * q) * (k + 1) = TenMinutes * (q * (k + 1))
    BY <1>1, <1>2
  <2>4. q * (k + 1) \in Nat
    BY <1>2
  <2> QED
    BY <1>2, <2>1, <2>2, <2>3, <2>4
<1>7. BucketOf(TenMinutes, end) = end
  <2> HIDE DEF end, q
  <2> DEFINE j == q * (k + 1)
  <2>1. j \in Nat /\ end = TenMinutes * j
    BY <1>6
  <2> HIDE DEF j
  <2>2. TenMinutes * j <= end /\ end < (TenMinutes * j) + TenMinutes
    BY <1>1, <1>5, <2>1
  <2> QED
    BY <1>1, <1>5, <2>1, <2>2, BucketIsTheOne
<1> HIDE DEF end
<1>8. (IF end < until THEN end ELSE until) \in Nat /\ (IF end < until THEN end ELSE until) <= until
  BY <1>5
<1>9. BucketOf(TenMinutes, IF end < until THEN end ELSE until) = IF end < until THEN end ELSE until
  BY <1>7
<1> QED
  BY <1>5, <1>8, <1>9 DEF end

\* The samples of a chunk, and where it ends.
IsChunk(part, to) ==
    /\ part \in Seq(Readings) /\ Len(part) \in Nat \ {0}
    /\ to \in Nat /\ to <= backfill.until /\ BucketOf(TenMinutes, to) = to
    /\ \A i \in 1 .. Len(part) :
           /\ part[i] \in taken /\ part[i] \in ToSet(samples)
           /\ backfill.from <= part[i].ts /\ part[i].ts < to
    /\ \A i, j \in 1 .. Len(part) : i < j => part[i].ts < part[j].ts
    /\ \A x \in ToSet(samples) : backfill.from <= x.ts /\ x.ts < to => \E i \in 1 .. Len(part) : part[i] = x

\* A step of the back-fill takes such a chunk, and ends where the chunk ends.
LEMMA ChunkIs ==
    ASSUME RollInv, BackfillChunk
    PROVE  \E part, to :
               /\ IsChunk(part, to)
               /\ rows' = PushAll(Tables(backfill.pipe), part).rows
               /\ gatelog' = PushAll(Tables(backfill.pipe), part).gatelog
               /\ backfill' = [backfill EXCEPT !.pipe = PushAll(Tables(backfill.pipe), part).pipe,
                                               !.from = to]
               /\ backfill.owed /\ UNCHANGED <<samples, pipeline, last_prune>>
<1> DEFINE left == Between(backfill.from, backfill.until)
           end == BucketOf(Chunk, left[1].ts) + Chunk
           to == IF end < backfill.until THEN end ELSE backfill.until
           part == Between(left[1].ts, to)
<1>1. /\ rows' = PushAll(Tables(backfill.pipe), part).rows
      /\ gatelog' = PushAll(Tables(backfill.pipe), part).gatelog
      /\ backfill' = [backfill EXCEPT !.pipe = PushAll(Tables(backfill.pipe), part).pipe, !.from = to]
      /\ backfill.owed /\ UNCHANGED <<samples, pipeline, last_prune>> /\ left # <<>>
  BY DEF BackfillChunk
<1>2. /\ samples \in Seq(Readings) /\ TableStands /\ backfill.from \in Nat /\ backfill.until \in Nat
      /\ BucketOf(TenMinutes, backfill.until) = backfill.until
      /\ \A x \in taken : x \in Readings /\ x.ts \in Nat
  BY RollTypes DEF RollInv, BackfillStands
<1>3. /\ left \in Seq(Readings) /\ Len(left) \in Nat
      /\ \A x : x \in ToSet(left) <=> x \in ToSet(samples) /\ x.ts >= backfill.from /\ x.ts < backfill.until
      /\ \A x \in ToSet(left) : \E i \in 1 .. Len(left) : left[i] = x
      /\ \A i \in 1 .. Len(left) : left[i] \in ToSet(left) /\ left[i] \in taken
      /\ \A i, j \in 1 .. Len(left) : i < j => left[i].ts < left[j].ts
      /\ left = <<>> <=> Len(left) = 0
  BY <1>2, BetweenIs
<1>4. /\ part \in Seq(Readings) /\ Len(part) \in Nat
      /\ \A x : x \in ToSet(part) <=> x \in ToSet(samples) /\ x.ts >= left[1].ts /\ x.ts < to
      /\ \A x \in ToSet(part) : \E i \in 1 .. Len(part) : part[i] = x
      /\ \A i \in 1 .. Len(part) : part[i] \in ToSet(part) /\ part[i] \in taken
      /\ \A i, j \in 1 .. Len(part) : i < j => part[i].ts < part[j].ts
      /\ part = <<>> <=> Len(part) = 0
  BY <1>2, BetweenIs
<1> HIDE DEF left
<1>5. 1 \in 1 .. Len(left) /\ left[1] \in ToSet(left) /\ left[1] \in taken /\ left[1].ts \in Nat
  BY <1>1, <1>2, <1>3
<1>6. /\ left[1] \in ToSet(samples) /\ left[1].ts >= backfill.from /\ left[1].ts < backfill.until
  BY <1>3, <1>5
<1>7. to \in Nat /\ to <= backfill.until /\ BucketOf(TenMinutes, to) = to /\ left[1].ts < end
  BY <1>2, <1>5, ChunkEnds
<1>8. left[1].ts < to
  BY <1>6, <1>7
<1> HIDE DEF to, end
<1>9. left[1] \in ToSet(part)
  BY <1>4, <1>5, <1>6, <1>8
<1> HIDE DEF part
<1>10. Len(part) # 0
  BY <1>4, <1>9
<1>11. ASSUME NEW i \in 1 .. Len(part)
       PROVE  /\ part[i] \in taken /\ part[i] \in ToSet(samples)
              /\ backfill.from <= part[i].ts /\ part[i].ts < to
  <2>1. part[i] \in taken /\ part[i] \in ToSet(samples) /\ part[i].ts >= left[1].ts /\ part[i].ts < to
    BY <1>4
  <2> QED
    BY <1>2, <1>5, <1>6, <2>1
<1>12. ASSUME NEW x \in ToSet(samples), backfill.from <= x.ts, x.ts < to
       PROVE  \E i \in 1 .. Len(part) : part[i] = x
  <2>1. x.ts \in Nat
    BY <1>2, MembersAre DEF Readings
  <2>2. x \in ToSet(left)
    BY <1>2, <1>3, <1>7, <1>12, <2>1
  <2>3. PICK i \in 1 .. Len(left) : left[i] = x
    BY <1>3, <2>2
  <2>4. left[1].ts <= x.ts
    <3>1. i = 1 => left[1].ts <= x.ts
      BY <1>5, <2>3
    <3>2. i # 1 => 1 < i
      BY <1>3
    <3>3. 1 < i => left[1].ts < left[i].ts
      BY <1>3, <1>5
    <3> QED
      BY <1>5, <2>1, <2>3, <3>1, <3>2, <3>3
  <2>5. x \in ToSet(part)
    BY <1>4, <1>5, <1>12, <2>1, <2>4
  <2> QED
    BY <1>4, <2>5
<1>13. IsChunk(part, to)
  BY <1>4, <1>7, <1>10, <1>11, <1>12 DEF IsChunk
<1> QED
  BY <1>1, <1>13

\* Each sample of a chunk follows the one before it.
LEMMA ChunkChains ==
    ASSUME RollInv, NEW part, NEW to, IsChunk(part, to)
    PROVE  Chain(backfill.pipe.prev, part, taken, starts, RawFrom)
<1> DEFINE pipe == backfill.pipe
<1>1. /\ part \in Seq(Readings) /\ Len(part) \in Nat
      /\ \A i \in 1 .. Len(part) :
             /\ part[i] \in taken /\ part[i] \in ToSet(samples)
             /\ backfill.from <= part[i].ts /\ part[i].ts < to
      /\ \A i, j \in 1 .. Len(part) : i < j => part[i].ts < part[j].ts
      /\ \A x \in ToSet(samples) : backfill.from <= x.ts /\ x.ts < to => \E i \in 1 .. Len(part) : part[i] = x
      /\ to \in Nat
  BY DEF IsChunk
<1>2. /\ \A x \in taken : x.ts \in Nat /\ x \in Readings
      /\ backfill.from \in Nat /\ RawFrom \in Int /\ Apart(taken) /\ SamplesStay /\ BackfillStands
  BY RollTypes DEF RollInv
<1>3. /\ pipe.prev \in taken \cup {NoSample} /\ (pipe = NewPipeline <=> pipe.prev = NoSample)
      /\ pipe # NewPipeline => pipe.prev \in taken /\ pipe.prev.ts \in Nat
  BY <1>2, PipesAre DEF RollInv, TiersStand
<1>4. /\ BucketOf(TenMinutes, backfill.from) = backfill.from
      /\ pipe = NewPipeline => backfill.from = 0
      /\ pipe # NewPipeline => pipe.prev.ts < backfill.from
      /\ pipe # NewPipeline =>
             \A x \in taken : pipe.prev.ts < x.ts /\ x.ts < backfill.from => x.ts < RawFrom
  BY <1>2 DEF BackfillStands
<1> HIDE DEF pipe
<1>5. ASSUME NEW i \in 1 .. Len(part), NEW x \in Prior(taken, part[i]), i # 1 => part[i - 1].ts < x.ts,
             i = 1 => backfill.from <= x.ts
      PROVE  x.ts < RawFrom /\ i = 1
  <2>1. x \in taken /\ x.ts \in Nat /\ x.ts < part[i].ts /\ part[i].ts < to /\ part[i].ts \in Nat
    BY <1>1, <1>2 DEF Prior
  <2>2. i # 1 => i - 1 \in 1 .. Len(part)
    BY <1>1
  <2>3. backfill.from <= x.ts
    <3>1. CASE i = 1
      BY <1>5, <3>1
    <3>2. CASE i # 1
      <4>1. backfill.from <= part[i - 1].ts /\ part[i - 1].ts \in Nat
        BY <1>1, <1>2, <2>2, <3>2
      <4> QED
        BY <1>2, <1>5, <2>1, <3>2, <4>1
    <3> QED
      BY <3>1, <3>2
  <2>4. ASSUME x \in ToSet(samples) PROVE FALSE
    <3>1. PICK j \in 1 .. Len(part) : part[j] = x
      BY <1>1, <2>1, <2>3, <2>4
    <3>2. j < i
      <4>1. j = i => FALSE
        BY <2>1, <3>1
      <4>2. i < j => part[i].ts < part[j].ts
        BY <1>1
      <4> QED
        BY <2>1, <3>1, <4>1, <4>2
    <3>3. CASE i = 1
      BY <3>2, <3>3
    <3>4. CASE i # 1
      <4>1. j = i - 1 \/ j < i - 1
        BY <1>1, <3>2, <3>4
      <4>2. j < i - 1 => part[j].ts < part[i - 1].ts
        BY <1>1, <2>2, <3>4
      <4>3. part[i - 1].ts \in Nat /\ part[i - 1].ts < x.ts
        BY <1>1, <1>2, <1>5, <2>2, <3>4
      <4> QED
        BY <2>1, <3>1, <4>1, <4>2, <4>3
    <3> QED
      BY <3>3, <3>4
  <2>5. x.ts < RawFrom
    BY <1>2, <2>1, <2>4 DEF SamplesStay
  <2>6. i = 1
    <3>1. SUFFICES ASSUME i # 1 PROVE FALSE
      OBVIOUS
    <3>2. part[i - 1] \in ToSet(samples) /\ part[i - 1].ts \in Nat /\ part[i - 1].ts < x.ts
      BY <1>1, <1>2, <1>5, <2>2, <3>1
    <3>3. part[i - 1].ts <= x.ts
      BY <2>1, <3>2
    <3>4. x \in ToSet(samples)
      BY <1>2, <2>1, <3>2, <3>3 DEF SamplesStay
    <3> QED
      BY <2>4, <3>4
  <2> QED
    BY <2>5, <2>6
<1>6. ASSUME NEW i \in 1 .. Len(part)
      PROVE  Follows(IF i = 1 THEN pipe.prev ELSE part[i - 1], part[i], taken, starts, RawFrom)
  <2> DEFINE s == part[i]
  <2>1. s \in taken /\ s.ts \in Nat /\ s \in Readings /\ backfill.from <= s.ts
    BY <1>1, <1>2
  <2>2. CASE i = 1 /\ pipe = NewPipeline
    <3>1. \A x \in Prior(taken, s) : x.ts < RawFrom
      <4>1. \A x \in Prior(taken, s) : backfill.from <= x.ts
        BY <1>2, <1>4, <2>2 DEF Prior
      <4> QED
        BY <1>5, <2>2, <4>1
    <3>2. s \in CutOf(taken, starts, RawFrom)
      <4>1. CASE Prior(taken, s) = {}
        BY <2>1, <4>1 DEF CutOf
      <4>2. CASE Prior(taken, s) # {}
        <5>1. Newest(Prior(taken, s)) \in Prior(taken, s)
          BY <1>2, <2>1, <4>2, NewestIs
        <5>2. s \in Bereft(taken, RawFrom)
          BY <2>1, <3>1, <4>2, <5>1 DEF Bereft
        <5> QED
          BY <2>1, <5>2 DEF CutOf
      <4> QED
        BY <4>1, <4>2
    <3> QED
      BY <1>3, <2>1, <2>2, <3>1, <3>2 DEF Follows
  <2>3. CASE i = 1 /\ pipe # NewPipeline
    <3>1. pipe.prev # NoSample /\ pipe.prev.ts \in Nat /\ pipe.prev.ts < backfill.from
      BY <1>3, <1>4, <2>3
    <3>2. pipe.prev.ts < s.ts
      BY <1>2, <2>1, <3>1
    <3>3. BucketOf(TenMinutes, pipe.prev.ts) # BucketOf(TenMinutes, s.ts)
      <4>1. TenMinutes \in Nat \ {0}
        BY WidthsAre
      <4>2. BucketOf(TenMinutes, pipe.prev.ts) <= pipe.prev.ts /\ BucketOf(TenMinutes, pipe.prev.ts) \in Nat
        BY <3>1, <4>1, BucketIs
      <4>3. /\ BucketOf(TenMinutes, backfill.from) <= BucketOf(TenMinutes, s.ts)
            /\ BucketOf(TenMinutes, s.ts) \in Nat
        BY <1>2, <2>1, <4>1, BucketsAscend
      <4> QED
        BY <1>2, <1>4, <3>1, <4>2, <4>3
    <3>4. ASSUME NEW x \in Prior(taken, s), pipe.prev.ts < x.ts PROVE x.ts < RawFrom
      <4>1. x \in taken /\ x.ts \in Nat
        BY <1>2 DEF Prior
      <4>2. CASE x.ts < backfill.from
        BY <1>4, <2>3, <3>4, <4>1, <4>2
      <4>3. CASE backfill.from <= x.ts
        BY <1>5, <2>3, <4>3
      <4> QED
        BY <1>2, <4>1, <4>2, <4>3
    <3> QED
      BY <2>1, <2>3, <3>1, <3>2, <3>3, <3>4 DEF Follows
  <2>4. CASE i # 1
    <3>1. i - 1 \in 1 .. Len(part) /\ i - 1 < i
      BY <1>1, <2>4
    <3>2. part[i - 1].ts < s.ts /\ part[i - 1] # NoSample
      <4>1. part[i - 1].ts \in Nat
        BY <1>1, <1>2, <3>1
      <4> QED
        BY <1>1, <3>1, <4>1, NoSampleIs DEF None
    <3>3. \A x \in Prior(taken, s) : ~(part[i - 1].ts < x.ts)
      BY <1>5, <2>4
    <3> QED
      BY <2>1, <2>4, <3>2, <3>3 DEF Follows
  <2> QED
    BY <2>2, <2>3, <2>4
<1> QED
  BY <1>6 DEF Chain, pipe

\* A chunk of the back-fill keeps it all ...
LEMMA ChunkKeepsRollup ==
    ASSUME RollInv, alive, BackfillChunk, LoadoutInv',
           UNCHANGED <<taken, starts, started_at, now, alive, gaps>>
    PROVE  RollInv'
<1>1. PICK part, to :
          /\ IsChunk(part, to)
          /\ rows' = PushAll(Tables(backfill.pipe), part).rows
          /\ gatelog' = PushAll(Tables(backfill.pipe), part).gatelog
          /\ backfill' = [backfill EXCEPT !.pipe = PushAll(Tables(backfill.pipe), part).pipe,
                                          !.from = to]
          /\ backfill.owed /\ UNCHANGED <<samples, pipeline, last_prune>>
  BY ChunkIs
<1> DEFINE db == Tables(backfill.pipe)
           new == PushAll(db, part)
           n == Len(part)
<1>2. /\ part \in Seq(Readings) /\ n \in Nat \ {0}
      /\ \A i \in 1 .. n :
             /\ part[i] \in taken /\ part[i] \in ToSet(samples)
             /\ backfill.from <= part[i].ts /\ part[i].ts < to
      /\ \A i, j \in 1 .. n : i < j => part[i].ts < part[j].ts
      /\ \A x \in ToSet(samples) : backfill.from <= x.ts /\ x.ts < to => \E i \in 1 .. n : part[i] = x
      /\ to \in Nat /\ to <= backfill.until /\ BucketOf(TenMinutes, to) = to
  BY <1>1 DEF IsChunk
<1>3. /\ \A x \in taken : x.ts \in Nat /\ x \in Readings
      /\ backfill.from \in Nat /\ backfill.until \in Nat /\ RawFrom \in Int /\ now \in Nat
      /\ Apart(taken) /\ SamplesStay /\ StartsStand
      /\ TiersStand /\ PipelineStands /\ BackfillStands /\ AllAreRolled
      /\ backfill.pipe \in Pipes /\ Tables(pipeline) \in Dbs
      /\ backfill \in [owed: BOOLEAN, pipe: Pipes, from: Nat, until: Nat]
  BY RollTypes DEF RollInv, TierType
<1>4. db \in Dbs
  BY <1>3 DEF Dbs, Tables
<1>5. DbOf(db, taken, starts, RawFrom)
  BY <1>3 DEF TiersStand, DbOf, Tables
<1>6. Chain(db.pipe.prev, part, taken, starts, RawFrom)
  <2>1. db.pipe = backfill.pipe
    BY DEF Tables
  <2> QED
    BY <1>1, <2>1, ChunkChains
<1>7. rows' = new.rows /\ gatelog' = new.gatelog
  BY <1>1
<1>8. /\ backfill'.owed /\ backfill'.pipe = new.pipe /\ backfill'.from = to
      /\ backfill'.until = backfill.until
  BY <1>1, <1>3
<1>9. /\ \A x, w : InARow(x, w, db.rows) <=> InARow(x, w, rows)
      /\ \A x, w : IsOpenIn(x, w, db.pipe) <=> IsOpenIn(x, w, backfill.pipe)
  BY DEF Tables
<1> HIDE DEF db
<1>10. LET all == PushAll(db, part)
       IN  /\ all \in Dbs /\ DbOf(all, taken, starts, RawFrom) /\ Carries(db, all, taken, RawFrom)
           /\ all.pipe.prev = IF Len(part) = 0 THEN db.pipe.prev ELSE part[Len(part)]
           /\ \A i \in 1 .. Len(part) : IsRolled(part[i], all, RawFrom)
  BY <1>2, <1>3, <1>4, <1>5, <1>6, PushAllStands
<1> HIDE DEF new
<1>11. /\ DbOf(new, taken, starts, RawFrom) /\ Carries(db, new, taken, RawFrom)
       /\ new.pipe.prev = part[n]
       /\ \A i \in 1 .. n : IsRolled(part[i], new, RawFrom)
  BY <1>2, <1>10 DEF new
<1>12. RawFrom' = RawFrom
  BY DEF RawFrom
<1>13. n \in 1 .. n /\ part[n] \in taken /\ part[n].ts < to /\ part[n].ts \in Nat
  BY <1>2, <1>3
<1>14. new.pipe # NewPipeline
  <2>1. PipeOf(new.pipe, taken, starts, RawFrom)
    BY <1>11 DEF DbOf
  <2>2. new.pipe.prev # NoSample
    BY <1>3, <1>11, <1>13, NoSampleIs DEF None
  <2> QED
    BY <1>3, <2>1, <2>2, PipesAre
<1>15. ASSUME NEW x \in taken, NEW w \in Widths, InARow(x, w, rows)
       PROVE  InARow(x, w, rows') \/ x.ts < RawFrom
  BY <1>7, <1>9, <1>11, <1>15 DEF Carries
<1>16. ASSUME NEW x \in taken, NEW w \in Widths, IsOpenIn(x, w, backfill.pipe)
       PROVE  InARow(x, w, rows') \/ IsOpenIn(x, w, new.pipe) \/ x.ts < RawFrom
  BY <1>7, <1>9, <1>11, <1>16 DEF Carries
<1>17. TiersStand'
  <2>1. DbOf(Tables(pipeline)', taken', starts', RawFrom')
    BY <1>1, <1>3, <1>7, <1>11, <1>12 DEF DbOf, Tables, TiersStand
  <2>2. PipeOf(backfill'.pipe, taken', starts', RawFrom')
    BY <1>8, <1>11, <1>12 DEF DbOf
  <2> QED
    BY <2>1, <2>2 DEF TiersStand
<1>18. BackfillStands'
  <2>1. ASSUME NEW x \in taken, new.pipe.prev.ts < x.ts, x.ts < to PROVE x.ts < RawFrom
    <3>1. x \notin ToSet(samples)
      <4> SUFFICES ASSUME x \in ToSet(samples) PROVE FALSE
        OBVIOUS
      <4>1. x.ts \in Nat /\ part[n].ts < x.ts /\ backfill.from <= part[n].ts
        BY <1>2, <1>3, <1>11, <1>13, <2>1
      <4>2. PICK i \in 1 .. n : part[i] = x
        BY <1>2, <1>3, <1>13, <2>1, <4>1
      <4>3. i = n \/ i < n
        BY <1>2
      <4>4. i < n => part[i].ts < part[n].ts
        BY <1>2, <1>13
      <4> QED
        BY <1>13, <4>1, <4>2, <4>3, <4>4
    <3> QED
      BY <1>3, <3>1 DEF SamplesStay
  <2>2. ASSUME NEW x \in taken, NEW w \in Widths, x.ts < to
        PROVE  \/ x.ts < RawFrom \/ BucketOf(w, x.ts) < now - KeepOf(w)
               \/ InARow(x, w, rows') \/ IsOpenIn(x, w, new.pipe)
    <3>1. CASE x.ts < backfill.from
      <4>1. Reached(x, w, backfill.pipe)
        BY <1>1, <1>3, <3>1 DEF BackfillStands
      <4> QED
        BY <1>15, <1>16, <4>1 DEF Reached
    <3>2. CASE backfill.from <= x.ts
      <4>1. CASE x \in ToSet(samples)
        <5>1. PICK i \in 1 .. n : part[i] = x
          BY <1>2, <2>2, <3>2, <4>1
        <5> QED
          BY <1>7, <1>11, <5>1 DEF IsRolled
      <4>2. CASE x \notin ToSet(samples)
        BY <1>3, <4>2 DEF SamplesStay
      <4> QED
        BY <4>1, <4>2
    <3> QED
      BY <1>3, <3>1, <3>2
  <2>3. /\ backfill'.from <= backfill'.until /\ backfill'.until <= OpenFrom(started_at)'
        /\ BucketOf(TenMinutes, backfill'.from) = backfill'.from
        /\ BucketOf(TenMinutes, backfill'.until) = backfill'.until
        /\ backfill'.owed /\ starts' # {} => \E t \in starts' : backfill'.until = OpenFrom(t)
    BY <1>1, <1>2, <1>3, <1>8 DEF BackfillStands, OpenFrom
  <2>4. backfill'.pipe # NewPipeline /\ backfill'.pipe.prev.ts < backfill'.from
    BY <1>8, <1>11, <1>13, <1>14
  <2> QED
    BY <1>8, <1>12, <2>1, <2>2, <2>3, <2>4 DEF BackfillStands, Reached
<1>19. AllAreRolled'
  <2>1. ASSUME starts # {}, NEW x \in taken, NEW w \in Widths
        PROVE  \/ x.ts < RawFrom \/ BucketOf(w, x.ts) < now - KeepOf(w)
               \/ InARow(x, w, rows') \/ IsOpenIn(x, w, pipeline)
               \/ LostInAGap(w, x)' \/ NotYetBackfilled(x)'
    <3>1. Reached(x, w, pipeline) \/ LostInAGap(w, x) \/ NotYetBackfilled(x)
      BY <1>3, <2>1 DEF AllAreRolled
    <3>2. LostInAGap(w, x) => LostInAGap(w, x)'
      BY DEF LostInAGap
    <3>3. NotYetBackfilled(x) => NotYetBackfilled(x)'
      BY <1>8 DEF NotYetBackfilled
    <3> QED
      BY <1>15, <3>1, <3>2, <3>3 DEF Reached
  <2> QED
    BY <1>1, <1>12, <2>1 DEF AllAreRolled, Reached
<1>20. SamplesStay' /\ StartsStand' /\ PipelineStands' /\ Apart(taken')
  BY <1>1, <1>3, <1>8, <1>12 DEF SamplesStay, StartsStand, PipelineStands
<1> QED
  BY <1>17, <1>18, <1>19, <1>20 DEF RollInv

\* ... and so does its end: all that it has not left as its last bucket is in a row.
LEMMA DoneKeepsRollup ==
    ASSUME RollInv, alive, BackfillDone, LoadoutInv',
           UNCHANGED <<taken, starts, started_at, now, alive, gaps>>
    PROVE  RollInv'
<1>1. /\ backfill.owed /\ Between(backfill.from, backfill.until) = <<>>
      /\ backfill' = [backfill EXCEPT !.owed = FALSE]
      /\ UNCHANGED <<samples, rows, gatelog, pipeline, last_prune>>
  BY DEF BackfillDone
<1>2. /\ \A x \in taken : x.ts \in Nat /\ x \in Readings
      /\ backfill.from \in Nat /\ backfill.until \in Nat /\ RawFrom \in Int /\ now \in Nat
      /\ starts \subseteq Nat
      /\ Apart(taken) /\ SamplesStay /\ StartsStand
      /\ TiersStand /\ PipelineStands /\ BackfillStands /\ AllAreRolled
      /\ samples \in Seq(Readings) /\ TableStands
      /\ backfill \in [owed: BOOLEAN, pipe: Pipes, from: Nat, until: Nat]
  BY RollTypes DEF RollInv, TierType
<1>3. /\ ~backfill'.owed /\ backfill'.pipe = backfill.pipe /\ backfill'.from = backfill.from
      /\ backfill'.until = backfill.until
  BY <1>1, <1>2
<1>4. RawFrom' = RawFrom
  BY DEF RawFrom
<1>5. ASSUME NEW x \in taken, backfill.from <= x.ts, x.ts < backfill.until PROVE x.ts < RawFrom
  <2>1. x \notin ToSet(samples)
    <3> SUFFICES ASSUME x \in ToSet(samples) PROVE FALSE
      OBVIOUS
    <3> DEFINE left == Between(backfill.from, backfill.until)
    <3>1. /\ \A y : y \in ToSet(left) <=> y \in ToSet(samples) /\ y.ts >= backfill.from /\ y.ts < backfill.until
          /\ \A y \in ToSet(left) : \E i \in 1 .. Len(left) : left[i] = y
          /\ left = <<>> <=> Len(left) = 0
      BY <1>2, BetweenIs
    <3> HIDE DEF left
    <3>2. Len(left) = 0
      BY <1>1, <3>1 DEF left
    <3>3. x \in ToSet(left)
      BY <1>2, <1>5, <3>1
    <3> QED
      BY <3>1, <3>2, <3>3
  <2> QED
    BY <1>2, <2>1 DEF SamplesStay
<1>6. ASSUME NEW x \in taken, NEW w \in Widths, NotYetBackfilled(x)
      PROVE  Reached(x, w, pipeline) \/ NotYetBackfilled(x)'
  <2>1. PICK u \in starts : x.ts < BucketOf(TenMinutes, u) /\ \A v \in starts : u <= v
    BY <1>6 DEF NotYetBackfilled
  <2>2. x.ts < backfill.until
    <3>1. PICK t \in starts : backfill.until = OpenFrom(t)
      BY <1>1, <1>2, <2>1 DEF BackfillStands
    <3>2. t \in Nat /\ u \in Nat /\ u <= t /\ TenMinutes \in Nat \ {0} /\ x.ts \in Nat
      BY <1>2, <2>1, <3>1, WidthsAre
    <3>3. /\ BucketOf(TenMinutes, u) \in Nat /\ BucketOf(TenMinutes, t) \in Nat
          /\ BucketOf(TenMinutes, u) <= BucketOf(TenMinutes, t)
      BY <3>2, BucketsAscend
    <3> QED
      BY <2>1, <3>1, <3>2, <3>3 DEF OpenFrom
  <2>3. CASE backfill.from <= x.ts
    BY <1>5, <2>2, <2>3 DEF Reached
  <2>4. CASE x.ts < backfill.from
    <3>1. Reached(x, w, backfill.pipe)
      BY <1>1, <1>2, <2>4 DEF BackfillStands
    <3>2. CASE ~IsOpenIn(x, w, backfill.pipe)
      BY <3>1, <3>2 DEF Reached
    <3>3. CASE IsOpenIn(x, w, backfill.pipe)
      <4> DEFINE prev == backfill.pipe.prev
      <4>1. BucketOf(w, x.ts) \in Nat
        BY <1>2, WidthsAre, BucketIs
      <4>2. PipeOf(backfill.pipe, taken, starts, RawFrom)
        BY <1>2 DEF TiersStand
      <4>3. backfill.pipe # NewPipeline
        <5>1. backfill.pipe = NewPipeline => backfill.pipe.rollers[w] = NoBucket
          BY <1>2, <4>2, PipesAre
        <5> QED
          BY <3>3, <4>1, <5>1 DEF IsOpenIn, NoBucket, None
      <4>4. prev \in taken /\ prev.ts \in Nat
        BY <1>2, <4>2, <4>3, PipesAre
      <4>5. OpenOf(backfill.pipe.rollers[w], w, prev, taken, starts, RawFrom)
        BY <4>2, <4>3 DEF PipeOf
      <4> HIDE DEF prev
      <4>6. x.ts <= prev.ts /\ BucketOf(w, x.ts) = BucketOf(w, prev.ts)
        BY <3>3, <4>5 DEF OpenOf, IsOpenIn
      <4>7. BucketOf(TenMinutes, x.ts) = BucketOf(TenMinutes, prev.ts)
        BY <1>2, <4>4, <4>6, SameBucketSameTen
      <4>8. ASSUME NEW p \in taken, p.ts > x.ts, p.ts < backfill.until, ~(x.ts < RawFrom)
            PROVE  BucketOf(TenMinutes, p.ts) = BucketOf(TenMinutes, x.ts)
        <5>1. p.ts \in Nat /\ x.ts \in Nat /\ TenMinutes \in Nat \ {0}
          BY <1>2, WidthsAre
        <5>2. CASE p.ts <= prev.ts
          <6>1. x.ts <= p.ts
            BY <4>8, <5>1
          <6>2. /\ BucketOf(TenMinutes, x.ts) <= BucketOf(TenMinutes, p.ts)
                /\ BucketOf(TenMinutes, x.ts) \in Nat /\ BucketOf(TenMinutes, p.ts) \in Nat
            BY <5>1, <6>1, BucketsAscend
          <6>3. BucketOf(TenMinutes, p.ts) <= BucketOf(TenMinutes, prev.ts)
            BY <4>4, <5>1, <5>2, BucketsAscend
          <6> QED
            BY <4>7, <6>2, <6>3
        <5>3. CASE prev.ts < p.ts
          <6>1. p.ts < RawFrom
            <7>1. CASE p.ts < backfill.from
              BY <1>2, <4>3, <5>3, <7>1 DEF BackfillStands, prev
            <7>2. CASE backfill.from <= p.ts
              BY <1>5, <4>8, <7>2
            <7> QED
              BY <1>2, <5>1, <7>1, <7>2
          <6> QED
            BY <1>2, <4>8, <5>1, <6>1
        <5> QED
          BY <4>4, <5>1, <5>2, <5>3
      <4>9. CASE x.ts < RawFrom
        BY <4>9 DEF Reached
      <4>10. CASE ~(x.ts < RawFrom)
        BY <1>3, <2>1, <4>8, <4>10 DEF NotYetBackfilled
      <4> QED
        BY <4>9, <4>10
    <3> QED
      BY <3>2, <3>3
  <2> QED
    BY <1>2, <2>3, <2>4
<1>7. AllAreRolled'
  <2>1. ASSUME starts # {}, NEW x \in taken, NEW w \in Widths
        PROVE  \/ x.ts < RawFrom \/ BucketOf(w, x.ts) < now - KeepOf(w)
               \/ InARow(x, w, rows) \/ IsOpenIn(x, w, pipeline)
               \/ LostInAGap(w, x)' \/ NotYetBackfilled(x)'
    <3>1. Reached(x, w, pipeline) \/ LostInAGap(w, x) \/ NotYetBackfilled(x)
      BY <1>2, <2>1 DEF AllAreRolled
    <3>2. LostInAGap(w, x) => LostInAGap(w, x)'
      BY DEF LostInAGap
    <3>3. NotYetBackfilled(x) => Reached(x, w, pipeline) \/ NotYetBackfilled(x)'
      BY <1>6
    <3> QED
      BY <3>1, <3>2, <3>3 DEF Reached
  <2> QED
    BY <1>1, <1>4, <2>1 DEF AllAreRolled, Reached
<1>8. TiersStand'
  BY <1>1, <1>2, <1>3, <1>4 DEF TiersStand, Tables
<1>9. BackfillStands'
  BY <1>1, <1>2, <1>3, <1>4 DEF BackfillStands
<1>10. SamplesStay' /\ StartsStand' /\ PipelineStands' /\ Apart(taken')
  BY <1>1, <1>2, <1>3, <1>4 DEF SamplesStay, StartsStand, PipelineStands
<1> QED
  BY <1>7, <1>8, <1>9, <1>10 DEF RollInv

\* What a poll reads of the gate's log.
ReadsLog(s, logged) == s.log = Lines(logged, cursor, s.ts - LogWindow) /\ Logs(logged, s.ts)

IsPoll(s, e, logged, described, came) ==
    /\ Polls(s, e) /\ logged \in FiniteSubsets(Nat) /\ ReadsLog(s, logged)
    /\ PollDies(s, e) \/ Poll(s, e, logged, described, came)

\* A poll that is taken is such a poll.
LEMMA PollsReadTheLog ==
    ASSUME OutsideType, NEW t \in Nat, NEW e \in Engines, NEW how \in Hows,
           NEW failed \in Failures, NEW speed \in Nat, NEW logged \in SUBSET Nat,
           NEW described \in BOOLEAN, NEW came \in 0 .. 1, NEW dies \in BOOLEAN,
           PollAt(t, e, how, failed, speed, logged, described, came, dies)
    PROVE  \E s \in Readings : IsPoll(s, e, logged, described, came)
<1> DEFINE log == Lines(logged, cursor, t - LogWindow)
           s == Sampled(t, how, e, failed, speed, log)
<1>1. /\ Serves(e, t) /\ Logs(logged, t)
      /\ PollDies(s, e) \/ Poll(s, e, logged, described, came)
  BY DEF PollAt
<1>2. logged \in FiniteSubsets(Nat)
  <2>1. lines \in FiniteSubsets(Nat) /\ now \in Nat
    BY DEF OutsideType
  <2>2. lines \subseteq logged /\ logged \ lines \subseteq now .. t
    BY <1>1 DEF Logs
  <2>3. IsFiniteSet(now .. t)
    BY <2>1, FS_Interval
  <2>4. IsFiniteSet(lines \cup (logged \ lines))
    BY <2>1, <2>2, <2>3, FS_Subset, FS_Union DEF FiniteSubsets
  <2>5. lines \cup (logged \ lines) = logged
    BY <2>2
  <2> QED
    BY <2>4, <2>5 DEF FiniteSubsets
<1>3. log \in FiniteSubsets(Nat)
  <2>1. log \subseteq logged
    BY DEF Lines
  <2> QED
    BY <1>2, <2>1, FS_Subset DEF FiniteSubsets
<1>4. s.log = log /\ s.ts = t
  BY DEF Sampled
<1> HIDE DEF log
<1>5. /\ s \in Readings /\ s.ts = t
      /\ s.life \in {engine.life, e.life} /\ e.life >= engine.life
      /\ e.life = engine.life => e.config = engine.config /\ e.count >= engine.count
      /\ s.life = engine.life =>
             s.config = engine.config /\ (s.count # None => s.count >= engine.count)
      /\ s.life = e.life =>
             s.config = e.config /\ (s.count # None => s.count <= e.count)
  BY <1>1, <1>3, SampledIs
<1> HIDE DEF s
<1>6. ReadsLog(s, logged)
  BY <1>1, <1>4 DEF ReadsLog, log
<1>7. /\ alive /\ s.ts >= now /\ engine' = e /\ now' = s.ts /\ taken' = taken \cup {s}
      /\ \A x \in ToSet(samples) : s.ts > x.ts
  BY <1>1 DEF PollDies, Poll
<1>8. Polls(s, e)
  BY <1>5, <1>7 DEF Polls
<1> QED
  BY <1>1, <1>2, <1>5, <1>6, <1>8 DEF IsPoll

\* Every step is one of these.
LEMMA StepsAre ==
    ASSUME OutsideType, [AccountsNext]_account_vars
    PROVE  \/ \E s, e, logged, described, came : IsPoll(s, e, logged, described, came)
           \/ \E t \in Nat : StartCollector(t)
           \/ StopCollector \/ BackfillStep \/ UNCHANGED account_vars
<1>1. CASE \E t \in Nat, e \in Engines, how \in Hows, failed \in Failures, speed \in Nat,
              logged \in SUBSET Nat, described \in BOOLEAN, came \in 0 .. 1, dies \in BOOLEAN :
                  PollAt(t, e, how, failed, speed, logged, described, came, dies)
  <2>1. PICK t \in Nat, e \in Engines, how \in Hows, failed \in Failures, speed \in Nat,
             logged \in SUBSET Nat, described \in BOOLEAN, came \in 0 .. 1, dies \in BOOLEAN :
                 PollAt(t, e, how, failed, speed, logged, described, came, dies)
    BY <1>1
  <2>2. \E s \in Readings : IsPoll(s, e, logged, described, came)
    BY <2>1, PollsReadTheLog
  <2> QED
    BY <2>2
<1>2. CASE UNCHANGED account_vars
  BY <1>2
<1>3. CASE (\E t \in Nat : StartCollector(t)) \/ StopCollector \/ BackfillStep
  BY <1>3
<1> QED
  BY <1>1, <1>2, <1>3 DEF AccountsNext

\* So it holds after every step.
LEMMA RollupsGoOn == RollInv /\ [AccountsNext]_account_vars => RollInv'
<1> SUFFICES ASSUME RollInv, [AccountsNext]_account_vars PROVE RollInv'
  OBVIOUS
<1>0. LoadoutInv' /\ OutsideType
  BY LoadoutsGoOn, RollTypes DEF RollInv
<1>1. ASSUME NEW s, NEW e, NEW logged, NEW described, NEW came, IsPoll(s, e, logged, described, came)
      PROVE  RollInv'
  <2>1. Polls(s, e) /\ (PollDies(s, e) \/ Poll(s, e, logged, described, came))
    BY <1>1 DEF IsPoll
  <2> QED
    BY <1>0, <2>1, DeathKeepsRollup, PollKeepsRollup
<1>2. ASSUME NEW t \in Nat, StartCollector(t) PROVE RollInv'
  BY <1>0, <1>2, StartKeepsRollup
<1>3. CASE UNCHANGED <<tier_vars, taken, starts, gaps, started_at, now>> /\ alive' \in {alive, FALSE}
  <2>1. /\ UNCHANGED <<samples, rows, gatelog, pipeline, backfill, taken, starts, gaps, started_at, now>>
        /\ RawFrom' = RawFrom /\ OpenFrom(started_at)' = OpenFrom(started_at)
    BY <1>3 DEF tier_vars, RawFrom, OpenFrom
  <2>2. /\ Apart(taken) /\ SamplesStay /\ StartsStand /\ TiersStand /\ PipelineStands /\ BackfillStands
        /\ AllAreRolled
    BY DEF RollInv
  <2>8. alive' => alive
    BY <1>3
  <2>3. Apart(taken') /\ SamplesStay'
    BY <2>1, <2>2 DEF SamplesStay
  <2>6. StartsStand'
    <3>1. starts = {} => ~alive'
      BY <2>2, <2>8 DEF StartsStand
    <3> QED
      BY <2>1, <2>2, <3>1 DEF StartsStand
  <2>7. PipelineStands'
    BY <2>1, <2>2, <2>8 DEF PipelineStands
  <2>4. TiersStand' /\ BackfillStands'
    BY <2>1, <2>2 DEF TiersStand, Tables, BackfillStands, Reached
  <2>5. AllAreRolled'
    <3>1. \A x : NotYetBackfilled(x)' <=> NotYetBackfilled(x)
      BY <2>1 DEF NotYetBackfilled
    <3>2. \A x, w : LostInAGap(w, x)' <=> LostInAGap(w, x)
      BY <2>1 DEF LostInAGap
    <3>3. \A x, w : Reached(x, w, pipeline)' <=> Reached(x, w, pipeline)
      BY <2>1 DEF Reached
    <3>4. \A x : ~alive /\ Unpushed(x) => ~alive' /\ Unpushed(x)'
      BY <1>3, <2>1 DEF Unpushed
    <3> QED
      BY <2>1, <2>2, <3>1, <3>2, <3>3, <3>4 DEF AllAreRolled
  <2> QED
    BY <1>0, <2>3, <2>4, <2>5, <2>6, <2>7 DEF RollInv
<1>4. CASE StopCollector
  <2>1. UNCHANGED <<tier_vars, taken, starts, gaps, started_at, now>> /\ alive' = FALSE
    BY <1>4 DEF StopCollector, books_history
  <2> QED
    BY <1>3, <2>1
<1>5. CASE BackfillStep
  <2>1. UNCHANGED <<taken, starts, started_at, now, alive, gaps>> /\ alive
        /\ (BackfillChunk \/ BackfillDone)
    BY <1>5 DEF BackfillStep, books_history, env_vars
  <2> QED
    BY <1>0, <2>1, ChunkKeepsRollup, DoneKeepsRollup
<1>6. CASE UNCHANGED account_vars
  <2>1. UNCHANGED <<tier_vars, taken, starts, gaps, started_at, now>> /\ alive' = alive
    BY <1>6 DEF account_vars, books_history, env_vars
  <2> QED
    BY <1>3, <2>1
<1> QED
  BY <1>0, <1>1, <1>2, <1>4, <1>5, <1>6, StepsAre

\* ... and before the first one, when nothing has been rolled up.
LEMMA RollupsBegin == AccountsStart => RollInv
<1> SUFFICES ASSUME AccountsStart PROVE RollInv
  OBVIOUS
<1>1. LoadoutInv
  BY LoadoutsBegin
<1>2. PICK stored \in Seq(SampleType), t \in Nat, owed \in BOOLEAN, e \in Engines :
          /\ \A i \in DOMAIN stored :
                 /\ stored[i].ts \in 0 .. t /\ stored[i].life <= e.life
                 /\ stored[i].ts >= e.started => stored[i].config = e.config
                 /\ \A l \in stored[i].log : l <= stored[i].ts
                 /\ \A j \in 1 .. i - 1 : stored[j].ts < stored[i].ts
          /\ t >= SaveEvery
          /\ AccountsInit(stored, t, owed, e)
  BY DEF AccountsStart
<1>3. /\ now = t /\ alive = FALSE /\ started_at = 0 /\ samples = stored /\ pipeline = NewPipeline
      /\ rows = [w \in Widths |-> <<>>] /\ gatelog = <<>>
      /\ backfill = [owed |-> owed, pipe |-> NewPipeline, from |-> 0, until |-> 0]
      /\ taken = ToSet(stored) /\ starts = {}
  BY <1>2 DEF AccountsInit
<1>4. Apart(taken)
  <2>1. taken \subseteq Readings
    BY <1>1 DEF LoadoutInv, LedgerInv, Outside, OutsideType, FiniteSubsets
  <2>2. Len(stored) \in Nat /\ taken = {stored[i] : i \in 1 .. Len(stored)} /\ DOMAIN stored = 1 .. Len(stored)
    BY <1>3 DEF ToSet
  <2>3. IsFiniteSet(taken)
    <3>1. IsFiniteSet(1 .. Len(stored))
      <4>1. 1 \in Int /\ Len(stored) \in Int
        BY <2>2
      <4> QED
        BY <4>1, FS_Interval, Zenon
    <3> DEFINE f == [i \in 1 .. Len(stored) |-> stored[i]]
    <3>2. f \in Surjection(1 .. Len(stored), taken)
      BY <2>2 DEF Surjection
    <3> HIDE DEF f
    <3> QED
      BY <3>1, <3>2, FS_Surjection
  <2>4. ASSUME NEW x \in taken, NEW y \in taken, x.ts = y.ts PROVE x = y
    <3>1. PICK i \in 1 .. Len(stored), j \in 1 .. Len(stored) : stored[i] = x /\ stored[j] = y
      BY <2>2
    <3>2. stored[i].ts \in Nat /\ stored[j].ts \in Nat
      BY <1>2, <2>2
    <3>3. i < j => stored[i].ts < stored[j].ts
      <4>1. i < j => i \in 1 .. j - 1
        BY <2>2
      <4> QED
        BY <1>2, <2>2, <4>1
    <3>4. j < i => stored[j].ts < stored[i].ts
      <4>1. j < i => j \in 1 .. i - 1
        BY <2>2
      <4> QED
        BY <1>2, <2>2, <4>1
    <3> QED
      BY <2>2, <2>4, <3>1, <3>2, <3>3, <3>4
  <2> QED
    BY <2>1, <2>3, <2>4 DEF Apart
<1>5. SamplesStay
  BY <1>3 DEF SamplesStay
<1>6. StartsStand
  <2>1. IsFiniteSet({})
    BY FS_EmptySet
  <2> QED
    BY <1>3, <2>1 DEF StartsStand
<1>7. TiersStand
  <2>1. \A w \in Widths : DOMAIN rows[w] = {}
    BY <1>3
  <2>2. DOMAIN gatelog = {}
    BY <1>3
  <2> QED
    BY <1>3, <2>1, <2>2 DEF TiersStand, DbOf, PipeOf, RowsOf, GatelogOf, Tables
<1>8. PipelineStands
  BY <1>3 DEF PipelineStands
<1>9. BackfillStands
  <2>1. BucketOf(TenMinutes, 0) = 0
    <3>1. BucketOf(TenMinutes, 0) \in Nat /\ BucketOf(TenMinutes, 0) <= 0
      BY WidthsAre, BucketIs
    <3> QED
      BY <3>1
  <2>2. 0 <= OpenFrom(started_at)
    BY <1>3, OpenFromIs
  <2>3. \A x \in taken : ~(x.ts < 0)
    BY <1>4 DEF Apart, Readings
  <2> QED
    BY <1>3, <2>1, <2>2, <2>3 DEF BackfillStands
<1>10. AllAreRolled
  BY <1>3 DEF AllAreRolled
<1> QED
  BY <1>1, <1>4, <1>5, <1>6, <1>7, <1>8, <1>9, <1>10 DEF RollInv

\* How often a line was brought is a number, and so is how often it may have been read back.
LEMMA BroughtIs ==
    ASSUME NEW T, IsFiniteSet(T), NEW S, IsFiniteSet(S), NEW l
    PROVE  /\ Cardinality(Brought(T, l)) \in Nat /\ Cardinality(Backs(S, l)) \in Nat
           /\ IsFiniteSet(Brought(T, l)) /\ IsFiniteSet(Backs(S, l))
<1>1. Brought(T, l) \subseteq T /\ Backs(S, l) \subseteq S
  BY DEF Brought, Backs
<1> QED
  BY <1>1, FS_Subset, FS_CardinalityType

\* One more sample brings a line once more at most.
LEMMA BroughtOnceMore ==
    ASSUME NEW T, IsFiniteSet(T), NEW s, s \notin T, NEW l
    PROVE  /\ l \in s.log => Cardinality(Brought(T \cup {s}, l)) = Cardinality(Brought(T, l)) + 1
           /\ l \notin s.log => Brought(T \cup {s}, l) = Brought(T, l)
<1>1. IsFiniteSet(Brought(T, l)) /\ s \notin Brought(T, l)
  BY BroughtIs, FS_EmptySet DEF Brought
<1>2. CASE l \in s.log
  <2>1. Brought(T \cup {s}, l) = Brought(T, l) \cup {s}
    BY <1>2 DEF Brought
  <2> QED
    BY <1>1, <1>2, <2>1, FS_AddElement
<1>3. CASE l \notin s.log
  BY <1>3 DEF Brought
<1> QED
  BY <1>2, <1>3

LineInv == RollInv /\ LinesStand

\* The cursor moves to the last line a poll brought.
LEMMA CursorIs ==
    ASSUME RollInv, LinesStand, NEW s \in Readings, NEW logged, ReadsLog(s, logged), lines \subseteq logged,
           s.log # {}, \A l \in logged : l \in Nat /\ l <= s.ts
    PROVE  Max(s.log) \in Nat /\ Max(s.log) > cursor /\ \A l \in s.log : l <= Max(s.log)
<1>1. /\ \A l \in s.log : l \in logged /\ l > cursor
  BY DEF ReadsLog, Lines
<1>2. s.log \subseteq 0 .. s.ts /\ s.ts \in Nat
  BY <1>1 DEF Readings
<1>3. Max(s.log) \in s.log /\ \A l \in s.log : l <= Max(s.log)
  BY <1>2, LargestExists
<1> QED
  BY <1>1, <1>2, <1>3

\* What a poll reads of the log keeps the lines in order.
LEMMA PollKeepsLines ==
    ASSUME RollInv, LinesStand, NEW s, NEW e, NEW logged, NEW described, NEW came,
           IsPoll(s, e, logged, described, came)
    PROVE  LinesStand'
<1>1. /\ Polls(s, e) /\ logged \in FiniteSubsets(Nat) /\ ReadsLog(s, logged)
      /\ PollDies(s, e) \/ Poll(s, e, logged, described, came)
  BY DEF IsPoll
<1>2. /\ starts' = starts /\ alive
      /\ \/ lines' = lines /\ cursor' = cursor /\ alive' = FALSE
         \/ lines' = logged /\ cursor' = (IF s.log = {} THEN cursor ELSE Max(s.log)) /\ alive' = alive
  BY <1>1 DEF PollDies, Poll
<1>3. /\ Younger(s, taken, taken') /\ taken' = taken \cup {s} /\ s \in Readings /\ s.ts \in Nat
      /\ now' = s.ts /\ now <= s.ts
  BY <1>1, <1>2, PollWidens
<1>4. /\ now \in Nat /\ LogWindow \in Nat /\ IsFiniteSet(taken) /\ IsFiniteSet(starts)
      /\ \A x \in taken : x.ts \in Nat
      /\ lines \in FiniteSubsets(Nat)
  BY RollTypes, LogAssumption DEF RollInv, Apart, StartsStand, OutsideType
<1>5. s \notin taken
  BY <1>3, <1>4 DEF Younger
<1>6. /\ cursor \in Nat \cup {None} /\ (\A l \in lines : l <= now)
      /\ \A x \in taken : \A l \in x.log : l <= x.ts /\ (l \in lines \/ l < now)
      /\ \A l \in lines :
             /\ Cardinality(Brought(taken, l)) <= 1 + Cardinality(Backs(starts, l))
             /\ \/ l <= cursor \/ l < now - LogWindow
                \/ Cardinality(Brought(taken, l)) <= Cardinality(Backs(starts, l))
  BY <1>2 DEF LinesStand
<1>7. /\ lines \subseteq logged /\ \A l \in logged : l \in Nat /\ l <= s.ts /\ (l \in lines \/ l >= now)
      /\ \A l : l \in s.log <=> l \in logged /\ l > cursor /\ l >= s.ts - LogWindow
  <2>1. lines \subseteq logged /\ logged \ lines \subseteq now .. s.ts /\ logged \subseteq Nat
    BY <1>1 DEF ReadsLog, Logs, FiniteSubsets
  <2>2. \A l \in lines : l <= s.ts
    BY <1>3, <1>4, <1>6 DEF FiniteSubsets
  <2>3. \A l : l \in s.log <=> l \in logged /\ l > cursor /\ l >= s.ts - LogWindow
    BY <1>1 DEF ReadsLog, Lines
  <2> QED
    BY <1>4, <2>1, <2>2, <2>3
<1>8. ASSUME NEW l \in lines
      PROVE  /\ Cardinality(Brought(taken', l)) <= 1 + Cardinality(Backs(starts, l))
             /\ l \in s.log \/ l <= cursor \/ l < s.ts - LogWindow
                \/ Cardinality(Brought(taken', l)) <= Cardinality(Backs(starts, l))
  <2>1. /\ l \in Nat /\ l \in logged
        /\ Cardinality(Brought(taken, l)) \in Nat /\ Cardinality(Backs(starts, l)) \in Nat
    BY <1>4, <1>7, BroughtIs DEF FiniteSubsets
  <2>2. /\ Cardinality(Brought(taken, l)) <= 1 + Cardinality(Backs(starts, l))
        /\ \/ l <= cursor \/ l < now - LogWindow
           \/ Cardinality(Brought(taken, l)) <= Cardinality(Backs(starts, l))
    BY <1>6
  <2>3. CASE l \in s.log
    <3>1. Cardinality(Brought(taken', l)) = Cardinality(Brought(taken, l)) + 1
      BY <1>3, <1>4, <1>5, <2>3, BroughtOnceMore
    <3>2. ~(l <= cursor) /\ ~(l < now - LogWindow)
      BY <1>3, <1>4, <1>6, <1>7, <2>1, <2>3
    <3> QED
      BY <2>1, <2>2, <2>3, <3>1, <3>2
  <2>4. CASE l \notin s.log
    <3>1. Brought(taken', l) = Brought(taken, l)
      BY <1>3, <1>4, <1>5, <2>4, BroughtOnceMore
    <3>2. l < now - LogWindow => l < s.ts - LogWindow
      BY <1>3, <1>4, <2>1
    <3> QED
      BY <2>2, <3>1, <3>2
  <2> QED
    BY <2>3, <2>4
<1>9. ASSUME NEW l \in logged, l \notin lines
      PROVE  /\ Cardinality(Brought(taken', l)) <= 1
             /\ l \notin s.log => Cardinality(Brought(taken', l)) = 0
  <2>1. Brought(taken, l) = {}
    <3>1. \A x \in taken : l \in x.log => FALSE
      BY <1>4, <1>6, <1>7, <1>9
    <3> QED
      BY <3>1 DEF Brought
  <2>2. Cardinality(Brought(taken, l)) = 0
    BY <2>1, FS_EmptySet
  <2>3. l \in s.log => Cardinality(Brought(taken', l)) = 1
    BY <1>3, <1>4, <1>5, <2>2, BroughtOnceMore
  <2>4. l \notin s.log => Cardinality(Brought(taken', l)) = 0
    BY <1>3, <1>4, <1>5, <2>2, BroughtOnceMore
  <2> QED
    BY <2>3, <2>4
<1>10. ASSUME NEW x \in taken', NEW l \in x.log
       PROVE  l <= x.ts /\ (l \in logged \/ l < s.ts) /\ (alive' => l \in lines' \/ l < now')
  <2>1. CASE x = s
    BY <1>2, <1>7, <2>1
  <2>2. CASE x \in taken
    <3>1. l <= x.ts /\ (l \in lines \/ l < now)
      BY <1>6, <2>2
    <3>2. l < now => l < s.ts
      <4>1. l \in Nat
        <5>1. x \in Readings
          BY <2>2, RollTypes
        <5> QED
          BY <5>1 DEF Readings, SampleType
      <4> QED
        BY <1>3, <1>4, <4>1
    <3>3. lines \subseteq lines'
      BY <1>2, <1>7
    <3> QED
      BY <1>3, <1>7, <3>1, <3>2, <3>3
  <2> QED
    BY <1>3, <2>1, <2>2
<1>11. CASE lines' = lines /\ cursor' = cursor /\ alive' = FALSE
  <2>1. \A l \in lines' : l <= now'
    BY <1>3, <1>7, <1>11
  <2>2. \A l \in lines' : Cardinality(Brought(taken', l)) <= 1 + Cardinality(Backs(starts', l))
    BY <1>2, <1>8, <1>11
  <2>3. cursor' \in Nat \cup {None} /\ ~alive'
    BY <1>6, <1>11
  <2> QED
    BY <1>10, <2>1, <2>2, <2>3 DEF LinesStand
<1>12. CASE lines' = logged /\ cursor' = (IF s.log = {} THEN cursor ELSE Max(s.log)) /\ alive' = alive
  <2>1. \A l \in lines' : l <= now'
    BY <1>3, <1>7, <1>12
  <2>2. s.log # {} => Max(s.log) \in Nat /\ Max(s.log) > cursor /\ \A l \in s.log : l <= Max(s.log)
    BY <1>1, <1>3, <1>7, CursorIs
  <2>3. cursor' \in Nat \cup {None} /\ \A l \in s.log : l <= cursor'
    BY <1>6, <1>12, <2>2
  <2>4. \A l \in Nat : l <= cursor => l <= cursor'
    BY <1>6, <1>12, <2>2 DEF None
  <2>5. ASSUME NEW l \in lines'
        PROVE  /\ Cardinality(Brought(taken', l)) <= 1 + Cardinality(Backs(starts', l))
               /\ l <= cursor' \/ l < now' - LogWindow
                      \/ Cardinality(Brought(taken', l)) <= Cardinality(Backs(starts', l))
    <3>1. l \in logged /\ l \in Nat /\ starts' = starts
      BY <1>2, <1>7, <1>12
    <3>2. CASE l \in lines
      BY <1>3, <1>8, <2>3, <2>4, <3>1, <3>2
    <3>3. CASE l \notin lines
      <4>1. Cardinality(Backs(starts, l)) \in Nat
        BY <1>4, BroughtIs
      <4>2. /\ Cardinality(Brought(taken', l)) <= 1
            /\ l \notin s.log => Cardinality(Brought(taken', l)) = 0
        BY <1>9, <3>1, <3>3
      <4>3. Cardinality(Brought(taken', l)) \in Nat
        <5>1. IsFiniteSet(taken')
          BY <1>3, <1>4, FS_AddElement
        <5> QED
          BY <1>4, <5>1, BroughtIs
      <4> QED
        BY <2>3, <3>1, <4>1, <4>2, <4>3
    <3> QED
      BY <3>2, <3>3
  <2> QED
    BY <1>10, <2>1, <2>3, <2>5 DEF LinesStand
<1> QED
  BY <1>2, <1>11, <1>12

\* A start reads back what it may.
LEMMA StartKeepsLines ==
    ASSUME RollInv, LinesStand, NEW t \in Nat, StartCollector(t)
    PROVE  LinesStand'
<1>1. /\ ~alive /\ t > now /\ now' = t /\ alive' = TRUE /\ cursor' = None /\ lines' = lines
      /\ starts' = starts \cup {t} /\ taken' = taken
  BY DEF StartCollector
<1>2. /\ now \in Nat /\ LogWindow \in Nat /\ IsFiniteSet(taken) /\ IsFiniteSet(starts)
      /\ started_at \in Nat /\ started_at <= now /\ (\A u \in starts : u <= started_at)
      /\ starts \subseteq Nat /\ lines \in FiniteSubsets(Nat)
      /\ (\A x \in taken : x \in Readings /\ x.ts \in Nat /\ x.ts <= now)
  BY RollTypes, LogAssumption DEF RollInv, Apart, StartsStand, OutsideType
<1>3. /\ \A l \in lines : l <= now
      /\ \A x \in taken : \A l \in x.log : l <= x.ts
      /\ \A l \in lines : Cardinality(Brought(taken, l)) <= 1 + Cardinality(Backs(starts, l))
  BY DEF LinesStand
<1>4. t \notin starts /\ IsFiniteSet(starts')
  BY <1>1, <1>2, FS_AddElement
<1>5. ASSUME NEW l \in lines
      PROVE  /\ Cardinality(Brought(taken, l)) <= 1 + Cardinality(Backs(starts', l))
             /\ l < t - LogWindow \/ Cardinality(Brought(taken, l)) <= Cardinality(Backs(starts', l))
  <2>1. /\ Cardinality(Brought(taken, l)) \in Nat /\ Cardinality(Backs(starts, l)) \in Nat
        /\ IsFiniteSet(Backs(starts, l)) /\ l \in Nat /\ l <= t
    BY <1>1, <1>2, <1>3, BroughtIs DEF FiniteSubsets
  <2>2. Cardinality(Brought(taken, l)) <= 1 + Cardinality(Backs(starts, l))
    BY <1>3
  <2>3. CASE t <= l + LogWindow
    <3>1. Backs(starts', l) = Backs(starts, l) \cup {t}
      BY <1>1, <2>1, <2>3 DEF Backs
    <3>2. t \notin Backs(starts, l)
      BY <1>4 DEF Backs
    <3>3. Cardinality(Backs(starts', l)) = Cardinality(Backs(starts, l)) + 1
      BY <2>1, <3>1, <3>2, FS_AddElement
    <3> QED
      BY <2>1, <2>2, <3>3
  <2>4. CASE ~(t <= l + LogWindow)
    <3>1. Backs(starts', l) = Backs(starts, l)
      BY <1>1, <2>4 DEF Backs
    <3>2. l < t - LogWindow
      BY <1>2, <2>1, <2>4
    <3> QED
      BY <2>2, <3>1, <3>2
  <2> QED
    BY <2>3, <2>4
<1>6. ASSUME NEW x \in taken, NEW l \in x.log PROVE l <= x.ts /\ l < t
  <2>1. l \in Nat
    <3>1. x \in Readings
      BY <1>2
    <3> QED
      BY <3>1 DEF Readings, SampleType
  <2>2. l <= x.ts /\ x.ts \in Nat /\ x.ts <= now
    BY <1>2, <1>3
  <2> QED
    BY <1>1, <1>2, <2>1, <2>2
<1>7. \A l \in lines : l <= t
  BY <1>1, <1>2, <1>3 DEF FiniteSubsets
<1> QED
  BY <1>1, <1>5, <1>6, <1>7 DEF LinesStand

\* So the lines are in order after every step, as the rollups are ...
LEMMA LinesGoOn == LineInv /\ [AccountsNext]_account_vars => LineInv'
<1> SUFFICES ASSUME RollInv, LinesStand, [AccountsNext]_account_vars PROVE LinesStand'
  BY RollupsGoOn DEF LineInv
<1>0. RollInv /\ LinesStand /\ OutsideType
  BY RollTypes
<1>1. ASSUME NEW s, NEW e, NEW logged, NEW described, NEW came, IsPoll(s, e, logged, described, came)
      PROVE  LinesStand'
  BY <1>0, <1>1, PollKeepsLines
<1>2. ASSUME NEW t \in Nat, StartCollector(t) PROVE LinesStand'
  BY <1>0, <1>2, StartKeepsLines
<1>3. CASE UNCHANGED <<taken, starts, now, cursor, lines>> /\ alive' \in {alive, FALSE}
  <2>1. alive' => alive
    BY <1>3
  <2>2. taken' = taken /\ starts' = starts /\ now' = now /\ cursor' = cursor /\ lines' = lines
    BY <1>3
  <2> QED
    BY <1>0, <2>1, <2>2 DEF LinesStand
<1>4. CASE StopCollector
  <2>1. UNCHANGED <<taken, starts, now, cursor, lines>> /\ alive' = FALSE
    BY <1>4 DEF StopCollector, books_history
  <2> QED
    BY <1>3, <2>1
<1>5. CASE BackfillStep
  <2>1. UNCHANGED <<taken, starts, now, cursor, lines>> /\ alive' = alive
    BY <1>5 DEF BackfillStep, books_history, env_vars
  <2> QED
    BY <1>3, <2>1
<1>6. CASE UNCHANGED account_vars
  <2>1. UNCHANGED <<taken, starts, now, cursor, lines>> /\ alive' = alive
    BY <1>6 DEF account_vars, books_history, env_vars
  <2> QED
    BY <1>3, <2>1
<1> QED
  BY <1>0, <1>1, <1>2, <1>4, <1>5, <1>6, StepsAre

\* ... and before the first one, when the gate has logged nothing yet.
LEMMA LinesBegin == AccountsStart => LineInv
<1> SUFFICES ASSUME AccountsStart PROVE LineInv
  OBVIOUS
<1>1. PICK stored \in Seq(SampleType), t \in Nat, owed \in BOOLEAN, e \in Engines :
          /\ \A i \in DOMAIN stored :
                 /\ stored[i].ts \in 0 .. t /\ stored[i].life <= e.life
                 /\ stored[i].ts >= e.started => stored[i].config = e.config
                 /\ \A l \in stored[i].log : l <= stored[i].ts
                 /\ \A j \in 1 .. i - 1 : stored[j].ts < stored[i].ts
          /\ t >= SaveEvery
          /\ AccountsInit(stored, t, owed, e)
  BY DEF AccountsStart
<1>2. /\ alive = FALSE /\ lines = {} /\ cursor = None /\ taken = ToSet(stored)
  BY <1>1 DEF AccountsInit
<1>3. \A x \in taken : \A l \in x.log : l <= x.ts
  BY <1>1, <1>2 DEF ToSet
<1>4. LinesStand
  BY <1>2, <1>3 DEF LinesStand
<1> QED
  BY <1>4, RollupsBegin DEF LineInv

\* A sum of numbers that are no larger is no larger.
LEMMA SumOfLess ==
    ASSUME NEW S, IsFiniteSet(S), NEW f, NEW g,
           \A x \in S : f[x] \in Int /\ g[x] \in Int /\ f[x] <= g[x]
    PROVE  SumOver(f, S) \in Int /\ SumOver(g, S) \in Int /\ SumOver(f, S) <= SumOver(g, S)
<1> DEFINE G == {T \in SUBSET S : /\ SumOver(f, T) \in Int /\ SumOver(g, T) \in Int
                                   /\ SumOver(f, T) <= SumOver(g, T)}
<1>1. {} \in G
  <2>1. SumOver(f, {}) = 0 /\ SumOver(g, {}) = 0
    BY FS_EmptySet, SumSplit
  <2> QED
    BY <2>1
<1>2. ASSUME NEW T \in SUBSET S, NEW x \in S \ T, T \in G PROVE T \cup {x} \in G
  <2> DEFINE U == T \cup {x}
  <2>1. IsFiniteSet(U) /\ x \in U /\ U \ {x} = T /\ U \in SUBSET S
    BY <1>2, FS_Subset
  <2>2. \A y \in U : f[y] \in Int /\ g[y] \in Int
    BY <2>1
  <2> HIDE DEF U
  <2>3. SumOver(f, U) = f[x] + SumOver(f, T) /\ SumOver(g, U) = g[x] + SumOver(g, T)
    BY <2>1, <2>2, SumWithout
  <2>4. /\ SumOver(f, T) \in Int /\ SumOver(g, T) \in Int /\ SumOver(f, T) <= SumOver(g, T)
        /\ f[x] \in Int /\ g[x] \in Int /\ f[x] <= g[x]
    BY <1>2
  <2>5. SumOver(f, U) \in Int /\ SumOver(g, U) \in Int /\ SumOver(f, U) <= SumOver(g, U)
    BY <2>3, <2>4
  <2> QED
    BY <2>1, <2>5 DEF U
<1>3. \A T \in SUBSET S : T \in G
  <2> HIDE DEF G
  <2> QED
    BY <1>1, <1>2, SubsetsAreReached
<1> QED
  BY <1>3

\* What the property adds up is what the invariant does.
LEMMA TotalIs ==
    ASSUME Apart(taken), NEW U \in SUBSET taken
    PROVE  Total(U) = SumOver(ShownOf(taken), U)
<1> DEFINE f == ShownOf(taken)
           P(h) == h = [s \in SUBSET U |->
                          IF s = {} THEN 0
                          ELSE Shown(CHOOSE x \in s : TRUE) + h[s \ {CHOOSE x \in s : TRUE}]]
           iter == CHOOSE h : P(h)
<1>1. IsFiniteSet(U) /\ \A x \in U : f[x] \in Int
  BY ShownIsNatural, FS_Subset DEF Apart
<1>2. \A x \in taken : Shown(x) = f[x]
  BY DEF Shown, ShownOf, Before, Prior
<1> HIDE DEF f
<1>3. ASSUME NEW s \in SUBSET U, s # {}
      PROVE  Shown(CHOOSE x \in s : TRUE) = f[CHOOSE x \in s : TRUE]
  <2>1. (CHOOSE x \in s : TRUE) \in taken
    BY <1>3
  <2> QED
    BY <1>2, <2>1
<1>4. ASSUME NEW h PROVE P(h) <=> SumsAsLibrary(h, f, U)
  BY <1>3 DEF SumsAsLibrary
<1>5. PICK h : SumsAsLibrary(h, f, U)
  BY <1>1, SumsExist
<1>6. P(h)
  <2> HIDE DEF P
  <2> QED
    BY <1>4, <1>5
<1>7. P(iter)
  <2> HIDE DEF P
  <2> QED
    BY <1>6, Zenon
<1>8. Total(U) = iter[U]
  BY DEF Total, MapThenSumSet, MapThenFoldSet
<1> HIDE DEF iter
<1>9. SumsAsLibrary(iter, f, U)
  BY <1>4, <1>7
<1>10. iter[U] = SumOver(f, U)
  <2> HIDE DEF P
  <2> QED
    BY <1>1, <1>9, SumsAreAlike
<1> QED
  BY <1>8, <1>10 DEF f

\* A sample is cut off for the property as it is for the invariant.
LEMMA CutIs ==
    ASSUME RollInv, NEW s \in taken
    PROVE  /\ Before(s) = Prior(taken, s) /\ (Cut(s) <=> s \in CutOf(taken, starts, RawFrom))
           /\ Before(s) # {} => (~RawKept(Newest(Before(s)).ts) <=> s \in Bereft(taken, RawFrom))
           /\ RawKept(s.ts) <=> ~(s.ts < RawFrom)
<1>1. Before(s) = Prior(taken, s)
  BY DEF Before, Prior
<1>2. RawFrom \in Int /\ Apart(taken) /\ \A x \in taken : x.ts \in Nat /\ x \in Readings
  BY RollTypes DEF RollInv
<1>3. \A n \in Nat : RawKept(n) <=> ~(n < RawFrom)
  BY <1>2 DEF RawKept, RawFrom
<1>4. ASSUME Before(s) # {} PROVE ~RawKept(Newest(Before(s)).ts) <=> s \in Bereft(taken, RawFrom)
  <2>1. Newest(Prior(taken, s)) \in Prior(taken, s)
    BY <1>1, <1>2, <1>4, NewestIs
  <2>2. Newest(Prior(taken, s)).ts \in Nat
    BY <1>2, <2>1 DEF Prior
  <2> QED
    BY <1>1, <1>3, <1>4, <2>2 DEF Bereft
<1>5. \A t : FirstFrom(BucketOf(TenMinutes, t), s) <=> FirstSince(taken, OpenFrom(t), s)
  BY <1>1 DEF FirstFrom, FirstSince, OpenFrom
<1>6. Cut(s) <=> s \in CutOf(taken, starts, RawFrom)
  <2>1. CASE Before(s) = {}
    BY <1>1, <2>1 DEF Cut, CutOf
  <2>2. CASE Before(s) # {}
    BY <1>1, <1>4, <1>5, <2>2 DEF Cut, CutOf
  <2> QED
    BY <2>1, <2>2
<1> QED
  BY <1>1, <1>2, <1>3, <1>4, <1>6

\* So the rows are whole.
LEMMA RowsStandWhole == RollInv => RowsAreWhole
<1> SUFFICES ASSUME RollInv, NEW w \in Widths, NEW b \in DOMAIN rows[w]
             PROVE  LET row == rows[w][b]
                        members == {s \in taken : BucketOf(w, s.ts) = b}
                        held == {s \in members : s.ts \in row.in}
                    IN  /\ Cardinality(held) = row.n /\ row.in = {s.ts : s \in held}
                        /\ \A s \in members \ held : ~RawKept(s.ts)
                        /\ Total({s \in held : ~Cut(s)}) <= row.tok
                        /\ \/ row.tok <= Total(held)
                           \/ \E s \in held : \E p \in Before(s) :
                                 /\ ~RawKept(Newest(Before(s)).ts)
                                 /\ row.tok <= Total(held \ {s}) + Growth(p, s)
  BY DEF RowsAreWhole
<1> DEFINE row == rows[w][b]
           members == {s \in taken : BucketOf(w, s.ts) = b}
           held == {s \in members : s.ts \in row.in}
           H == HeldIn(taken, row)
<1>1. Apart(taken) /\ RowOf(row, w, b, taken, starts, RawFrom)
  BY DEF RollInv, TiersStand, DbOf, RowsOf, Tables
<1> HIDE DEF row
<1>2. /\ row.in = {x.ts : x \in H} /\ (\A x \in H : BucketOf(w, x.ts) = b)
      /\ row.n = Cardinality(H)
      /\ SumOver(ShownOf(taken), H \ CutOf(taken, starts, RawFrom)) <= row.tok
      /\ NoMore(row.tok, H, taken, RawFrom)
      /\ \A x \in taken : BucketOf(w, x.ts) = b => x.ts \in row.in \/ x.ts < RawFrom
  BY <1>1 DEF RowOf, AggOf, WholeOf
<1>3. held = H
  BY <1>2 DEF HeldIn
<1>4. H \subseteq taken
  BY DEF HeldIn
<1>5. \A s \in members \ held : ~RawKept(s.ts)
  <2>1. \A s \in members \ held : s \in taken /\ s.ts < RawFrom
    BY <1>2
  <2> QED
    BY <2>1, CutIs
<1>6. Total({s \in held : ~Cut(s)}) <= row.tok
  <2>1. {s \in held : ~Cut(s)} = H \ CutOf(taken, starts, RawFrom)
    <3> HIDE DEF held, H
    <3>1. \A s \in H : Cut(s) <=> s \in CutOf(taken, starts, RawFrom)
      BY <1>4, CutIs
    <3> QED
      BY <1>3, <3>1
  <2> HIDE DEF held, H
  <2>2. H \ CutOf(taken, starts, RawFrom) \in SUBSET taken
    BY <1>4
  <2> QED
    BY <1>1, <1>2, <2>1, <2>2, TotalIs
<1> HIDE DEF H, members
<1>7. \/ row.tok <= Total(H)
      \/ \E s \in H : \E p \in Before(s) :
            /\ ~RawKept(Newest(Before(s)).ts)
            /\ row.tok <= Total(H \ {s}) + Growth(p, s)
  <2>1. CASE row.tok <= SumOver(ShownOf(taken), H)
    BY <1>1, <1>4, <2>1, TotalIs
  <2>2. CASE \E x \in H : \E p \in Prior(taken, x) :
                x \in Bereft(taken, RawFrom)
                    /\ row.tok <= SumOver(ShownOf(taken), H \ {x}) + Growth(p, x)
    <3>1. PICK x \in H : \E p \in Prior(taken, x) :
                x \in Bereft(taken, RawFrom)
                    /\ row.tok <= SumOver(ShownOf(taken), H \ {x}) + Growth(p, x)
      BY <2>2
    <3>2. PICK p \in Prior(taken, x) :
                x \in Bereft(taken, RawFrom)
                    /\ row.tok <= SumOver(ShownOf(taken), H \ {x}) + Growth(p, x)
      BY <3>1
    <3>3. x \in taken /\ H \ {x} \in SUBSET taken
      BY <1>4
    <3>4. Total(H \ {x}) = SumOver(ShownOf(taken), H \ {x})
      BY <1>1, <3>3, TotalIs
    <3>5. p \in Before(x) /\ ~RawKept(Newest(Before(x)).ts)
      BY <3>2, <3>3, CutIs
    <3> QED
      BY <3>2, <3>4, <3>5
  <2> QED
    BY <1>2, <2>1, <2>2 DEF NoMore
<1>8. \/ row.tok <= Total(held)
      \/ \E s \in held : \E p \in Before(s) :
            /\ ~RawKept(Newest(Before(s)).ts)
            /\ row.tok <= Total(held \ {s}) + Growth(p, s)
  <2> HIDE DEF held
  <2> QED
    BY <1>3, <1>7
<1>9. Cardinality(held) = row.n /\ row.in = {s.ts : s \in held}
  <2> HIDE DEF held
  <2> QED
    BY <1>2, <1>3
<1> HIDE DEF held
<1> QED
  BY <1>5, <1>6, <1>8, <1>9 DEF held, members, row

\* ... every sample is in one of them or in an open bucket ...
LEMMA EverySampleStands == RollInv => EverySampleIsRolled
<1> SUFFICES ASSUME RollInv, alive, NEW s \in taken, NEW w \in Widths
             PROVE  LET b == BucketOf(w, s.ts)
                    IN  \/ b \in DOMAIN rows[w] /\ s.ts \in rows[w][b].in
                        \/ pipeline.rollers[w].bucket = b /\ s.ts \in pipeline.rollers[w].acc.in
                        \/ b < now - (IF w = Minute THEN KeepM1 ELSE KeepM10)
                        \/ ~RawKept(s.ts)
                        \/ LostInAGap(w, s) \/ NotYetBackfilled(s)
  BY DEF EverySampleIsRolled
<1>1. starts # {}
  BY DEF RollInv, StartsStand
<1>2. Reached(s, w, pipeline) \/ LostInAGap(w, s) \/ NotYetBackfilled(s)
  BY <1>1 DEF RollInv, AllAreRolled
<1>3. RawKept(s.ts) <=> ~(s.ts < RawFrom)
  BY CutIs
<1> QED
  BY <1>2, <1>3 DEF Reached, InARow, IsOpenIn, KeepOf

\* ... and no line is counted more often than samples brought it.
LEMMA LinesAreCounted ==
    ASSUME RollInv, alive, NEW l
    PROVE  TimesCounted(l) \in Int /\ TimesCounted(l) <= Cardinality(Brought(taken, l))
<1> DEFINE D == DOMAIN gatelog
           gate == pipeline.gate
           f == [b \in D |-> IF l \in DOMAIN gatelog[b] THEN gatelog[b][l] ELSE 0]
           open == IF l \in DOMAIN gate.log THEN gate.log[l] ELSE 0
           E == D \cup {gate.bucket}
           F == [b \in E |-> Bringing(taken, b, l)]
           g == [b \in E |-> Cardinality(F[b])]
           P(h) == h = [s \in SUBSET D |->
                          IF s = {} THEN 0
                          ELSE (IF l \in DOMAIN gatelog[CHOOSE b \in s : TRUE]
                                THEN gatelog[CHOOSE b \in s : TRUE][l] ELSE 0)
                               + h[s \ {CHOOSE b \in s : TRUE}]]
           iter == CHOOSE h : P(h)
<1>1. /\ Apart(taken) /\ IsFiniteSet(taken) /\ StartsStand /\ PipelineStands
      /\ PipeOf(pipeline, taken, starts, RawFrom) /\ GatelogOf(gatelog, taken)
      /\ gatelog \in TablesOf(TablesOf(Nat)) /\ pipeline \in Pipes /\ gate \in GateLogs
      /\ started_at \in Nat /\ \A x \in taken : x.ts \in Nat
  BY RollTypes DEF RollInv, Apart, TiersStand, DbOf, Tables, TierType, Pipes
<1>2. /\ D \in FiniteSubsets(Nat) /\ gatelog \in [D -> TablesOf(Nat)] /\ IsFiniteSet(D) /\ D \subseteq Nat
      /\ gate.bucket \in Nat \cup {None} /\ gate.log \in TablesOf(Nat)
  BY <1>1, TableIs DEF FiniteSubsets, GateLogs
<1>3. ASSUME NEW table \in TablesOf(Nat)
      PROVE  (IF l \in DOMAIN table THEN table[l] ELSE 0) \in Nat
  <2>1. table \in [DOMAIN table -> Nat]
    BY <1>3, TableIs
  <2> QED
    BY <2>1
<1> HIDE DEF D, gate
<1>4. (\A b \in D : f[b] \in Nat /\ f[b] \in Int) /\ open \in Nat
  <2>1. ASSUME NEW b \in D PROVE f[b] \in Nat
    <3>1. gatelog[b] \in TablesOf(Nat)
      BY <1>2
    <3> QED
      BY <1>3, <3>1
  <2>2. open \in Nat
    BY <1>2, <1>3
  <2> HIDE DEF f, open
  <2> QED
    BY <2>1, <2>2
<1>5. IsFiniteSet(E)
  BY <1>2, FS_AddElement
<1>6. ASSUME NEW b PROVE IsFiniteSet(Bringing(taken, b, l)) /\ Cardinality(Bringing(taken, b, l)) \in Nat
  <2>1. Bringing(taken, b, l) \subseteq taken
    BY DEF Bringing
  <2> QED
    BY <1>1, <2>1, FS_Subset, FS_CardinalityType
<1>7. \A b \in E : F[b] = Bringing(taken, b, l) /\ g[b] = Cardinality(Bringing(taken, b, l))
  OBVIOUS
<1>8. \A b \in E : IsFiniteSet(F[b]) /\ g[b] = Cardinality(F[b]) /\ g[b] \in Nat /\ g[b] \in Int
  <2> HIDE DEF F, E
  <2>1. \A b \in E : g[b] = Cardinality(F[b])
    OBVIOUS
  <2> HIDE DEF g
  <2>2. \A b \in E : IsFiniteSet(F[b]) /\ g[b] \in Nat
    BY <1>6, <1>7
  <2> QED
    BY <2>1, <2>2
<1>9. ASSUME NEW b \in D PROVE f[b] <= g[b]
  <2>1. LogOf(gatelog[b], b, taken) /\ b \in E /\ gatelog[b] \in TablesOf(Nat)
    BY <1>1, <1>2 DEF GatelogOf, D
  <2>2. g[b] = Cardinality(Bringing(taken, b, l)) /\ g[b] \in Nat
    BY <1>7, <1>8, <2>1
  <2> HIDE DEF g, F, E
  <2>3. CASE l \in DOMAIN gatelog[b]
    BY <2>1, <2>2, <2>3 DEF LogOf
  <2>4. CASE l \notin DOMAIN gatelog[b]
    BY <2>2, <2>4
  <2> QED
    BY <2>3, <2>4
<1>10. gate.bucket \notin D /\ open <= g[gate.bucket]
  <2>1. CASE pipeline = NewPipeline
    <3>1. gate.bucket = None /\ gate.log = <<>>
      BY <2>1 DEF NewPipeline, gate
    <3>2. open = 0
      BY <3>1
    <3>3. None \notin Nat
      BY DEF None
    <3>4. g[gate.bucket] \in Nat
      BY <1>8
    <3>5. gate.bucket \notin D
      <4>1. \A b \in D : b \in Nat
        BY <1>2
      <4> QED
        BY <3>1, <3>3, <4>1
    <3> HIDE DEF open, g, E, F
    <3>6. open <= g[gate.bucket]
      BY <3>2, <3>4
    <3> QED
      BY <3>5, <3>6
  <2>2. CASE pipeline # NewPipeline
    <3> DEFINE prev == pipeline.prev
    <3>1. /\ prev \in taken /\ prev.ts \in Nat /\ GateOf(gate, prev, taken)
      BY <1>1, <2>2, PipesAre DEF PipeOf, gate
    <3>2. \A x \in taken : x.ts <= prev.ts
      <4>1. OpenFrom(started_at) \in Nat
        BY <1>1, OpenFromIs
      <4>2. prev.ts >= OpenFrom(started_at) /\ \A x \in taken : x.ts >= OpenFrom(started_at) => x.ts <= prev.ts
        BY <1>1, <2>2 DEF PipelineStands
      <4> HIDE DEF prev
      <4> QED
        BY <1>1, <3>1, <4>1, <4>2
    <3> HIDE DEF prev
    <3>3. ASSUME NEW b \in D PROVE b # gate.bucket
      <4>1. HasEnded(TenMinutes, b, taken)
        BY <1>1 DEF GatelogOf, D
      <4>2. PICK p \in taken : b < BucketOf(TenMinutes, p.ts)
        BY <4>1 DEF HasEnded
      <4>3. p.ts \in Nat /\ p.ts <= prev.ts /\ TenMinutes \in Nat \ {0}
        BY <1>1, <3>2, WidthsAre
      <4>4. /\ BucketOf(TenMinutes, p.ts) <= BucketOf(TenMinutes, prev.ts)
            /\ BucketOf(TenMinutes, p.ts) \in Nat /\ BucketOf(TenMinutes, prev.ts) \in Nat
        BY <3>1, <4>3, BucketsAscend
      <4>5. gate.bucket = BucketOf(TenMinutes, prev.ts) /\ b \in Nat
        BY <1>2, <3>1 DEF GateOf
      <4> QED
        BY <4>2, <4>4, <4>5
    <3>4. open <= g[gate.bucket]
      <4>1. g[gate.bucket] = Cardinality(Bringing(taken, gate.bucket, l)) /\ g[gate.bucket] \in Nat
        BY <1>7, <1>8
      <4> HIDE DEF g, F, E
      <4>2. CASE l \in DOMAIN gate.log
        <5>1. /\ gate.log[l] <= Cardinality(Bringing(SoFar(taken, prev), gate.bucket, l))
              /\ SoFar(taken, prev) \subseteq taken
          BY <3>1, <4>2 DEF GateOf, LogOf, SoFar
        <5>2. /\ Cardinality(Bringing(SoFar(taken, prev), gate.bucket, l)) \in Nat
              /\ Cardinality(Bringing(SoFar(taken, prev), gate.bucket, l))
                    <= Cardinality(Bringing(taken, gate.bucket, l))
          BY <1>1, <5>1, BringingGrows
        <5> QED
          BY <1>4, <4>1, <4>2, <5>1, <5>2
      <4>3. CASE l \notin DOMAIN gate.log
        BY <4>1, <4>3
      <4> QED
        BY <4>2, <4>3
    <3> HIDE DEF open, g
    <3> QED
      BY <3>3, <3>4
  <2> QED
    BY <2>1, <2>2
<1>11. ASSUME NEW s \in SUBSET D, s # {}
       PROVE  (IF l \in DOMAIN gatelog[CHOOSE b \in s : TRUE]
               THEN gatelog[CHOOSE b \in s : TRUE][l] ELSE 0) = f[CHOOSE b \in s : TRUE]
  <2>1. (CHOOSE b \in s : TRUE) \in D
    BY <1>11
  <2> QED
    BY <2>1
<1>12. ASSUME NEW h PROVE P(h) <=> SumsAsLibrary(h, f, D)
  <2> HIDE DEF f
  <2> QED
    BY <1>11 DEF SumsAsLibrary
<1>13. PICK h : SumsAsLibrary(h, f, D)
  <2> HIDE DEF f
  <2> QED
    BY <1>2, <1>4, SumsExist
<1>14. P(h)
  <2> HIDE DEF P, f
  <2> QED
    BY <1>12, <1>13
<1>15. P(iter)
  <2> HIDE DEF P
  <2> QED
    BY <1>14, Zenon
<1>16. TimesCounted(l) = iter[D] + open
  BY DEF TimesCounted, MapThenSumSet, MapThenFoldSet, D, gate
<1> HIDE DEF iter
<1>17. SumsAsLibrary(iter, f, D)
  <2> HIDE DEF P, f
  <2> QED
    BY <1>12, <1>15
<1>18. iter[D] = SumOver(f, D)
  <2> HIDE DEF P, f
  <2> QED
    BY <1>2, <1>4, <1>17, SumsAreAlike
<1> HIDE DEF P, f, open, g
<1>19. /\ SumOver(f, D) \in Int /\ SumOver(g, D) \in Int /\ SumOver(f, D) <= SumOver(g, D)
  <2>1. \A b \in D : f[b] \in Int /\ g[b] \in Int /\ f[b] <= g[b]
    BY <1>4, <1>8, <1>9
  <2> QED
    BY <1>2, <2>1, SumOfLess
<1>20. SumOver(g, E) = g[gate.bucket] + SumOver(g, D)
  <2>1. gate.bucket \in E /\ E \ {gate.bucket} = D
    BY <1>10
  <2> HIDE DEF E, F
  <2>2. SumOver(g, E) = g[gate.bucket] + SumOver(g, E \ {gate.bucket})
    BY <1>5, <1>8, <2>1, SumWithout
  <2> QED
    BY <2>1, <2>2
<1>21. CountsApart(g, F, E)
  <2>1. ASSUME NEW x \in E, NEW y \in E, x # y PROVE F[x] \cap F[y] = {}
    <3>1. F[x] = Bringing(taken, x, l) /\ F[y] = Bringing(taken, y, l)
      BY <1>7
    <3> HIDE DEF F
    <3> QED
      BY <2>1, <3>1 DEF Bringing
  <2> HIDE DEF F, E
  <2> QED
    BY <1>8, <2>1 DEF CountsApart
<1>22. SumOver(g, E) = Cardinality(UNION {F[b] : b \in E})
  <2> HIDE DEF F, E
  <2> QED
    BY <1>5, <1>21, SumOfCardinalities
<1>23. UNION {F[b] : b \in E} \subseteq Brought(taken, l)
  <2>1. \A b \in E : F[b] \subseteq Brought(taken, l)
    <3> HIDE DEF F, E
    <3> QED
      BY <1>7 DEF Bringing, Brought
  <2> HIDE DEF F, E
  <2> QED
    BY <2>1
<1>24. /\ Cardinality(Brought(taken, l)) \in Nat /\ IsFiniteSet(Brought(taken, l))
  <2>1. Brought(taken, l) \subseteq taken
    BY DEF Brought
  <2> QED
    BY <1>1, <2>1, FS_Subset, FS_CardinalityType
<1>25. Cardinality(UNION {F[b] : b \in E}) <= Cardinality(Brought(taken, l))
  <2> HIDE DEF F, E
  <2> QED
    BY <1>23, <1>24, FS_Subset
<1>26. g[gate.bucket] \in Nat
  BY <1>8
<1> HIDE DEF F, E
<1> QED
  BY <1>4, <1>10, <1>16, <1>18, <1>19, <1>20, <1>22, <1>24, <1>25, <1>26

\* A row of the rollup (rollup.rs:42, series.rs:338, db.rs:352) counts each sample of its bucket once,
\* misses none that the retention left, and its tokens are the growth its samples showed; while the
\* collector runs, every sample that is still there is in its row or in the open bucket, but in the
\* gap of a restart or where the back-fill has not come yet; and a line of the gate's log is counted
\* once, and once more for each start that came within LogWindow of it.
THEOREM RollupsAreAlwaysExact == AccountsSpec => []RollupsAreExact
<1>1. LineInv => RollupsAreExact
  <2> SUFFICES ASSUME RollInv, LinesStand PROVE RollupsAreExact
    BY DEF LineInv
  <2>1. ASSUME alive, NEW l \in lines
        PROVE  TimesCounted(l) <= 1 + Cardinality({t \in starts : l <= t /\ t <= l + LogWindow})
    <3>1. TimesCounted(l) \in Int /\ TimesCounted(l) <= Cardinality(Brought(taken, l))
      BY <2>1, LinesAreCounted
    <3>2. Cardinality(Brought(taken, l)) <= 1 + Cardinality(Backs(starts, l))
      BY DEF LinesStand
    <3>3. Backs(starts, l) = {t \in starts : l <= t /\ t <= l + LogWindow}
      BY DEF Backs
    <3>4. IsFiniteSet(taken) /\ IsFiniteSet(starts)
      BY DEF RollInv, Apart, StartsStand
    <3>5. Cardinality(Brought(taken, l)) \in Nat /\ Cardinality(Backs(starts, l)) \in Nat
      BY <3>4, BroughtIs
    <3>6. TimesCounted(l) <= 1 + Cardinality(Backs(starts, l))
      BY <3>1, <3>2, <3>5
    <3> QED
      BY <3>3, <3>6
  <2> QED
    BY <2>1, RowsStandWhole, EverySampleStands DEF RollupsAreExact, LogLinesCountedOnce
<1> QED
  BY <1>1, LinesBegin, LinesGoOn, PTL DEF AccountsSpec

-----------------------------------------------------------------------------
(***************************************************************************)
(* A plan that was agreed to                                               *)
(***************************************************************************)
\* What a file may be made of: a plan that was let through, or one rate.
Agreeable == {p \in TouPlans : Usable(p)} \cup FlatPlans

-----------------------------------------------------------------------------
(***************************************************************************)
(* A plan has one price for every moment                                   *)
(***************************************************************************)
DayContexts == [hour: 0 .. HoursADay - 1, summer: BOOLEAN, free: BOOLEAN]

Winter(p, c) == p.seasonal /\ ~c.summer
Peak(p, c) == p.peak_start <= c.hour /\ c.hour < p.peak_end

\* The span of a plan that a moment belongs to.
SpanOf(p, c) ==
    (IF Winter(p, c) THEN 6 ELSE IF c.free THEN 3 ELSE 0)
    + (IF Peak(p, c) THEN 1 ELSE IF c.hour < p.peak_start THEN 2 ELSE 3)

\* The nine spans, one by one.
LEMMA TheSpans ==
    ASSUME NEW p \in TouPlans
    PROVE  LET a == p.peak_start
               b == p.peak_end
               summer == IF p.seasonal THEN "summer" ELSE "any"
           IN  /\ Spans(p)[1] = Period(p.on_peak, summer, "weekday", a, b)
               /\ Spans(p)[2] = Period(p.off_peak, summer, "weekday", 0, a)
               /\ Spans(p)[3] = Period(p.off_peak, summer, "weekday", b, HoursADay)
               /\ Spans(p)[4] = Period(p.weekend_peak, summer, "weekend_or_holiday", a, b)
               /\ Spans(p)[5] = Period(p.off_peak, summer, "weekend_or_holiday", 0, a)
               /\ Spans(p)[6] = Period(p.off_peak, summer, "weekend_or_holiday", b, HoursADay)
               /\ Spans(p)[7] = Period(p.winter_peak, "winter", "any", a, b)
               /\ Spans(p)[8] = Period(p.off_peak, "winter", "any", 0, a)
               /\ Spans(p)[9] = Period(p.off_peak, "winter", "any", b, HoursADay)
BY DEF Spans

\* A span that is written and matches is the one the moment belongs to.
LEMMA OneSpan ==
    ASSUME NEW p \in TouPlans, Usable(p), NEW c \in DayContexts, NEW i \in 1 .. 9
    PROVE  i \in Written(p) /\ Matches(Spans(p)[i], c) <=> i = SpanOf(p, c)
<1> DEFINE a == p.peak_start
           b == p.peak_end
           h == c.hour
           s == IF p.seasonal THEN "summer" ELSE "any"
<1> USE TariffAssumption
<1>1. /\ a \in Nat /\ b \in Nat /\ a < b /\ b <= HoursADay /\ HoursADay \in Nat /\ p.seasonal \in BOOLEAN
      /\ h \in Nat /\ h < HoursADay /\ c.summer \in BOOLEAN /\ c.free \in BOOLEAN
  BY DEF TouPlans, Usable, DayContexts
<1>2. CASE i \in 1 .. 3
  <2>1. ASSUME NEW usd, NEW from, NEW to, Spans(p)[i] = Period(usd, s, "weekday", from, to)
        PROVE  i \in Written(p) /\ Matches(Spans(p)[i], c)
                  <=> ~Winter(p, c) /\ ~c.free /\ from < to /\ from <= h /\ h < to
    BY <1>1, <1>2, <2>1 DEF Period, Matches, Written, Winter
  <2> QED
    BY <1>1, <1>2, <2>1, TheSpans DEF SpanOf, Peak
<1>3. CASE i \in 4 .. 6
  <2>1. ASSUME NEW usd, NEW from, NEW to, Spans(p)[i] = Period(usd, s, "weekend_or_holiday", from, to)
        PROVE  i \in Written(p) /\ Matches(Spans(p)[i], c)
                  <=> ~Winter(p, c) /\ c.free /\ from < to /\ from <= h /\ h < to
    BY <1>1, <1>3, <2>1 DEF Period, Matches, Written, Winter
  <2> QED
    BY <1>1, <1>3, <2>1, TheSpans DEF SpanOf, Peak
<1>4. CASE i \in 7 .. 9
  <2>1. ASSUME NEW usd, NEW from, NEW to, Spans(p)[i] = Period(usd, "winter", "any", from, to)
        PROVE  i \in Written(p) /\ Matches(Spans(p)[i], c)
                  <=> Winter(p, c) /\ from < to /\ from <= h /\ h < to
    BY <1>1, <1>4, <2>1 DEF Period, Matches, Written, Winter
  <2> QED
    BY <1>1, <1>4, <2>1, TheSpans DEF SpanOf, Peak
<1> QED
  BY <1>2, <1>3, <1>4

\* The price of the span a moment belongs to is the one that was agreed to.
LEMMA SpanPrice ==
    ASSUME NEW a, a.plan \in TouPlans, Usable(a.plan), NEW t \in Moments,
           NEW c \in DayContexts, c.hour = LocalTime[t].hour,
           c.free <=> LocalTime[t].weekend \/ LocalTime[t].day \in a.holidays,
           a.plan.seasonal =>
              (c.summer <=> LocalTime[t].month \in a.plan.summer_start .. a.plan.summer_end - 1)
    PROVE  /\ SpanOf(a.plan, c) \in 1 .. 9
           /\ Spans(a.plan)[SpanOf(a.plan, c)].usd = AgreedPrice(a, t)
           /\ AgreedPrice(a, t) \in Price
<1> DEFINE p == a.plan
<1> USE TariffAssumption
<1>1. /\ p.peak_start \in Nat /\ p.peak_end \in Nat /\ p.seasonal \in BOOLEAN
      /\ c.hour \in Nat /\ c.summer \in BOOLEAN /\ c.free \in BOOLEAN
      /\ p.kind = "time_of_use"
      /\ {p.on_peak, p.off_peak, p.weekend_peak, p.winter_peak} \subseteq Price
  BY DEF TouPlans, DayContexts
<1>2. SpanOf(p, c) \in 1 .. 9
  BY <1>1 DEF SpanOf
<1>3. AgreedPrice(a, t) =
          IF ~Peak(p, c) THEN p.off_peak
          ELSE IF Winter(p, c) THEN p.winter_peak
          ELSE IF c.free THEN p.weekend_peak ELSE p.on_peak
  <2>1. Peak(p, c) <=> LocalTime[t].hour \in p.peak_start .. p.peak_end - 1
    BY <1>1 DEF Peak
  <2>2. Winter(p, c) <=>
           p.seasonal /\ LocalTime[t].month \notin p.summer_start .. p.summer_end - 1
    BY DEF Winter
  <2> QED
    BY <1>1, <2>1, <2>2 DEF AgreedPrice
<1>4. Spans(p)[SpanOf(p, c)].usd =
          IF ~Peak(p, c) THEN p.off_peak
          ELSE IF Winter(p, c) THEN p.winter_peak
          ELSE IF c.free THEN p.weekend_peak ELSE p.on_peak
  <2>1. /\ Spans(p)[1].usd = p.on_peak /\ Spans(p)[4].usd = p.weekend_peak
        /\ Spans(p)[7].usd = p.winter_peak
        /\ \A i \in {2, 3, 5, 6, 8, 9} : Spans(p)[i].usd = p.off_peak
    <3>1. \A usd, season, day, from, to : Period(usd, season, day, from, to).usd = usd
      BY DEF Period
    <3> QED
      BY <3>1, TheSpans
  <2>2. CASE Winter(p, c)
    BY <2>1, <2>2 DEF SpanOf, Peak
  <2>3. CASE ~Winter(p, c) /\ c.free
    BY <2>1, <2>3 DEF SpanOf, Peak
  <2>4. CASE ~Winter(p, c) /\ ~c.free
    BY <2>1, <2>4 DEF SpanOf, Peak
  <2> QED
    BY <2>2, <2>3, <2>4
<1> QED
  BY <1>1, <1>2, <1>3, <1>4

\* What a file holds: the plan, and the holidays that were entered since.
Laid(a) ==
    IF a.plan.kind = "flat" THEN a.plan
    ELSE [kind |-> "time_of_use",
          summer_start |-> Rendered(a.plan).summer_start,
          summer_end |-> Rendered(a.plan).summer_end,
          holidays |-> a.holidays,
          periods |-> [i \in Written(a.plan) |-> Spans(a.plan)[i]]]

\* Rates that were laid from a plan price each moment as was agreed.
LEMMA LaidIsPriced ==
    ASSUME NEW a, a.plan \in Agreeable
    PROVE  /\ PricedAsMeant(Laid(a), a)
           /\ \A t \in Moments : AgreedPrice(a, t) \in Price
<1> USE TariffAssumption
<1>1. CASE a.plan \in FlatPlans
  <2>1. a.plan.kind = "flat" /\ a.plan.usd \in Price /\ Laid(a) = a.plan
    BY <1>1 DEF FlatPlans, Laid
  <2>2. \A t \in Moments : AgreedPrice(a, t) = a.plan.usd
    BY <2>1 DEF AgreedPrice
  <2> QED
    BY <2>1, <2>2 DEF PricedAsMeant, UsdPerKwhAt
<1>2. CASE a.plan \in TouPlans /\ Usable(a.plan)
  <2> DEFINE table == Laid(a)
             p == a.plan
  <2>1. /\ p.kind = "time_of_use" /\ table.kind = "time_of_use" /\ p.seasonal \in BOOLEAN
        /\ table.holidays = a.holidays
        /\ table.periods = [i \in Written(p) |-> Spans(p)[i]]
    BY <1>2 DEF Laid, TouPlans
  <2>2. p.seasonal =>
           /\ table.summer_start = p.summer_start /\ table.summer_end = p.summer_end
           /\ p.summer_end > p.summer_start
    BY <1>2, <2>1 DEF Laid, Rendered, Usable, TouPlans
  <2>3. SUFFICES ASSUME NEW t \in Moments
                 PROVE  /\ Cardinality(Hits(table, t)) = 1
                        /\ UsdPerKwhAt(table, t) = AgreedPrice(a, t)
                        /\ AgreedPrice(a, t) \in Price
    BY DEF PricedAsMeant
  <2> DEFINE c == DayContextAt(table, t)
             k == SpanOf(p, c)
  <2>4. /\ c \in DayContexts /\ c.hour = LocalTime[t].hour
        /\ c.free <=> LocalTime[t].weekend \/ LocalTime[t].day \in a.holidays
        /\ p.seasonal =>
              (c.summer <=> LocalTime[t].month \in p.summer_start .. p.summer_end - 1)
    <3>1. LocalTime[t] \in LocalTimes
      OBVIOUS
    <3> QED
      BY <2>1, <2>2, <3>1 DEF DayContextAt, DayContexts, LocalTimes
  <2>5. k \in 1 .. 9 /\ Spans(p)[k].usd = AgreedPrice(a, t) /\ AgreedPrice(a, t) \in Price
    BY <1>2, <2>4, SpanPrice
  <2>6. Hits(table, t) = {k} /\ k \in Written(p)
    <3>1. \A i \in 1 .. 9 : i \in Written(p) /\ Matches(Spans(p)[i], c) <=> i = k
      BY <1>2, <2>4, OneSpan
    <3>2. Hits(table, t) = {i \in Written(p) : Matches(Spans(p)[i], c)}
      BY <2>1 DEF Hits
    <3>3. Written(p) \subseteq 1 .. 9
      BY DEF Written
    <3> QED
      BY <2>5, <3>1, <3>2, <3>3
  <2>7. Cardinality({k}) = 1
    BY FS_Singleton
  <2>8. Min({k}) = k
    BY <2>5 DEF Min
  <2>9. UsdPerKwhAt(table, t) = Spans(p)[k].usd
    BY <2>1, <2>6, <2>8 DEF UsdPerKwhAt
  <2> QED
    BY <2>5, <2>6, <2>7, <2>9
<1> QED
  BY <1>1, <1>2 DEF Agreeable

\* What the wizard writes is the plan with no holidays in it.
LEMMA RenderedIsLaid ==
    ASSUME NEW a, a.plan \in Agreeable, a.holidays = {}
    PROVE  Laid(a) = Rendered(a.plan)
BY DEF Laid, Rendered

-----------------------------------------------------------------------------
(***************************************************************************)
(* The inductive invariant                                                 *)
(***************************************************************************)
Agreements == [plan: {NoPlan} \cup Agreeable, holidays: SUBSET Nat, spoilt: BOOLEAN]

IsLaid(file, a) ==
    \/ file = Missing
    \/ file = Unreadable /\ a.spoilt
    \/ a.plan \in Agreeable /\ file = Laid(a)

Stages == {"idle", "asking", "doubted", "chosen", "open", "write", "rename"}

\* Nothing gets as far as the file but a plan that can be used.
WizardInv ==
    /\ wizard \in [pc: Stages, tries: Int, plan: {NoPlan} \cup Agreeable, force: BOOLEAN]
    /\ wizard.pc \notin {"idle", "asking"} => wizard.plan \in Agreeable
    /\ wizard.pc = "rename" => rates_tmp = Rendered(wizard.plan)

FilesInv ==
    /\ agreed \in Agreements /\ IsLaid(rates_file, agreed)
    /\ IsLaid(rates_table, standing)

MeterInv ==
    /\ moment \in Moments
    /\ \A s \in meter : s.ts \in Moments

TariffInv == WizardInv /\ FilesInv /\ MeterInv

\* Rates that were laid are flat or by time of use.
LEMMA LaidKind ==
    ASSUME NEW a, a.plan \in Agreeable
    PROVE  Laid(a).kind \in {"flat", "time_of_use"}
BY DEF Agreeable, FlatPlans, TouPlans, Laid

\* What the invariant is for.
LEMMA TariffInvSuffices == TariffInv => BillIsAsAgreed
<1> SUFFICES ASSUME TariffInv PROVE BillIsAsAgreed
  OBVIOUS
<1>1. ASSUME NEW file, NEW a, IsLaid(file, a), file.kind \in {"flat", "time_of_use"}
      PROVE  PricedAsMeant(file, a) /\ \A t \in Moments : AgreedPrice(a, t) \in Price
  BY <1>1, LaidIsPriced DEF IsLaid, Missing, Unreadable
<1>2. rates_file = Unreadable => agreed.spoilt
  BY LaidKind DEF TariffInv, FilesInv, IsLaid, Missing, Unreadable
<1>3. ASSUME rates_table.kind \in {"flat", "time_of_use"}
      PROVE  LET steps == {x \in Neighbours(WattSeries(moment)) :
                              x[2].ts - x[1].ts <= MAX_STEP_SECS}
             IN  TodayUsd(rates_table, moment)
                    = Sum([x \in steps |-> Energy(x) * AgreedPrice(standing, x[1].ts)])
  <2> DEFINE steps == {x \in Neighbours(WattSeries(moment)) :
                          x[2].ts - x[1].ts <= MAX_STEP_SECS}
             meant == [x \in steps |-> Energy(x) * AgreedPrice(standing, x[1].ts)]
  <2>1. \A x \in steps : x[1].ts \in Moments
    BY DEF Neighbours, WattSeries, TariffInv, MeterInv
  <2>2. \A t \in Moments : /\ UsdPerKwhAt(rates_table, t) = AgreedPrice(standing, t)
                           /\ AgreedPrice(standing, t) # Unpriced
    BY <1>1, <1>3 DEF TariffInv, FilesInv, PricedAsMeant, Price, Unpriced
  <2>3. PricedSteps(rates_table, WattSeries(moment)) = steps
    BY <2>1, <2>2 DEF PricedSteps
  <2>4. StepUsd(rates_table, steps) = meant
    BY <2>1, <2>2 DEF StepUsd
  <2> QED
    BY <2>3, <2>4 DEF TodayUsd
<1> QED
  BY <1>1, <1>2, <1>3 DEF TariffInv, FilesInv, BillIsAsAgreed

\* The tariff is in order at the start.
LEMMA TariffInitInv == TariffInit => TariffInv
BY DEF TariffInit, TariffInv, WizardInv, FilesInv, MeterInv, Stages,
    NoWizard, NoAgreement, Agreements, IsLaid

\* The conversation leaves the files alone, and lets no other plan through.
LEMMA TalkKeeps ==
    ASSUME TariffInv,
           \/ \E force \in BOOLEAN : BeginWizard(force)
           \/ \E p \in TouPlans : AnswerPlan(p)
           \/ \E yes \in BOOLEAN : AnswerDoubt(yes) \/ AnswerReplace(yes)
           \/ \E usd \in Price : AnswerRate(usd)
           \/ LeaveWizard
    PROVE  TariffInv'
<1> USE DEF TariffInv, WizardInv, Stages
<1>1. ASSUME UNCHANGED <<tariff_files, tariff_collector, tariff_meter>>, WizardInv'
      PROVE  TariffInv'
  BY <1>1 DEF FilesInv, MeterInv, tariff_files, tariff_collector, tariff_meter
<1>2. ASSUME NEW force \in BOOLEAN, BeginWizard(force) PROVE TariffInv'
  BY <1>1, <1>2 DEF BeginWizard
<1>3. ASSUME Again PROVE WizardInv'
  <2>1. CASE wizard.tries < MaxTries
    <3>1. wizard' = [wizard EXCEPT !.pc = "asking", !.tries = @ + 1, !.plan = NoPlan]
      BY <1>3, <2>1 DEF Again
    <3>2. /\ wizard'.pc = "asking" /\ wizard'.tries \in Int
          /\ wizard'.plan = NoPlan /\ wizard'.force \in BOOLEAN
      BY <3>1
    <3>3. wizard' \in [pc: Stages, tries: Int, plan: {NoPlan} \cup Agreeable, force: BOOLEAN]
      BY <3>1, <3>2
    <3> QED
      BY <3>2, <3>3
  <2>2. CASE ~(wizard.tries < MaxTries)
    BY <1>3, <2>2 DEF Again, NoWizard
  <2> QED
    BY <2>1, <2>2
<1>4. ASSUME NEW p \in TouPlans, AnswerPlan(p) PROVE TariffInv'
  <2>1. CASE Usable(p)
    <3>1. p \in Agreeable
      BY <2>1 DEF Agreeable
    <3> QED
      BY <1>1, <1>4, <2>1, <3>1 DEF AnswerPlan
  <2>2. CASE ~Usable(p)
    BY <1>1, <1>3, <1>4, <2>2 DEF AnswerPlan
  <2> QED
    BY <2>1, <2>2
<1>5. ASSUME NEW yes \in BOOLEAN, AnswerDoubt(yes) PROVE TariffInv'
  <2>1. CASE yes
    BY <1>1, <1>5, <2>1 DEF AnswerDoubt, Wizard
  <2>2. CASE ~yes
    BY <1>1, <1>3, <1>5, <2>2 DEF AnswerDoubt
  <2> QED
    BY <2>1, <2>2
<1>6. ASSUME NEW yes \in BOOLEAN, AnswerReplace(yes) PROVE TariffInv'
  <2>1. CASE rates_file = Missing \/ wizard.force \/ yes
    BY <1>1, <1>6, <2>1 DEF AnswerReplace, Wizard
  <2>2. CASE ~(rates_file = Missing \/ wizard.force \/ yes)
    <3>1. wizard' = NoWizard /\ UNCHANGED <<tariff_files, tariff_collector, tariff_meter>>
      BY <1>6, <2>2, Zenon DEF AnswerReplace
    <3> QED
      BY <1>1, <3>1 DEF NoWizard
  <2> QED
    BY <2>1, <2>2
<1>7. ASSUME NEW usd \in Price, AnswerRate(usd) PROVE TariffInv'
  <2>1. [kind |-> "flat", usd |-> usd] \in Agreeable
    BY DEF Agreeable, FlatPlans
  <2> QED
    BY <1>1, <1>7, <2>1 DEF AnswerRate
<1>8. ASSUME LeaveWizard PROVE TariffInv'
  BY <1>1, <1>8 DEF LeaveWizard, NoWizard
<1> QED
  BY <1>2, <1>4, <1>5, <1>6, <1>7, <1>8

\* The write: the new file takes the place of the old one at once.
LEMMA WriteKeeps ==
    ASSUME TariffInv, OpenTmp \/ WriteTmp \/ RenameTmp
    PROVE  TariffInv'
<1> USE DEF TariffInv
<1>1. CASE OpenTmp \/ WriteTmp
  <2>1. WizardInv'
    BY <1>1 DEF OpenTmp, WriteTmp, Wizard, WizardInv, Stages
  <2> QED
    BY <1>1, <2>1 DEF OpenTmp, WriteTmp, FilesInv, MeterInv, tariff_collector, tariff_meter
<1>2. CASE RenameTmp
  <2>1. WizardInv'
    BY <1>2 DEF RenameTmp, WizardInv, Stages, NoWizard
  <2>2. agreed' \in Agreements /\ agreed'.plan = wizard.plan /\ agreed'.holidays = {}
        /\ agreed'.plan \in Agreeable
    BY <1>2 DEF RenameTmp, WizardInv, Agreements
  <2>3. rates_file' = Laid(agreed')
    BY <1>2, <2>2, RenderedIsLaid DEF RenameTmp, WizardInv
  <2> QED
    BY <1>2, <2>1, <2>2, <2>3
    DEF RenameTmp, FilesInv, MeterInv, IsLaid, tariff_collector, tariff_meter
<1> QED
  BY <1>1, <1>2

\* The person's hand.
LEMMA EditKeeps ==
    ASSUME TariffInv, (\E day \in Nat : EnterHoliday(day)) \/ SpoilFile
    PROVE  TariffInv'
<1> USE DEF TariffInv
<1>1. ASSUME UNCHANGED <<wizard, rates_tmp, tariff_collector, tariff_meter>>,
             agreed' \in Agreements, IsLaid(rates_file, agreed)'
      PROVE  TariffInv'
  BY <1>1 DEF WizardInv, FilesInv, MeterInv, tariff_collector, tariff_meter
<1>2. ASSUME NEW day \in Nat, EnterHoliday(day) PROVE TariffInv'
  <2>1. agreed.plan \in Agreeable /\ rates_file = Laid(agreed) /\ agreed.plan.kind # "flat"
    <3>1. agreed.plan \in Agreeable /\ rates_file = Laid(agreed)
      BY <1>2 DEF EnterHoliday, FilesInv, IsLaid, Missing, Unreadable
    <3> QED
      BY <1>2, <3>1 DEF EnterHoliday, Laid
  <2>2. /\ agreed' \in Agreements /\ agreed'.plan = agreed.plan
        /\ agreed'.holidays = agreed.holidays \cup {day}
    BY <1>2 DEF EnterHoliday, FilesInv, Agreements
  <2>3. rates_file' = Laid(agreed')
    BY <1>2, <2>1, <2>2 DEF EnterHoliday, Laid
  <2> QED
    BY <1>1, <1>2, <2>1, <2>2, <2>3 DEF EnterHoliday, IsLaid
<1>3. ASSUME SpoilFile PROVE TariffInv'
  <2>1. agreed' \in Agreements /\ agreed'.spoilt
    BY <1>3 DEF SpoilFile, FilesInv, Agreements
  <2> QED
    BY <1>1, <1>3, <2>1 DEF SpoilFile, IsLaid
<1> QED
  BY <1>2, <1>3

\* The collector reads the file once, and its samples are of moments that were.
LEMMA MeteringKeeps ==
    ASSUME TariffInv,
           \/ StartMetering \/ StopMetering
           \/ \E tokens \in Nat, watts \in Nat \cup {NoReading}, scraped \in BOOLEAN :
                 Metered(tokens, watts, scraped)
    PROVE  TariffInv'
<1> USE DEF TariffInv
<1>1. ASSUME UNCHANGED <<wizard, tariff_files>>, IsLaid(rates_table, standing)', MeterInv'
      PROVE  TariffInv'
  BY <1>1 DEF WizardInv, FilesInv, tariff_files
<1>2. CASE StartMetering
  <2>1. IsLaid(rates_table, standing)'
    BY <1>2 DEF StartMetering, FilesInv, IsLaid
  <2> QED
    BY <1>1, <1>2, <2>1 DEF StartMetering, MeterInv, tariff_meter
<1>3. CASE StopMetering
  BY <1>1, <1>3 DEF StopMetering, FilesInv, MeterInv, tariff_meter
<1>4. ASSUME NEW tokens, NEW watts, NEW scraped, Metered(tokens, watts, scraped)
      PROVE  TariffInv'
  <2>1. MeterInv'
    BY <1>4 DEF Metered, MeterInv
  <2> QED
    BY <1>1, <1>4, <2>1 DEF Metered, FilesInv
<1> QED
  BY <1>2, <1>3, <1>4

\* Nothing gets into the file but a plan that was let through, whole, and what the person
\* wrote into it; and no table but what was in the file (RealIo::write_file, the poll
\* loop's one read of rates.toml).
THEOREM FilesAreWhole == TariffSpec => []TariffInv
<1>1. TariffInit => TariffInv
  BY TariffInitInv
<1>2. TariffInv /\ [TariffNext]_tariff_vars => TariffInv'
  <2>1. CASE UNCHANGED tariff_vars
    BY <2>1 DEF TariffInv, WizardInv, FilesInv, MeterInv,
                tariff_vars, tariff_files, tariff_collector, tariff_meter
  <2> QED
    BY <2>1, TalkKeeps, WriteKeeps, EditKeeps, MeteringKeeps DEF TariffNext
<1> QED
  BY <1>1, <1>2, PTL DEF TariffSpec

\* For every plan, calendar and sequence of deaths, edits and restarts, the file, the table
\* and the bill of the day are of the prices that were agreed to (rates::accumulate,
\* render_tou_toml).
THEOREM BillIsAlwaysAsAgreed == TariffSpec => []BillIsAsAgreed
BY FilesAreWhole, TariffInvSuffices, PTL

-----------------------------------------------------------------------------
Spent == {LocalDay(t) : t \in priced}

\* Midnights, counted in whole days from each other, are off by less than half a day.
SmallDrift ==
    \A e, d \in DOMAIN zone : e <= d =>
        /\ 2 * Surplus(e, d) < DaySecs
        /\ -DaySecs < 2 * Surplus(e, d)

\* Months and years begin on a day of the calendar, and no month is longer than the chart.
CalendarIsWhole ==
    \A d \in DOMAIN zone :
        /\ FirstOf(MonthOf(d)) \in 1 .. d /\ d - FirstOf(MonthOf(d)) <= Chart
        /\ JanuaryFirst(d) \in 1 .. d

WindowsFitTheChart ==
    DaysAWeek - 1 <= Chart /\ LastWeek - 1 <= Chart /\ LastMonth - 1 <= Chart

Midnights == zone \in Seq(Int) /\ zone # <<>>

Calendar == Midnights /\ SmallDrift /\ CalendarIsWhole /\ WindowsFitTheChart

\* The rows are of the time before.
RowsAreOld ==
    /\ clock \in Int /\ zone[1] <= clock
    /\ \A t \in priced : t \in Int /\ zone[1] <= t /\ t <= clock

-----------------------------------------------------------------------------
(***************************************************************************)
(* Days                                                                    *)
(***************************************************************************)
\* Fewer days are shorter by at least a day.
LEMMA FewerDays ==
    ASSUME NEW a \in Int, NEW b \in Int, NEW n \in Nat \ {0}, a < b
    PROVE  a * n + n <= b * n
<1>1. (b - a - 1) * n >= 0
  <2>1. b - a - 1 \in Nat
    OBVIOUS
  <2>2. \A x, y \in Nat : x * y >= 0
    OBVIOUS
  <2> QED
    BY <2>1, <2>2
<1>2. (b - a - 1) * n = b * n - a * n - n
  OBVIOUS
<1>3. a * n \in Int /\ b * n \in Int
  OBVIOUS
<1> QED
  BY <1>1, <1>2, <1>3

\* One day more is its length more.
LEMMA OneDayMore ==
    ASSUME NEW a \in Int, NEW n \in Nat
    PROVE  (a + 1) * n = a * n + n /\ a * n \in Int
OBVIOUS

\* The largest member of a set of days is what Max says it is.
LEMMA MaxIs ==
    ASSUME NEW S \in SUBSET Int, NEW m \in S, \A x \in S : x <= m
    PROVE  Max(S) = m
<1>1. \A x \in S : m >= x
  OBVIOUS
<1>2. \A y \in S : (\A x \in S : y >= x) => y = m
  BY <1>1
<1> QED
  BY <1>1, <1>2 DEF Max

\* The least member of a set of days is what Min says it is.
LEMMA MinIs ==
    ASSUME NEW S \in SUBSET Int, NEW m \in S, \A x \in S : m <= x
    PROVE  Min(S) = m
<1>1. \A y \in S : (\A x \in S : y <= x) => y = m
  OBVIOUS
<1> QED
  BY <1>1 DEF Min

\* Later days begin later.
LEMMA MidnightsAscend ==
    ASSUME SmallDrift, Midnights, NEW e \in DOMAIN zone, NEW d \in DOMAIN zone, e < d
    PROVE  zone[e] < zone[d]
<1>1. e \in Int /\ d \in Int /\ zone[e] \in Int /\ zone[d] \in Int /\ DaySecs \in Nat \ {0}
  BY SpendingAssumption DEF Midnights
<1>2. -DaySecs < 2 * Surplus(e, d)
  BY <1>1 DEF SmallDrift
<1>3. 0 * DaySecs + DaySecs <= (d - e) * DaySecs
  BY <1>1, FewerDays
<1>4. (d - e) * DaySecs \in Int
  BY <1>1
<1> QED
  BY <1>1, <1>2, <1>3, <1>4 DEF Surplus

\* The day of a moment is the one that has begun and whose successor has not.
LEMMA LocalDayIs ==
    ASSUME SmallDrift, Midnights, NEW t \in Int, NEW d \in DOMAIN zone, InDay(t, d)
    PROVE  LocalDay(t) = d /\ \A e \in DOMAIN zone : zone[e] <= t <=> e <= d
<1> DEFINE S == {e \in DOMAIN zone : zone[e] <= t}
<1>1. d \in S /\ S \in SUBSET Int
  BY DEF Midnights, InDay
<1>2. ASSUME NEW e \in S PROVE e <= d
  <2> SUFFICES ASSUME d < e PROVE FALSE
    BY <1>1
  <2>1. d + 1 \in DOMAIN zone /\ d + 1 <= e
    BY <1>1 DEF Midnights
  <2>2. zone[d + 1] <= zone[e]
    <3>1. zone[d + 1] \in Int /\ e \in Int /\ d + 1 \in Int
      BY <2>1 DEF Midnights
    <3>2. CASE d + 1 = e
      BY <3>1, <3>2
    <3>3. CASE d + 1 < e
      <4>1. zone[d + 1] < zone[e]
        BY <2>1, <3>3, MidnightsAscend
      <4> QED
        BY <4>1, <3>1 DEF Midnights
    <3> QED
      BY <2>1, <3>1, <3>2, <3>3
  <2> QED
    BY <2>1, <2>2 DEF Midnights, InDay
<1>3. ASSUME NEW e \in DOMAIN zone, e <= d PROVE zone[e] <= t
  <2>1. e \in Int /\ d \in Int /\ zone[e] \in Int /\ zone[d] \in Int
    BY DEF Midnights
  <2>2. CASE e = d
    BY <2>1, <2>2 DEF InDay
  <2>3. CASE e < d
    <3>1. zone[e] < zone[d]
      BY <2>3, MidnightsAscend
    <3> QED
      BY <3>1, <2>1 DEF InDay
  <2> QED
    BY <2>1, <2>2, <2>3, <1>3
<1>4. \A e \in DOMAIN zone : InDay(t, e) => e = d
  <2> SUFFICES ASSUME NEW e \in DOMAIN zone, InDay(t, e), e # d PROVE FALSE
    OBVIOUS
  <2>1. e \in S /\ e <= d /\ e \in 1 .. Len(zone) /\ d \in 1 .. Len(zone)
    BY <1>2 DEF InDay, Midnights
  <2>2. e + 1 \in DOMAIN zone /\ e + 1 <= d /\ zone[e + 1] \in Int
    BY <2>1 DEF Midnights
  <2>3. zone[e + 1] <= t
    BY <2>2, <1>3
  <2> QED
    BY <2>2, <2>3 DEF InDay
<1>5. LocalDay(t) = d
  BY <1>4 DEF LocalDay
<1>6. ASSUME NEW e \in DOMAIN zone PROVE zone[e] <= t <=> e <= d
  BY <1>2, <1>3
<1> QED
  BY <1>5, <1>6

\* Every moment since the calendar begins is in a day of it.
LEMMA LocalDayExists ==
    ASSUME SmallDrift, Midnights, NEW t \in Int, zone[1] <= t
    PROVE  /\ LocalDay(t) \in DOMAIN zone /\ zone[LocalDay(t)] <= t
           /\ \A e \in DOMAIN zone : zone[e] <= t <=> e <= LocalDay(t)
<1> DEFINE S == {e \in DOMAIN zone : zone[e] <= t}
           d == Max(S)
<1>1. Len(zone) \in Nat /\ 1 \in DOMAIN zone /\ DOMAIN zone = 1 .. Len(zone)
  BY DEF Midnights
<1>2. S \subseteq 0 .. Len(zone) /\ S # {}
  BY <1>1
<1>3. d \in S /\ \A e \in S : e <= d
  <2> HIDE DEF S
  <2> QED
    BY <1>1, <1>2, LargestExists
<1>4. InDay(t, d)
  <2> SUFFICES ASSUME d + 1 \in DOMAIN zone, ~(t < zone[d + 1]) PROVE FALSE
    BY <1>3 DEF InDay
  <2> HIDE DEF d
  <2>1. d + 1 \in S /\ d \in Int
    BY <1>1, <1>3 DEF Midnights
  <2> QED
    BY <1>3, <2>1
<1> QED
  BY <1>3, <1>4, LocalDayIs DEF InDay

-----------------------------------------------------------------------------
(***************************************************************************)
(* Starts of windows                                                       *)
(***************************************************************************)
\* Counted back k days of 86 400 seconds from the midnight of d, a window holds the days
\* from d - k on; it loses d - k itself when the days since were longer.
LEMMA CountedBack ==
    ASSUME SmallDrift, Midnights, NEW d \in DOMAIN zone, NEW k \in Nat,
           NEW e \in DOMAIN zone, e <= d
    PROVE  /\ zone[e] >= zone[d] - k * DaySecs => e >= d - k
           /\ e > d - k => zone[e] >= zone[d] - k * DaySecs
           /\ e = d - k /\ ~(zone[e] >= zone[d] - k * DaySecs) => Surplus(e, d) > 0
<1> DEFINE n == d - e
           s == Surplus(e, d)
<1>1. DaySecs \in Nat \ {0} /\ n \in Int /\ zone[e] \in Int /\ zone[d] \in Int
  BY SpendingAssumption DEF Midnights
<1>2. n * DaySecs \in Int /\ k * DaySecs \in Int
  BY <1>1
<1>3. s \in Int /\ zone[d] - zone[e] = s + n * DaySecs
  BY <1>1, <1>2 DEF Surplus
<1>4. 2 * s < DaySecs /\ -DaySecs < 2 * s
  BY DEF SmallDrift
<1>5. zone[e] >= zone[d] - k * DaySecs <=> s + n * DaySecs <= k * DaySecs
  BY <1>1, <1>2, <1>3
<1>6. CASE n < k
  <2>1. n * DaySecs + DaySecs <= k * DaySecs
    BY <1>1, <1>6, FewerDays
  <2> HIDE DEF s
  <2>2. s + n * DaySecs <= k * DaySecs
    BY <2>1, <1>1, <1>2, <1>3, <1>4
  <2> QED
    BY <2>2, <1>5, <1>6, <1>1 DEF Midnights
<1>7. CASE n = k
  <2>1. e = d - k /\ d \in Int /\ e \in Int
    BY <1>7 DEF Midnights
  <2>2. zone[e] >= zone[d] - k * DaySecs <=> s <= 0
    <3>1. s + n * DaySecs <= k * DaySecs <=> s <= 0
      <4> HIDE DEF s
      <4> QED
        BY <1>2, <1>3, <1>7
    <3> QED
      BY <3>1, <1>5
  <2> QED
    BY <2>1, <2>2, <1>3
<1>8. CASE n > k
  <2>1. k * DaySecs + DaySecs <= n * DaySecs
    BY <1>1, <1>8, FewerDays
  <2> HIDE DEF s
  <2>2. ~(s + n * DaySecs <= k * DaySecs)
    BY <2>1, <1>1, <1>2, <1>3, <1>4
  <2> QED
    BY <2>2, <1>5, <1>8, <1>1 DEF Midnights
<1> QED
  BY <1>6, <1>7, <1>8, <1>1

\* Half a day after the moment that is counted back to it is January 1st.
LEMMA YearStartIsSnapped ==
    ASSUME SmallDrift, Midnights, NEW t \in Int, zone[1] <= t,
           JanuaryFirst(LocalDay(t)) \in 1 .. LocalDay(t)
    PROVE  YearStart(t) = zone[JanuaryFirst(LocalDay(t))]
<1> DEFINE d == LocalDay(t)
           j == JanuaryFirst(d)
           half == DaySecs \div 2
           noon == zone[d] - (d - j) * DaySecs + half
<1>1. d \in DOMAIN zone /\ j \in DOMAIN zone /\ j <= d
  BY LocalDayExists DEF Midnights
<1>2. DaySecs \in Nat \ {0} /\ half \in Nat /\ 2 * half <= DaySecs /\ DaySecs <= 2 * half + 1
  BY SpendingAssumption
<1>3. zone[d] \in Int /\ zone[j] \in Int /\ (d - j) * DaySecs \in Int
  BY <1>1, <1>2 DEF Midnights
<1>4. noon \in Int /\ noon = zone[j] + Surplus(j, d) + half
  BY <1>2, <1>3 DEF Surplus
<1>5. 2 * Surplus(j, d) < DaySecs /\ -DaySecs < 2 * Surplus(j, d) /\ Surplus(j, d) \in Int
  BY <1>1, <1>2, <1>3 DEF SmallDrift, Surplus
<1>6. InDay(noon, j)
  <2>1. zone[j] <= noon
    <3> HIDE DEF noon, half, j, d
    <3> QED
      BY <1>2, <1>3, <1>4, <1>5
  <2>2. ASSUME j + 1 \in DOMAIN zone PROVE noon < zone[j + 1]
    <3>1. zone[j + 1] \in Int
      BY <2>2 DEF Midnights
    <3>2. zone[j + 1] = zone[j] + DaySecs + Surplus(j, j + 1)
      BY <1>1, <1>2, <1>3, <3>1 DEF Surplus
    <3>3. -DaySecs < 2 * Surplus(j, j + 1) /\ Surplus(j, j + 1) \in Int
      <4>1. j \in Int
        BY <1>1 DEF Midnights
      <4>2. -DaySecs < 2 * Surplus(j, j + 1)
        BY <1>1, <2>2, <4>1 DEF SmallDrift
      <4>3. Surplus(j, j + 1) \in Int
        BY <1>2, <1>3, <3>1, <4>1 DEF Surplus
      <4> QED
        BY <4>2, <4>3
    <3>4. CASE j = d
      <4>1. Surplus(j, d) = 0
        BY <1>2, <1>3, <3>4 DEF Surplus
      <4> HIDE DEF noon, half, j, d
      <4> QED
        BY <1>2, <1>3, <1>4, <3>1, <3>2, <3>3, <4>1
    <3>5. CASE j < d
      <4>1. 2 * Surplus(j + 1, d) < DaySecs
        BY <1>1, <2>2, <3>5 DEF SmallDrift, Midnights
      <4>2. Surplus(j, d) = Surplus(j, j + 1) + Surplus(j + 1, d) /\ Surplus(j + 1, d) \in Int
        <5>1. d - j \in Int /\ d - (j + 1) \in Int
          BY <1>1 DEF Midnights
        <5>0. d - j = (d - (j + 1)) + 1
          BY <1>1 DEF Midnights
        <5>2. (d - j) * DaySecs = DaySecs + (d - (j + 1)) * DaySecs
          <6> DEFINE a == d - (j + 1)
          <6>1. (a + 1) * DaySecs = a * DaySecs + DaySecs /\ a * DaySecs \in Int
            <7> HIDE DEF a
            <7> QED
              BY <5>1, <1>2, OneDayMore DEF a
          <6>2. (d - j) * DaySecs = (a + 1) * DaySecs
            BY <5>0
          <6> QED
            BY <6>1, <6>2, <1>2
        <5>3. (d - (j + 1)) * DaySecs \in Int
          BY <5>1, <1>2
        <5>4. (j + 1 - j) * DaySecs = DaySecs
          BY <1>1, <1>2 DEF Midnights
        <5> QED
          BY <5>2, <5>3, <5>4, <1>2, <1>3, <3>1 DEF Surplus
      <4> HIDE DEF noon, half, j, d
      <4> QED
        BY <1>2, <1>3, <1>4, <3>1, <3>2, <3>3, <4>1, <4>2
    <3> QED
      BY <3>4, <3>5, <1>1 DEF Midnights
  <2> QED
    BY <2>1, <2>2 DEF InDay
<1>7. LocalDay(noon) = j
  BY <1>1, <1>4, <1>6, LocalDayIs
<1>8. DayOfYear(d) - 1 = d - j
  BY <1>1 DEF DayOfYear, Midnights
<1> QED
  BY <1>7, <1>8 DEF YearStart, LocalMidnight
-----------------------------------------------------------------------------
(***************************************************************************)
(* Windows                                                                 *)
(***************************************************************************)
\* An entry is of a day that was paid for.
LEMMA EntriesAre ==
    ASSUME NEW f, NEW x \in DailySpend(f)
    PROVE  x.day \in Spent /\ x.ts = zone[x.day]
<1> DEFINE sold == {r \in priced : r >= f}
<1>1. PICK e \in {LocalDay(r) : r \in sold} : x = DaySpend(e, sold)
  BY DEF DailySpend
<1>2. e \in Spent
  BY DEF Spent
<1> QED
  BY <1>1, <1>2 DEF DaySpend

\* A window is the days that were paid for and begin in it, if the rows were read from its
\* start or from before it.
LEMMA WindowIs ==
    ASSUME SmallDrift, Midnights, RowsAreOld,
           NEW f \in Int, NEW from \in Int, f <= from, NEW to \in Int, NEW n
    PROVE  SpendWindow(DailySpend(f), from, to, n).days =
               {e \in Spent : zone[e] >= from /\ zone[e] < to}
<1>1. \A r \in priced : LocalDay(r) \in DOMAIN zone /\ zone[LocalDay(r)] <= r /\ r \in Int
  BY LocalDayExists DEF RowsAreOld
<1>2. ASSUME NEW e \in Spent, zone[e] >= from
      PROVE  \E r \in priced : r >= f /\ LocalDay(r) = e
  <2>1. PICK r \in priced : e = LocalDay(r)
    BY DEF Spent
  <2>2. zone[e] \in Int
    BY <1>1, <2>1 DEF Midnights
  <2> QED
    BY <1>1, <1>2, <2>1, <2>2
<1> DEFINE sold == {r \in priced : r >= f}
           days == DailySpend(f)
<1>7. \A e : DaySpend(e, sold).day = e /\ DaySpend(e, sold).ts = zone[e]
  BY DEF DaySpend
<1>8. days = {DaySpend(e, sold) : e \in {LocalDay(r) : r \in sold}}
  BY DEF DailySpend
<1>3. \A x \in days : x.day \in Spent /\ x.ts = zone[x.day]
  BY EntriesAre
<1>4. \A e \in {LocalDay(r) : r \in sold} : \E x \in days : x.day = e /\ x.ts = zone[e]
  BY <1>7, <1>8
<1>5. SpendWindow(days, from, to, n).days =
          {x.day : x \in {y \in days : y.ts >= from /\ y.ts < to}}
  BY DEF SpendWindow
<1> HIDE DEF days
<1>6. ASSUME NEW e \in Spent, zone[e] >= from, zone[e] < to
      PROVE  e \in {x.day : x \in {y \in days : y.ts >= from /\ y.ts < to}}
  <2>1. e \in {LocalDay(r) : r \in sold}
    BY <1>2, <1>6
  <2>2. PICK x \in days : x.day = e /\ x.ts = zone[e]
    BY <1>4, <2>1
  <2> QED
    BY <1>6, <2>2
<1> QED
  BY <1>3, <1>5, <1>6 DEF days

\* What is said of each window: it holds nothing else, and all but what a long day costs it.
IsTheCalendars(summed, meant, d) ==
    LET missing == (meant \cap Spent) \ summed
    IN  /\ summed \subseteq meant \cap Spent
        /\ missing = {} \/ (missing = {Min(meant)} /\ Surplus(Min(meant), d) > 0)

\* It is so of a window that is counted back k days, up to today or up to before it.
LEMMA CountedBackIsTheCalendars ==
    ASSUME SmallDrift, Midnights, NEW d \in DOMAIN zone, NEW k \in Nat,
           NEW last \in {d, d - 1}, k >= d - last,
           Spent \subseteq 1 .. d, d \in 1 .. Len(zone),
           NEW meant, meant = {e \in DOMAIN zone : d - k <= e /\ e <= last},
           NEW summed, summed = {e \in Spent : zone[e] >= zone[d] - k * DaySecs /\ e <= last}
    PROVE  IsTheCalendars(summed, meant, d)
<1>1. DOMAIN zone = 1 .. Len(zone) /\ Len(zone) \in Nat /\ d \in Int
  BY DEF Midnights
<1>2. \A e \in Spent : e \in DOMAIN zone /\ e \in Int /\ e <= d
  BY <1>1
<1>3. \A e \in summed : e \in meant /\ e \in Spent
  BY <1>1, <1>2, CountedBack
<1>4. \A e \in (meant \cap Spent) \ summed : e = d - k /\ Surplus(e, d) > 0
  <2> SUFFICES ASSUME NEW e \in (meant \cap Spent) \ summed
               PROVE  e = d - k /\ Surplus(e, d) > 0
    OBVIOUS
  <2>1. e \in DOMAIN zone /\ e \in Int /\ e <= d /\ d - k <= e
        /\ ~(zone[e] >= zone[d] - k * DaySecs)
    BY <1>2
  <2>2. ~(e > d - k)
    BY <2>1, CountedBack
  <2>3. e = d - k
    BY <1>1, <2>1, <2>2
  <2> QED
    BY <2>1, <2>3, CountedBack
<1>5. CASE (meant \cap Spent) \ summed = {}
  BY <1>3, <1>5 DEF IsTheCalendars
<1>6. CASE (meant \cap Spent) \ summed # {}
  <2>1. PICK e \in (meant \cap Spent) \ summed : e = d - k /\ Surplus(e, d) > 0
    BY <1>4, <1>6
  <2>2. (meant \cap Spent) \ summed = {e}
    BY <1>4, <2>1
  <2>3. meant \in SUBSET Int /\ e \in meant /\ \A x \in meant : e <= x
    BY <1>1, <2>1
  <2>4. Min(meant) = e
    BY <2>3, MinIs
  <2> QED
    BY <1>3, <2>1, <2>2, <2>4 DEF IsTheCalendars
<1> QED
  BY <1>5, <1>6

\* The start of the rows that are read is before that of every window.
LEMMA RowsReachBack ==
    ASSUME NEW k \in Nat, k <= Chart, NEW z \in Int, NEW y \in Int
    PROVE  /\ Min({y, z - Chart * DaySecs}) \in Int
           /\ Min({y, z - Chart * DaySecs}) <= z - k * DaySecs
           /\ Min({y, z - Chart * DaySecs}) <= y
           /\ z - k * DaySecs \in Int
<1> DEFINE c == z - Chart * DaySecs
<1>1. DaySecs \in Nat \ {0} /\ Chart \in Nat \ {0}
  BY SpendingAssumption
<1>2. Chart * DaySecs \in Int /\ k * DaySecs \in Int /\ k * DaySecs <= Chart * DaySecs
  <2>1. Chart * DaySecs \in Int /\ k * DaySecs \in Int
    BY <1>1
  <2>2. CASE k = Chart
    BY <2>1, <2>2
  <2>3. CASE k < Chart
    <3>1. k * DaySecs + DaySecs <= Chart * DaySecs
      BY <1>1, <2>3, FewerDays
    <3> QED
      BY <1>1, <2>1, <3>1
  <2> QED
    BY <1>1, <2>1, <2>2, <2>3
<1>3. Min({y, c}) = IF y <= c THEN y ELSE c
  <2>1. c \in Int
    BY <1>2
  <2> HIDE DEF c
  <2>2. CASE y <= c
    BY <2>1, <2>2, MinIs
  <2>3. CASE ~(y <= c)
    BY <2>1, <2>3, MinIs
  <2> QED
    BY <2>2, <2>3
<1> QED
  BY <1>2, <1>3

\* A window that is counted back k days, on the rows that are read.
LEMMA WindowHolds ==
    ASSUME Calendar, RowsAreOld, NEW d, d = LocalDay(clock), NEW k \in Nat, k <= Chart,
           NEW last \in {d, d - 1}, k >= d - last, NEW to \in Int,
           \A e \in Spent : zone[e] < to <=> e <= last,
           NEW y \in Int, NEW n
    PROVE  IsTheCalendars(
               SpendWindow(DailySpend(Min({y, zone[d] - Chart * DaySecs})),
                           zone[d] - k * DaySecs, to, n).days,
               {e \in DOMAIN zone : d - k <= e /\ e <= last}, d)
<1> DEFINE f == Min({y, zone[d] - Chart * DaySecs})
           from == zone[d] - k * DaySecs
           summed == SpendWindow(DailySpend(f), from, to, n).days
<1>1. d \in DOMAIN zone /\ zone[d] \in Int /\ d \in 1 .. Len(zone)
  BY LocalDayExists DEF Calendar, RowsAreOld, Midnights
<1>2. f \in Int /\ from \in Int /\ f <= from
  BY <1>1, RowsReachBack
<1>3. summed = {e \in Spent : zone[e] >= from /\ zone[e] < to}
  <2>1. SmallDrift /\ Midnights
    BY DEF Calendar
  <2> HIDE DEF f, from
  <2> QED
    BY <1>2, <2>1, WindowIs
<1>4. summed = {e \in Spent : zone[e] >= from /\ e <= last}
  <2> HIDE DEF summed, from
  <2> QED
    BY <1>3
<1>5. Spent \subseteq 1 .. d
  <2> SUFFICES ASSUME NEW r \in priced PROVE LocalDay(r) \in 1 .. d
    BY DEF Spent
  <2>1. r \in Int /\ zone[1] <= r /\ r <= clock /\ clock \in Int /\ zone[1] <= clock
    BY DEF RowsAreOld
  <2>2. LocalDay(r) \in DOMAIN zone /\ zone[LocalDay(r)] <= r
    BY <2>1, LocalDayExists DEF Calendar
  <2>3. zone[LocalDay(r)] <= clock
    BY <2>1, <2>2 DEF Calendar, Midnights
  <2>4. LocalDay(r) <= d
    BY <2>1, <2>2, <2>3, LocalDayExists DEF Calendar
  <2> QED
    BY <2>2, <2>4, <1>1 DEF Calendar, Midnights
<1> DEFINE meant == {e \in DOMAIN zone : d - k <= e /\ e <= last}
<1>6. SmallDrift /\ Midnights
  BY DEF Calendar
<1>7. summed = {e \in Spent : zone[e] >= zone[d] - k * DaySecs /\ e <= last}
  <2> HIDE DEF summed
  <2> QED
    BY <1>4
<1>8. meant = {e \in DOMAIN zone : d - k <= e /\ e <= last}
  OBVIOUS
<1> HIDE DEF summed, meant
<1>9. IsTheCalendars(summed, meant, d)
  BY ONLY <1>1, <1>5, <1>6, <1>7, <1>8, CountedBackIsTheCalendars, k \in Nat,
          last \in {d, d - 1}, k >= d - last
<1> QED
  BY <1>9 DEF summed, meant

\* What WindowsAreTheCalendars says of one window.
Holds(w, d) ==
    LET meant == Meant(d)[w] \cap DOMAIN zone
        summed == IF w = "daily" THEN Spending(clock).daily ELSE Spending(clock)[w].days
        missing == (meant \cap Spent) \ summed
    IN  /\ summed \subseteq meant \cap Spent
        /\ \/ missing = {}
           \/ w # "this_year" /\ missing = {Min(meant)} /\ Surplus(Min(meant), d) > 0

\* The days of a window in the words of the property.
LEMMA HoldsIsThat ==
    ASSUME NEW w, NEW d, w # "this_year", NEW summed,
           summed = IF w = "daily" THEN Spending(clock).daily ELSE Spending(clock)[w].days,
           IsTheCalendars(summed, Meant(d)[w] \cap DOMAIN zone, d)
    PROVE  Holds(w, d)
BY DEF Holds, IsTheCalendars

\* Every window is the calendar's, whatever has been spent and whenever it is asked for.
LEMMA WindowsOfACalendar ==
    ASSUME Calendar, RowsAreOld
    PROVE  WindowsAreTheCalendars
<1> DEFINE d == LocalDay(clock)
           y == YearStart(clock)
           f == Min({y, zone[d] - Chart * DaySecs})
           Win(from, to, n) == SpendWindow(DailySpend(f), from, to, n)
<1>1. /\ d \in DOMAIN zone /\ d \in 1 .. Len(zone) /\ DOMAIN zone = 1 .. Len(zone)
      /\ zone[d] \in Int /\ zone[d] <= clock /\ clock \in Int
      /\ \A e \in DOMAIN zone : zone[e] <= clock <=> e <= d
  BY LocalDayExists DEF Calendar, RowsAreOld, Midnights
<1>2. DaySecs \in Nat \ {0} /\ DaysAWeek \in Nat \ {0} /\ LastWeek \in Nat \ {0}
      /\ LastMonth \in Nat \ {0} /\ Chart \in Nat \ {0}
  BY SpendingAssumption
<1>3. y = zone[JanuaryFirst(d)] /\ JanuaryFirst(d) \in DOMAIN zone /\ y \in Int
      /\ JanuaryFirst(d) <= d
  <2>1. JanuaryFirst(d) \in 1 .. d
    BY <1>1 DEF Calendar, CalendarIsWhole
  <2>2. y = zone[JanuaryFirst(d)]
    BY <2>1, YearStartIsSnapped DEF Calendar, RowsAreOld
  <2> QED
    BY <1>1, <2>1, <2>2 DEF Calendar, Midnights
<1>4. \A e \in Spent : e \in DOMAIN zone /\ e \in Int /\ zone[e] \in Int /\ e <= d
                       /\ zone[e] <= clock
  <2> SUFFICES ASSUME NEW r \in priced
               PROVE  LET e == LocalDay(r)
                      IN  e \in DOMAIN zone /\ e \in Int /\ zone[e] \in Int /\ e <= d
                          /\ zone[e] <= clock
    BY DEF Spent
  <2>1. r \in Int /\ zone[1] <= r /\ r <= clock
    BY DEF RowsAreOld
  <2>2. LocalDay(r) \in DOMAIN zone /\ zone[LocalDay(r)] <= r
    BY <2>1, LocalDayExists DEF Calendar
  <2>3. zone[LocalDay(r)] \in Int /\ LocalDay(r) \in Int
    BY <2>2, <1>1 DEF Calendar, Midnights
  <2> QED
    BY <1>1, <2>1, <2>2, <2>3
\* Windows up to now end after every day that has begun.
<1>5. \A e \in Spent : zone[e] < clock + DaySecs <=> e <= d
  BY <1>1, <1>2, <1>4
<1>6. \A e \in Spent : zone[e] < zone[d] + DaySecs <=> e <= d
  <2>1. \A e \in Spent : zone[e] <= zone[d]
    <3> SUFFICES ASSUME NEW e \in Spent PROVE zone[e] <= zone[d]
      OBVIOUS
    <3>1. e < d \/ e = d
      BY <1>1, <1>4
    <3> HIDE DEF d
    <3> QED
      BY <3>1, <1>1, <1>4, MidnightsAscend DEF Calendar
  <2> QED
    BY <1>1, <1>2, <1>4, <2>1
<1>7. \A e \in Spent : zone[e] < zone[d] <=> e <= d - 1
  <2> SUFFICES ASSUME NEW e \in Spent PROVE zone[e] < zone[d] <=> e <= d - 1
    OBVIOUS
  <2>1. e < d \/ e = d
    BY <1>1, <1>4
  <2> HIDE DEF d
  <2> QED
    BY <2>1, <1>1, <1>4, MidnightsAscend DEF Calendar
<1> DEFINE From(k) == zone[d] - k * DaySecs
           Days(k, last) == {e \in DOMAIN zone : d - k <= e /\ e <= last}
<1>8. ASSUME NEW k \in Nat, k <= Chart, NEW n
      PROVE  IsTheCalendars(Win(From(k), clock + DaySecs, n).days, Days(k, d), d)
  <2>1. clock + DaySecs \in Int
    BY <1>1, <1>2
  <2>2. k >= d - d
    BY <1>1
  <2> HIDE DEF d, y
  <2> QED
    BY <1>1, <1>3, <1>5, <1>8, <2>1, <2>2, WindowHolds DEF d
<1>9. \A n : IsTheCalendars(Win(zone[d], zone[d] + DaySecs, n).days, Days(0, d), d)
  <2> TAKE n
  <2>1. zone[d] - 0 * DaySecs = zone[d] /\ zone[d] + DaySecs \in Int
    BY <1>1, <1>2
  <2>2. ASSUME NEW k \in Nat, k <= Chart
        PROVE  IsTheCalendars(Win(From(k), zone[d] + DaySecs, n).days, Days(k, d), d)
    <3>1. k >= d - d
      BY <1>1
    <3> HIDE DEF d, y
    <3> QED
      BY <1>1, <1>3, <1>6, <2>1, <2>2, <3>1, WindowHolds DEF d
  <2>3. From(0) = zone[d]
    BY <2>1
  <2> HIDE DEF Win, From, Days
  <2>4. IsTheCalendars(Win(From(0), zone[d] + DaySecs, n).days, Days(0, d), d)
    BY <1>2, <2>2
  <2> QED
    BY <2>3, <2>4
<1>10. \A n : IsTheCalendars(Win(zone[d] - DaySecs, zone[d], n).days, Days(1, d - 1), d)
  <2> TAKE n
  <2>1. zone[d] - 1 * DaySecs = zone[d] - DaySecs /\ 1 >= d - (d - 1) /\ 1 <= Chart
    BY <1>1, <1>2
  <2>2. IsTheCalendars(Win(From(1), zone[d], n).days, Days(1, d - 1), d)
    <3> HIDE DEF d, y
    <3> QED
      BY <1>1, <1>3, <1>7, <2>1, WindowHolds DEF d
  <2> QED
    BY <2>1, <2>2
\* The record of the windows ...
<1>11. LET told == Spending(clock)
       IN  /\ told.today = Win(zone[d], zone[d] + DaySecs, clock - zone[d])
           /\ told.yesterday = Win(zone[d] - DaySecs, zone[d], DaySecs)
           /\ told.this_week = Win(WeekStart(clock), clock + DaySecs, clock - WeekStart(clock))
           /\ told.last_7d = Win(From(LastWeek - 1), clock + DaySecs, LastWeek * DaySecs)
           /\ told.this_month =
                  Win(MonthStart(clock), clock + DaySecs, clock - MonthStart(clock))
           /\ told.last_30d = Win(From(LastMonth - 1), clock + DaySecs, LastMonth * DaySecs)
           /\ told.this_year = Win(y, clock + DaySecs, clock - y)
           /\ told.daily = {x.day : x \in {e \in DailySpend(f) : e.ts >= From(Chart)}}
  BY DEF Spending, ChartFrom, LocalMidnight
\* ... and of what they are named for.
<1>12. LET meant == Meant(d)
       IN  /\ meant.today = {d} /\ meant.yesterday = {d - 1}
           /\ meant.this_week = {e \in DOMAIN zone : d - Weekday(d) < e /\ e <= d}
           /\ meant.last_7d = d - (LastWeek - 1) .. d
           /\ meant.this_month = FirstOf(MonthOf(d)) .. d
           /\ meant.last_30d = d - (LastMonth - 1) .. d
           /\ meant.this_year = JanuaryFirst(d) .. d
           /\ meant.daily = d - Chart .. d
           /\ DOMAIN meant = {"today", "yesterday", "this_week", "last_7d", "this_month",
                              "last_30d", "this_year", "daily"}
  BY DEF Meant
<1>13. ASSUME NEW k \in Nat, k <= Chart PROVE f \in Int /\ f <= From(k) /\ f <= y
  <2> HIDE DEF y, d
  <2> QED
    BY <1>1, <1>3, <1>13, RowsReachBack
<1> HIDE DEF f, y, Win
<1>today. Holds("today", d)
  <2>1. Meant(d).today \cap DOMAIN zone = Days(0, d)
    BY <1>1, <1>12
  <2> HIDE DEF d
  <2> QED
    BY <1>9, <1>11, <2>1, HoldsIsThat
<1>yesterday. Holds("yesterday", d)
  <2>1. Meant(d).yesterday \cap DOMAIN zone = Days(1, d - 1)
    BY <1>1, <1>12
  <2> HIDE DEF d
  <2> QED
    BY <1>10, <1>11, <2>1, HoldsIsThat
<1>week. Holds("this_week", d)
  <2> DEFINE k == Weekday(d) - 1
  <2>1. (d - 1) % DaysAWeek \in 0 .. DaysAWeek - 1
    <3>1. d - 1 \in Int
      BY <1>1
    <3> HIDE DEF d
    <3> QED
      BY <3>1, <1>2
  <2>2. k \in Nat /\ k <= Chart
    BY <1>2, <2>1 DEF Weekday, Calendar, WindowsFitTheChart
  <2>3. WeekStart(clock) = From(k)
    BY DEF WeekStart, LocalMidnight
  <2>4. Meant(d).this_week \cap DOMAIN zone = Days(k, d)
    <3>1. Weekday(d) \in Int /\ k = Weekday(d) - 1
      BY <2>1, <1>2 DEF Weekday
    <3>2. \A e \in DOMAIN zone : e \in Int
      BY <1>1
    <3>3. d \in Int
      BY <1>1
    <3> HIDE DEF d, k
    <3>4. \A e \in Int : d - Weekday(d) < e <=> d - k <= e
      BY <3>1, <3>3
    <3> QED
      BY <1>12, <3>2, <3>4
  <2> HIDE DEF k, d, From, Days
  <2>5. IsTheCalendars(Win(From(k), clock + DaySecs, clock - WeekStart(clock)).days,
                       Days(k, d), d)
    BY <1>8, <2>2
  <2> QED
    BY <1>11, <2>3, <2>4, <2>5, HoldsIsThat
<1>lastweek. Holds("last_7d", d)
  <2>1. LastWeek - 1 \in Nat /\ LastWeek - 1 <= Chart
    BY <1>2 DEF Calendar, WindowsFitTheChart
  <2>2. Meant(d).last_7d \cap DOMAIN zone = Days(LastWeek - 1, d)
    BY <1>1, <1>2, <1>12
  <2> HIDE DEF d, From, Days
  <2>3. IsTheCalendars(Win(From(LastWeek - 1), clock + DaySecs, LastWeek * DaySecs).days,
                       Days(LastWeek - 1, d), d)
    BY <1>8, <2>1
  <2>4. Spending(clock).last_7d = Win(From(LastWeek - 1), clock + DaySecs, LastWeek * DaySecs)
    BY <1>11
  <2> QED
    BY <2>2, <2>3, <2>4, HoldsIsThat
<1>month. Holds("this_month", d)
  <2> DEFINE k == d - FirstOf(MonthOf(d))
  <2>1. FirstOf(MonthOf(d)) \in 1 .. d /\ k \in Nat /\ k <= Chart
    BY <1>1 DEF Calendar, CalendarIsWhole
  <2>2. MonthStart(clock) = From(k)
    BY <1>1, <2>1 DEF MonthStart, LocalMidnight, DayOfMonth
  <2>3. Meant(d).this_month \cap DOMAIN zone = Days(k, d)
    BY <1>1, <1>12, <2>1
  <2> HIDE DEF k, d, From, Days
  <2>4. IsTheCalendars(Win(From(k), clock + DaySecs, clock - MonthStart(clock)).days,
                       Days(k, d), d)
    BY <1>8, <2>1
  <2> QED
    BY <1>11, <2>2, <2>3, <2>4, HoldsIsThat
<1>lastmonth. Holds("last_30d", d)
  <2>1. LastMonth - 1 \in Nat /\ LastMonth - 1 <= Chart
    BY <1>2 DEF Calendar, WindowsFitTheChart
  <2>2. Meant(d).last_30d \cap DOMAIN zone = Days(LastMonth - 1, d)
    BY <1>1, <1>2, <1>12
  <2> HIDE DEF d, From, Days
  <2>3. IsTheCalendars(Win(From(LastMonth - 1), clock + DaySecs, LastMonth * DaySecs).days,
                       Days(LastMonth - 1, d), d)
    BY <1>8, <2>1
  <2>4. Spending(clock).last_30d = Win(From(LastMonth - 1), clock + DaySecs, LastMonth * DaySecs)
    BY <1>11
  <2> QED
    BY <2>2, <2>3, <2>4, HoldsIsThat
<1>year. Holds("this_year", d)
  <2> DEFINE j == JanuaryFirst(d)
             summed == Win(y, clock + DaySecs, clock - y).days
  <2>1. f \in Int /\ f <= y
    <3>1. 0 \in Nat /\ 0 <= Chart
      BY <1>2
    <3> HIDE DEF d, From
    <3> QED
      BY <1>13, <3>1
  <2>2. clock + DaySecs \in Int
    BY <1>1, <1>2
  <2>3. summed = {e \in Spent : zone[e] >= y /\ zone[e] < clock + DaySecs}
    BY <1>3, <2>1, <2>2, WindowIs DEF Win, Calendar
  <2>4. \A e \in Spent : zone[e] >= y <=> e >= j
    <3> SUFFICES ASSUME NEW e \in Spent PROVE zone[e] >= y <=> e >= j
      OBVIOUS
    <3>1. j \in DOMAIN zone /\ j \in Int /\ zone[j] \in Int /\ y = zone[j]
      BY <1>1, <1>3
    <3>2. e < j \/ e = j \/ e > j
      BY <1>4, <3>1
    <3> HIDE DEF j
    <3> QED
      BY <1>4, <3>1, <3>2, MidnightsAscend DEF Calendar
  <2>5. summed = {e \in Spent : j <= e /\ e <= d}
    <3>1. j \in Int
      BY <1>1, <1>3
    <3> HIDE DEF summed, j, d
    <3> QED
      BY <1>4, <1>5, <2>3, <2>4, <3>1
  <2>6. Meant(d).this_year \cap DOMAIN zone = {e \in DOMAIN zone : j <= e /\ e <= d}
    <3>1. d \in Int /\ j \in Int /\ \A e \in DOMAIN zone : e \in Int
      BY <1>1, <1>3
    <3> HIDE DEF d, j
    <3> QED
      BY <1>12, <3>1 DEF j
  <2> HIDE DEF summed, d, j
  <2>7. Spending(clock).this_year.days = summed
    BY <1>11 DEF summed
  <2> QED
    BY <1>4, <2>5, <2>6, <2>7 DEF Holds
<1>chart. Holds("daily", d)
  <2> DEFINE summed == {x.day : x \in {e \in DailySpend(f) : e.ts >= From(Chart)}}
  <2>1. Chart \in Nat /\ Chart <= Chart
    BY <1>2
  <2>2. summed = Win(From(Chart), clock + DaySecs, 0).days
    <3>1. \A x \in DailySpend(f) : x.ts < clock + DaySecs
      <4> SUFFICES ASSUME NEW x \in DailySpend(f) PROVE x.ts < clock + DaySecs
        OBVIOUS
      <4>1. x.day \in Spent /\ x.ts = zone[x.day]
        BY EntriesAre
      <4> QED
        BY <1>1, <1>2, <1>4, <4>1
    <3> HIDE DEF From, d
    <3> QED
      BY <3>1 DEF Win, SpendWindow
  <2>3. IsTheCalendars(summed, Days(Chart, d), d)
    <3> HIDE DEF summed, d, From, Days
    <3> QED
      BY <1>8, <2>1, <2>2
  <2>4. Meant(d).daily \cap DOMAIN zone = Days(Chart, d)
    BY <1>1, <1>2, <1>12
  <2> HIDE DEF summed, d, Days
  <2>5. Spending(clock).daily = summed
    BY <1>11 DEF summed
  <2> QED
    BY <2>3, <2>4, <2>5, HoldsIsThat
<1>14. \A w \in DOMAIN Meant(d) : Holds(w, d)
  <2> HIDE DEF d
  <2> QED
    BY <1>12, <1>today, <1>yesterday, <1>week, <1>lastweek, <1>month, <1>lastmonth, <1>year,
       <1>chart
<1> QED
  BY <1>14 DEF WindowsAreTheCalendars, Holds, Spent

-----------------------------------------------------------------------------
(***************************************************************************)
(* Months                                                                  *)
(***************************************************************************)
\* A month begins where the one before it ends.
LEMMA MonthsFollow ==
    ASSUME NEW m \in DOMAIN MonthLengths
    PROVE  /\ FirstOf(m) \in Nat \ {0} /\ MonthLengths[m] \in Nat \ {0}
           /\ FirstOf(m + 1) = FirstOf(m) + MonthLengths[m]
<1>1. MonthLengths \in Seq(Nat \ {0}) /\ m \in 1 .. Len(MonthLengths) /\ m \in Nat
      /\ DOMAIN MonthLengths = 1 .. Len(MonthLengths) /\ Len(MonthLengths) \in Nat
  BY SpendingAssumption
<1>2. \A k \in 1 .. m : MonthLengths[k] \in Nat \ {0}
  BY <1>1
<1> DEFINE U == 1 .. m
           V == 1 .. m - 1
<1>3. FirstOf(m) = 1 + SumOver(MonthLengths, V) /\ FirstOf(m + 1) = 1 + SumOver(MonthLengths, 1 .. (m + 1) - 1)
  BY <1>1 DEF FirstOf, FirstDays, SumOver
<1>4. U = 1 .. (m + 1) - 1 /\ U \ {m} = V /\ m \in U /\ V \subseteq U
  BY <1>1
<1>5. IsFiniteSet(U) /\ IsFiniteSet(V)
  <2>1. m \in Int /\ 1 \in Int /\ m - 1 \in Int
    BY <1>1
  <2> QED
    BY <2>1, FS_Interval
<1>6. (\A k \in U : MonthLengths[k] \in Int) /\ (\A k \in V : MonthLengths[k] \in Nat)
  BY <1>2, <1>4
<1> HIDE DEF U, V
<1>7. SumOver(MonthLengths, V) \in Nat
  BY <1>5, <1>6, SumOfNaturals
<1>8. SumOver(MonthLengths, U) = MonthLengths[m] + SumOver(MonthLengths, V)
  <2>1. SumOver(MonthLengths, U) = MonthLengths[m] + SumOver(MonthLengths, U \ {m})
    BY <1>4, <1>5, <1>6, SumWithout
  <2> QED
    BY <1>4, <2>1
<1>9. MonthLengths[m] \in Nat \ {0}
  BY <1>1, <1>2
<1> QED
  BY <1>3, <1>4, <1>7, <1>8, <1>9

\* Later months begin later.
LEMMA MonthsAscend ==
    ASSUME NEW m \in Nat \ {0}, NEW n \in DOMAIN MonthLengths, m <= n
    PROVE  FirstOf(m) \in Nat \ {0} /\ FirstOf(m) <= FirstOf(n)
           /\ (m < n => FirstOf(m + 1) <= FirstOf(n))
<1> DEFINE T == {x \in Nat : m + x \in DOMAIN MonthLengths => FirstOf(m) <= FirstOf(m + x)}
<1>1. DOMAIN MonthLengths = 1 .. Len(MonthLengths) /\ Len(MonthLengths) \in Nat /\ n \in Nat
  BY SpendingAssumption
<1>2. ASSUME NEW a \in Nat \ {0}, a <= n PROVE FirstOf(a) \in Nat \ {0} /\ FirstOf(a) <= FirstOf(n)
  <2> DEFINE N == {x \in Nat : a + x <= n => FirstOf(a) <= FirstOf(a + x)}
  <2>1. \A i \in Nat \ {0} : i <= n => i \in DOMAIN MonthLengths
    BY <1>1
  <2>2. FirstOf(a) \in Nat \ {0}
    BY <1>2, <2>1, MonthsFollow
  <2>3. 0 \in N
    <3>1. a + 0 = a
      OBVIOUS
    <3> QED
      BY <2>2, <3>1
  <2>4. ASSUME NEW x \in Nat, x \in N PROVE x + 1 \in N
    <3> SUFFICES ASSUME a + (x + 1) <= n PROVE FirstOf(a) <= FirstOf(a + (x + 1))
      OBVIOUS
    <3>1. a + x \in Nat \ {0} /\ a + x <= n /\ (a + x) + 1 = a + (x + 1)
      BY <1>1
    <3>2. a + x \in DOMAIN MonthLengths
      BY <2>1, <3>1
    <3>3. /\ FirstOf(a + x) \in Nat \ {0} /\ MonthLengths[a + x] \in Nat \ {0}
          /\ FirstOf((a + x) + 1) = FirstOf(a + x) + MonthLengths[a + x]
      BY <3>2, MonthsFollow
    <3>4. FirstOf(a) <= FirstOf(a + x)
      BY <2>4, <3>1
    <3> QED
      BY <2>2, <3>1, <3>3, <3>4
  <2>5. Nat \subseteq N
    <3> HIDE DEF N
    <3> QED
      BY <2>3, <2>4, NumbersAreReached
  <2>6. n - a \in Nat /\ a + (n - a) = n
    BY <1>1, <1>2
  <2> QED
    BY <2>2, <2>5, <2>6
<1>3. FirstOf(m) \in Nat \ {0} /\ FirstOf(m) <= FirstOf(n)
  BY <1>2
<1>4. m < n => FirstOf(m + 1) <= FirstOf(n)
  <2> SUFFICES ASSUME m < n PROVE FirstOf(m + 1) <= FirstOf(n)
    OBVIOUS
  <2>1. m + 1 \in Nat \ {0} /\ m + 1 <= n
    BY <1>1
  <2> DEFINE k == m + 1
  <2> HIDE DEF k
  <2>2. k \in Nat \ {0} /\ k <= n
    BY <2>1 DEF k
  <2>3. FirstOf(k) <= FirstOf(n)
    BY <1>2, <2>2
  <2> QED
    BY <2>3 DEF k
<1> QED
  BY <1>3, <1>4

\* The month of a day is the one that has begun and whose successor has not.
LEMMA MonthIs ==
    ASSUME NEW m \in DOMAIN MonthLengths, NEW e \in Int, FirstOf(m) <= e
    PROVE  /\ MonthOf(e) \in DOMAIN MonthLengths /\ m <= MonthOf(e)
           /\ FirstOf(MonthOf(e)) <= e
           /\ e < FirstOf(m + 1) => MonthOf(e) = m
<1> DEFINE S == {x \in DOMAIN MonthLengths : FirstOf(x) <= e}
           L == Len(MonthLengths)
<1>1. DOMAIN MonthLengths = 1 .. L /\ L \in Nat
  BY SpendingAssumption
<1>2. m \in S /\ S \subseteq 0 .. L /\ S # {}
  BY <1>1
<1>3. MonthOf(e) \in S /\ \A k \in S : k <= MonthOf(e)
  <2>1. MonthOf(e) = Max(S)
    BY DEF MonthOf
  <2> HIDE DEF S, L
  <2>2. Max(S) \in S /\ \A k \in S : k <= Max(S)
    BY <1>1, <1>2, LargestExists
  <2> QED
    BY <2>1, <2>2
<1>4. ASSUME e < FirstOf(m + 1) PROVE MonthOf(e) = m
  <2> DEFINE x == MonthOf(e)
  <2>1. x \in DOMAIN MonthLengths /\ FirstOf(x) <= e /\ m <= x /\ x \in Int /\ m \in Nat \ {0}
    BY <1>1, <1>2, <1>3
  <2> HIDE DEF x
  <2>2. FirstOf(x) \in Int /\ FirstOf(m + 1) \in Int
    BY <2>1, MonthsFollow
  <2>3. ASSUME m < x PROVE FALSE
    <3>1. FirstOf(m + 1) <= FirstOf(x)
      BY <2>1, <2>3, MonthsAscend
    <3> QED
      BY <1>4, <2>1, <2>2, <3>1
  <2>4. x = m
    BY <1>1, <2>1, <2>3
  <2> QED
    BY <2>4 DEF x
<1> HIDE DEF S, L
<1>5. MonthOf(e) \in DOMAIN MonthLengths /\ FirstOf(MonthOf(e)) <= e /\ m <= MonthOf(e)
  <2>1. MonthOf(e) \in DOMAIN MonthLengths /\ FirstOf(MonthOf(e)) <= e
    BY <1>3 DEF S
  <2> QED
    BY <1>2, <1>3, <2>1
<1> QED
  BY <1>4, <1>5

\* The calendar goes on to the first day of the next month and over it, and no month is shorter
\* than the one month_bounds begins to look after.
CalendarGoesOn ==
    LET m == MonthOf(LocalDay(clock))
    IN  /\ m + 1 \in DOMAIN MonthLengths
        /\ FirstOf(m + 1) \in DOMAIN zone
        /\ \A k \in DOMAIN MonthLengths : ShortestMonth <= MonthLengths[k]

\* What the days of the month look like from where month_bounds starts to walk.
LEMMA MonthWalked ==
    ASSUME Calendar, RowsAreOld, CalendarGoesOn
    PROVE  LET d == LocalDay(clock)
               m == MonthOf(d)
               first == FirstOf(m)
               len == MonthLengths[m]
               so_far == Surplus(first, d)
           IN  so_far >= Max({0, Surplus(first, FirstOf(m + 1))}) => DaysInMonth(clock) = len
<1> DEFINE d == LocalDay(clock)
           m == MonthOf(d)
           first == FirstOf(m)
           next == FirstOf(m + 1)
           len == MonthLengths[m]
           so_far == Surplus(first, d)
           toward == Surplus(first, next)
           start == MonthStart(clock)
<1> SUFFICES ASSUME so_far >= Max({0, toward}) PROVE DaysInMonth(clock) = len
  OBVIOUS
<1>1. /\ d \in DOMAIN zone /\ DOMAIN zone = 1 .. Len(zone) /\ Len(zone) \in Nat
      /\ clock \in Int /\ d \in Int
      /\ first \in 1 .. d /\ first \in DOMAIN zone /\ next \in DOMAIN zone
      /\ SmallDrift /\ Midnights
  <2>1. d \in DOMAIN zone
    BY LocalDayExists DEF Calendar, RowsAreOld
  <2>2. first \in 1 .. d
    BY <2>1 DEF Calendar, CalendarIsWhole
  <2>3. next \in DOMAIN zone
    BY DEF CalendarGoesOn
  <2> HIDE DEF d, first, next
  <2> QED
    BY <2>1, <2>2, <2>3 DEF Calendar, RowsAreOld, Midnights
<1>2. /\ DaySecs \in Nat \ {0} /\ ShortestMonth \in Nat \ {0}
      /\ DOMAIN MonthLengths = 1 .. Len(MonthLengths) /\ Len(MonthLengths) \in Nat
  BY SpendingAssumption
\* The month is one of the calendar's, and is over before the calendar is.
<1>3. /\ m \in DOMAIN MonthLengths /\ m + 1 \in DOMAIN MonthLengths /\ m \in Nat
      /\ len \in Nat \ {0} /\ next = first + len /\ ShortestMonth <= len
      /\ first \in Nat
  <2>1. m + 1 \in DOMAIN MonthLengths
    BY DEF CalendarGoesOn
  <2>2. 1 \in DOMAIN MonthLengths /\ FirstOf(1) = 1
    <3>1. 1 \in DOMAIN MonthLengths
      BY <1>2, <2>1
    <3>2. 1 .. 1 - 1 = {}
      OBVIOUS
    <3>3. FirstOf(1) = 1 + SumOver(MonthLengths, 1 .. 1 - 1)
      BY SpendingAssumption DEF FirstOf, FirstDays, SumOver
    <3>4. SumOver(MonthLengths, {}) = 0
      BY FS_EmptySet, SumSplit
    <3> QED
      BY <3>1, <3>2, <3>3, <3>4
  <2>3. m \in DOMAIN MonthLengths
    <3>1. FirstOf(1) <= d
      BY <1>1, <2>2
    <3> HIDE DEF d
    <3> QED
      BY <1>1, <2>2, <3>1, MonthIs
  <2> HIDE DEF m
  <2>4. /\ FirstOf(m) \in Nat \ {0} /\ MonthLengths[m] \in Nat \ {0}
        /\ FirstOf(m + 1) = FirstOf(m) + MonthLengths[m]
    BY <2>3, MonthsFollow
  <2>5. ShortestMonth <= MonthLengths[m]
    BY <2>3 DEF CalendarGoesOn
  <2> QED
    BY <1>2, <2>1, <2>3, <2>4, <2>5
<1> HIDE DEF m, first, next, len
<1>4. /\ zone[d] \in Int /\ zone[first] \in Int /\ zone[next] \in Int
      /\ (d - first) * DaySecs \in Int /\ len * DaySecs \in Int /\ next - first = len
  <2> HIDE DEF d
  <2>1. zone[d] \in Int /\ zone[first] \in Int /\ zone[next] \in Int
    BY <1>1 DEF Midnights
  <2> QED
    BY <1>1, <1>2, <1>3, <2>1
<1>5. start = zone[first] + so_far /\ so_far \in Int
  <2>1. DayOfMonth(d) - 1 = d - first
    <3> HIDE DEF d
    <3> QED
      BY <1>1, <1>3 DEF DayOfMonth, first, m
  <2>2. start = zone[d] - (d - first) * DaySecs
    BY <2>1 DEF MonthStart, LocalMidnight
  <2> HIDE DEF d, start
  <2> QED
    BY <1>4, <2>2 DEF Surplus
<1>6. zone[next] = zone[first] + len * DaySecs + toward /\ toward \in Int
  <2> HIDE DEF d
  <2> QED
    BY <1>4 DEF Surplus
<1>7. 0 <= so_far /\ toward <= so_far
  <2> DEFINE S == {0, toward}
  <2>1. \E x \in S : \A y \in S : x >= y
    <3> HIDE DEF toward
    <3>1. 0 >= toward \/ toward >= 0
      BY <1>6
    <3> QED
      BY <1>6, <3>1
  <2>2. Max(S) \in S /\ \A y \in S : Max(S) >= y
    <3> HIDE DEF S
    <3> QED
      BY <2>1 DEF Max
  <2>3. Max(S) >= 0 /\ Max(S) >= toward /\ Max(S) \in Int
    <3> HIDE DEF toward
    <3> QED
      BY <1>6, <2>2
  <2>4. so_far >= Max(S)
    OBVIOUS
  <2> HIDE DEF S, so_far, toward
  <2> QED
    BY <1>5, <1>6, <2>3, <2>4
<1>8. 2 * so_far < DaySecs /\ -DaySecs < 2 * toward
  <2>1. first <= d /\ first <= next
    <3> HIDE DEF d
    <3> QED
      BY <1>1, <1>3
  <2> HIDE DEF d
  <2> QED
    BY <1>1, <2>1 DEF SmallDrift
<1> DEFINE Month(k) == MonthOf(LocalDay(start + k * DaySecs))
<1> HIDE DEF d, start, so_far, toward
\* Up to the length of the month the walk is in it ...
<1>9. ASSUME NEW k \in Nat, k < len PROVE Month(k) = m
  <2> DEFINE t == start + k * DaySecs
             e == LocalDay(t)
  <2>1. k * DaySecs \in Nat /\ k * DaySecs + DaySecs <= len * DaySecs
    <3>1. k * DaySecs + DaySecs <= len * DaySecs
      BY <1>2, <1>3, <1>9, FewerDays
    <3>2. k * DaySecs \in Nat
      <4>1. \A x, y \in Nat : x * y \in Nat
        OBVIOUS
      <4> QED
        BY <1>2, <4>1
    <3> QED
      BY <3>1, <3>2
  <2>2. t \in Int /\ zone[first] <= t /\ t < zone[next]
    <3> DEFINE p == k * DaySecs
               q == len * DaySecs
    <3>1. p \in Nat /\ q \in Int /\ p + DaySecs <= q
      BY <1>4, <2>1
    <3> HIDE DEF p, q
    <3>2. t = zone[first] + so_far + p /\ zone[next] = zone[first] + q + toward
      BY <1>5, <1>6 DEF p, q
    <3> HIDE DEF t
    <3>3. so_far < DaySecs + toward
      BY <1>2, <1>5, <1>6, <1>8
    <3>4. so_far + p < q + toward
      BY <1>2, <1>5, <1>6, <3>1, <3>3
    <3>5. zone[first] \in Int /\ so_far \in Nat /\ toward \in Int /\ p \in Nat /\ q \in Int
      BY <1>4, <1>5, <1>6, <1>7, <3>1
    <3> QED
      BY <3>2, <3>4, <3>5
  <2>3. /\ e \in DOMAIN zone /\ \A x \in DOMAIN zone : zone[x] <= t <=> x <= e
    <3>1. zone[1] <= t
      <4>1. zone[1] \in Int /\ (1 < first => zone[1] < zone[first]) /\ 1 \in DOMAIN zone
            /\ (first = 1 \/ 1 < first)
        BY <1>1, MidnightsAscend DEF Midnights
      <4> HIDE DEF t
      <4> QED
        BY <1>4, <2>2, <4>1
    <3> HIDE DEF t
    <3> QED
      BY <1>1, <2>2, <3>1, LocalDayExists
  <2>4. first <= e /\ ~(next <= e)
    <3> HIDE DEF t, e
    <3> QED
      BY <1>1, <1>4, <2>2, <2>3
  <2>5. e \in Int /\ FirstOf(m) <= e /\ e < FirstOf(m + 1)
    <3>1. e \in Int /\ next \in Int
      BY <1>1, <2>3
    <3> HIDE DEF e
    <3> QED
      BY <1>1, <2>4, <3>1 DEF first, next
  <2> HIDE DEF e
  <2>6. MonthOf(e) = m
    BY <1>3, <2>5, MonthIs
  <2> QED
    BY <2>6 DEF e
\* ... and there it is in the next one.
<1>10. Month(len) # m
  <2> DEFINE t == start + len * DaySecs
             e == LocalDay(t)
  <2>1. t \in Int /\ zone[first] <= t /\ zone[next] <= t
    <3> DEFINE q == len * DaySecs
    <3>1. q \in Nat
      <4>1. \A x, y \in Nat : x * y \in Nat
        OBVIOUS
      <4> QED
        BY <1>2, <1>3, <4>1
    <3> HIDE DEF q
    <3>2. t = zone[first] + so_far + q /\ zone[next] = zone[first] + q + toward
      BY <1>5, <1>6 DEF q
    <3> HIDE DEF t
    <3> QED
      BY <1>4, <1>5, <1>6, <1>7, <3>1, <3>2
  <2>2. e \in DOMAIN zone /\ \A x \in DOMAIN zone : zone[x] <= t <=> x <= e
    <3>1. zone[1] <= t
      <4>1. zone[1] \in Int /\ (1 < first => zone[1] < zone[first]) /\ 1 \in DOMAIN zone
            /\ (first = 1 \/ 1 < first)
        BY <1>1, MidnightsAscend DEF Midnights
      <4> HIDE DEF t
      <4> QED
        BY <1>4, <2>1, <4>1
    <3> HIDE DEF t
    <3> QED
      BY <1>1, <2>1, <3>1, LocalDayExists
  <2>3. e \in Int /\ FirstOf(m + 1) <= e
    <3> HIDE DEF t, e
    <3> QED
      BY <1>1, <2>1, <2>2 DEF next
  <2> HIDE DEF e
  <2>4. m + 1 <= MonthOf(e) /\ MonthOf(e) \in Int
    <3> DEFINE k == m + 1
    <3>1. k \in DOMAIN MonthLengths /\ FirstOf(k) <= e
      BY <1>3, <2>3
    <3> HIDE DEF k
    <3>2. k <= MonthOf(e) /\ MonthOf(e) \in DOMAIN MonthLengths
      BY <2>3, <3>1, MonthIs
    <3> QED
      BY <1>2, <3>2 DEF k
  <2>5. MonthOf(e) # m
    BY <1>3, <2>4
  <2> QED
    BY <2>5 DEF e
<1>11. DaysInMonth(clock) =
          CHOOSE n \in ShortestMonth .. Len(zone) :
              Month(n) # Month(0) /\ \A k \in ShortestMonth .. n - 1 : Month(k) = Month(0)
  BY DEF DaysInMonth, start
<1> HIDE DEF Month
<1>12. Month(0) = m
  BY <1>3, <1>9
<1>13. len \in ShortestMonth .. Len(zone)
  BY <1>1, <1>2, <1>3
<1>14. Month(len) # Month(0) /\ \A k \in ShortestMonth .. len - 1 : Month(k) = Month(0)
  BY <1>2, <1>3, <1>9, <1>10, <1>12
<1>15. ASSUME NEW n \in ShortestMonth .. Len(zone), Month(n) # Month(0),
              \A k \in ShortestMonth .. n - 1 : Month(k) = Month(0)
       PROVE  n = len
  <2>1. n \in Nat
    BY <1>2
  <2>2. ~(n < len)
    BY <1>9, <1>12, <1>15, <2>1
  <2>3. ~(len < n)
    <3> SUFFICES ASSUME len < n PROVE FALSE
      OBVIOUS
    <3>1. len \in ShortestMonth .. n - 1
      BY <1>2, <1>3, <2>1
    <3> QED
      BY <1>10, <1>12, <1>15, <3>1
  <2> QED
    BY <1>3, <2>1, <2>2, <2>3
<1> QED
  BY <1>11, <1>13, <1>14, <1>15

\* What a window is said to have covered is the rows of its days.
LEMMA CoveredIs ==
    ASSUME IsFiniteSet(priced), NEW f, NEW from, NEW to, NEW n
    PROVE  SpendWindow(DailySpend(f), from, to, n).covered_secs =
               Cardinality({t \in priced : /\ t >= f
                                           /\ zone[LocalDay(t)] >= from /\ zone[LocalDay(t)] < to})
<1> DEFINE sold == {t \in priced : t >= f}
           Entry(e) == DaySpend(e, sold)
           days == DailySpend(f)
           held == {x \in days : x.ts >= from /\ x.ts < to}
           F == [x \in held |-> {t \in sold : LocalDay(t) = x.day}]
           g == [x \in held |-> x.covered_secs]
           U == UNION {F[x] : x \in held}
<1>1. /\ \A x \in held : \E t \in sold : x = Entry(LocalDay(t))
      /\ \A t \in sold : Entry(LocalDay(t)) \in days
      /\ \A e : Entry(e).day = e /\ Entry(e).ts = zone[e]
                /\ Entry(e).covered_secs = Cardinality({t \in sold : LocalDay(t) = e})
  BY DEF DailySpend, DaySpend
<1>2. IsFiniteSet(sold) /\ IsFiniteSet(held)
  <2>1. IsFiniteSet(sold)
    BY FS_Subset
  <2> DEFINE h == [t \in sold |-> Entry(LocalDay(t))]
             I == {h[t] : t \in sold}
  <2>2. IsFiniteSet(I)
    <3> HIDE DEF h, sold
    <3> QED
      BY <2>1, FiniteImage
  <2>3. held \subseteq I
    BY <1>1
  <2> HIDE DEF held, I, sold
  <2> QED
    BY <2>1, <2>2, <2>3, FS_Subset
<1> HIDE DEF Entry, days
<1>3. \A x \in held : /\ x = Entry(x.day) /\ x.ts = zone[x.day]
                      /\ g[x] = Cardinality(F[x]) /\ IsFiniteSet(F[x])
  <2> SUFFICES ASSUME NEW x \in held
               PROVE  /\ x = Entry(x.day) /\ x.ts = zone[x.day]
                      /\ g[x] = Cardinality(F[x]) /\ IsFiniteSet(F[x])
    OBVIOUS
  <2>1. PICK t \in sold : x = Entry(LocalDay(t))
    BY <1>1
  <2>2. x.day = LocalDay(t) /\ x.ts = zone[x.day]
        /\ x.covered_secs = Cardinality({u \in sold : LocalDay(u) = x.day})
    BY <1>1, <2>1
  <2>3. F[x] \subseteq sold
    OBVIOUS
  <2>4. IsFiniteSet(F[x])
    BY <1>2, <2>3, FS_Subset
  <2> QED
    BY <2>1, <2>2, <2>4
<1>4. \A x, y \in held : x # y => F[x] \cap F[y] = {}
  BY <1>3
<1>5. U = {t \in priced : t >= f /\ zone[LocalDay(t)] >= from /\ zone[LocalDay(t)] < to}
  <2>1. ASSUME NEW t \in U
        PROVE  t \in sold /\ zone[LocalDay(t)] >= from /\ zone[LocalDay(t)] < to
    BY <1>3
  <2>2. ASSUME NEW t \in sold, zone[LocalDay(t)] >= from, zone[LocalDay(t)] < to PROVE t \in U
    <3> DEFINE x == Entry(LocalDay(t))
    <3>1. x \in days /\ x.day = LocalDay(t) /\ x.ts = zone[LocalDay(t)]
      BY <1>1
    <3>2. x \in held /\ t \in F[x]
      BY <2>2, <3>1
    <3> QED
      BY <3>2
  <2> QED
    BY <2>1, <2>2
<1> HIDE DEF held, F, g
<1>6. SumOver(g, held) = Cardinality(U)
  <2>1. CountsApart(g, F, held)
    BY <1>3, <1>4 DEF CountsApart
  <2> QED
    BY <1>2, <2>1, SumOfCardinalities
<1>7. MapThenSumSet(LAMBDA d : d.covered_secs, held) = SumOver(g, held)
  <2> DEFINE P(h) == h = [s \in SUBSET held |->
                             IF s = {} THEN 0
                             ELSE (CHOOSE x \in s : TRUE).covered_secs
                                  + h[s \ {CHOOSE x \in s : TRUE}]]
             iter == CHOOSE h : P(h)
  <2>1. \A x \in held : g[x] \in Int
    BY <1>3, FS_CardinalityType
  <2>2. ASSUME NEW s \in SUBSET held, s # {}
        PROVE  (CHOOSE x \in s : TRUE).covered_secs = g[CHOOSE x \in s : TRUE]
    <3>1. (CHOOSE x \in s : TRUE) \in held
      BY <2>2
    <3> QED
      BY <3>1 DEF g
  <2>3. ASSUME NEW h PROVE P(h) <=> SumsAsLibrary(h, g, held)
    BY <2>2 DEF SumsAsLibrary
  <2>4. PICK h : SumsAsLibrary(h, g, held)
    BY <1>2, <2>1, SumsExist
  <2>5. P(h)
    BY <2>3, <2>4
  <2>6. P(iter)
    <3> HIDE DEF P
    <3> QED
      BY <2>5, Zenon
  <2>7. MapThenSumSet(LAMBDA d : d.covered_secs, held) = iter[held]
    BY DEF MapThenSumSet, MapThenFoldSet
  <2> HIDE DEF iter
  <2>8. SumsAsLibrary(iter, g, held)
    BY <2>3, <2>6
  <2>9. iter[held] = SumOver(g, held)
    BY <1>2, <2>1, <2>8, SumsAreAlike
  <2> QED
    BY <2>7, <2>9
<1>8. SpendWindow(days, from, to, n).covered_secs
         = MapThenSumSet(LAMBDA d : d.covered_secs, held)
  BY DEF SpendWindow, held
<1> QED
  BY <1>5, <1>6, <1>7, <1>8 DEF days

\* A row is of a ten minutes that passed.
RowsAreCounted == IsFiniteSet(priced) /\ \A t \in priced : t \in Int /\ t < clock

\* A projection is of this month, of a calendar that goes on past it.
LEMMA ProjectionOfACalendar ==
    ASSUME Calendar, RowsAreOld, RowsAreCounted, CalendarGoesOn
    PROVE  ProjectionIsOfThisMonth
<1> DEFINE d == LocalDay(clock)
           m == MonthOf(d)
           first == FirstOf(m)
           so_far == Surplus(first, d)
           sold == {t \in priced : t >= zone[first]}
           covered == Cardinality(sold)
           start == MonthStart(clock)
           y == YearStart(clock)
           f == Min({y, zone[d] - Chart * DaySecs})
           month == SpendWindow(DailySpend(f), start, clock + DaySecs, clock - start)
           told == Projection(month, DayOfMonth(d), DaysInMonth(clock))
<1>1. /\ d \in DOMAIN zone /\ DOMAIN zone = 1 .. Len(zone) /\ Len(zone) \in Nat
      /\ clock \in Int /\ d \in Int /\ zone[d] \in Int /\ zone[d] <= clock
      /\ first \in 1 .. d /\ first \in DOMAIN zone /\ zone[first] \in Int
      /\ SmallDrift /\ Midnights /\ d - first <= Chart
      /\ JanuaryFirst(d) \in 1 .. d
  <2>1. d \in DOMAIN zone /\ zone[d] <= clock
    BY LocalDayExists DEF Calendar, RowsAreOld
  <2>2. first \in 1 .. d /\ d - first <= Chart /\ JanuaryFirst(d) \in 1 .. d
    BY <2>1 DEF Calendar, CalendarIsWhole
  <2> HIDE DEF d, first
  <2> QED
    BY <2>1, <2>2 DEF Calendar, RowsAreOld, Midnights
<1>2. DaySecs \in Nat \ {0} /\ Chart \in Nat
  BY SpendingAssumption
<1>3. Spending(clock).projection = told
  BY DEF Spending, ChartFrom, LocalMidnight
<1>4. DayOfMonth(d) = d - first + 1
  BY DEF DayOfMonth
<1>5. start = zone[d] - (d - first) * DaySecs /\ start \in Int
  <2>1. DayOfMonth(d) - 1 = d - first
    <3> HIDE DEF d, first
    <3> QED
      BY <1>1, <1>4
  <2>2. start = zone[d] - (d - first) * DaySecs
    BY <2>1 DEF MonthStart, LocalMidnight
  <2>3. (d - first) * DaySecs \in Int
    <3> HIDE DEF d, first
    <3> QED
      BY <1>1, <1>2
  <2> HIDE DEF d, first, start
  <2> QED
    BY <1>1, <2>2, <2>3
\* The rows were read from the start of the month or from before it.
<1>6. f \in Int /\ f <= start
  <2> DEFINE k == d - first
  <2>1. k \in Nat /\ k <= Chart
    <3> HIDE DEF d, first
    <3> QED
      BY <1>1
  <2>2. y \in Int
    <3>1. y = zone[JanuaryFirst(d)]
      BY <1>1, YearStartIsSnapped DEF RowsAreOld
    <3>2. JanuaryFirst(d) \in DOMAIN zone
      <4> HIDE DEF d
      <4> QED
        BY <1>1
    <3> QED
      BY <3>1, <3>2, <1>1 DEF Midnights
  <2> HIDE DEF k, y
  <2>3. f \in Int /\ f <= zone[d] - k * DaySecs
    BY <1>1, <2>1, <2>2, RowsReachBack
  <2> QED
    BY <1>5, <2>3 DEF k
<1> HIDE DEF y
<1>7. \A t \in priced : /\ t \in Int /\ t < clock /\ LocalDay(t) \in DOMAIN zone
                        /\ zone[LocalDay(t)] \in Int /\ zone[LocalDay(t)] <= t
                        /\ \A e \in DOMAIN zone : zone[e] <= t <=> e <= LocalDay(t)
  <2> SUFFICES ASSUME NEW t \in priced
               PROVE  /\ t \in Int /\ t < clock /\ LocalDay(t) \in DOMAIN zone
                      /\ zone[LocalDay(t)] \in Int /\ zone[LocalDay(t)] <= t
                      /\ \A e \in DOMAIN zone : zone[e] <= t <=> e <= LocalDay(t)
    OBVIOUS
  <2>1. t \in Int /\ zone[1] <= t /\ t < clock
    BY DEF RowsAreOld, RowsAreCounted
  <2>2. LocalDay(t) \in DOMAIN zone /\ zone[LocalDay(t)] <= t
        /\ \A e \in DOMAIN zone : zone[e] <= t <=> e <= LocalDay(t)
    BY <1>1, <2>1, LocalDayExists
  <2> QED
    BY <1>1, <2>1, <2>2 DEF Midnights
<1>8. \A t \in priced : LocalDay(t) <= d /\ LocalDay(t) \in Int
  <2> SUFFICES ASSUME NEW t \in priced PROVE LocalDay(t) <= d /\ LocalDay(t) \in Int
    OBVIOUS
  <2>1. zone[LocalDay(t)] <= clock /\ LocalDay(t) \in DOMAIN zone
    BY <1>1, <1>7
  <2>2. \A e \in DOMAIN zone : zone[e] <= clock <=> e <= d
    BY <1>1, LocalDayExists DEF RowsAreOld
  <2> HIDE DEF d
  <2> QED
    BY <1>1, <2>1, <2>2
<1>9. ASSUME so_far = 0
      PROVE  /\ start = zone[first]
             /\ \A t \in priced :
                   /\ zone[LocalDay(t)] >= start <=> t >= zone[first]
                   /\ zone[LocalDay(t)] >= start <=> LocalDay(t) \in first .. d
                   /\ zone[LocalDay(t)] < clock + DaySecs
  <2>1. start = zone[first]
    <3> DEFINE p == (d - first) * DaySecs
    <3>1. p \in Int
      <4> HIDE DEF d, first
      <4> QED
        BY <1>1, <1>2
    <3>2. so_far = zone[d] - zone[first] - p
      BY DEF Surplus
    <3>3. start = zone[d] - p
      BY <1>5
    <3> HIDE DEF p, d, first, start, so_far
    <3> QED
      BY <1>1, <1>9, <3>1, <3>2, <3>3
  <2>2. ASSUME NEW t \in priced
        PROVE  /\ zone[LocalDay(t)] >= zone[first] <=> t >= zone[first]
               /\ zone[LocalDay(t)] >= zone[first] <=> LocalDay(t) \in first .. d
               /\ zone[LocalDay(t)] < clock + DaySecs
    <3> DEFINE e == LocalDay(t)
    <3>1. /\ t \in Int /\ t < clock /\ e \in DOMAIN zone /\ zone[e] \in Int /\ zone[e] <= t
          /\ zone[first] <= t <=> first <= e
          /\ e <= d /\ e \in Int
      BY <1>1, <1>7, <1>8
    <3>2. zone[e] >= zone[first] <=> first <= e
      <4>1. e < first => zone[e] < zone[first]
        BY <1>1, <3>1, MidnightsAscend
      <4>2. first < e => zone[first] < zone[e]
        BY <1>1, <3>1, MidnightsAscend
      <4>3. first \in Int /\ (e < first \/ e = first \/ first < e)
        <5> HIDE DEF e, d, first
        <5> QED
          BY <1>1, <3>1
      <4> HIDE DEF e, d, first
      <4> QED
        BY <1>1, <3>1, <4>1, <4>2, <4>3
    <3> HIDE DEF e, d, first
    <3>3. zone[e] >= zone[first] <=> e \in first .. d
      BY <1>1, <3>1, <3>2
    <3>4. zone[e] < clock + DaySecs
      BY <1>1, <1>2, <3>1
    <3>5. zone[e] >= zone[first] <=> t >= zone[first]
      BY <1>1, <3>1, <3>2
    <3> QED
      BY <3>3, <3>4, <3>5 DEF e
  <2> HIDE DEF d, first, start, so_far
  <2> QED
    BY <2>1, <2>2
<1>10. month.nominal_secs = clock - start
  BY DEF SpendWindow
<1>11. month.days = {e \in Spent : zone[e] >= start /\ zone[e] < clock + DaySecs}
  <2>1. clock + DaySecs \in Int
    BY <1>1, <1>2
  <2> HIDE DEF d, start, f
  <2> QED
    BY <1>1, <1>5, <1>6, <2>1, WindowIs
<1>12. month.covered_secs =
           Cardinality({t \in priced : /\ t >= f
                                       /\ zone[LocalDay(t)] >= start
                                       /\ zone[LocalDay(t)] < clock + DaySecs})
  <2> HIDE DEF d, start, f
  <2> QED
    BY CoveredIs DEF RowsAreCounted
<1> HIDE DEF month, d, start, f, first, so_far
<1>13. \A x, n, i : [days |-> x, elapsed |-> n, of |-> i] = NoProjection => x = {}
  BY DEF NoProjection
<1>14. told # NoProjection =>
           /\ told.days = month.days /\ told.elapsed = DayOfMonth(d)
           /\ told.of = DaysInMonth(clock)
  BY DEF Projection
<1>15. told # NoProjection <=>
           /\ DayOfMonth(d) >= PROJECTION_MIN_DAYS /\ IsWellCovered(month) /\ month.days # {}
  <2>1. DayOfMonth(d) \in Int /\ PROJECTION_MIN_DAYS \in Int
    BY <1>1, <1>4, SpendingAssumption
  <2> QED
    BY <1>13, <2>1 DEF Projection
<1> HIDE DEF told
<1>16. ASSUME so_far = 0
       PROVE  /\ told # NoProjection <=>
                    /\ d - first + 1 >= PROJECTION_MIN_DAYS /\ covered > 0
                    /\ 100 * covered >= PROJECTION_MIN_COVERAGE * (clock - zone[first])
              /\ told # NoProjection => told.days = {LocalDay(t) : t \in priced} \cap (first .. d)
  <2>1. month.covered_secs = covered
    <3>1. {t \in priced : /\ t >= f /\ zone[LocalDay(t)] >= start
                          /\ zone[LocalDay(t)] < clock + DaySecs} = sold
      <4>1. ASSUME NEW t \in priced, t >= zone[first] PROVE t >= f
        <5>1. t \in Int /\ zone[first] \in Int /\ f <= zone[first]
          BY <1>1, <1>6, <1>7, <1>9, <1>16
        <5> QED
          BY <1>6, <4>1, <5>1
      <4> QED
        BY <1>9, <1>16, <4>1
    <3> QED
      BY <1>12, <3>1
  <2>2. month.days = {LocalDay(t) : t \in priced} \cap (first .. d)
    <3>1. \A e \in Spent : zone[e] < clock + DaySecs
                           /\ (zone[e] >= start <=> e \in first .. d)
      BY <1>9, <1>16 DEF Spent
    <3> QED
      BY <1>11, <3>1 DEF Spent
  <2>3. month.days = {} <=> sold = {}
    BY <1>9, <1>16, <2>2
  <2>4. IsFiniteSet(sold) /\ covered \in Nat /\ (covered = 0 <=> sold = {})
    <3>1. IsFiniteSet(sold)
      BY FS_Subset DEF RowsAreCounted
    <3> HIDE DEF sold
    <3> QED
      BY <3>1, FS_CardinalityType, FS_EmptySet
  <2>5. sold # {} => clock - zone[first] > 0
    BY <1>1, <1>7
  <2>6. month.nominal_secs = clock - zone[first]
    BY <1>9, <1>10, <1>16
  <2> HIDE DEF sold
  <2>7. month.days # {} =>
           (IsWellCovered(month) <=>
                100 * covered >= PROJECTION_MIN_COVERAGE * (clock - zone[first]))
    BY <2>1, <2>3, <2>5, <2>6 DEF IsWellCovered
  <2>8. told # NoProjection <=>
           /\ d - first + 1 >= PROJECTION_MIN_DAYS /\ month.days # {}
           /\ 100 * covered >= PROJECTION_MIN_COVERAGE * (clock - zone[first])
    BY <1>4, <1>15, <2>7
  <2>9. month.days # {} <=> covered > 0
    BY <2>3, <2>4
  <2> QED
    BY <1>14, <2>2, <2>8, <2>9
<1>17. told # NoProjection =>
           /\ told.elapsed = d - first + 1
           /\ so_far >= Max({0, Surplus(first, FirstOf(m + 1))}) => told.of = MonthLengths[m]
  <2>1. so_far >= Max({0, Surplus(first, FirstOf(m + 1))}) => DaysInMonth(clock) = MonthLengths[m]
    BY MonthWalked DEF d, m, first, so_far
  <2> QED
    BY <1>4, <1>14, <2>1
<1> QED
  BY <1>3, <1>16, <1>17 DEF ProjectionIsOfThisMonth, d, m, first, so_far, sold

-----------------------------------------------------------------------------
(***************************************************************************)
(* Time passes                                                             *)
(***************************************************************************)
SpendingNext == \E has_price \in BOOLEAN : TenMinutesPass(has_price)

SpendingSpec ==
    /\ SpendingInit(zone, clock) /\ Calendar /\ clock \in Int /\ zone[1] <= clock
    /\ [][SpendingNext]_spending_vars

\* The calendar stays what it was, and the rows are of the time before.
LEMMA CalendarStays == SpendingSpec => [](Calendar /\ RowsAreOld)
<1>1. SpendingSpec => Calendar /\ RowsAreOld
  BY DEF SpendingSpec, SpendingInit, RowsAreOld
<1>2. Calendar /\ RowsAreOld /\ [SpendingNext]_spending_vars => (Calendar /\ RowsAreOld)'
  <2> SUFFICES ASSUME Calendar, RowsAreOld, [SpendingNext]_spending_vars
               PROVE  Calendar' /\ RowsAreOld'
    OBVIOUS
  <2>1. zone' = zone
    BY DEF SpendingNext, TenMinutesPass, spending_vars
  <2>2. Calendar'
    BY <2>1 DEF Calendar, Midnights, SmallDrift, Surplus, CalendarIsWhole, WindowsFitTheChart
  <2>3. CASE UNCHANGED spending_vars
    BY <2>1, <2>2, <2>3 DEF RowsAreOld, spending_vars
  <2>4. ASSUME NEW has_price \in BOOLEAN, TenMinutesPass(has_price) PROVE RowsAreOld'
    <3>1. clock' = clock + 1 /\ clock \in Int /\ zone[1] <= clock /\ zone[1] \in Int
      BY <2>4 DEF TenMinutesPass, RowsAreOld, Calendar, Midnights
    <3>2. priced' \subseteq priced \cup {clock}
      BY <2>4 DEF TenMinutesPass
    <3>3. \A t \in priced' : t \in Int /\ zone[1] <= t /\ t <= clock'
      BY <3>1, <3>2 DEF RowsAreOld
    <3> QED
      BY <2>1, <3>1, <3>3 DEF RowsAreOld
  <2> QED
    BY <2>2, <2>3, <2>4 DEF SpendingNext
<1> QED
  BY <1>1, <1>2, PTL DEF SpendingSpec

\* On a calendar whose midnights drift less than half a day from days of 86 400 seconds
\* (cost_run.rs:167), at every moment every window sums the days it is named for, whatever
\* was priced; where a long day lies between it loses its first, and the year never does.
THEOREM WindowsAreAlwaysTheCalendars == SpendingSpec => []WindowsAreTheCalendars
<1>1. Calendar /\ RowsAreOld => WindowsAreTheCalendars
  BY WindowsOfACalendar
<1> QED
  BY <1>1, CalendarStays, PTL

\* A row is priced when its ten minutes have passed (cost_run.rs:126).
LEMMA RowsStayCounted == SpendingSpec => []RowsAreCounted
<1>1. SpendingSpec => clock \in Int /\ RowsAreCounted
  BY FS_EmptySet DEF SpendingSpec, SpendingInit, RowsAreCounted
<1>2. clock \in Int /\ RowsAreCounted /\ [SpendingNext]_spending_vars
          => (clock \in Int /\ RowsAreCounted)'
  <2> SUFFICES ASSUME clock \in Int, RowsAreCounted, [SpendingNext]_spending_vars
               PROVE  clock' \in Int /\ RowsAreCounted'
    OBVIOUS
  <2>1. CASE UNCHANGED spending_vars
    BY <2>1 DEF RowsAreCounted, spending_vars
  <2>2. ASSUME NEW has_price \in BOOLEAN, TenMinutesPass(has_price)
        PROVE  clock' \in Int /\ RowsAreCounted'
    <3>1. clock' = clock + 1 /\ (priced' = priced \cup {clock} \/ priced' = priced)
      BY <2>2 DEF TenMinutesPass
    <3>2. IsFiniteSet(priced')
      BY <3>1, FS_AddElement DEF RowsAreCounted
    <3>3. \A t \in priced : t \in Int /\ t < clock + 1
      BY DEF RowsAreCounted
    <3> QED
      BY <3>1, <3>2, <3>3 DEF RowsAreCounted
  <2> QED
    BY <2>1, <2>2 DEF SpendingNext
<1> QED
  BY <1>1, <1>2, PTL DEF SpendingSpec

\* On such a calendar, up to the last month that is known of it, a projection (rates.rs:741) is
\* made of a month that is old enough and mostly priced, such a month has one, it is of all its
\* days so far, and it scales them to the days the month has; the days are not claimed when one
\* of them was longer or shorter than 86 400 seconds, nor the length when one was shorter or a
\* longer one is still to come.
THEOREM ProjectionIsAlwaysOfThisMonth ==
    SpendingSpec => [](CalendarGoesOn => ProjectionIsOfThisMonth)
<1>1. Calendar /\ RowsAreOld /\ RowsAreCounted => (CalendarGoesOn => ProjectionIsOfThisMonth)
  BY ProjectionOfACalendar
<1> QED
  BY <1>1, CalendarStays, RowsStayCounted, PTL
=============================================================================

------------------------------- MODULE Tiers -------------------------------
(***************************************************************************)
(* Downsampling on write (crates/lss-collector/src/rollup.rs, Roller in    *)
(* crates/lss-core/src/series.rs, the tables in db.rs).  Every sample is   *)
(* folded into an open bucket of one and of ten minutes; a bucket becomes  *)
(* a row when the first sample of a later one arrives.  After a restart    *)
(* the open buckets are rebuilt from the stored samples, and a database    *)
(* from before the tiers is worked up by a back-fill beside the live loop. *)
(*                                                                         *)
(* Of an aggregate the models keep which samples went in, how many (n) and *)
(* the sum of their token counts (tok_gen): average, minimum and maximum   *)
(* follow from the members.                                                *)
(***************************************************************************)
EXTENDS Samples

CONSTANTS
    KeepRaw, KeepM1, KeepM10,   \* the three retentions
    PruneEvery,                 \* how often they are applied: an hour
    Chunk                       \* what the back-fill works up at a time: an hour of samples

ASSUME TiersAssumption ==
    /\ {KeepRaw, KeepM1, KeepM10, PruneEvery, Chunk} \subseteq Nat \ {0}
    /\ KeepRaw >= TenMinutes /\ Chunk % TenMinutes = 0

VARIABLES
    samples,        \* the samples table, in the order of its clock
    rows,           \* the rollup table: for each width, its rows by bucket
    gatelog,        \* the gatelog table, by bucket: how often each line was counted
    pipeline,       \* Pipeline
    last_prune,
    backfill        \* the back-fill's thread: whether it still owes, its pipeline, from, until

tier_vars == <<samples, rows, gatelog, pipeline, last_prune, backfill>>

Widths == {Minute, TenMinutes}

EmptyAgg == [in |-> {}, n |-> 0, tok |-> 0]
NoBucket == [bucket |-> None, acc |-> EmptyAgg]
NewPipeline ==
    [rollers |-> [w \in Widths |-> NoBucket], gate |-> [bucket |-> None, log |-> <<>>],
     prev |-> NoSample]

(***************************************************************************)
(* Mutants                                                                 *)
(***************************************************************************)
\* The samples of the open minute only are replayed.
OpenFromMinute(started_at) == BucketOf(Minute, started_at)

\* The first sample of the next bucket closes the bucket and goes into it.
AddAfter(roller, res, s, tok) ==
    [bucket |-> BucketOf(res, s.ts),
     acc |-> IF roller.bucket = BucketOf(res, s.ts)
             THEN [in |-> roller.acc.in \cup {s.ts}, n |-> roller.acc.n + 1,
                   tok |-> roller.acc.tok + tok]
             ELSE [in |-> roller.acc.in \cup {s.ts}, n |-> roller.acc.n + 1, tok |-> tok]]

\* Lines at the cursor are read again.
LinesFromCursor(lines, cursor, since) == {l \in lines : l >= cursor /\ l >= since}

-----------------------------------------------------------------------------
\* INSERT OR REPLACE, or INSERT OR IGNORE.
Write(table, bucket, row, replace) ==
    IF bucket \in DOMAIN table /\ ~replace THEN table ELSE Put(table, bucket, row)

\* Roller::add: the open bucket after a sample ...
AddTo(roller, res, s, tok) ==
    LET start == BucketOf(res, s.ts)
        acc == IF roller.bucket = start THEN roller.acc ELSE EmptyAgg
    IN  [bucket |-> start,
         acc |-> [in |-> acc.in \cup {s.ts}, n |-> acc.n + 1, tok |-> acc.tok + tok]]

\* ... and whether it handed out the one before.
Closes(open, res, ts) == open.bucket \notin {None, BucketOf(res, ts)}

\* LogDelta::merge, on how often each line was counted.
Merge(log, lines) ==
    [l \in DOMAIN log \cup lines |->
        (IF l \in DOMAIN log THEN log[l] ELSE 0) + (IF l \in lines THEN 1 ELSE 0)]

\* Pipeline::push on the pipeline and both tables.
Push(db, s, replace) ==
    LET tok == Growth(db.pipe.prev, s)
        ten == BucketOf(TenMinutes, s.ts)
        gate == db.pipe.gate
    IN  [pipe |->
            [rollers |-> [w \in Widths |-> AddTo(db.pipe.rollers[w], w, s, tok)],
             gate |-> [bucket |-> ten,
                       log |-> Merge(IF gate.bucket = ten THEN gate.log ELSE <<>>, s.log)],
             prev |-> s],
         rows |->
            [w \in Widths |->
                LET open == db.pipe.rollers[w]
                IN  IF Closes(open, w, s.ts)
                    THEN Write(db.rows[w], open.bucket, open.acc, replace)
                    ELSE db.rows[w]],
         gatelog |->
            IF Closes(gate, TenMinutes, s.ts) /\ gate.log # <<>>
            THEN Write(db.gatelog, gate.bucket, gate.log, replace)
            ELSE db.gatelog]

PushAll(db, seq) == FoldLeft(LAMBDA d, s : Push(d, s, FALSE), db, seq)

Tables(pipe) == [pipe |-> pipe, rows |-> rows, gatelog |-> gatelog]

Between(from, to) == Selected(samples, {s \in ToSet(samples) : s.ts >= from /\ s.ts < to})

\* The gate's log since the cursor; a new collector reads back LogWindow.
Lines(lines, cursor, since) == {l \in lines : l > cursor /\ l >= since}

-----------------------------------------------------------------------------
(***************************************************************************)
(* Operations                                                              *)
(***************************************************************************)
\* Where the replay begins.
OpenFrom(started_at) == BucketOf(TenMinutes, started_at)

ToReplay(started_at) == Between(OpenFrom(started_at), started_at + 1)

Replayed(started_at) == PushAll(Tables(NewPipeline), ToReplay(started_at))

\* The start of a collector: Pipeline::replay, and the thread of a back-fill that is owed.
StartTiers(started_at) ==
    LET db == Replayed(started_at)
    IN  /\ pipeline' = db.pipe /\ rows' = db.rows /\ gatelog' = db.gatelog
        /\ last_prune' = 0
        /\ backfill' = IF backfill.owed
                       THEN [backfill EXCEPT !.pipe = NewPipeline, !.from = 0,
                                             !.until = OpenFrom(started_at)]
                       ELSE backfill
        /\ UNCHANGED samples

\* Db::prune, once an hour.
PruneDue(t) == t - last_prune >= PruneEvery

Kept(t, table, keep) == [b \in {b \in DOMAIN table : b >= t - keep} |-> table[b]]

\* What one poll stores and folds in: insert_sample, Pipeline::push, prune.
StoreAndFold(s) ==
    LET db == Push(Tables(pipeline), s, TRUE)
        prune == PruneDue(s.ts)
    IN  /\ pipeline' = db.pipe
        /\ samples' = LET stored == Append(samples, s)
                      IN  IF prune
                          THEN Selected(stored, {x \in ToSet(stored) : x.ts >= s.ts - KeepRaw})
                          ELSE stored
        /\ rows' = IF prune
                   THEN [w \in Widths |->
                            Kept(s.ts, db.rows[w], IF w = Minute THEN KeepM1 ELSE KeepM10)]
                   ELSE db.rows
        /\ gatelog' = IF prune THEN Kept(s.ts, db.gatelog, KeepM10) ELSE db.gatelog
        /\ last_prune' = IF prune THEN s.ts ELSE last_prune
        /\ UNCHANGED backfill

\* A poll that dies once its sample is stored.
StoreOnly(s) ==
    /\ samples' = Append(samples, s)
    /\ UNCHANGED <<rows, gatelog, pipeline, last_prune, backfill>>

\* rollup::backfill, one transaction: the samples of one hour.  Its last bucket is
\* never handed out, because no later sample follows it.
BackfillChunk ==
    LET left == Between(backfill.from, backfill.until)
        end == BucketOf(Chunk, left[1].ts) + Chunk
        to == IF end < backfill.until THEN end ELSE backfill.until
        db == PushAll(Tables(backfill.pipe), Between(left[1].ts, to))
    IN  /\ backfill.owed /\ left # <<>>
        /\ rows' = db.rows /\ gatelog' = db.gatelog
        /\ backfill' = [backfill EXCEPT !.pipe = db.pipe, !.from = to]
        /\ UNCHANGED <<samples, pipeline, last_prune>>

\* ... and the mark that it has been done.
BackfillDone ==
    /\ backfill.owed /\ Between(backfill.from, backfill.until) = <<>>
    /\ backfill' = [backfill EXCEPT !.owed = FALSE]
    /\ UNCHANGED <<samples, rows, gatelog, pipeline, last_prune>>
=============================================================================

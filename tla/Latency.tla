------------------------------ MODULE Latency ------------------------------
(***************************************************************************)
(* The latency windows (crates/lss-core/src/hist.rs): the engine's         *)
(* cumulative histograms are diffed between scrapes, and the difference is *)
(* booked in the minute and in the ten minutes of the scrape.  A window is *)
(* stored when a scrape, or a failed one, of a later window arrives.       *)
(*                                                                         *)
(* A histogram is its bucket layout and how many requests it counts; six   *)
(* of them are cut by the same code.                                       *)
(***************************************************************************)
EXTENDS Samples, FiniteSetsExt

CONSTANTS
    Layouts,        \* the bucket layouts an engine may publish
    RecentMinutes   \* RECENT_MINUTES

ASSUME LatencyAssumption == RecentMinutes \in Nat \ {0}

VARIABLES
    tracker,        \* LatencyTracker
    hist            \* the hist table: for each width, the stored windows by their start

latency_vars == <<tracker, hist>>

\* A scrape's histogram; a failed scrape has none.
Snapshot == [le: Layouts, count: Nat]
NoSet == [le |-> CHOOSE l \in Layouts : TRUE, count |-> None]

EmptyAccum == [le |-> CHOOSE l \in Layouts : TRUE, count |-> 0]
NoWindow == [ts |-> None, acc |-> EmptyAccum]

NewTracker == [prev |-> NoSet, open |-> [w \in {Minute, TenMinutes} |-> NoWindow], recent |-> <<>>]

(***************************************************************************)
(* Mutants                                                                 *)
(***************************************************************************)
\* The window that ended goes on into the next one.
OpenedKeeps(window, start) == IF window.ts = None THEN [ts |-> start, acc |-> EmptyAccum]
                              ELSE [window EXCEPT !.ts = start]

-----------------------------------------------------------------------------
\* hist::delta: a counter that went backwards, or another layout, is a restart.
Delta(prev, cur) ==
    IF prev.le # cur.le \/ cur.count < prev.count THEN cur
    ELSE [cur EXCEPT !.count = cur.count - prev.count]

\* HistAccum::add: another layout replaces what was there.
AddAccum(acc, d) ==
    IF d.count = 0 THEN acc
    ELSE IF acc.count = 0 \/ acc.le # d.le THEN d
    ELSE [acc EXCEPT !.count = acc.count + d.count]

\* The window of this clock reading: the one that is open, or a new one.
Opened(window, start) == IF window.ts = start THEN window ELSE [ts |-> start, acc |-> EmptyAccum]

Ended(window, start) == window.ts \notin {None, start}

\* RECENT_MINUTES closed minutes at most ...
Pushed(recent, window) ==
    LET r == Append(recent, window)
    IN  IF Len(r) > RecentMinutes THEN Tail(r) ELSE r

\* LatencyTracker::observe
Tracked(t, ts, set) ==
    LET start(w) == BucketOf(w, ts)
        d == IF t.prev.count = None THEN EmptyAccum ELSE Delta(t.prev, set)
        recent == IF Ended(t.open[Minute], start(Minute))
                  THEN Pushed(t.recent, t.open[Minute]) ELSE t.recent
        open == [w \in {Minute, TenMinutes} |-> Opened(t.open[w], start(w))]
    IN  IF set.count = None THEN [t EXCEPT !.open = open, !.recent = recent]
        ELSE [prev |-> set,
              open |-> IF d.count = 0 THEN open
                       ELSE [w \in {Minute, TenMinutes} |->
                                [open[w] EXCEPT !.acc = AddAccum(open[w].acc, d)]],
              \* ... and none from before them once a scrape succeeds.
              recent |-> LET since == ts - (RecentMinutes + 1) * Minute
                         IN  Selected(recent, {w \in ToSet(recent) : w.ts > since})]

\* The windows observe() hands out for storing: an empty one is not.
Closed(t, w, ts) == Ended(t.open[w], BucketOf(w, ts)) /\ t.open[w].acc.count > 0

-----------------------------------------------------------------------------
\* One poll: Pipeline::push observes, and writes each window that closed.
ObserveLatency(ts, set) ==
    /\ tracker' = Tracked(tracker, ts, set)
    /\ hist' = [w \in {Minute, TenMinutes} |->
                   IF Closed(tracker, w, ts)
                   THEN Put(hist[w], tracker.open[w].ts, tracker.open[w].acc.count)
                   ELSE hist[w]]

\* The start of a collector: nothing of an open window was stored, and the replayed
\* samples bring no histograms.
StartLatency(replayed) ==
    /\ tracker' = FoldLeft(LAMBDA t, s : Tracked(t, s.ts, NoSet), NewTracker, replayed)
    /\ UNCHANGED hist

\* LatencyTracker::now: what /status says of the last ten minutes.
LatencyNow(t) ==
    FoldLeft(LAMBDA acc, w : AddAccum(acc, w.acc), EmptyAccum, Append(t.recent, t.open[Minute]))
=============================================================================

------------------------------ MODULE Loadouts ------------------------------
(***************************************************************************)
(* Which configuration a sample counts for                                 *)
(* (crates/lss-collector/src/loadouts.rs, crates/lss-core/src/loadout.rs). *)
(* The running container names the loadout: when another run, or another   *)
(* engine, shows up in a sample, docker or the engine is asked to describe *)
(* it, and the accounts are switched.  An account is saved at a switch and *)
(* once a minute; a loadout never seen before starts with what is stored   *)
(* about its container run.                                                *)
(*                                                                         *)
(* An account is the list of samples, of integrated intervals and of C1    *)
(* readings that went into it: its sums are taken over them.               *)
(***************************************************************************)
EXTENDS Samples

CONSTANTS
    LoadoutStep,    \* loadout.rs MAX_STEP_SECS: the longest interval that is integrated
    ColdWindow,     \* how fresh a failed poll must be for a start to be timed: 60 s
    ColdKept        \* COLD_STARTS_KEPT

ASSUME LoadoutsAssumption == {LoadoutStep, ColdWindow, ColdKept} \subseteq Nat \ {0}

VARIABLES
    current,        \* Loadouts::current: its id, its account, what it was read for
    loadouts,       \* the loadout table
    loadout_prev,   \* Loadouts::prev
    last_down,      \* last_down_ts
    loadout_saved   \* saved_at

loadout_vars == <<current, loadouts, loadout_prev, last_down, loadout_saved>>

EmptyAcc ==
    [runs |-> 0, last_started |-> 0, samples |-> <<>>, steps |-> <<>>, probes |-> <<>>,
     cold_starts |-> <<>>]

\* What names a loadout: the container's configuration, or what the engine says of itself.
Ids == {"container", "self"} \X Configs
NobodySeen == [by |-> "nobody", started |-> 0]
NoCurrent == [id |-> <<>>, acc |-> EmptyAcc, seen_as |-> NobodySeen]

(***************************************************************************)
(* Mutants                                                                 *)
(***************************************************************************)
\* The back-fill reads up to and with the sample of the poll.
StoredSinceAndNow(stored, from, now) ==
    Selected(stored, {s \in ToSet(stored) : s.ts >= from /\ s.ts <= now})

-----------------------------------------------------------------------------
\* seen_as: what is serving in a sample; nobody while the engine does not answer.  (All
\* configurations serve one model, so its name tells nothing.)
SeenAs(s) ==
    IF ~s.up THEN NobodySeen
    ELSE [by |-> IF s.started > 0 THEN "container" ELSE "self", started |-> s.started]

\* The identity docker, or the engine, describes.
IdentityOf(s) == <<SeenAs(s).by, s.config>>

\* LoadoutAcc::note_run
NoteRun(acc, started) ==
    IF started # acc.last_started \/ acc.runs = 0
    THEN [acc EXCEPT !.runs = acc.runs + 1, !.last_started = started] ELSE acc

\* The interval between two samples is integrated unless it is too long.
Steps(prev, cur) == prev.ts # None /\ cur.ts - prev.ts \in 1 .. LoadoutStep

\* LoadoutAcc::observe
ObserveAcc(acc, prev, s) ==
    [acc EXCEPT !.samples = Append(@, s.ts),
                !.steps = IF Steps(prev, s) THEN Append(@, <<prev.ts, s.ts>>) ELSE @]

\* The collector watched this start: a poll failed since, and a moment ago.
WatchedCold(down, started, now) == down # None /\ down >= started /\ now - down <= ColdWindow

LastCold(seq) == IF Len(seq) > ColdKept THEN Tail(seq) ELSE seq

NoteCold(acc, started, now) ==
    IF WatchedCold(last_down, started, now) /\ now > started
    THEN [acc EXCEPT !.cold_starts = LastCold(Append(@, <<started, now>>))] ELSE acc

\* What the database holds of [from, now).
StoredSince(stored, from, now) ==
    Selected(stored, {s \in ToSet(stored) : s.ts >= from /\ s.ts < now})

\* backfill(): the stored samples and probes of a container run.
Filled(stored, probes, from, now) ==
    LET seq == StoredSince(stored, from, now)
        acc == FoldLeft(LAMBDA a, s : [acc |-> ObserveAcc(a.acc, a.prev, s), prev |-> s],
                        [acc |-> EmptyAcc, prev |-> NoSample], seq).acc
    IN  [acc EXCEPT !.probes = Selected(probes, from .. now - 1)]

\* The account a switch goes on with: the one on record, or what is stored.
Started(id, table, filled) == IF id \in DOMAIN table THEN table[id] ELSE filled

-----------------------------------------------------------------------------
(***************************************************************************)
(* One poll: Loadouts::on_sample, then on_probe for the C1 readings that   *)
(* came in, which the poll has stored already.                             *)
(***************************************************************************)
Switched(s) == SeenAs(s).by # "nobody" /\ SeenAs(s) # current.seen_as

\* switch_to: another run of the same loadout ...
SameLoadout(s) == current.id = IdentityOf(s)

\* ... or another loadout.
Arrived(s, stored, probes) ==
    LET started == SeenAs(s).started
        table == IF current.id = <<>> THEN loadouts ELSE Put(loadouts, current.id, current.acc)
        acc == IF SameLoadout(s) THEN current.acc
               ELSE Started(IdentityOf(s), table, Filled(stored, probes, started, s.ts))
    IN  [current |-> [id |-> IdentityOf(s), seen_as |-> SeenAs(s),
                      acc |-> NoteCold(NoteRun(acc, started), started, s.ts)],
         table |-> table]

OnSample(s, described, stored, probes, arrived) ==
    LET switch == Switched(s) /\ described
        down == IF s.up THEN last_down ELSE s.ts
        new == IF switch THEN Arrived(s, stored, probes)
               ELSE [current |-> current, table |-> loadouts]
        other == switch /\ ~SameLoadout(s)
        table == IF other THEN Put(new.table, new.current.id, new.current.acc) ELSE loadouts
        acc == ObserveAcc(new.current.acc, IF switch THEN NoSample ELSE loadout_prev, s)
        at == IF other THEN s.ts ELSE loadout_saved
        save == new.current.id # <<>> /\ s.ts - at >= SaveEvery
    IN  /\ last_down' = down
        /\ current' = IF new.current.id = <<>> THEN new.current
                      ELSE [new.current EXCEPT
                               !.acc = [acc EXCEPT !.probes = acc.probes \o arrived]]
        /\ loadouts' = IF save THEN Put(table, new.current.id, acc) ELSE table
        /\ loadout_saved' = IF save THEN s.ts ELSE at
        /\ loadout_prev' = s

\* The start of a collector: who is serving is asked again.
StartLoadouts ==
    /\ current' = NoCurrent /\ loadout_prev' = NoSample /\ last_down' = None
    /\ loadout_saved' = 0
    /\ UNCHANGED loadouts
=============================================================================

----------------------------- MODULE MCAccounts ------------------------------
(***************************************************************************)
(* Accounts with small buckets.  Each world moves what one of the accounts *)
(* is sensitive to: its first poll may be any, the others stay quiet.      *)
(* The clock begins past every period, so that what is due "since 0" is    *)
(* due at the first poll, as it is on the real clock.                      *)
(*                                                                         *)
(* Beside them two worlds of their own: the bill, on every calendar of     *)
(* eleven days of four units with at most one longer and one shorter day,  *)
(* and the tariff, in the scenes of MCTariff.                              *)
(***************************************************************************)
EXTENDS Accounts, Spending, MCTariff

VARIABLES
    world,      \* the name of this behaviour's world
    polls,      \* how many polls it has made
    dark        \* the ten minutes that are not priced

Stored(ts, count, started) ==
    [ts |-> ts, up |-> TRUE, count |-> count, started |-> started, speed |-> 0, log |-> {},
     life |-> 1, config |-> "a"]

\* The engine serves one configuration, docker tells its start, nothing fails.
Quietly ==
    [stored |-> <<>>, owed |-> FALSE, gaps |-> {1}, polls |-> 5,
     grows |-> {1}, speeds |-> {0},
     restarts |-> {},       \* the counts a restarted engine may show
     lives |-> 3,           \* the runs of the engine
     reads |-> {"whole"},   \* how the scrape and docker's answer go together
     fails |-> {"nothing"}, \* "engine": it does not answer
     configs |-> {"a"}, described |-> {TRUE}, came |-> {0}, logs |-> {{}},
     dies |-> {FALSE}, downtimes |-> {}, starts |-> 1]

\* Collectors die between and in polls, and start again at once, inside the open bucket
\* and after it; retentions run out.
Buckets ==
    [Quietly EXCEPT !.gaps = 1 .. 3, !.polls = 6, !.dies = BOOLEAN, !.downtimes = {1, 4},
                    !.starts = 2]

\* A database from before the tiers, of which the retention drops samples while the
\* back-fill is at work.
FromBefore ==
    [Quietly EXCEPT !.stored = <<Stored(3, 0, 1), Stored(4, 1, 1), Stored(5, 2, 1), Stored(6, 3, 1)>>,
                    !.owed = TRUE, !.gaps = {1, 3}, !.polls = 4, !.downtimes = {1, 4}, !.starts = 2]

\* Engine and collector restart, docker does not always tell.
Counters ==
    [Quietly EXCEPT !.restarts = {0, 5}, !.downtimes = {1}, !.starts = 2,
                    !.reads = {"whole", "untold", "before", "after"}]

Speeds ==
    [Quietly EXCEPT !.gaps = {1, 3}, !.speeds = 0 .. 2, !.downtimes = {1}, !.starts = 2]

Histograms ==
    [Quietly EXCEPT !.gaps = {1, 2}, !.polls = 4, !.restarts = {1}, !.lives = 2,
                    !.configs = {"a", "b"}, !.fails = {"nothing", "metrics"},
                    !.downtimes = {1}, !.starts = 2]

\* Configurations follow each other, and nobody can say which.
Switches ==
    [Quietly EXCEPT !.polls = 4, !.restarts = {0}, !.configs = {"a", "b"},
                    !.reads = {"whole", "untold"}, !.described = BOOLEAN, !.came = {0, 1}]

\* They take their time to start.
Starts ==
    [Quietly EXCEPT !.polls = 4, !.restarts = {0}, !.configs = {"a", "b"}, !.gaps = {1, 3},
                    !.fails = {"nothing", "engine"}, !.downtimes = {1}, !.starts = 2]

\* They take their time to start, and docker does not always tell when they did.
Untold ==
    [Quietly EXCEPT !.polls = 4, !.restarts = {0}, !.reads = {"whole", "untold"},
                    !.fails = {"nothing", "engine"}, !.described = BOOLEAN]

GateLog ==
    [Quietly EXCEPT !.polls = 4, !.gaps = {1, 2}, !.logs = {{}, {0}, {0, 1}},
                    !.downtimes = {1, 4}, !.starts = 2]

Worlds ==
    [buckets |-> Buckets, from_before |-> FromBefore, counters |-> Counters, speeds |-> Speeds,
     histograms |-> Histograms, switches |-> Switches, starts |-> Starts, untold |-> Untold,
     gate_log |-> GateLog]

\* A last day of the year before, a year of two months, and a January with a month to follow.
MCMonthLengths == <<1, 3, 4, 3, 2>>
MCJanuaries == {1, 2, 4}
FirstDay == 2
LastDay == 11

MidnightsOf(long, short) ==
    LET length == [d \in 1 .. LastDay + 2 |->
                      DaySecs + (IF d = long THEN 1 ELSE 0) - (IF d = short THEN 1 ELSE 0)]
    IN  [d \in DOMAIN length |-> MapThenSumSet(LAMBDA k : length[k], 1 .. d - 1)]

\* Nothing is missing, or all or the beginning of one day, the first of a month or not.
Darknesses(midnights) ==
    {{}} \cup {midnights[d] .. midnights[d] + n - 1 : d \in {2, 7, 9}, n \in {1, DaySecs}}

BillInit ==
    \E long, short \in 0 .. LastDay :
        LET midnights == MidnightsOf(long, short)
        IN  /\ SpendingInit(midnights, midnights[FirstDay])
            /\ dark \in Darknesses(midnights)

NoTariff == TariffInit /\ moment = 1 /\ scene = "typed" /\ wizards = 0

tariff_world_vars == <<tariff_vars, scene, wizards>>

MCInit ==
    /\ polls = 0
    /\ \/ /\ world \in DOMAIN Worlds
          /\ AccountsInit(Worlds[world].stored, 8, Worlds[world].owed,
                          [life |-> 1, count |-> 3, started |-> 1, config |-> "a"])
          /\ SpendingInit(<<>>, 0) /\ dark = {} /\ NoTariff
       \/ /\ world = "bill"
          /\ AccountsInit(<<>>, 8, FALSE, [life |-> 1, count |-> 3, started |-> 1, config |-> "a"])
          /\ BillInit /\ NoTariff
       \/ /\ world = "tariff"
          /\ AccountsInit(<<>>, 8, FALSE, [life |-> 1, count |-> 3, started |-> 1, config |-> "a"])
          /\ SpendingInit(<<>>, 0) /\ dark = {} /\ MCTariffInit

\* The engine after the poll: it has gone on, or another run serves.
EnginesOf(w, t) ==
    {[engine EXCEPT !.count = engine.count + g] : g \in w.grows} \cup
    {[life |-> engine.life + 1, count |-> c, started |-> t, config |-> cfg] :
        c \in IF engine.life < w.lives THEN w.restarts ELSE {}, cfg \in w.configs}

PollsOf(w, t) ==
    \E e \in EnginesOf(w, t), how \in w.reads, failed \in w.fails, speed \in w.speeds,
       described \in w.described, came \in w.came, ago \in w.logs, dies \in w.dies :
        PollAt(t, e, how, failed, speed, lines \cup {t - a : a \in ago}, described, came, dies)

BooksNext(w) ==
    \/ /\ polls < w.polls /\ polls' = polls + 1
       /\ \E gap \in w.gaps : PollsOf(w, now + gap)
    \/ /\ UNCHANGED polls
       /\ \/ /\ starts = {} /\ StartCollector(now + 1)
          \/ /\ starts # {} /\ Cardinality(starts) < w.starts
             /\ \E d \in w.downtimes : StartCollector(now + d)
          \/ w.downtimes # {} /\ Cardinality(starts) < w.starts /\ StopCollector
          \/ BackfillStep

BillNext ==
    /\ clock < zone[LastDay + 1]
    /\ TenMinutesPass(clock \notin dark)

MCNext ==
    /\ UNCHANGED <<world, dark>>
    /\ \/ /\ world \in DOMAIN Worlds /\ BooksNext(Worlds[world])
          /\ UNCHANGED <<spending_vars, tariff_world_vars>>
       \/ /\ world = "bill" /\ BillNext
          /\ UNCHANGED <<account_vars, polls, tariff_world_vars>>
       \/ /\ world = "tariff" /\ MCTariffNext
          /\ UNCHANGED <<account_vars, spending_vars, polls>>

MCSpec == MCInit /\ [][MCNext]_<<account_vars, spending_vars, tariff_world_vars, world, polls, dark>>
=============================================================================

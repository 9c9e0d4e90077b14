----------------------------- MODULE MCTariff ------------------------------
(***************************************************************************)
(* Tariff on six days of three hours, in three months of a weekday and a   *)
(* day of the weekend each; the first day has an hour twice.  Each scene   *)
(* moves one part of the story.                                            *)
(***************************************************************************)
EXTENDS Tariff

VARIABLES
    scene,      \* the name of this behaviour's scene
    wizards     \* how many conversations it has had

At(day, hour) ==
    [day |-> day, month |-> (day + 1) \div 2, hour |-> hour, weekend |-> day % 2 = 0]

MCLocalTime ==
    [t \in 1 .. 19 |-> IF t <= 2 THEN At(1, t - 1) ELSE At(1 + (t - 2) \div 3, (t - 2) % 3)]

\* Prices that tell the cells of a plan apart.
Plan(from, to, seasonal, start, end) ==
    [kind |-> "time_of_use", on_peak |-> 3, off_peak |-> 1, weekend_peak |-> 2,
     peak_start |-> from, peak_end |-> to, seasonal |-> seasonal,
     summer_start |-> start, summer_end |-> end, winter_peak |-> 4, fixed_usd_per_day |-> 0]

Evening == Plan(1, 3, TRUE, 2, 3)
Slips == {[Evening EXCEPT !.off_peak = 5], [Evening EXCEPT !.fixed_usd_per_day = 3]}

Typed ==
    {Plan(from, to, FALSE, 1, 1) : from \in 0 .. 2, to \in 1 .. 3} \cup
    {Plan(from, to, TRUE, start, end) :
        from \in 0 .. 2, to \in 1 .. 3, start \in 1 .. 3, end \in 1 .. 3} \cup Slips

\* Any plan is typed; a few plans replace each other, with edits, slips, deaths and starts;
\* samples are taken over a midnight, with pauses and restarts.
Scenes ==
    [typed |-> [plans |-> Typed, rates |-> {2}, wizards |-> 1, holidays |-> {3},
                watts |-> {}, steps |-> 0],
     again |-> [plans |-> {Evening, Plan(0, 2, FALSE, 1, 1), Plan(2, 1, FALSE, 1, 1)} \cup Slips,
                rates |-> {2}, wizards |-> 2, holidays |-> {3, 5},
                watts |-> {}, steps |-> 0],
     metered |-> [plans |-> {}, rates |-> {}, wizards |-> 0, holidays |-> {},
                  watts |-> {NoReading, 2}, steps |-> 6]]

Installed == {Evening, Plan(0, 2, FALSE, 1, 1), [kind |-> "flat", usd |-> 2]}

MCTariffInit ==
    /\ wizards = 0 /\ scene \in DOMAIN Scenes
    /\ moment = 1
    /\ \/ scene # "metered" /\ TariffInit
       \/ /\ scene = "metered"
          /\ \E p \in Installed :
                /\ rates_file = Rendered(p)
                /\ agreed = [plan |-> p, holidays |-> {}, spoilt |-> FALSE]
          /\ wizard = NoWizard /\ rates_tmp = Missing
          /\ collecting = FALSE /\ rates_table = Missing /\ recent_from = 0
          /\ standing = NoAgreement /\ meter = {} /\ generated = 0

Talk(w) ==
    \/ \E p \in w.plans : AnswerPlan(p)
    \/ \E yes \in BOOLEAN : AnswerDoubt(yes) \/ AnswerReplace(yes)
    \/ \E usd \in w.rates : AnswerRate(usd)
    \/ OpenTmp \/ WriteTmp \/ RenameTmp \/ LeaveWizard

MCTariffNext ==
    LET w == Scenes[scene]
    IN  /\ UNCHANGED scene
        /\ \/ /\ wizards < w.wizards /\ wizards' = wizards + 1
              /\ \E force \in BOOLEAN : BeginWizard(force)
           \/ /\ UNCHANGED wizards
              /\ \/ Talk(w)
                 \/ \E day \in w.holidays : EnterHoliday(day)
                 \/ scene # "metered" /\ SpoilFile
                 \/ StartMetering
                 \/ StopMetering
                 \/ /\ moment <= w.steps
                    /\ \E watts \in w.watts : Metered(1, watts, TRUE)

MCTariffSpec == MCTariffInit /\ [][MCTariffNext]_<<tariff_vars, scene, wizards>>
=============================================================================

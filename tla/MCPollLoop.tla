---------------------------- MODULE MCPollLoop -----------------------------
(* PollLoop on short cooldowns and few polls: one world for each hardship.    *)
EXTENDS PollLoop

\* Nothing but polls happens: four of them.
Calm == [serve_fails |-> FALSE, mid_restart |-> FALSE, windows |-> {}, max_lost |-> 0,
         max_restarts |-> 0, max_crashes |-> 0, max_polls |-> 4, max_time |-> 4]

\* Outages of every shape, seen by polls that are never interrupted.
Outages == [Calm EXCEPT !.serve_fails = TRUE, !.max_polls = 6, !.max_time = 5]

\* Windows opened, extended, stopped and forgotten.
Windows == [Calm EXCEPT !.windows = {1, 2}, !.max_polls = 5, !.max_time = 5]

\* The collector dies twice, between any two steps, of an outage ...
Deaths == [Calm EXCEPT !.serve_fails = TRUE, !.max_crashes = 2, !.max_time = 3]

\* ... that may be a restart as well ...
DeathsAroundRestart == [Deaths EXCEPT !.max_restarts = 1, !.max_polls = 3]

\* ... or of a container, which polls find between two runs.
Restarts == [Calm EXCEPT !.mid_restart = TRUE, !.max_restarts = 2, !.max_crashes = 1, !.max_time = 3]

\* Two writes fail and the collector dies, in any order, while the serve fails.
LostWrites == [Calm EXCEPT !.serve_fails = TRUE, !.max_lost = 2, !.max_crashes = 1]

\* One death in an outage, or inside a window.
OneDeath == [Calm EXCEPT !.serve_fails = TRUE, !.max_crashes = 1]
DeathInWindow == [Calm EXCEPT !.windows = {2}, !.max_crashes = 1]

EveryHardship == {Outages, Windows, Deaths, DeathsAroundRestart, Restarts, DeathInWindow,
                    LostWrites}
OnlyOneDeath == {OneDeath}
OnlyDeathInWindow == {DeathInWindow}
=============================================================================

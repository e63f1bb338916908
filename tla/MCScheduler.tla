---------------------------- MODULE MCScheduler ----------------------------
(* Instances of Scheduler for TLC: a research day, an ordinary day and the *)
(* research day of the next week.                                          *)
EXTENDS Scheduler

TwoWeeks     == {0, 2}
FirstHoliday == {1, 2}
DailyJob     == {"daily"}

\* Two loops beside one another are followed through the ordinary day only.
RevivedForADay == revived => clock \in 8 .. 9 /\ crashes = 0 /\ errors = 0
=============================================================================

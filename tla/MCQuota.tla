------------------------------ MODULE MCQuota ------------------------------
(* TLC instances of Quota.                                                 *)
EXTENDS Quota, TLC

CONSTANTS k1, g1, g2

NoLimit == [fiveHour |-> 0, daily |-> 0, weekly |-> 0, period |-> 0, days |-> 0, start |-> None]
FiveHoursOnly == [NoLimit EXCEPT !.fiveHour = 1]
WeekOnly == [NoLimit EXCEPT !.weekly = 1]
DayWeekPeriod == [NoLimit EXCEPT !.daily = 1, !.weekly = 1, !.period = 1, !.days = 2, !.start = 2]

EveryWindow == {FiveHoursOnly, DayWeekPeriod}
Unlimited == {NoLimit}
WeekOnlyGroup == {WeekOnly}

Symmetry == Permutations(Groups)
=============================================================================

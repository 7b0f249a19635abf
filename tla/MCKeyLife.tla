----------------------------- MODULE MCKeyLife -----------------------------
(* Values of the constants for TLC: amounts around the plan floor.    *)
EXTENDS KeyDisplay

AroundTheFloor == {-1, 0, 1, MinPlanData - 1, MinPlanData, MinPlanData + 2}
AroundTheTerm == {-1, 0, MinPlanDays - 1, MinPlanDays, MinPlanDays + 1}
SomeEnds == {0, 3, 6}
=============================================================================

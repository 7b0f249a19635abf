----------------------------- MODULE KeyPolicy -----------------------------
(***************************************************************************)
(* The arithmetic every other module rests on: what state a key should be  *)
(* in, what a renewal grants, which plan a new or moved key starts on      *)
(* (backend/internal/models/models.go, backend/internal/handlers/keys.go). *)
(*                                                                         *)
(* Data is counted in whole units (the code's bytes) and time in ticks,    *)
(* DayTicks of them to a day.  A Go nil is None.                           *)
(***************************************************************************)
EXTENDS Integers

CONSTANTS
  None,                 \* a nil pointer / SQL NULL
  DayTicks,             \* clock ticks in a day
  MinPlanData,          \* MinPlanGB (200 GB)
  MinPlanDays,          \* 30 days
  RunningLowRemaining,  \* RunningLowRemainingBytes (3 GB)
  RunningLowDaysLeft    \* 2 days

ASSUME PolicyAssumption ==
  /\ None \notin Int
  /\ DayTicks \in Nat \ {0}
  /\ MinPlanData \in Nat \ {0}
  /\ MinPlanDays \in Nat \ {0}
  /\ RunningLowRemaining \in Nat /\ RunningLowRemaining <= MinPlanData
  /\ RunningLowDaysLeft \in Nat /\ RunningLowDaysLeft <= MinPlanDays

NatOrNone == Nat \cup {None}

KeyStatus == {"active", "expired", "limit_exceeded", "disabled"}

-----------------------------------------------------------------------------
(* Status derivation *)

OverDate(now, end) == end # None /\ now > end
OverQuota(limit, used) == limit # None /\ used >= limit

ShouldBeEnabled(now, end, limit, used) ==
  ~OverDate(now, end) /\ ~OverQuota(limit, used)

\* Faulty variant: the database's own flag is looked at first.
DerivedStatusDisabledFirst(now, end, limit, used, dbEnabled) ==
  IF ~dbEnabled THEN "disabled"
  ELSE IF OverDate(now, end) THEN "expired"
  ELSE IF OverQuota(limit, used) THEN "limit_exceeded"
  ELSE "active"

DerivedStatus(now, end, limit, used, dbEnabled) ==
  IF OverDate(now, end) THEN "expired"
  ELSE IF OverQuota(limit, used) THEN "limit_exceeded"
  ELSE IF ~dbEnabled THEN "disabled"
  ELSE "active"

AtLeastZero(n) == IF n < 0 THEN 0 ELSE n

\* Faulty variant: part of a day does not count.
DaysLeftRoundedDown(now, end) ==
  IF end = None THEN None ELSE AtLeastZero((end - now) \div DayTicks)

\* Any part of a day still remaining counts as a day left.
DaysLeft(now, end) ==
  IF end = None THEN None
  ELSE AtLeastZero((end - now + DayTicks - 1) \div DayTicks)

Remaining(limit, used) == IF limit = None THEN None ELSE AtLeastZero(limit - used)

DeriveKeyStatus(now, end, limit, used, dbEnabled) ==
  [status          |-> DerivedStatus(now, end, limit, used, dbEnabled),
   daysLeft        |-> DaysLeft(now, end),
   remaining       |-> Remaining(limit, used),
   shouldBeEnabled |-> ShouldBeEnabled(now, end, limit, used)]

\* The condition under which auto-renew tops a key up and the alert fires.
RunningLow(now, end, limit, used) ==
  \/ Remaining(limit, used) # None /\ Remaining(limit, used) < RunningLowRemaining
  \/ DaysLeft(now, end) # None /\ DaysLeft(now, end) < RunningLowDaysLeft

-----------------------------------------------------------------------------
(* Plans *)

AddDate(now, days) == now + days * DayTicks

\* Faulty variant: the new limit is not anchored to the usage.
RenewalTargetUnanchored(now, limit, end, used, addData, addDays) ==
  [limit |-> IF addData > 0 THEN addData ELSE limit,
   end   |-> IF addDays > 0 THEN AddDate(now, addDays) ELSE end]

\* A non-positive allowance leaves its dimension as it was.
RenewalTarget(now, limit, end, used, addData, addDays) ==
  [limit |-> IF addData > 0 THEN used + addData ELSE limit,
   end   |-> IF addDays > 0 THEN AddDate(now, addDays) ELSE end]

\* Faulty variant: any number of days will do.
MeetsPlanFloorAnyDays(addData, addDays) ==
  addData >= 0 /\ (addData > 0 => addData >= MinPlanData)

\* What applyPlanMinimums accepts: nothing, or a whole plan, in each dimension.
MeetsPlanFloor(addData, addDays) ==
  /\ addData >= 0 /\ addDays >= 0
  /\ addData > 0 => addData >= MinPlanData
  /\ addDays > 0 => addDays >= MinPlanDays

\* What it makes of an allowance it accepts: nothing means one plan.
ApplyPlanMinimums(addData, addDays) ==
  [data |-> IF addData = 0 THEN MinPlanData ELSE addData,
   days |-> IF addDays = 0 THEN MinPlanDays ELSE addDays]

\* The plan of a new key: an absent data allowance is the server's default,
\* which is not held to the plan floor, and a default of zero is no limit.
ResolveKeyPlan(now, default, addData, addDays) ==
  LET allowed == ApplyPlanMinimums(addData, addDays)
      data    == IF addData = 0 /\ default # None THEN default ELSE allowed.data
  IN  [limit |-> IF data > 0 THEN data ELSE None,
       end   |-> AddDate(now, allowed.days)]

\* The plan of a holder moved onto another key: any positive allowance as it is.
ResolveMovePlan(now, default, addData, addDays) ==
  LET fresh == ResolveKeyPlan(now, default, 0, 0)
  IN  [limit |-> IF addData > 0 THEN addData ELSE fresh.limit,
       end   |-> IF addDays > 0 THEN AddDate(now, addDays) ELSE fresh.end]
=============================================================================

----------------------------- MODULE KeyDisplay -----------------------------
(***************************************************************************)
(* What the console makes of a key's derived fields: the badges and bars   *)
(* of its tables, the list of keys needing attention, and the plan a       *)
(* dialog previews, refuses or fills in.  All of it is computed in the     *)
(* browser from what DeriveKeyStatus answered, and sent back to handlers   *)
(* that have rules of their own.                                           *)
(***************************************************************************)
EXTENDS KeyLife

CONSTANTS
  SoonDays,  \* EXPIRING_WITHIN_DAYS, and the 7 of the expiry cells
  Tenth      \* data units in a tenth of a gigabyte

ASSUME DisplayAssumption ==
  /\ SoonDays \in Nat /\ SoonDays >= RunningLowDaysLeft
  /\ Tenth \in Nat \ {0}
  /\ None \notin {"expired", "limit_exceeded", "expiring"}

-----------------------------------------------------------------------------
(* Badges and bars *)

\* Faulty variant: a bar turns red past its limit only.
UsageBarStepPastLimit(u, l) ==
  IF l = 0 \/ u > l THEN 5 ELSE IF u = l THEN 4 ELSE (5 * u) \div l

\* usageBarColor of the ratio a usage cell draws: one step for each 20%, the
\* last one red.
UsageBarStep(u, l) ==
  IF l = 0 \/ u >= l THEN 5 ELSE (5 * u) \div l

\* The cell of a key without a limit draws no bar.
UsageCell(u, l) == IF l = None THEN None ELSE UsageBarStep(u, l)

\* The badge of the expiry cell, in the table of a server's keys and in the
\* table of holders: the two draw the line at another day.
KeyExpiryBadge(e, d) ==
  CASE e = None -> "none"
    [] e # None /\ d < 0 -> "expired"
    [] e # None /\ d >= 0 /\ d <= SoonDays -> "soon"
    [] OTHER -> "plain"

HolderExpiryBadge(e, d) ==
  CASE e = None -> "none"
    [] e # None /\ d <= 0 -> "expired"
    [] e # None /\ d > 0 /\ d <= SoonDays -> "soon"
    [] OTHER -> "plain"

\* Why a key is on the overview's list of keys needing attention.
UrgencyOf(k) ==
  CASE k.status = "expired" -> "expired"
    [] k.status = "limit_exceeded" -> "limit_exceeded"
    [] k.status = "active" /\ k.daysLeft # None /\ k.daysLeft <= SoonDays -> "expiring"
    [] OTHER -> None

\* The parts of the quota ring: what is used, what remains.
KeyUsageDonut(u, l) ==
  [used |-> IF u < l THEN u ELSE l, remaining |-> AtLeastZero(l - u)]

-----------------------------------------------------------------------------
(* Plans typed into a dialog *)

\* Without the plan floor anything above zero and one whole day will do.
PlanMinimums(enforcePlanFloor) ==
  IF enforcePlanFloor THEN [data |-> MinPlanData, days |-> MinPlanDays]
  ELSE [data |-> 1, days |-> 1]

\* Faulty variant: only the data is looked at.
IsBelowPlanFloorData(data, days, enforcePlanFloor) ==
  data < PlanMinimums(enforcePlanFloor).data

IsBelowPlanFloor(data, days, enforcePlanFloor) ==
  \/ data < PlanMinimums(enforcePlanFloor).data
  \/ days < PlanMinimums(enforcePlanFloor).days

\* Faulty variant: the days typed are added to the days left.
ExtendedPlanFromEnd(data, days) ==
  [limit |-> used + data,
   end |-> AddDate(IF end # None /\ end > now THEN end ELSE now, days)]

\* "New limit ... expires ...", below the fields of an extension.
ExtendedPlan(data, days) ==
  [limit |-> used + data, end |-> AddDate(now, days)]

\* Fields show tenths of a gigabyte: the nearest one for a limit, and never
\* more than there is for a remainder that is carried over.
NearestTenth(data) == ((data + Tenth \div 2) \div Tenth) * Tenth
FloorTenth(data) == (data \div Tenth) * Tenth

\* Faulty variant: the remainder is rounded to the nearest tenth.
CarriedOverPlanRounded(k) ==
  LET data == IF k.remaining = None THEN 0 ELSE NearestTenth(k.remaining)
      days == IF k.daysLeft = None THEN 0 ELSE k.daysLeft
  IN [data |-> IF data > 0 THEN data ELSE MinPlanData,
      days |-> IF days > 0 THEN days ELSE MinPlanDays]

\* What is left on the key a holder is moved off, or one plan period of what
\* is unknown or used up.
CarriedOverPlan(k) ==
  LET data == IF k.remaining = None THEN 0 ELSE FloorTenth(k.remaining)
      days == IF k.daysLeft = None THEN 0 ELSE k.daysLeft
  IN [data |-> IF data > 0 THEN data ELSE MinPlanData,
      days |-> IF days > 0 THEN days ELSE MinPlanDays]

-----------------------------------------------------------------------------
(* Properties *)

\* The tables, the bars and the attention list, each computed from another
\* derived field, never contradict the status: a bar is red exactly when the
\* quota is used up and the ring is empty with it, a key needs attention for
\* being used up or for its last days exactly when its badge says so, and a
\* key that auto-renew finds at its last days is listed, unless it still reads
\* "disabled" after a change of plan whose push failed.
CellsAgreeWithStatus ==
  LET bar == UsageCell(used, limit)
      badge == HolderExpiryBadge(end, Status.daysLeft)
  IN
  /\ bar = 5 <=> OverQuota(limit, used)
  /\ limit # None /\ limit > 0 =>
       (KeyUsageDonut(used, limit).remaining = 0 <=> bar = 5)
  /\ Status.status = "expired" => badge = "expired" /\ UrgencyOf(Status) = "expired"
  /\ Status.status = "active" =>
       (UrgencyOf(Status) = "expiring" <=> badge \in {"expired", "soon"})
  /\ badge = "soon" => KeyExpiryBadge(end, Status.daysLeft) = "soon"
  /\ end # None /\ Status.daysLeft < RunningLowDaysLeft /\ Status.status # "disabled" =>
       UrgencyOf(Status) # None

\* What the extension form lets through, the renewal handler accepts and
\* grants to the letter: the limit and the date it previewed ("Match
\* RenewalTarget: start a fresh period without carrying over old days").
PreviewIsGranted ==
  \A data \in Asked, days \in AskedDays :
    ~IsBelowPlanFloor(data, days, TRUE) =>
      LET ask == ApplyPlanMinimums(data, days) IN
      /\ MeetsPlanFloor(data, days)
      /\ RenewalTarget(now, limit, end, used, ask.data, ask.days)
           = ExtendedPlan(data, days)

\* What the move form fills in for a holder can be submitted as it is, and the
\* handler then leaves them what they had: never more data than remained, less
\* than a tenth of a gigabyte lost, and no part of a day lost.
CarriedPlanKeepsWhatIsLeft ==
  LET carried == CarriedOverPlan(Status)
      plan == ResolveMovePlan(now, Default, carried.data, carried.days)
  IN
  /\ ~IsBelowPlanFloor(carried.data, carried.days, FALSE)
  /\ Status.remaining # None /\ Status.remaining >= Tenth =>
       /\ plan.limit <= Status.remaining
       /\ plan.limit > Status.remaining - Tenth
  /\ end # None /\ now < end => plan.end >= end /\ plan.end < end + DayTicks
=============================================================================

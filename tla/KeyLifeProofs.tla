--------------------------- MODULE KeyLifeProofs ---------------------------
(***************************************************************************)
(* Proofs about KeyLife and KeyDisplay: the type invariant, that a renewal *)
(* restores a key, and that what the console shows of a key and fills into *)
(* its dialogs agrees with what the backend derives and grants, for every  *)
(* length of a day, every threshold and every amount typed.                *)
(***************************************************************************)
EXTENDS KeyDisplay, KeyPolicyProofs

\* A plan that a new key starts on has a limit and an end date of the right type.
LEMMA KeyPlanType ==
  ASSUME NEW t \in Nat, NEW data \in Int, NEW days \in Int, MeetsPlanFloor(data, days)
  PROVE  LET plan == ResolveKeyPlan(t, Default, data, days)
         IN  plan.limit \in NatOrNone /\ plan.end \in Nat
<1> DEFINE ask == ApplyPlanMinimums(data, days)
<1>1. ask.data \in Nat /\ ask.days \in Nat BY FloorHolds
<1>2. AddDate(t, ask.days) \in Nat BY <1>1, AddDateType
<1> QED BY <1>1, <1>2, LifeAssumption DEF ResolveKeyPlan, NatOrNone

\* So does the plan of a moved holder.
LEMMA MovePlanType ==
  ASSUME NEW t \in Nat, NEW data \in Nat, NEW days \in Nat
  PROVE  LET plan == ResolveMovePlan(t, Default, data, days)
         IN  plan.limit \in NatOrNone /\ plan.end \in Nat
<1>1. MeetsPlanFloor(0, 0) BY DEF MeetsPlanFloor
<1>2. LET plan == ResolveKeyPlan(t, Default, 0, 0)
      IN  plan.limit \in NatOrNone /\ plan.end \in Nat
  BY <1>1, KeyPlanType
<1>3. AddDate(t, days) \in Nat BY AddDateType
<1> QED BY <1>2, <1>3 DEF ResolveMovePlan, NatOrNone

LEMMA InitTypeOK == Init => TypeOK
<1> SUFFICES ASSUME Init PROVE TypeOK OBVIOUS
<1>1. CASE limit = None /\ end = None BY <1>1 DEF Init, TypeOK, NatOrNone
<1>2. ASSUME NEW data \in Asked, NEW days \in AskedDays, MeetsPlanFloor(data, days),
             limit = ResolveKeyPlan(0, Default, data, days).limit,
             end = ResolveKeyPlan(0, Default, data, days).end
      PROVE  TypeOK
  <2>1. data \in Int /\ days \in Int BY LifeAssumption
  <2>2. limit \in NatOrNone /\ end \in Nat BY <1>2, <2>1, KeyPlanType
  <2> QED BY <2>2 DEF Init, TypeOK, NatOrNone
<1> QED BY <1>1, <1>2 DEF Init

\* A saved plan of the right type keeps the types, whatever becomes of its push.
LEMMA SaveTypeOK ==
  ASSUME TypeOK, NEW l \in NatOrNone, NEW e \in NatOrNone, Save(l, e)
  PROVE  TypeOK'
<1>1. ShouldBeEnabled(now, e, l, used) \in BOOLEAN BY DEF ShouldBeEnabled
<1>2. enabled' \in BOOLEAN BY <1>1 DEF Save, TypeOK
<1> QED BY <1>2 DEF Save, TypeOK

LEMMA NextTypeOK == TypeOK /\ [Next]_vars => TypeOK'
<1> SUFFICES ASSUME TypeOK, [Next]_vars PROVE TypeOK' OBVIOUS
<1> USE DEF TypeOK
<1>1. ASSUME NEW data \in Asked, NEW days \in AskedDays, Renew(data, days) PROVE TypeOK'
  <2>1. data \in Int /\ days \in Int BY LifeAssumption
  <2> DEFINE ask == ApplyPlanMinimums(data, days)
             target == RenewalTarget(now, limit, end, used, ask.data, ask.days)
  <2>2. MeetsPlanFloor(data, days) BY <1>1 DEF Renew
  <2>3. /\ ask.data \in Nat /\ ask.data >= MinPlanData
        /\ ask.days \in Nat /\ ask.days >= MinPlanDays
    BY <2>1, <2>2, FloorHolds
  <2> HIDE DEF ask
  <2>4. target.limit \in Nat /\ target.end \in Nat BY <2>3, WholePlanRestores
  <2>5. Save(target.limit, target.end) BY <1>1 DEF Renew, ask
  <2> HIDE DEF target
  <2> QED BY <2>4, <2>5, SaveTypeOK DEF NatOrNone
<1>2. ASSUME NEW data \in Asked, NEW days \in AskedDays, Move(data, days) PROVE TypeOK'
  <2>1. data \in Nat /\ days \in Nat BY <1>2, LifeAssumption DEF Move
  <2>2. /\ ResolveMovePlan(now, Default, data, days).limit \in NatOrNone
        /\ ResolveMovePlan(now, Default, data, days).end \in Nat
    BY <2>1, MovePlanType
  <2> QED BY <1>2, <2>2 DEF Move, NatOrNone
<1>3. ASSUME NEW data \in Asked \cup {None}, NEW date \in Ends \cup {None}, Edit(data, date)
      PROVE  TypeOK'
  <2> DEFINE l == IF data = None THEN limit ELSE data
             e == IF date = None THEN end ELSE date
  <2>1. l \in NatOrNone /\ e \in NatOrNone BY <1>3, LifeAssumption DEF Edit, NatOrNone
  <2>2. Save(l, e) BY <1>3 DEF Edit
  <2> HIDE DEF l, e
  <2> QED BY <2>1, <2>2, SaveTypeOK
<1>4. CASE Reconcile
  <2>1. enabled' \in BOOLEAN BY <1>4 DEF Reconcile, ShouldBeEnabled
  <2> QED BY <1>4, <2>1 DEF Reconcile
<1>5. CASE Use BY <1>5 DEF Use
<1>6. CASE Tick BY <1>6 DEF Tick
<1>7. CASE UNCHANGED vars BY <1>7 DEF vars
<1> QED BY <1>1, <1>2, <1>3, <1>4, <1>5, <1>6, <1>7 DEF Next

\* The clock, the usage, the plan and the stored flag keep their types.
THEOREM LifeTypeCorrect == Spec => []TypeOK
<1> QED BY InitTypeOK, NextTypeOK, PTL DEF Spec

\* For every plan floor, every threshold within it, every default and every
\* amount typed into the form, a renewal that is accepted leaves a key that works
\* and that neither the alert nor auto-renew would pick up again.
THEOREM RenewalAlwaysRestores == Spec => RenewalRestores
<1> DEFINE Restores ==
      \A data \in Asked, days \in AskedDays : Renew(data, days) =>
        Status'.shouldBeEnabled /\ ~RunningLow(now, end', limit', used)
<1>1. TypeOK /\ [Next]_vars => [Restores]_vars
  <2> SUFFICES ASSUME TypeOK, NEW data \in Asked, NEW days \in AskedDays, Renew(data, days)
               PROVE  Status'.shouldBeEnabled /\ ~RunningLow(now, end', limit', used)
    OBVIOUS
  <2> DEFINE ask == ApplyPlanMinimums(data, days)
  <2>1. MeetsPlanFloor(data, days) BY DEF Renew
  <2>2. /\ ask.data \in Nat /\ ask.data >= MinPlanData
        /\ ask.days \in Nat /\ ask.days >= MinPlanDays
    BY <2>1, FloorHolds, LifeAssumption
  <2>3. /\ limit' = RenewalTarget(now, limit, end, used, ask.data, ask.days).limit
        /\ end' = RenewalTarget(now, limit, end, used, ask.data, ask.days).end
        /\ now' = now /\ used' = used
    BY DEF Renew, Save
  <2> HIDE DEF ask
  <2>4. ShouldBeEnabled(now, end', limit', used) /\ ~RunningLow(now, end', limit', used)
    BY <2>2, <2>3, WholePlanRestores DEF TypeOK
  <2>5. Status'.shouldBeEnabled = ShouldBeEnabled(now', end', limit', used')
    BY DEF Status, DeriveKeyStatus
  <2> QED BY <2>3, <2>4, <2>5
<1> QED BY <1>1, LifeTypeCorrect, PTL DEF Spec, RenewalRestores

\* The days left, counted in ticks, reach the end date and no further than
\* the last day needs; past the end date there are none.
LEMMA DaysLeftReaches ==
  ASSUME NEW t \in Nat, NEW date \in Nat
  PROVE  LET d == DaysLeft(t, date)
         IN  /\ d \in Nat
             /\ t <= date => t + d * DayTicks >= date
             /\ t <= date /\ d > 0 => t + (d - 1) * DayTicks < date
             /\ t > date => d = 0
<1> DEFINE ahead == date - t + DayTicks - 1
           q     == ahead \div DayTicks
<1>1. DayTicks \in Nat \ {0} /\ date # None BY PolicyAssumption
<1>2. ahead \in Int BY <1>1
<1>3. q \in Int /\ q * DayTicks <= ahead /\ ahead < q * DayTicks + DayTicks BY <1>1, <1>2
<1>4. DaysLeft(t, date) = AtLeastZero(q) BY <1>1 DEF DaysLeft
<1> HIDE DEF q
<1>5. q * DayTicks \in Int /\ (q - 1) * DayTicks = q * DayTicks - DayTicks BY <1>1, <1>3
<1>6. ASSUME t <= date PROVE q >= 0
  <2> SUFFICES ASSUME q <= -1 PROVE FALSE BY <1>3
  <2>1. q * DayTicks <= (-1) * DayTicks BY <1>1, <1>3, TimesMonotone
  <2> QED BY <1>1, <1>3, <1>5, <1>6, <2>1
<1>7. ASSUME t > date PROVE q <= 0
  <2> SUFFICES ASSUME 1 <= q PROVE FALSE BY <1>3
  <2>1. 1 * DayTicks <= q * DayTicks BY <1>1, <1>3, TimesMonotone
  <2> QED BY <1>1, <1>3, <1>5, <1>7, <2>1
<1>8. CASE t <= date
  <2>1. DaysLeft(t, date) = q BY <1>3, <1>4, <1>6, <1>8 DEF AtLeastZero
  <2> QED BY <1>1, <1>3, <1>5, <1>6, <1>8, <2>1
<1>9. CASE t > date
  <2>1. DaysLeft(t, date) = 0 BY <1>3, <1>4, <1>7, <1>9 DEF AtLeastZero
  <2> QED BY <1>9, <2>1
<1> QED BY <1>8, <1>9

\* What the dashboard reports of a key is coherent in every state the plan
\* operations lead to, for every length of a day and every threshold.
THEOREM DerivedAlwaysAgree == Spec => []DerivedFieldsAgree
<1>1. TypeOK => DerivedFieldsAgree
  <2> SUFFICES ASSUME TypeOK PROVE DerivedFieldsAgree OBVIOUS
  <2>1. Status.shouldBeEnabled <=> Status.status \in {"active", "disabled"}
    BY DEF Status, DeriveKeyStatus, DerivedStatus, ShouldBeEnabled
  <2>2. ASSUME limit # None PROVE Status.remaining = 0 <=> used >= limit
    <3>1. limit \in Nat /\ used \in Nat BY <2>2 DEF TypeOK, NatOrNone
    <3>2. Status.remaining = AtLeastZero(limit - used)
      BY <2>2 DEF Status, DeriveKeyStatus, Remaining
    <3> QED BY <3>1, <3>2 DEF AtLeastZero
  <2>3. Status.daysLeft = DaysLeft(now, end) BY DEF Status, DeriveKeyStatus
  <2>4. ASSUME end # None PROVE end \in Nat /\ now \in Nat BY <2>4 DEF TypeOK, NatOrNone
  <2>5. Status.status = "expired" => end # None /\ now > end
    BY DEF Status, DeriveKeyStatus, DerivedStatus, OverDate
  <2> HIDE DEF Status
  <2> QED BY <2>1, <2>2, <2>3, <2>4, <2>5, DaysLeftReaches DEF DerivedFieldsAgree
<1> QED BY <1>1, LifeTypeCorrect, PTL

\* Whatever the plans, the usage and the length of a day, a key that reads
\* "disabled" was cut off before a change of plan whose push failed.
THEOREM DisabledAlwaysByFailedPush == Spec => DisabledByFailedPushOnly
<1> DEFINE Reads == Status.status = "disabled"
           Should == ShouldBeEnabled(now, end, limit, used)
           Explained ==
             Status.status # "disabled" /\ Status'.status = "disabled" =>
               /\ limit' # limit \/ end' # end
               /\ ~ShouldBeEnabled(now, end, limit, used)
<1>1. TypeOK /\ [Next]_vars => [Explained]_vars
  <2> SUFFICES ASSUME TypeOK, Next, ~Reads, Reads'
               PROVE  (limit' # limit \/ end' # end) /\ ~Should
    BY DEF vars
  <2>1. Reads <=> Should /\ enabled # TRUE
    BY DEF Status, DeriveKeyStatus, DerivedStatus, ShouldBeEnabled, TypeOK
  <2>2. Reads' <=> Should' /\ enabled' # TRUE
    <3>1. TypeOK' BY NextTypeOK
    <3> QED BY <3>1 DEF Status, DeriveKeyStatus, DerivedStatus, ShouldBeEnabled, TypeOK
  <2> HIDE DEF Reads
  <2>3. ASSUME NEW l, NEW e, Save(l, e) PROVE (limit' # limit \/ end' # end) /\ ~Should
    <3>1. Should' = ShouldBeEnabled(now, e, l, used) /\ l = limit' /\ e = end'
      BY <2>3 DEF Save
    <3>2. Should' = TRUE BY <2>2, <3>1 DEF ShouldBeEnabled
    <3>3. enabled' = enabled BY <2>2, <2>3, <3>1, <3>2 DEF Save
    <3>4. ~Should BY <2>1, <2>2, <3>3
    <3>5. limit' = limit /\ end' = end => Should' = Should BY <3>1
    <3> QED BY <2>2, <3>4, <3>5
  <2>4. ASSUME NEW data \in Asked, NEW days \in AskedDays, Renew(data, days)
        PROVE  (limit' # limit \/ end' # end) /\ ~Should
    BY <2>3, <2>4 DEF Renew
  <2>5. ASSUME NEW data \in Asked, NEW days \in AskedDays, Move(data, days) PROVE FALSE
    BY <2>2, <2>5 DEF Move
  <2>6. ASSUME NEW data \in Asked \cup {None}, NEW date \in Ends \cup {None}, Edit(data, date)
        PROVE  (limit' # limit \/ end' # end) /\ ~Should
    BY <2>3, <2>6 DEF Edit
  <2>7. CASE Reconcile
    <3>1. enabled' = Should /\ Should' = Should BY <2>7 DEF Reconcile
    <3> QED BY <2>2, <3>1
  <2>8. CASE Use
    <3>1. /\ used \in Nat /\ used' \in Nat /\ used' >= used
          /\ limit' = limit /\ end' = end /\ now' = now /\ enabled' = enabled
      BY <2>8 DEF Use, TypeOK
    <3>2. Should' => Should BY <3>1 DEF ShouldBeEnabled, OverQuota, OverDate, TypeOK, NatOrNone
    <3> QED BY <2>1, <2>2, <3>1, <3>2
  <2>9. CASE Tick
    <3>1. /\ now \in Nat /\ now' = now + 1
          /\ limit' = limit /\ end' = end /\ used' = used /\ enabled' = enabled
      BY <2>9 DEF Tick, TypeOK
    <3>2. Should' => Should BY <3>1 DEF ShouldBeEnabled, OverQuota, OverDate, TypeOK, NatOrNone
    <3> QED BY <2>1, <2>2, <3>1, <3>2
  <2> QED BY <2>4, <2>5, <2>6, <2>7, <2>8, <2>9 DEF Next
<1> QED BY <1>1, LifeTypeCorrect, PTL DEF Spec, DisabledByFailedPushOnly

-----------------------------------------------------------------------------
(* What the console shows. *)


\* Division rounds down.
LEMMA DivRoundsDown ==
  ASSUME NEW x \in Int, NEW d \in Nat \ {0}
  PROVE  x \div d \in Int /\ (x \div d) * d <= x /\ x < (x \div d) * d + d
OBVIOUS

-----------------------------------------------------------------------------
(* The extension form. *)

\* The form's fields, once it lets them through, are at or above the floor.
LEMMA FormKeepsFloor ==
  ASSUME NEW data \in Int, NEW days \in Int, ~IsBelowPlanFloor(data, days, TRUE)
  PROVE  /\ MeetsPlanFloor(data, days)
         /\ ApplyPlanMinimums(data, days) = [data |-> data, days |-> days]
         /\ data > 0 /\ days > 0
<1>1. data >= MinPlanData /\ days >= MinPlanDays
  BY PolicyAssumption DEF IsBelowPlanFloor, PlanMinimums
<1>2. data > 0 /\ days > 0 BY <1>1, PolicyAssumption
<1>3. MeetsPlanFloor(data, days) BY <1>1, <1>2 DEF MeetsPlanFloor
<1>4. ApplyPlanMinimums(data, days) = [data |-> data, days |-> days]
  BY <1>2 DEF ApplyPlanMinimums
<1> QED BY <1>2, <1>3, <1>4

\* The renewal handler accepts whatever the extension form lets through, and
\* grants the limit and the date the form previewed.
THEOREM PreviewAlwaysGranted == Spec => []PreviewIsGranted
<1>1. PreviewIsGranted
  <2> SUFFICES ASSUME NEW data \in Asked, NEW days \in AskedDays,
                      ~IsBelowPlanFloor(data, days, TRUE)
               PROVE  LET ask == ApplyPlanMinimums(data, days) IN
                      /\ MeetsPlanFloor(data, days)
                      /\ RenewalTarget(now, limit, end, used, ask.data, ask.days)
                           = ExtendedPlan(data, days)
    BY DEF PreviewIsGranted
  <2>1. data \in Int /\ days \in Int BY LifeAssumption
  <2>2. /\ MeetsPlanFloor(data, days)
        /\ ApplyPlanMinimums(data, days) = [data |-> data, days |-> days]
        /\ data > 0 /\ days > 0
    BY <2>1, FormKeepsFloor
  <2> QED BY <2>2 DEF RenewalTarget, ExtendedPlan
<1> QED BY <1>1, PTL

-----------------------------------------------------------------------------
(* The move form. *)

\* What is carried over is at least one unit and one day: the days left if
\* there are any, and the data left down to a tenth if that is anything.
LEMMA CarriedOver ==
  ASSUME TypeOK
  PROVE  LET carried == CarriedOverPlan(Status) IN
         /\ carried.data \in Nat \ {0} /\ carried.days \in Nat \ {0}
         /\ Status.remaining # None /\ Status.remaining >= Tenth =>
              /\ carried.data <= Status.remaining
              /\ carried.data > Status.remaining - Tenth
         /\ end # None /\ now < end => carried.days = DaysLeft(now, end)
<1> DEFINE carried == CarriedOverPlan(Status)
           left == Status.remaining
           tenths == FloorTenth(left)
<1>1. Tenth \in Nat \ {0} BY DisplayAssumption
<1>2. /\ MinPlanData \in Nat \ {0} /\ MinPlanDays \in Nat \ {0} /\ DayTicks \in Nat \ {0}
      /\ None \notin Int
  BY PolicyAssumption
<1>3. left = Remaining(limit, used) /\ Status.daysLeft = DaysLeft(now, end)
  BY DEF Status, DeriveKeyStatus
<1>4. left # None => left \in Nat
  BY <1>3, <1>2 DEF TypeOK, NatOrNone, Remaining, AtLeastZero
<1>5. end # None => end \in Nat /\ DaysLeft(now, end) \in Nat
  BY DaysLeftReaches DEF TypeOK, NatOrNone
<1>6. ASSUME left # None
      PROVE  tenths \in Int /\ tenths <= left /\ left < tenths + Tenth
  <2>1. left \in Int BY <1>4, <1>6
  <2>2. /\ left \div Tenth \in Int /\ (left \div Tenth) * Tenth <= left
        /\ left < (left \div Tenth) * Tenth + Tenth
    BY <1>1, <2>1, DivRoundsDown
  <2>3. (left \div Tenth) * Tenth \in Int BY <1>1, <2>2
  <2> QED BY <2>2, <2>3 DEF FloorTenth
<1>7. carried.data = IF left = None THEN MinPlanData
                     ELSE IF tenths > 0 THEN tenths ELSE MinPlanData
  BY <1>2 DEF CarriedOverPlan
<1>8. carried.days = IF end = None THEN MinPlanDays
                     ELSE IF DaysLeft(now, end) > 0 THEN DaysLeft(now, end) ELSE MinPlanDays
  <2>1. end = None => DaysLeft(now, end) = None BY DEF DaysLeft
  <2>2. end # None => DaysLeft(now, end) # None BY <1>2, <1>5
  <2> QED BY <1>2, <1>3, <2>1, <2>2 DEF CarriedOverPlan
<1> HIDE DEF carried, left, tenths
<1>9. carried.data \in Nat \ {0}
  BY <1>2, <1>4, <1>6, <1>7
<1>10. carried.days \in Nat \ {0} BY <1>2, <1>5, <1>8
<1>11. left # None /\ left >= Tenth => carried.data <= left /\ carried.data > left - Tenth
  BY <1>1, <1>4, <1>6, <1>7
<1>12. ASSUME end # None, now < end PROVE carried.days = DaysLeft(now, end)
  <2>1. now \in Nat /\ end \in Nat BY <1>5, <1>12 DEF TypeOK
  <2>2. now + DaysLeft(now, end) * DayTicks >= end BY <1>12, <2>1, DaysLeftReaches
  <2>3. DaysLeft(now, end) # 0
    <3> SUFFICES ASSUME DaysLeft(now, end) = 0 PROVE FALSE OBVIOUS
    <3>1. DaysLeft(now, end) * DayTicks = 0 BY <1>2
    <3> QED BY <1>12, <2>1, <2>2, <3>1
  <2> QED BY <1>5, <1>8, <1>12, <2>3
<1> QED BY <1>9, <1>10, <1>11, <1>12 DEF carried, left

\* A holder who is moved with what the form fills in keeps what they had left,
\* but for less than a tenth of a gigabyte, and loses no day.
THEOREM CarriedPlanAlwaysKeeps == Spec => []CarriedPlanKeepsWhatIsLeft
<1>1. TypeOK => CarriedPlanKeepsWhatIsLeft
  <2> SUFFICES ASSUME TypeOK PROVE CarriedPlanKeepsWhatIsLeft OBVIOUS
  <2> DEFINE carried == CarriedOverPlan(Status)
             plan == ResolveMovePlan(now, Default, carried.data, carried.days)
  <2>1. /\ carried.data \in Nat \ {0} /\ carried.days \in Nat \ {0}
        /\ Status.remaining # None /\ Status.remaining >= Tenth =>
             /\ carried.data <= Status.remaining
             /\ carried.data > Status.remaining - Tenth
        /\ end # None /\ now < end => carried.days = DaysLeft(now, end)
    BY CarriedOver
  <2> HIDE DEF carried
  <2>2. plan.limit = carried.data /\ plan.end = AddDate(now, carried.days)
    BY <2>1 DEF ResolveMovePlan
  <2>3. ~IsBelowPlanFloor(carried.data, carried.days, FALSE)
    BY <2>1 DEF IsBelowPlanFloor, PlanMinimums
  <2>4. ASSUME end # None, now < end PROVE plan.end >= end /\ plan.end < end + DayTicks
    <3>1. now \in Nat /\ end \in Nat BY <2>4 DEF TypeOK, NatOrNone
    <3>2. DayTicks \in Nat BY PolicyAssumption
    <3> DEFINE d == DaysLeft(now, end)
    <3>3. d = carried.days /\ d > 0 /\ d \in Nat BY <2>1, <2>4
    <3>4. /\ now <= end => now + d * DayTicks >= end
          /\ now <= end /\ d > 0 => now + (d - 1) * DayTicks < end
      BY <3>1, DaysLeftReaches
    <3> HIDE DEF d
    <3>5. d * DayTicks \in Nat /\ (d - 1) * DayTicks = d * DayTicks - DayTicks
      BY <3>2, <3>3
    <3>6. plan.end = now + d * DayTicks BY <2>2, <3>3 DEF AddDate
    <3> QED BY <2>4, <3>1, <3>2, <3>3, <3>4, <3>5, <3>6
  <2> HIDE DEF plan
  <2> QED BY <2>1, <2>2, <2>3, <2>4 DEF CarriedPlanKeepsWhatIsLeft, carried, plan
<1> QED BY <1>1, LifeTypeCorrect, PTL

-----------------------------------------------------------------------------
(* The cells. *)

\* The last, red step of a bar is drawn exactly when the quota is used up.
LEMMA RedMeansUsedUp ==
  ASSUME NEW u \in Nat, NEW l \in Nat
  PROVE  UsageBarStep(u, l) = 5 <=> u >= l
<1>1. CASE l = 0 \/ u >= l BY <1>1 DEF UsageBarStep
<1>2. CASE l # 0 /\ u < l
  <2>1. UsageBarStep(u, l) = (5 * u) \div l BY <1>2 DEF UsageBarStep
  <2>2. ((5 * u) \div l) \in Int /\ ((5 * u) \div l) * l <= 5 * u BY <1>2, DivRoundsDown
  <2>3. ASSUME (5 * u) \div l = 5 PROVE FALSE BY <1>2, <2>2, <2>3
  <2> QED BY <1>2, <2>1, <2>3
<1> QED BY <1>1, <1>2

\* Badges, bars, rings and the attention list tell the same story as the status.
THEOREM CellsAlwaysAgree == Spec => []CellsAgreeWithStatus
<1>1. TypeOK => CellsAgreeWithStatus
  <2> SUFFICES ASSUME TypeOK PROVE CellsAgreeWithStatus OBVIOUS
  <2> DEFINE d == Status.daysLeft
             bar == UsageCell(used, limit)
             badge == HolderExpiryBadge(end, d)
  <2>1. None \notin Int /\ None \notin {"expired", "limit_exceeded", "expiring"}
        /\ SoonDays \in Nat /\ RunningLowDaysLeft \in Nat
        /\ RunningLowDaysLeft <= SoonDays
    BY PolicyAssumption, DisplayAssumption
  <2>2. used \in Nat /\ (limit # None => limit \in Nat) /\ (end # None => end \in Nat)
        /\ now \in Nat
    BY DEF TypeOK, NatOrNone
  <2>3. Status.status \in {"active", "expired", "limit_exceeded", "disabled"}
        /\ (Status.status = "expired" <=> OverDate(now, end))
    BY DEF Status, DeriveKeyStatus, DerivedStatus
  <2>4. d = DaysLeft(now, end) BY DEF Status, DeriveKeyStatus
  <2>5. IF end = None THEN d = None ELSE d \in Nat
    BY <2>2, <2>4, DaysLeftReaches DEF DaysLeft
  <2>6. Status.status = "expired" => end # None /\ d = 0
    BY <2>2, <2>3, <2>4, DaysLeftReaches DEF OverDate
  <2> HIDE DEF d
  <2>7. bar = 5 <=> OverQuota(limit, used)
    <3>1. limit = None => bar # 5 BY <2>1 DEF UsageCell
    <3>2. limit # None => (bar = 5 <=> used >= limit)
      BY <2>2, RedMeansUsedUp DEF UsageCell
    <3> QED BY <3>1, <3>2 DEF OverQuota
  <2> HIDE DEF bar
  <2>8. limit # None /\ limit > 0 => (KeyUsageDonut(used, limit).remaining = 0 <=> bar = 5)
    BY <2>2, <2>7 DEF KeyUsageDonut, AtLeastZero, OverQuota
  <2>9. Status.status = "expired" => badge = "expired" /\ UrgencyOf(Status) = "expired"
    BY <2>6 DEF HolderExpiryBadge, UrgencyOf
  <2>10. ASSUME Status.status = "active"
         PROVE  UrgencyOf(Status) = "expiring" <=> badge \in {"expired", "soon"}
    <3>1. UrgencyOf(Status) = IF d # None /\ d <= SoonDays THEN "expiring" ELSE None
      BY <2>10 DEF UrgencyOf, d
    <3>2. CASE end = None
      <4>1. UrgencyOf(Status) = None BY <2>5, <3>1, <3>2
      <4> QED BY <2>1, <3>2, <4>1 DEF HolderExpiryBadge
    <3>3. CASE end # None
      <4>1. d \in Nat /\ d # None BY <2>1, <2>5, <3>3
      <4>2. badge = IF d <= 0 THEN "expired" ELSE IF d <= SoonDays THEN "soon" ELSE "plain"
        BY <2>1, <3>3, <4>1 DEF HolderExpiryBadge
      <4>3. badge \in {"expired", "soon"} <=> d <= SoonDays BY <2>1, <4>1, <4>2
      <4> HIDE DEF badge
      <4> QED BY <2>1, <3>1, <4>1, <4>3
    <3> QED BY <3>2, <3>3
  <2>11. badge = "soon" => KeyExpiryBadge(end, d) = "soon"
    BY <2>1, <2>5 DEF HolderExpiryBadge, KeyExpiryBadge
  <2>12. ASSUME end # None, d < RunningLowDaysLeft, Status.status # "disabled"
         PROVE  UrgencyOf(Status) # None
    <3>1. d # None /\ d <= SoonDays BY <2>1, <2>5, <2>12
    <3> DEFINE s == Status.status
    <3>2. s = "expired" \/ s = "limit_exceeded" \/ s = "active" BY <2>3, <2>12
    <3>3. UrgencyOf(Status) = IF s = "expired" THEN "expired"
                              ELSE IF s = "limit_exceeded" THEN "limit_exceeded"
                              ELSE "expiring"
      BY <3>1, <3>2 DEF UrgencyOf, d
    <3> QED BY <2>1, <3>3
  <2> HIDE DEF badge
  <2> QED BY <2>7, <2>8, <2>9, <2>10, <2>11, <2>12
          DEF CellsAgreeWithStatus, d, bar, badge
<1> QED BY <1>1, LifeTypeCorrect, PTL
=============================================================================

-------------------------- MODULE KeyPolicyProofs --------------------------
(***************************************************************************)
(* What the operators of KeyPolicy return, for every value of the          *)
(* thresholds, the clock, the plan and the usage.                          *)
(***************************************************************************)
EXTENDS KeyPolicy, TLAPS

\* A sum of natural ticks is a natural: the end date a term leads to.
LEMMA AddDateType ==
  ASSUME NEW now \in Nat, NEW days \in Nat
  PROVE  AddDate(now, days) \in Nat /\ AddDate(now, days) >= now
<1>1. DayTicks \in Nat BY PolicyAssumption
<1>2. days * DayTicks \in Nat BY <1>1
<1> QED BY <1>2 DEF AddDate

\* Status and access agree: DeriveKeyStatus lets a key work exactly when the
\* status it reports is not one of the two that name a reason to cut it off.
LEMMA StatusNamesTheReason ==
  ASSUME NEW now, NEW end, NEW limit, NEW used, NEW dbEnabled \in BOOLEAN
  PROVE  LET d == DeriveKeyStatus(now, end, limit, used, dbEnabled)
         IN  /\ d.status \in KeyStatus
             /\ d.shouldBeEnabled \in BOOLEAN
             /\ d.shouldBeEnabled <=> d.status \in {"active", "disabled"}
BY DEF DeriveKeyStatus, DerivedStatus, ShouldBeEnabled, OverDate, OverQuota, KeyStatus

\* Multiplying by a positive number keeps the order.
LEMMA TimesMonotone ==
  ASSUME NEW m \in Int, NEW n \in Int, NEW d \in Nat \ {0}, m <= n
  PROVE  m * d <= n * d
<1>1. (n - m) * d >= 0 OBVIOUS
<1>2. (n - m) * d = n * d - m * d OBVIOUS
<1> QED BY <1>1, <1>2

\* Dividing and rounding down: a multiple of d that fits under x is reached.
LEMMA DivReaches ==
  ASSUME NEW x \in Int, NEW n \in Int, NEW d \in Nat \ {0}, n * d <= x
  PROVE  x \div d >= n
<1> DEFINE q == x \div d
<1>1. q \in Int /\ q * d <= x /\ x < q * d + d OBVIOUS
<1>2. SUFFICES ASSUME q < n PROVE FALSE BY <1>1
<1>3. q + 1 <= n BY <1>1, <1>2
<1>4. (q + 1) * d <= n * d BY <1>1, <1>3, TimesMonotone
<1>5. (q + 1) * d = q * d + d BY <1>1
<1> HIDE DEF q
<1> QED BY <1>1, <1>4, <1>5

\* A term of so many days, begun now, has that many days left.
LEMMA WholeTermLeft ==
  ASSUME NEW now \in Nat, NEW days \in Nat
  PROVE  DaysLeft(now, AddDate(now, days)) \in Nat /\ DaysLeft(now, AddDate(now, days)) >= days
<1> DEFINE ahead == AddDate(now, days) - now + DayTicks - 1
           left  == ahead \div DayTicks
<1>1. DayTicks \in Nat \ {0} BY PolicyAssumption
<1>2. days * DayTicks \in Nat BY <1>1
<1>3. ahead = days * DayTicks + DayTicks - 1 BY <1>1, <1>2 DEF AddDate
<1>4. ahead \in Int /\ days * DayTicks <= ahead BY <1>1, <1>2, <1>3
<1>5. left >= days BY <1>1, <1>4, DivReaches
<1>6. left \in Int BY <1>1, <1>4
<1>7. AddDate(now, days) # None BY AddDateType, PolicyAssumption
<1>8. DaysLeft(now, AddDate(now, days)) = AtLeastZero(left) BY <1>7 DEF DaysLeft
<1> HIDE DEF left
<1> QED BY <1>5, <1>6, <1>8 DEF AtLeastZero

\* The plan floor: what passes it is a whole plan or more in both dimensions.
LEMMA FloorHolds ==
  ASSUME NEW addData \in Int, NEW addDays \in Int, MeetsPlanFloor(addData, addDays)
  PROVE  LET ask == ApplyPlanMinimums(addData, addDays)
         IN  /\ ask.data \in Nat /\ ask.data >= MinPlanData
             /\ ask.days \in Nat /\ ask.days >= MinPlanDays
BY PolicyAssumption DEF MeetsPlanFloor, ApplyPlanMinimums

\* A renewal with a whole plan or more leaves a key that works and that is not
\* running low, whatever plan, usage and state it had.
LEMMA WholePlanRestores ==
  ASSUME NEW now \in Nat, NEW used \in Nat, NEW limit, NEW end, NEW dbEnabled \in BOOLEAN,
         NEW data \in Nat, data >= MinPlanData, NEW days \in Nat, days >= MinPlanDays
  PROVE  LET target == RenewalTarget(now, limit, end, used, data, days)
         IN  /\ target.limit \in Nat /\ target.end \in Nat
             /\ ShouldBeEnabled(now, target.end, target.limit, used)
             /\ ~RunningLow(now, target.end, target.limit, used)
<1> DEFINE target == RenewalTarget(now, limit, end, used, data, days)
<1>1. data > 0 /\ days > 0 BY PolicyAssumption
<1>2. target.limit = used + data /\ target.end = AddDate(now, days) BY <1>1 DEF RenewalTarget
<1>3. target.limit \in Nat /\ target.end \in Nat /\ target.end >= now BY <1>2, AddDateType
<1>4. ShouldBeEnabled(now, target.end, target.limit, used)
  BY <1>1, <1>2, <1>3 DEF ShouldBeEnabled, OverDate, OverQuota
<1>5. Remaining(target.limit, used) = data
  BY <1>2, <1>3, PolicyAssumption DEF Remaining, AtLeastZero
<1>6. ~(Remaining(target.limit, used) < RunningLowRemaining) BY <1>5, PolicyAssumption
<1>7. ~(DaysLeft(now, target.end) < RunningLowDaysLeft)
  BY <1>2, WholeTermLeft, PolicyAssumption
<1> QED BY <1>3, <1>4, <1>6, <1>7 DEF RunningLow
=============================================================================

------------------------------ MODULE KeyLife ------------------------------
(***************************************************************************)
(* The life of one key as the pure functions of models.go and keys.go see  *)
(* it: the clock and the usage move, the plan changes by a renewal, an     *)
(* edit or a move to a fresh key, and at every moment DeriveKeyStatus says *)
(* what state the key should be in, looking also at the flag its last      *)
(* reconcile stored.  No concurrency here; Enforcement has that.           *)
(***************************************************************************)
EXTENDS KeyPolicy, FiniteSets

CONSTANTS
  Default,          \* the server's default limit, None if unset
  Asked,            \* data allowances typed into a form, negative ones too
  AskedDays,        \* days typed into a form, negative ones too
  Ends,             \* end dates typed into an edit
  MaxTime, MaxUsed  \* bounds of the exploration

ASSUME LifeAssumption ==
  /\ Default \in NatOrNone
  /\ Asked \subseteq Int /\ AskedDays \subseteq Int
  /\ Ends \subseteq Nat
  /\ MaxTime \in Nat /\ MaxUsed \in Nat

VARIABLES
  now, limit, end, used,
  enabled           \* the stored flag: what the last reconcile derived

vars == <<now, limit, end, used, enabled>>

\* Key.Enrich: what every answer of the API says of the key.
Status == DeriveKeyStatus(now, end, limit, used, enabled)

Init ==
  /\ now = 0 /\ used = 0 /\ enabled = TRUE
  /\ \/ limit = None /\ end = None   \* adopted from Outline
     \/ \E data \in Asked, days \in AskedDays :
          LET plan == ResolveKeyPlan(0, Default, data, days)
          IN  MeetsPlanFloor(data, days) /\ limit = plan.limit /\ end = plan.end

\* A plan is saved first and reconciled afterwards: when the push to Outline
\* fails, the stored flag is left as it was.
Save(l, e) ==
  /\ limit' = l /\ end' = e
  /\ enabled' \in {enabled, ShouldBeEnabled(now, e, l, used)}
  /\ UNCHANGED <<now, used>>

\* renewKey: the plan floor, then RenewalTarget.
Renew(data, days) ==
  LET ask    == ApplyPlanMinimums(data, days)
      target == RenewalTarget(now, limit, end, used, ask.data, ask.days)
  IN  MeetsPlanFloor(data, days) /\ Save(target.limit, target.end)

\* updateKey: any positive limit, any end date; what is not named stays.
Edit(data, date) ==
  /\ data # None \/ date # None
  /\ data # None => data > 0
  /\ Save(IF data = None THEN limit ELSE data, IF date = None THEN end ELSE date)

\* A move to a fresh key, whose usage starts at zero.
Move(data, days) ==
  LET plan == ResolveMovePlan(now, Default, data, days)
  IN  /\ data >= 0 /\ days >= 0
      /\ limit' = plan.limit /\ end' = plan.end
      /\ used' = 0 /\ enabled' = TRUE
      /\ UNCHANGED now

\* Faulty variant: the flag follows what is pushed, which the bandwidth kill
\* switch can force to nothing.
ReconcilePushed ==
  /\ enabled' \in {FALSE, ShouldBeEnabled(now, end, limit, used)}
  /\ UNCHANGED <<now, limit, end, used>>

\* A sync that reaches the server.
Reconcile ==
  /\ enabled' = ShouldBeEnabled(now, end, limit, used)
  /\ UNCHANGED <<now, limit, end, used>>

\* A limit lets the last transfer run over it: Outline meters coarsely.
Use ==
  /\ limit # None => used < limit
  /\ used < MaxUsed
  /\ \E n \in 1..2 : used' = used + n
  /\ UNCHANGED <<now, limit, end, enabled>>

Tick == now < MaxTime /\ now' = now + 1 /\ UNCHANGED <<limit, end, used, enabled>>

Next ==
  \/ \E data \in Asked, days \in AskedDays : Renew(data, days) \/ Move(data, days)
  \/ \E data \in Asked \cup {None}, date \in Ends \cup {None} : Edit(data, date)
  \/ Reconcile
  \/ Use
  \/ Tick

Spec == Init /\ [][Next]_vars

-----------------------------------------------------------------------------

TypeOK ==
  /\ now \in Nat /\ used \in Nat /\ enabled \in BOOLEAN
  /\ limit \in NatOrNone /\ end \in NatOrNone

\* The four results of DeriveKeyStatus tell one story: the status names the
\* date or the quota exactly when that cuts the key off (a key with its plan
\* back reads "disabled" until a reconcile stores that it works), an exhausted
\* quota is one with nothing remaining, and the days left are the least number
\* of whole days that reach the end date ("any part of a day still remaining
\* counts as a day left").
DerivedFieldsAgree ==
  /\ Status.shouldBeEnabled <=> Status.status \in {"active", "disabled"}
  /\ limit # None => (Status.remaining = 0 <=> used >= limit)
  /\ end # None /\ now <= end =>
       /\ now + Status.daysLeft * DayTicks >= end
       /\ Status.daysLeft > 0 => now + (Status.daysLeft - 1) * DayTicks < end
  /\ Status.status = "expired" => Status.daysLeft = 0

\* A key comes to read "disabled" by a change of its plan alone, one that gives
\* back a key that was cut off and whose push failed: neither the clock, nor a
\* transfer, nor a sync makes a key that should work read so.
DisabledByFailedPushOnly ==
  [][Status.status # "disabled" /\ Status'.status = "disabled" =>
       /\ limit' # limit \/ end' # end
       /\ ~ShouldBeEnabled(now, end, limit, used)]_vars

\* A renewal at or above the plan floor always leaves a key that works and
\* that neither the low-usage alert nor auto-renew would pick up.
RenewalRestores ==
  [][\A data \in Asked, days \in AskedDays : Renew(data, days) =>
       Status'.shouldBeEnabled /\ ~RunningLow(now, end', limit', used)]_vars
=============================================================================

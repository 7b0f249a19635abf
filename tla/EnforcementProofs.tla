------------------------- MODULE EnforcementProofs -------------------------
(***************************************************************************)
(* Proofs about Enforcement: what holds whatever overlaps, fails or        *)
(* crashes.  First the type invariant.  Then that a key is stored as cut   *)
(* off exactly when its status names the reason: the pair is derived at a  *)
(* push and written in a later step, so the invariant also speaks of the   *)
(* pair that every process is holding.  That stored usage never runs ahead *)
(* of Outline's, nor do the counters that a process is holding.  And that  *)
(* a renewal that was saved is logged, unless a call failed: until it is,  *)
(* some process has it in hand.                                            *)
(***************************************************************************)
EXTENDS Enforcement, KeyPolicyProofs

-----------------------------------------------------------------------------
(* Tasks *)

\* Tasks of the right type whose step has the local variables it uses.
WellFormed ==
  {t \in Task : /\ t.step \in KeySteps => t.key \in Keys
                /\ t.step = "grant" => t.add \in Nat}

LEMMA IdleTaskWellFormed == IdleTask \in WellFormed
<1>1. AdoptedKey \in KeyRow BY DEF AdoptedKey, KeyRow, NatOrNone, KeyStatus
<1>2. IdleTask \in Task
  BY <1>1 DEF IdleTask, Task, Ops, Steps, AllHandlers, NatOrNone, KeyStatus
<1> QED BY <1>2 DEF WellFormed, IdleTask, KeySteps

\* The steps that are not about one key, and the operations, by name.
LEMMA FreeSteps ==
  {"idle", "metrics", "cap", "measure", "trip", "keys", "scan", "clear", "refetch",
   "setDefault", "apply"} \subseteq Steps \ KeySteps
BY DEF Steps, KeySteps

LEMMA OpNames ==
  {"sync", "cutoff", "autorenew", "renew", "edit", "reenable", "default"} \subseteq Ops
BY DEF Ops, AllHandlers

LEMMA FreeTaskWellFormed ==
  ASSUME NEW t \in Task, t.step \notin KeySteps
  PROVE  t \in WellFormed
BY DEF WellFormed, KeySteps

\* A task newly begun, at a step that is not about one key.
LEMMA BegunWellFormed ==
  ASSUME NEW op \in Ops, NEW step \in Steps \ KeySteps, NEW down \in BOOLEAN
  PROVE  /\ [IdleTask EXCEPT !.op = op, !.step = step] \in WellFormed
         /\ [IdleTask EXCEPT !.op = op, !.step = step, !.down = down] \in WellFormed
<1>1. IdleTask \in Task BY IdleTaskWellFormed DEF WellFormed
<1>2. [IdleTask EXCEPT !.op = op, !.step = step] \in Task BY <1>1 DEF Task
<1>3. [IdleTask EXCEPT !.op = op, !.step = step, !.down = down] \in Task BY <1>1 DEF Task
<1>4. /\ [IdleTask EXCEPT !.op = op, !.step = step].step = step
      /\ [IdleTask EXCEPT !.op = op, !.step = step, !.down = down].step = step
  BY <1>1 DEF Task
<1> QED BY <1>2, <1>3, <1>4, FreeTaskWellFormed

LEMMA LoopBodyStep ==
  ASSUME NEW op \in Ops
  PROVE  LoopBody(op) \in Steps \ {"grant"}
BY DEF LoopBody, Steps

\* Whatever a process turns to next is well formed.
LEMMA FollowingWellFormed ==
  ASSUME NEW p, NEW t \in Task, NEW next \in Following(p, t)
  PROVE  next \in WellFormed
<1>1. AdoptedKey \in KeyRow BY DEF AdoptedKey, KeyRow, NatOrNone, KeyStatus
<1> DEFINE done == [t EXCEPT !.seen[t.key] = AdoptedKey, !.meter[t.key] = 0,
                             !.limit = None, !.end = None, !.enabled = TRUE, !.status = "active"]
           base == IF t.key = None THEN t ELSE done
<1>2. done \in Task BY <1>1 DEF Task, NatOrNone, KeyStatus
<1>3. base \in Task /\ base.op = t.op BY <1>2 DEF Task
<1> HIDE DEF base
<1>4. ASSUME NEW k \in t.todo,
             next = [base EXCEPT !.key = k, !.todo = t.todo \ {k}, !.step = LoopBody(t.op)]
      PROVE  next \in WellFormed
  <2>1. k \in Keys /\ t.todo \ {k} \in SUBSET Keys BY DEF Task
  <2>2. LoopBody(t.op) \in Steps \ {"grant"} BY LoopBodyStep DEF Task
  <2>3. next \in Task BY <1>3, <1>4, <2>1, <2>2 DEF Task
  <2>4. next.key = k /\ next.step = LoopBody(t.op) BY <1>3, <1>4 DEF Task
  <2> QED BY <2>1, <2>2, <2>3, <2>4 DEF WellFormed
<1>5. CASE next = [IdleTask EXCEPT !.op = "cutoff", !.step = "cap"]
  BY <1>5, BegunWellFormed, OpNames, FreeSteps
<1>6. CASE next = [IdleTask EXCEPT !.op = "autorenew", !.step = "scan"]
  BY <1>6, BegunWellFormed, OpNames, FreeSteps
<1>7. CASE next = IdleTask BY <1>7, IdleTaskWellFormed
<1> QED BY <1>4, <1>5, <1>6, <1>7 DEF Following, base

-----------------------------------------------------------------------------
(* Type correctness *)

DataOK ==
  /\ now \in Nat
  /\ keys \in [Keys -> KeyRow]
  /\ server \in ServerRow
  /\ monthStart \in [Keys -> Nat]
  /\ outline \in [Keys -> [limit: NatOrNone, used: Nat]]
  /\ unlogged \subseteq Keys
  /\ lagging \subseteq Keys
  /\ failures \in Nat
  /\ received \in Nat

TasksOK == task \in [Procs -> WellFormed]

\* TypeOK, and an auto-renewal about to be granted knows how much.
TypeInv == DataOK /\ TasksOK

LEMMA TypeInvTypeOK == TypeInv => TypeOK
BY DEF TypeInv, DataOK, TasksOK, TypeOK, WellFormed

LEMMA BecomeOK ==
  ASSUME TasksOK, NEW p \in Procs, NEW t \in WellFormed, Become(p, t)
  PROVE  TasksOK'
BY DEF TasksOK, Become

LEMMA ContinueOK ==
  ASSUME TasksOK, NEW p \in Procs, NEW t \in Task, Continue(p, t)
  PROVE  TasksOK'
BY FollowingWellFormed, BecomeOK DEF Continue

LEMMA GotoOK ==
  ASSUME TasksOK, NEW p \in Procs, NEW step \in Steps \ {"grant"}, Goto(p, step),
         step \in KeySteps => task[p].key \in Keys
  PROVE  TasksOK'
<1>1. task[p] \in Task BY DEF TasksOK, WellFormed
<1>2. [task[p] EXCEPT !.step = step] \in WellFormed BY <1>1 DEF WellFormed, Task
<1> QED BY <1>2, BecomeOK DEF Goto

LEMMA GotoFreeOK ==
  ASSUME TasksOK, NEW p \in Procs, NEW step \in Steps \ KeySteps, Goto(p, step)
  PROVE  TasksOK'
<1>1. step # "grant" BY DEF KeySteps
<1> QED BY <1>1, GotoOK

LEMMA LocalColumnsWellFormed ==
  ASSUME NEW t \in Task, t.key \in Keys
  PROVE  LocalColumns(t) \in WellFormed
<1>1. ASSUME NEW step \in {"local", "auto"} PROVE [t EXCEPT !.step = step] \in WellFormed
  BY DEF WellFormed, Task, Steps
<1> QED BY <1>1, IdleTaskWellFormed DEF LocalColumns

LEMMA AfterReconcileOK ==
  ASSUME TasksOK, NEW p \in Procs, NEW t \in Task, t.key \in Keys, AfterReconcile(p, t)
  PROVE  TasksOK'
BY LocalColumnsWellFormed, BecomeOK, ContinueOK DEF AfterReconcile

LEMMA InitTypeInv == Init => TypeInv
<1> SUFFICES ASSUME Init PROVE TypeInv OBVIOUS
<1>1. keys \in [Keys -> KeyRow] BY EnforcementAssumption DEF Init
<1>2. \A k \in Keys : keys[k].used \in Nat /\ keys[k].limit \in NatOrNone BY <1>1 DEF KeyRow
<1>3. server \in ServerRow BY EnforcementAssumption DEF Init, ServerRow, NatOrNone
<1> QED BY <1>1, <1>2, <1>3, IdleTaskWellFormed DEF Init, TypeInv, DataOK, TasksOK

LEMMA UnfinishedKeys ==
  ASSUME NEW t \in WellFormed
  PROVE  Unfinished(t) \subseteq Keys
BY DEF Unfinished, WellFormed, KeySteps, Task

LEMMA GiveUpOK ==
  ASSUME TypeInv, NEW p \in Procs, GiveUp(p)
  PROVE  TasksOK' /\ lagging' \subseteq Keys
<1>1. task[p] \in WellFormed /\ task[p] \in Task BY DEF TypeInv, TasksOK, WellFormed
<1>2. Unfinished(task[p]) \subseteq Keys BY <1>1, UnfinishedKeys
<1> QED BY <1>1, <1>2, ContinueOK DEF GiveUp, TypeInv, DataOK

LEMMA MonthType == \A t \in Nat : Month(t) \in Nat
BY EnforcementAssumption DEF Month

\* The plan of a renewal, from any row and with any allowance.
LEMMA GrantedWellFormed ==
  ASSUME TypeInv, NEW t \in Task, NEW k \in Keys, NEW add \in Nat
  PROVE  Granted(t, k, add) \in WellFormed
<1> DEFINE target == RenewalTarget(now, keys[k].limit, keys[k].end, keys[k].used, add, MinPlanDays)
<1>1. now \in Nat /\ keys[k] \in KeyRow BY DEF TypeInv, DataOK
<1>2. /\ keys[k].used \in Nat /\ keys[k].limit \in NatOrNone
      /\ keys[k].end \in NatOrNone /\ keys[k].price \in NatOrNone
  BY <1>1 DEF KeyRow
<1>3. AddDate(now, MinPlanDays) \in Nat BY <1>1, PolicyAssumption, AddDateType
<1>4. target.limit \in NatOrNone /\ target.end \in NatOrNone
  BY <1>2, <1>3 DEF RenewalTarget, NatOrNone
<1> HIDE DEF target
<1> DEFINE price == {keys[k].price}
<1>5. price \in SUBSET NatOrNone BY <1>2
<1> HIDE DEF price
<1> DEFINE granted == [t EXCEPT !.step = "save", !.key = k, !.add = add, !.limit = target.limit,
                                !.end = target.end, !.newPrice = price]
<1>6. granted \in Task BY <1>4, <1>5 DEF Task, Steps, NatOrNone
<1>7. granted.key = k /\ granted.step = "save" BY DEF Task
<1>8. granted \in WellFormed BY <1>6, <1>7 DEF WellFormed
<1> QED BY <1>8 DEF Granted, target, price

LEMMA PushedLimitType ==
  ASSUME NEW row \in KeyRow, NEW down \in BOOLEAN
  PROVE  PushedLimit(row, down) \in NatOrNone
BY DEF PushedLimit, KeyRow, NatOrNone

\* Pushing and marking a key, and the reads before them.
LEMMA ReconcileTypeInv ==
  ASSUME TypeInv, NEW p \in Procs, ReconcileStep(p)
  PROVE  TypeInv'
<1> USE DEF TypeInv
<1> DEFINE t == task[p]
<1>1. t \in WellFormed /\ t \in Task BY DEF TasksOK, WellFormed
<1>2. CASE Reload(p)
  <2>1. t.key \in Keys BY <1>1, <1>2 DEF Reload, At, WellFormed, KeySteps
  <2>2. keys[t.key] \in KeyRow BY <2>1 DEF DataOK
  <2>3. [t EXCEPT !.step = "flag", !.seen[t.key] = keys[t.key]] \in WellFormed
    BY <1>1, <2>1, <2>2 DEF WellFormed, Task, Steps
  <2> QED BY <1>2, <2>3, BecomeOK DEF Reload, DataOK, db, ghosts, budget
<1>3. CASE ReadFlag(p)
  <2>1. t.key \in Keys BY <1>1, <1>3 DEF ReadFlag, At, WellFormed, KeySteps
  <2>2. server.disabled \in BOOLEAN BY DEF DataOK, ServerRow
  <2>3. [t EXCEPT !.step = "push", !.down = server.disabled] \in WellFormed
    BY <1>1, <2>1, <2>2 DEF WellFormed, Task, Steps
  <2> QED BY <1>3, <2>3, BecomeOK DEF ReadFlag, DataOK, db, ghosts, budget
<1>4. CASE Push(p)
  <2> DEFINE row == t.seen[t.key]
             d   == DeriveKeyStatus(now, row.end, row.limit, row.used, row.enabled)
  <2>1. t.key \in Keys BY <1>1, <1>4 DEF Push, At, WellFormed, KeySteps
  <2>2. row \in KeyRow /\ t.down \in BOOLEAN BY <1>1, <2>1 DEF Task
  <2>3. PushedLimit(row, t.down) \in NatOrNone BY <2>2, PushedLimitType
  <2>4. outline' \in [Keys -> [limit: NatOrNone, used: Nat]]
    BY <1>4, <2>3 DEF Push, DataOK
  <2>5. d.status \in KeyStatus /\ d.shouldBeEnabled \in BOOLEAN
    BY <2>2, StatusNamesTheReason DEF KeyRow
  <2> HIDE DEF row, d
  <2>6. [t EXCEPT !.step = "mark", !.enabled = d.shouldBeEnabled, !.status = d.status]
          \in WellFormed
    BY <1>1, <2>1, <2>5 DEF WellFormed, Task, Steps
  <2>7. TasksOK'
    BY <1>1, <1>4, <2>1, <2>6, BecomeOK, AfterReconcileOK DEF Push, row, d
  <2>8. lagging' \subseteq Keys BY <1>4 DEF Push, DataOK
  <2> QED BY <1>4, <2>4, <2>7, <2>8 DEF Push, DataOK, db, budget
<1>5. CASE SetKeyEnabledStatus(p)
  <2>1. t.key \in Keys BY <1>1, <1>5 DEF SetKeyEnabledStatus, At, WellFormed, KeySteps
  <2>2. TasksOK' BY <1>1, <1>5, <2>1, AfterReconcileOK DEF SetKeyEnabledStatus
  <2>3. t.enabled \in BOOLEAN /\ t.status \in KeyStatus BY <1>1 DEF Task
  <2>4. keys' \in [Keys -> KeyRow]
    <3>1. keys' = [keys EXCEPT ![t.key].enabled = t.enabled, ![t.key].status = t.status]
      BY <1>5 DEF SetKeyEnabledStatus
    <3>2. keys \in [Keys -> KeyRow] BY DEF DataOK
    <3> HIDE DEF TypeInv
    <3> QED BY <2>1, <2>3, <3>1, <3>2 DEF KeyRow
  <2> QED BY <1>5, <2>2, <2>4 DEF SetKeyEnabledStatus, DataOK, budget
<1>6. CASE ListKeys(p)
  <2>1. [t EXCEPT !.todo = Keys, !.seen = keys] \in Task BY <1>1 DEF Task, DataOK
  <2> QED BY <1>6, <2>1, ContinueOK DEF ListKeys, DataOK, db, ghosts, budget
<1> QED BY <1>2, <1>3, <1>4, <1>5, <1>6 DEF ReconcileStep

\* A sync.
LEMMA SyncTypeInv ==
  ASSUME TypeInv, NEW p \in Procs, SyncStep(p)
  PROVE  TypeInv'
<1> USE DEF TypeInv
<1> DEFINE t == task[p]
<1>1. t \in WellFormed /\ t \in Task BY DEF TasksOK, WellFormed
<1>2. CASE ReadMetrics(p)
  <2>1. [k \in Keys |-> outline[k].used] \in [Keys -> Nat] BY DEF DataOK
  <2>2. [t EXCEPT !.todo = Keys, !.meter = [k \in Keys |-> outline[k].used]] \in Task
    BY <1>1, <2>1 DEF Task
  <2> QED BY <1>2, <2>2, ContinueOK DEF ReadMetrics, DataOK, db, ghosts, budget
<1>3. CASE UpsertKey(p)
  <2>1. t.key \in Keys BY <1>1, <1>3 DEF UpsertKey, At, WellFormed, KeySteps
  <2>2. keys[t.key] \in KeyRow BY <2>1 DEF DataOK
  <2>3. [t EXCEPT !.step = "usage", !.seen[t.key] = keys[t.key]] \in WellFormed
    BY <1>1, <2>1, <2>2 DEF WellFormed, Task, Steps
  <2> QED BY <1>3, <2>3, BecomeOK DEF UpsertKey, DataOK, db, ghosts, budget
<1>4. CASE UpdateKeyUsage(p)
  <2> DEFINE used == t.meter[t.key]
  <2>1. t.key \in Keys BY <1>1, <1>4 DEF UpdateKeyUsage, At, WellFormed, KeySteps
  <2>2. used \in Nat BY <1>1, <2>1 DEF Task
  <2> HIDE DEF used
  <2>3. [t.seen[t.key] EXCEPT !.used = used] \in KeyRow BY <1>1, <2>1, <2>2 DEF Task, KeyRow
  <2>4. [t EXCEPT !.step = "push", !.seen[t.key].used = used] \in WellFormed
    BY <1>1, <2>1, <2>3 DEF WellFormed, Task, Steps
  <2>5. TasksOK' BY <1>4, <2>4, BecomeOK DEF UpdateKeyUsage, used
  <2>6. keys' \in [Keys -> KeyRow]
    <3>1. keys' = [keys EXCEPT ![t.key].used = used] BY <1>4 DEF UpdateKeyUsage, used
    <3>2. keys \in [Keys -> KeyRow] BY DEF DataOK
    <3> HIDE DEF TypeInv
    <3> QED BY <2>1, <2>2, <3>1, <3>2 DEF KeyRow
  <2> QED BY <1>4, <2>5, <2>6 DEF UpdateKeyUsage, DataOK, ghosts, budget
<1> QED BY <1>2, <1>3, <1>4 DEF SyncStep

\* A renewal or an edit, from its save to its log.
LEMMA RenewTypeInv ==
  ASSUME TypeInv, NEW p \in Procs, RenewStep(p)
  PROVE  TypeInv'
<1> USE DEF TypeInv
<1> DEFINE t == task[p]
<1>1. t \in WellFormed /\ t \in Task BY DEF TasksOK, WellFormed
<1>2. CASE SetKeyLimitAndEndDate(p)
  <2>1. t.key \in Keys BY <1>1, <1>2 DEF SetKeyLimitAndEndDate, At, WellFormed, KeySteps
  <2>2. t.limit \in NatOrNone /\ t.end \in NatOrNone BY <1>1 DEF Task
  <2>3. keys' \in [Keys -> KeyRow]
    <3>1. keys' = [keys EXCEPT ![t.key].limit = t.limit, ![t.key].end = t.end]
      BY <1>2 DEF SetKeyLimitAndEndDate
    <3>2. keys \in [Keys -> KeyRow] BY DEF DataOK
    <3> HIDE DEF TypeInv
    <3> QED BY <2>1, <2>2, <3>1, <3>2 DEF KeyRow
  <2>4. TasksOK' BY <1>2, <2>1, GotoOK DEF SetKeyLimitAndEndDate, Steps
  <2>5. unlogged' \subseteq Keys BY <1>2, <2>1 DEF SetKeyLimitAndEndDate, DataOK
  <2> QED BY <1>2, <2>3, <2>4, <2>5 DEF SetKeyLimitAndEndDate, DataOK, budget
<1>3. CASE ReadServerPrice(p)
  <2>1. t.key \in Keys BY <1>1, <1>3 DEF ReadServerPrice, At, WellFormed, KeySteps
  <2>2. {DefaultPrice} \in SUBSET NatOrNone BY EnforcementAssumption
  <2>3. ASSUME NEW price \in SUBSET NatOrNone, NEW step \in {"raise", "log"}
        PROVE  [t EXCEPT !.step = step, !.newPrice = price] \in WellFormed
    BY <1>1, <2>1 DEF WellFormed, Task, Steps
  <2>4. [t EXCEPT !.step = "raise", !.newPrice = {DefaultPrice}] \in WellFormed BY <2>2, <2>3
  <2>5. [t EXCEPT !.step = "log", !.newPrice = {}] \in WellFormed BY <2>3
  <2>6. TasksOK' BY <1>3, <2>4, <2>5, BecomeOK DEF ReadServerPrice
  <2> QED BY <1>3, <2>6 DEF ReadServerPrice, DataOK, db, ghosts, budget
<1>4. CASE SetRaisedPrice(p)
  <2>1. t.key \in Keys BY <1>1, <1>4 DEF SetRaisedPrice, At, WellFormed, KeySteps
  <2>2. [t EXCEPT !.step = "log", !.newPrice = {}] \in WellFormed
    BY <1>1, <2>1 DEF WellFormed, Task, Steps
  <2>3. DefaultPrice \in NatOrNone BY EnforcementAssumption
  <2>4. keys' \in [Keys -> KeyRow]
    <3>1. keys' = [keys EXCEPT ![t.key].price = DefaultPrice] BY <1>4 DEF SetRaisedPrice
    <3>2. keys \in [Keys -> KeyRow] BY DEF DataOK
    <3> HIDE DEF TypeInv
    <3> QED BY <2>1, <2>3, <3>1, <3>2 DEF KeyRow
  <2> QED BY <1>4, <2>2, <2>4, BecomeOK DEF SetRaisedPrice, DataOK, ghosts, budget
<1>5. CASE InsertRenewalLog(p)
  <2>1. t.key \in Keys BY <1>1, <1>5 DEF InsertRenewalLog, At, WellFormed, KeySteps
  <2>2. TasksOK' BY <1>5, <2>1, GotoOK DEF InsertRenewalLog, Steps
  <2> QED BY <1>5, <2>2 DEF InsertRenewalLog, DataOK, db, budget
<1> QED BY <1>2, <1>3, <1>4, <1>5 DEF RenewStep

\* The phases of a cron run.
LEMMA CronTypeInv ==
  ASSUME TypeInv, NEW c \in Procs, CronStep(c)
  PROVE  TypeInv'
<1> USE DEF TypeInv
<1> DEFINE t == task[c]
<1>1. t \in WellFormed /\ t \in Task BY DEF TasksOK, WellFormed
<1>2. CASE StartRun(c)
  <2>1. server.disabled \in BOOLEAN BY DEF DataOK, ServerRow
  <2>2. IdleTask \in Task BY IdleTaskWellFormed DEF WellFormed
  <2>3. [IdleTask EXCEPT !.op = "sync"] \in Task BY <2>2, OpNames DEF Task
  <2>4. [IdleTask EXCEPT !.op = "sync", !.step = "metrics", !.down = server.disabled]
          \in WellFormed
    BY <2>1, BegunWellFormed, OpNames, FreeSteps
  <2>5. TasksOK' BY <1>2, <2>3, <2>4, BecomeOK, ContinueOK DEF StartRun, BeginSync
  <2> QED BY <1>2, <2>5 DEF StartRun, DataOK, db, ghosts, budget
<1>3. CASE CheckCap(c)
  <2>1. TasksOK' BY <1>1, <1>3, FreeSteps, GotoFreeOK, ContinueOK DEF CheckCap
  <2> QED BY <1>3, <2>1 DEF CheckCap, DataOK, db, ghosts, budget
<1>4. CASE MeasureUsage(c)
  <2>1. TasksOK' BY <1>1, <1>4, FreeSteps, GotoFreeOK, ContinueOK DEF MeasureUsage
  <2> QED BY <1>4, <2>1 DEF MeasureUsage, DataOK, db, ghosts, budget
<1>5. CASE SetServerBandwidthDisabled(c)
  <2>1. [t EXCEPT !.step = "keys", !.down = TRUE] \in Task BY <1>1, FreeSteps DEF Task
  <2>3. [t EXCEPT !.step = "keys", !.down = TRUE].step = "keys" BY <1>1 DEF Task
  <2>4. [t EXCEPT !.step = "keys", !.down = TRUE] \in WellFormed
    BY <2>1, <2>3, FreeSteps, FreeTaskWellFormed
  <2>2. server' \in ServerRow BY <1>5 DEF SetServerBandwidthDisabled, DataOK, ServerRow
  <2>5. TasksOK' BY <1>5, <2>4, BecomeOK DEF SetServerBandwidthDisabled
  <2> QED BY <1>5, <2>2, <2>5 DEF SetServerBandwidthDisabled, DataOK, ghosts, budget
<1>6. CASE ScanAutoRenew(c)
  <2>1. [t EXCEPT !.todo = {k \in Keys : AutoRenewable(k)}] \in Task BY <1>1 DEF Task
  <2> QED BY <1>6, <2>1, ContinueOK DEF ScanAutoRenew, DataOK, db, ghosts, budget
<1>7. CASE LookUpDefault(c)
  <2>1. t.key \in Keys BY <1>1, <1>7 DEF LookUpDefault, At, WellFormed, KeySteps
  <2>2. t.add \in NatOrNone /\ server.default \in NatOrNone BY <1>1 DEF Task, DataOK, ServerRow
  <2>3. AutoRenewAllowance(t) \in Nat
    BY <2>2, PolicyAssumption DEF AutoRenewAllowance, NatOrNone
  <2>4. [t EXCEPT !.step = "grant", !.add = AutoRenewAllowance(t)] \in WellFormed
    BY <1>1, <2>1, <2>3 DEF WellFormed, Task, Steps, NatOrNone
  <2> QED BY <1>7, <2>4, BecomeOK DEF LookUpDefault, DataOK, db, ghosts, budget
<1>8. CASE GrantAutoRenewal(c)
  <2>1. t.key \in Keys /\ t.add \in Nat
    BY <1>1, <1>8 DEF GrantAutoRenewal, At, WellFormed, KeySteps
  <2>2. Granted(t, t.key, t.add) \in WellFormed BY <1>1, <2>1, GrantedWellFormed
  <2> QED BY <1>8, <2>2, BecomeOK DEF GrantAutoRenewal, DataOK, db, ghosts, budget
<1> QED BY <1>2, <1>3, <1>4, <1>5, <1>6, <1>7, <1>8 DEF CronStep

\* The steps of the admins' handlers.
LEMMA HandlerTypeInv ==
  ASSUME TypeInv, NEW r \in Procs, HandlerStep(r)
  PROVE  TypeInv'
<1> USE DEF TypeInv
<1> DEFINE t == task[r]
<1>1. t \in WellFormed /\ t \in Task BY DEF TasksOK, WellFormed
<1>2. CASE SetKeyPrice(r)
  <2>1. t.key \in Keys BY <1>1, <1>2 DEF SetKeyPrice, At, WellFormed, KeySteps
  <2>2. keys' \in [Keys -> KeyRow]
    <3>1. PICK price \in t.newPrice : keys' = [keys EXCEPT ![t.key].price = price]
      BY <1>2 DEF SetKeyPrice
    <3>2. price \in NatOrNone BY <1>1 DEF Task
    <3> QED BY <2>1, <3>1, <3>2 DEF DataOK, KeyRow
  <2>3. [t EXCEPT !.newPrice = {}] \in Task /\ [t EXCEPT !.newPrice = {}].key = t.key
    BY <1>1 DEF Task
  <2>4. LocalColumns([t EXCEPT !.newPrice = {}]) \in WellFormed
    BY <2>1, <2>3, LocalColumnsWellFormed
  <2>5. TasksOK' BY <1>2, <2>4, BecomeOK DEF SetKeyPrice
  <2> QED BY <1>2, <2>2, <2>5 DEF SetKeyPrice, DataOK, ghosts, budget
<1>3. CASE SetKeyAutoRenew(r)
  <2>1. t.key \in Keys BY <1>1, <1>3 DEF SetKeyAutoRenew, At, WellFormed, KeySteps
  <2>2. keys' \in [Keys -> KeyRow]
    <3>1. PICK auto \in t.newAuto : keys' = [keys EXCEPT ![t.key].autoRenew = auto]
      BY <1>3 DEF SetKeyAutoRenew
    <3>2. auto \in BOOLEAN BY <1>1 DEF Task
    <3> QED BY <2>1, <3>1, <3>2 DEF DataOK, KeyRow
  <2> QED BY <1>3, <2>2, IdleTaskWellFormed, BecomeOK DEF SetKeyAutoRenew, DataOK, ghosts, budget
<1>4. CASE ClearServerBandwidthDisabled(r)
  <2>1. Month(now) \in Nat BY MonthType DEF DataOK
  <2>2. server' \in ServerRow
    BY <1>4, <2>1 DEF ClearServerBandwidthDisabled, DataOK, ServerRow, NatOrNone
  <2>3. TasksOK' BY <1>4, FreeSteps, GotoFreeOK DEF ClearServerBandwidthDisabled
  <2> QED BY <1>4, <2>2, <2>3 DEF ClearServerBandwidthDisabled, DataOK, ghosts, budget
<1>5. CASE RefetchServer(r)
  <2>1. server.disabled \in BOOLEAN BY DEF DataOK, ServerRow
  <2>2. [t EXCEPT !.step = "keys", !.down = server.disabled] \in Task
    BY <1>1, <2>1, FreeSteps DEF Task
  <2>3. [t EXCEPT !.step = "keys", !.down = server.disabled].step = "keys" BY <1>1 DEF Task
  <2>4. [t EXCEPT !.step = "keys", !.down = server.disabled] \in WellFormed
    BY <2>2, <2>3, FreeSteps, FreeTaskWellFormed
  <2>5. TasksOK' BY <1>5, <2>4, BecomeOK DEF RefetchServer
  <2> QED BY <1>5, <2>5 DEF RefetchServer, DataOK, db, ghosts, budget
<1>6. CASE SetServerDefaultLimit(r)
  <2>1. server' \in ServerRow BY <1>1, <1>6 DEF SetServerDefaultLimit, DataOK, ServerRow, Task
  <2>2. TasksOK'
    BY <1>6, IdleTaskWellFormed, BecomeOK, FreeSteps, GotoFreeOK DEF SetServerDefaultLimit
  <2> QED BY <1>6, <2>1, <2>2 DEF SetServerDefaultLimit, DataOK, ghosts, budget
<1>7. CASE ApplyDefaultLimitToUnlimitedKeys(r)
  <2>1. UnlimitedKeys \subseteq Keys BY DEF UnlimitedKeys
  <2>2. [t EXCEPT !.todo = UnlimitedKeys] \in Task BY <1>1, <2>1 DEF Task
  <2>3. TasksOK' BY <1>7, <2>2, ContinueOK DEF ApplyDefaultLimitToUnlimitedKeys
  <2>4. \A k \in Keys : [keys[k] EXCEPT !.limit = t.limit] \in KeyRow
    BY <1>1 DEF DataOK, KeyRow, Task
  <2>5. keys' \in [Keys -> KeyRow]
    BY <1>7, <2>4 DEF ApplyDefaultLimitToUnlimitedKeys, OnDefaultLimit, DataOK
  <2> QED BY <1>7, <2>1, <2>3, <2>5 DEF ApplyDefaultLimitToUnlimitedKeys, DataOK, budget
<1> QED BY <1>2, <1>3, <1>4, <1>5, <1>6, <1>7 DEF HandlerStep

LEMMA ServerGoneTypeInv ==
  ASSUME TypeInv, NEW p \in Procs, ServerGone(p)
  PROVE  TypeInv'
BY GiveUpOK DEF ServerGone, TypeInv, DataOK, db, budget

LEMMA StepTypeInv ==
  ASSUME TypeInv, NEW p \in Procs, Step(p)
  PROVE  TypeInv'
BY ReconcileTypeInv, SyncTypeInv, RenewTypeInv, CronTypeInv, HandlerTypeInv, ServerGoneTypeInv
   DEF Step

LEMMA ReceiveOK ==
  ASSUME TypeInv, NEW r \in Procs, NEW handler, NEW t \in WellFormed, Receive(r, handler, t)
  PROVE  TasksOK' /\ received' \in Nat
BY BecomeOK DEF Receive, TypeInv, DataOK

\* The plan an edit would save, from any row and any form.
LEMMA EditedPlanType ==
  ASSUME TypeInv, NEW row \in KeyRow, NEW limit \in Optional(Limits), NEW days \in Optional(Terms)
  PROVE  /\ EditedPlan(row, limit, days).limit \in NatOrNone
         /\ EditedPlan(row, limit, days).end \in NatOrNone
<1>1. row.limit \in NatOrNone /\ row.end \in NatOrNone BY DEF KeyRow
<1>2. ASSUME limit # {} PROVE (CHOOSE l \in limit : TRUE) \in Nat
  BY <1>2, EnforcementAssumption DEF Optional
<1>3. ASSUME days # {} PROVE (CHOOSE d \in days : TRUE) \in Nat
  BY <1>3, EnforcementAssumption DEF Optional
<1>4. ASSUME days # {} PROVE AddDate(now, CHOOSE d \in days : TRUE) \in Nat
  BY <1>3, <1>4, AddDateType DEF TypeInv, DataOK
<1> QED BY <1>1, <1>2, <1>4 DEF EditedPlan, NatOrNone

\* Requests coming in.
LEMMA ArrivalTypeInv ==
  ASSUME TypeInv, NEW r \in Procs, Arrival(r)
  PROVE  TypeInv'
<1> USE DEF TypeInv
<1>1. IdleTask \in Task BY IdleTaskWellFormed DEF WellFormed
<1>2. ASSUME NEW k \in Keys, NEW add \in Allowances, ReceiveRenew(r, k, add) PROVE TypeInv'
  <2>1. add \in Nat BY EnforcementAssumption
  <2>2. [IdleTask EXCEPT !.op = "renew"] \in Task BY <1>1 DEF Task, Ops, AllHandlers
  <2>3. Granted([IdleTask EXCEPT !.op = "renew"], k, add) \in WellFormed
    BY <2>1, <2>2, GrantedWellFormed
  <2> QED BY <1>2, <2>3, ReceiveOK DEF ReceiveRenew, DataOK, db, ghosts
<1>3. ASSUME NEW k \in Keys, NEW limit \in Optional(Limits), NEW days \in Optional(Terms),
             NEW price \in Optional(Prices), NEW auto \in Optional(Toggles),
             ReceiveEdit(r, k, limit, days, price, auto)
      PROVE  TypeInv'
  <2> DEFINE plan  == EditedPlan(keys[k], limit, days)
             asked == (IF limit = {} THEN {} ELSE {"limit"}) \cup (IF days = {} THEN {} ELSE {"end"})
             t == [IdleTask EXCEPT !.op = "edit", !.step = "save", !.key = k,
                                   !.limit = plan.limit, !.end = plan.end, !.asked = asked,
                                   !.newPrice = price, !.newAuto = auto]
  <2>1. plan.limit \in NatOrNone /\ plan.end \in NatOrNone
    BY EditedPlanType DEF DataOK
  <2>2. asked \in SUBSET {"limit", "end"} OBVIOUS
  <2>3. price \in SUBSET NatOrNone /\ auto \in SUBSET BOOLEAN
    BY EnforcementAssumption DEF Optional
  <2> HIDE DEF plan, asked
  <2>4. t \in Task BY <1>1, <2>1, <2>2, <2>3 DEF Task, Ops, Steps, AllHandlers
  <2>5. t.key = k BY <1>1 DEF Task
  <2>6. t \in WellFormed BY <1>1, <2>4, <2>5 DEF WellFormed, Task
  <2>7. LocalColumns(t) \in WellFormed BY <2>4, <2>5, LocalColumnsWellFormed
  <2>8. \/ Receive(r, "edit", t)
        \/ Receive(r, "edit", LocalColumns(t))
    BY <1>3 DEF ReceiveEdit, plan, asked
  <2> HIDE DEF t
  <2>9. TasksOK' /\ received' \in Nat BY <2>6, <2>7, <2>8, ReceiveOK
  <2> QED BY <1>3, <2>9 DEF ReceiveEdit, DataOK, db, ghosts
<1>4. CASE ReceiveSync(r)
  <2>1. server.disabled \in BOOLEAN BY DEF DataOK, ServerRow
  <2>2. [IdleTask EXCEPT !.op = "sync", !.step = "metrics", !.down = server.disabled]
          \in WellFormed
    BY <2>1, BegunWellFormed, OpNames, FreeSteps
  <2> QED BY <1>4, <2>2, ReceiveOK DEF ReceiveSync, DataOK, db, ghosts
<1>5. CASE ReceiveReenable(r)
  <2>2. [IdleTask EXCEPT !.op = "reenable", !.step = "clear"] \in WellFormed
    BY BegunWellFormed, OpNames, FreeSteps
  <2> QED BY <1>5, <2>2, ReceiveOK DEF ReceiveReenable, DataOK, db, ghosts
<1>6. ASSUME NEW limit \in Limits \cup {None}, NEW apply \in BOOLEAN,
             ReceiveDefault(r, limit, apply)
      PROVE  TypeInv'
  <2> DEFINE asked == IF apply THEN {"limit"} ELSE {}
  <2>1. limit \in NatOrNone BY EnforcementAssumption DEF NatOrNone
  <2>2. asked \in SUBSET {"limit", "end"} OBVIOUS
  <2> HIDE DEF asked
  <2> DEFINE t == [IdleTask EXCEPT !.op = "default", !.step = "setDefault", !.limit = limit,
                                   !.asked = asked]
  <2>3. t \in Task BY <1>1, <2>1, <2>2, OpNames, FreeSteps DEF Task
  <2>4. t.step = "setDefault" BY <1>1 DEF Task
  <2> HIDE DEF t
  <2>5. t \in WellFormed BY <2>3, <2>4, FreeSteps, FreeTaskWellFormed
  <2>6. TasksOK' /\ received' \in Nat BY <1>6, <2>5, ReceiveOK DEF ReceiveDefault, asked, t
  <2> QED BY <1>6, <2>6 DEF ReceiveDefault, DataOK, db, ghosts
<1> QED BY <1>2, <1>3, <1>4, <1>5, <1>6 DEF Arrival

\* A request that comes in has yet to write.
LEMMA ArrivalOnlyReads ==
  ASSUME NEW r, Arrival(r)
  PROVE  UNCHANGED db
<1>1. ASSUME NEW k, NEW add, ReceiveRenew(r, k, add) PROVE UNCHANGED db
  BY <1>1 DEF ReceiveRenew
<1>2. ASSUME NEW k, NEW limit, NEW days, NEW price, NEW auto,
             ReceiveEdit(r, k, limit, days, price, auto)
      PROVE  UNCHANGED db
  BY <1>2 DEF ReceiveEdit
<1>3. ReceiveSync(r) \/ ReceiveReenable(r) => UNCHANGED db BY DEF ReceiveSync, ReceiveReenable
<1>4. ASSUME NEW limit, NEW apply, ReceiveDefault(r, limit, apply) PROVE UNCHANGED db
  BY <1>4 DEF ReceiveDefault
<1> QED BY <1>1, <1>2, <1>3, <1>4 DEF Arrival

\* A failed call that was carried out.
LEMMA CarriedOutOK ==
  ASSUME TypeInv, NEW p \in Procs, CarriedOut(p)
  PROVE  /\ keys' \in [Keys -> KeyRow] /\ server' \in ServerRow /\ monthStart' \in [Keys -> Nat]
         /\ outline' \in [Keys -> [limit: NatOrNone, used: Nat]] /\ unlogged' \subseteq Keys
<1> DEFINE t == task[p]
           k == t.key
<1>1. t \in WellFormed /\ t \in Task BY DEF TypeInv, TasksOK, WellFormed
<1>2. DataOK BY DEF TypeInv
<1>3. t.step \in KeySteps => k \in Keys BY <1>1 DEF WellFormed
<1>4. CASE /\ At(p, "push")
           /\ outline' = [outline EXCEPT ![k].limit = PushedLimit(t.seen[k], t.down)]
           /\ UNCHANGED <<db, unlogged>>
  <2>1. k \in Keys BY <1>3, <1>4 DEF At, KeySteps
  <2>2. t.seen[k] \in KeyRow /\ t.down \in BOOLEAN BY <1>1, <2>1 DEF Task
  <2>3. PushedLimit(t.seen[k], t.down) \in NatOrNone BY <2>2, PushedLimitType
  <2> QED BY <1>2, <1>4, <2>1, <2>3 DEF DataOK, db
<1>5. CASE /\ \/ At(p, "usage") /\ keys' = [keys EXCEPT ![k].used = t.meter[k]]
              \/ At(p, "mark") /\ keys' = [keys EXCEPT ![k].enabled = t.enabled,
                                                        ![k].status = t.status]
              \/ At(p, "raise") /\ keys' = [keys EXCEPT ![k].price = DefaultPrice]
              \/ At(p, "local") /\ \E price \in t.newPrice : keys' = [keys EXCEPT ![k].price = price]
              \/ At(p, "auto") /\ \E auto \in t.newAuto : keys' = [keys EXCEPT ![k].autoRenew = auto]
              \/ At(p, "apply") /\ keys' = OnDefaultLimit(t.limit)
           /\ UNCHANGED <<server, monthStart, outline, unlogged>>
  <2> SUFFICES keys' \in [Keys -> KeyRow] BY <1>2, <1>5 DEF DataOK
  <2>1. CASE At(p, "usage") /\ keys' = [keys EXCEPT ![k].used = t.meter[k]]
    <3>1. k \in Keys BY <1>3, <2>1 DEF At, KeySteps
    <3>2. t.meter[k] \in Nat BY <1>1, <3>1 DEF Task
    <3> QED BY <1>2, <2>1, <3>1, <3>2 DEF DataOK, KeyRow
  <2>2. CASE At(p, "mark") /\ keys' = [keys EXCEPT ![k].enabled = t.enabled,
                                                   ![k].status = t.status]
    BY <1>1, <1>2, <1>3, <2>2 DEF At, KeySteps, Task, DataOK, KeyRow
  <2>3. CASE At(p, "raise") /\ keys' = [keys EXCEPT ![k].price = DefaultPrice]
    BY <1>2, <1>3, <2>3, EnforcementAssumption DEF At, KeySteps, DataOK, KeyRow
  <2>4. CASE At(p, "local") /\ \E price \in t.newPrice : keys' = [keys EXCEPT ![k].price = price]
    <3>1. PICK price \in t.newPrice : keys' = [keys EXCEPT ![k].price = price] BY <2>4
    <3>2. price \in NatOrNone BY <1>1 DEF Task
    <3> QED BY <1>2, <1>3, <2>4, <3>1, <3>2 DEF At, KeySteps, DataOK, KeyRow
  <2>5. CASE At(p, "auto") /\ \E auto \in t.newAuto : keys' = [keys EXCEPT ![k].autoRenew = auto]
    <3>1. PICK auto \in t.newAuto : keys' = [keys EXCEPT ![k].autoRenew = auto] BY <2>5
    <3>2. auto \in BOOLEAN BY <1>1 DEF Task
    <3> QED BY <1>2, <1>3, <2>5, <3>1, <3>2 DEF At, KeySteps, DataOK, KeyRow
  <2>6. CASE At(p, "apply") /\ keys' = OnDefaultLimit(t.limit)
    <3>1. \A j \in Keys : [keys[j] EXCEPT !.limit = t.limit] \in KeyRow
      BY <1>1, <1>2 DEF DataOK, KeyRow, Task
    <3> QED BY <1>2, <2>6, <3>1 DEF OnDefaultLimit, DataOK
  <2> QED BY <1>5, <2>1, <2>2, <2>3, <2>4, <2>5, <2>6
<1>6. CASE /\ At(p, "save")
           /\ keys' = [keys EXCEPT ![k].limit = t.limit, ![k].end = t.end]
           /\ unlogged' = IF Renews(t) THEN unlogged \cup {k} ELSE unlogged
           /\ UNCHANGED <<server, monthStart, outline>>
  <2>1. k \in Keys BY <1>3, <1>6 DEF At, KeySteps
  <2>2. keys' \in [Keys -> KeyRow]
    <3>1. t.limit \in NatOrNone /\ t.end \in NatOrNone BY <1>1 DEF Task
    <3>2. keys' = [keys EXCEPT ![k].limit = t.limit, ![k].end = t.end] BY <1>6
    <3> QED BY <1>2, <2>1, <3>1, <3>2 DEF DataOK, KeyRow
  <2> QED BY <1>2, <1>6, <2>1, <2>2 DEF DataOK
<1>7. CASE /\ At(p, "log")
           /\ unlogged' = IF Renews(t) THEN unlogged \ {k} ELSE unlogged
           /\ UNCHANGED <<db, outline>>
  BY <1>2, <1>7 DEF DataOK, db
<1>8. CASE /\ \/ At(p, "trip") /\ server' = [server EXCEPT !.disabled = TRUE]
              \/ At(p, "clear") /\ server' = [server EXCEPT !.disabled = FALSE,
                                                            !.reenabled = Month(now)]
              \/ At(p, "setDefault") /\ server' = [server EXCEPT !.default = t.limit]
           /\ UNCHANGED <<keys, monthStart, outline, unlogged>>
  <2>1. Month(now) \in NatOrNone BY <1>2, MonthType DEF DataOK, NatOrNone
  <2>2. server' \in ServerRow BY <1>1, <1>2, <1>8, <2>1 DEF DataOK, ServerRow, Task
  <2> QED BY <1>2, <1>8, <2>2 DEF DataOK
<1> QED BY <1>4, <1>5, <1>6, <1>7, <1>8 DEF CarriedOut

\* Failures and crashes.
LEMMA FailureTypeInv ==
  ASSUME TypeInv, (\E p \in Procs : Fail(p)) \/ (\E c \in CronRuns : FailLookUp(c)) \/ Crash
  PROVE  TypeInv'
<1> USE DEF TypeInv
<1>1. ASSUME NEW p \in Procs, Fail(p) PROVE TypeInv'
  <2> DEFINE t == task[p]
  <2>1. t \in WellFormed /\ t \in Task BY DEF TasksOK, WellFormed
  <2>2. TasksOK' BY <1>1, <2>1, ContinueOK DEF Fail
  <2>3. lagging' \subseteq Keys
    <3>1. Unfinished(t) \subseteq Keys BY <2>1, UnfinishedKeys
    <3>2. Touched(t) \subseteq Keys
      BY <2>1 DEF Touched, WellFormed, KeySteps, UnlimitedKeys
    <3> QED BY <1>1, <3>1, <3>2 DEF Fail, DataOK
  <2>4. /\ keys' \in [Keys -> KeyRow] /\ server' \in ServerRow /\ monthStart' \in [Keys -> Nat]
        /\ outline' \in [Keys -> [limit: NatOrNone, used: Nat]] /\ unlogged' \subseteq Keys
    <3>1. CASE UNCHANGED <<db, outline, unlogged>> BY <3>1 DEF db, DataOK
    <3>2. CASE CarriedOut(p) BY <3>2, CarriedOutOK DEF TypeInv
    <3> QED BY <1>1, <3>1, <3>2 DEF Fail
  <2>5. now' = now /\ received' = received /\ failures' = failures + 1
    BY <1>1, Zenon DEF Fail
  <2> QED BY <2>2, <2>3, <2>4, <2>5 DEF DataOK
<1>2. ASSUME NEW c \in CronRuns, FailLookUp(c) PROVE TypeInv'
  <2> DEFINE t   == task[c]
             add == IF t.add = None THEN MinPlanData ELSE t.add
  <2>1. t \in WellFormed /\ t \in Task BY DEF TasksOK, WellFormed, Procs
  <2>2. t.key \in Keys BY <1>2, <2>1 DEF FailLookUp, At, WellFormed, KeySteps
  <2>3. add \in Nat BY <2>1, PolicyAssumption DEF Task, NatOrNone
  <2> HIDE DEF add
  <2>4. [t EXCEPT !.step = "grant", !.add = add] \in WellFormed
    BY <2>1, <2>2, <2>3 DEF WellFormed, Task, Steps, NatOrNone
  <2>5. TasksOK' BY <1>2, <2>4, BecomeOK DEF FailLookUp, add, Procs
  <2>6. UNCHANGED <<now, keys, server, monthStart, outline, unlogged, lagging, received>>
    BY <1>2 DEF FailLookUp, db, ghosts
  <2>7. failures' = failures + 1 BY <1>2, Zenon DEF FailLookUp
  <2>8. failures' \in Nat BY <2>7 DEF DataOK
  <2> QED BY <2>5, <2>6, <2>8 DEF DataOK
<1>3. CASE Crash
  <2>1. TasksOK' BY <1>3, IdleTaskWellFormed DEF Crash, TasksOK
  <2>2. \A p \in Procs : Unfinished(task[p]) \subseteq Keys BY UnfinishedKeys DEF TasksOK
  <2>3. lagging' \subseteq Keys BY <1>3, <2>2 DEF Crash, DataOK
  <2> QED BY <1>3, <2>1, <2>3 DEF Crash, DataOK, db
<1> QED BY <1>1, <1>2, <1>3

LEMMA NextTypeInv == TypeInv /\ [Next]_vars => TypeInv'
<1> SUFFICES ASSUME TypeInv, [Next]_vars PROVE TypeInv' OBVIOUS
<1>1. ASSUME NEW p \in Procs, Step(p) PROVE TypeInv' BY <1>1, StepTypeInv
<1>2. ASSUME NEW r \in Requests, Arrival(r) PROVE TypeInv' BY <1>2, ArrivalTypeInv DEF Procs
<1>3. CASE (\E p \in Procs : Fail(p)) \/ (\E c \in CronRuns : FailLookUp(c)) \/ Crash
  BY <1>3, FailureTypeInv
<1>4. CASE ArchiveServer
  <2>1. received \in Nat /\ server \in ServerRow BY DEF TypeInv, DataOK
  <2>2. server' \in ServerRow BY <1>4, <2>1 DEF ArchiveServer, ServerRow
  <2>3. received' = received + 1 BY <1>4, Zenon DEF ArchiveServer
  <2>4. UNCHANGED <<now, keys, monthStart, outline, unlogged, lagging, task, failures>>
    BY <1>4 DEF ArchiveServer, ghosts
  <2> QED BY <2>1, <2>2, <2>3, <2>4 DEF TypeInv, DataOK, TasksOK
<1>5. ASSUME NEW k \in Keys, Traffic(k) PROVE TypeInv'
  <2>1. outline \in [Keys -> [limit: NatOrNone, used: Nat]] BY DEF TypeInv, DataOK
  <2>2. outline' \in [Keys -> [limit: NatOrNone, used: Nat]] BY <1>5, <2>1 DEF Traffic
  <2>3. UNCHANGED <<now, keys, server, monthStart, unlogged, lagging, task, failures, received>>
    BY <1>5 DEF Traffic, db, ghosts, budget
  <2> QED BY <2>2, <2>3 DEF TypeInv, DataOK, TasksOK
<1>6. CASE Tick
  <2>1. \A k \in Keys : keys[k].used \in Nat BY DEF TypeInv, DataOK, KeyRow
  <2> QED BY <1>6, <2>1 DEF Tick, TypeInv, DataOK, TasksOK, ghosts, budget
<1>7. CASE UNCHANGED vars
  BY <1>7 DEF vars, db, ghosts, budget, TypeInv, DataOK, TasksOK
<1> QED BY <1>1, <1>2, <1>3, <1>4, <1>5, <1>6, <1>7 DEF Next

\* For every set of keys, processes and handlers and every value of the plans,
\* thresholds and bounds, whatever overlaps: every variable keeps its type, and a
\* process at a step about a key has one.
THEOREM TypeCorrect == Spec => []TypeOK
<1>1. Spec => []TypeInv BY InitTypeInv, NextTypeInv, PTL DEF Spec
<1> QED BY <1>1, TypeInvTypeOK, PTL

Agree(t) == ~t.enabled <=> t.status \in {"expired", "limit_exceeded"}

TasksAgree == \A p \in Procs : Agree(task[p])

StatusInv == TypeInv /\ CutOffNamesItsReason /\ TasksAgree

\* No row changes in the two columns.
KeepsStatus ==
  \A k \in Keys : keys'[k].enabled = keys[k].enabled /\ keys'[k].status = keys[k].status

-----------------------------------------------------------------------------
(* The pair a process holds *)

LEMMA IdleTaskAgrees == Agree(IdleTask)
BY DEF Agree, IdleTask

LEMMA BecomeAgrees ==
  ASSUME TypeInv, TasksAgree, NEW p \in Procs, NEW t, Agree(t), Become(p, t)
  PROVE  TasksAgree'
BY DEF TypeInv, TasksOK, TasksAgree, Agree, Become

LEMMA GotoAgrees ==
  ASSUME TypeInv, TasksAgree, NEW p \in Procs, NEW step, Goto(p, step)
  PROVE  TasksAgree'
<1>1. task[p] \in Task /\ Agree(task[p]) BY DEF TypeInv, TasksOK, WellFormed, TasksAgree
<1>2. Agree([task[p] EXCEPT !.step = step]) BY <1>1 DEF Agree, Task
<1> QED BY <1>2, BecomeAgrees DEF Goto

LEMMA ContinueAgrees ==
  ASSUME TypeInv, TasksAgree, NEW p \in Procs, NEW t \in Task, Agree(t), Continue(p, t)
  PROVE  TasksAgree'
<1> DEFINE done == [t EXCEPT !.seen[t.key] = AdoptedKey, !.meter[t.key] = 0,
                             !.limit = None, !.end = None, !.enabled = TRUE, !.status = "active"]
           base == IF t.key = None THEN t ELSE done
<1>1. \/ base.enabled = t.enabled /\ base.status = t.status
      \/ base.enabled = TRUE /\ base.status = "active"
  BY DEF Task
<1>2. DOMAIN base = DOMAIN t BY DEF Task
<1> HIDE DEF base
<1>3. ASSUME NEW k, NEW todo, NEW step
      PROVE  Agree([base EXCEPT !.key = k, !.todo = todo, !.step = step])
  BY <1>1, <1>2 DEF Agree, Task
<1>4. PICK next \in Following(p, t) : Become(p, next) BY DEF Continue
<1>5. CASE \E k \in t.todo :
             next = [base EXCEPT !.key = k, !.todo = t.todo \ {k}, !.step = LoopBody(t.op)]
  BY <1>3, <1>5, <1>4, BecomeAgrees
<1>6. CASE next = [IdleTask EXCEPT !.op = "cutoff", !.step = "cap"]
  BY <1>4, <1>6, BecomeAgrees DEF Agree, IdleTask
<1>7. CASE next = [IdleTask EXCEPT !.op = "autorenew", !.step = "scan"]
  BY <1>4, <1>7, BecomeAgrees DEF Agree, IdleTask
<1>8. CASE next = IdleTask BY <1>4, <1>8, BecomeAgrees, IdleTaskAgrees
<1> QED BY <1>4, <1>5, <1>6, <1>7, <1>8 DEF Following, base

LEMMA LocalColumnsAgrees ==
  ASSUME NEW t \in Task, Agree(t)
  PROVE  Agree(LocalColumns(t))
BY IdleTaskAgrees DEF LocalColumns, Agree, Task

LEMMA AfterReconcileAgrees ==
  ASSUME TypeInv, TasksAgree, NEW p \in Procs, NEW t \in Task, Agree(t), AfterReconcile(p, t)
  PROVE  TasksAgree'
BY LocalColumnsAgrees, BecomeAgrees, ContinueAgrees DEF AfterReconcile

LEMMA GiveUpAgrees ==
  ASSUME TypeInv, TasksAgree, NEW p \in Procs, GiveUp(p)
  PROVE  TasksAgree'
BY ContinueAgrees DEF GiveUp, TypeInv, TasksOK, WellFormed, TasksAgree

\* The plan a renewal is about to save comes with no new status.
LEMMA GrantedAgrees ==
  ASSUME NEW t \in Task, Agree(t), NEW k, NEW add
  PROVE  Agree(Granted(t, k, add))
BY DEF Granted, Agree, Task

-----------------------------------------------------------------------------
(* The steps *)

LEMMA KeepsStatusMatches ==
  ASSUME CutOffNamesItsReason, KeepsStatus
  PROVE  CutOffNamesItsReason'
BY DEF CutOffNamesItsReason, KeepsStatus

\* A pair that agrees is written as it is.
LEMMA MarkAgrees ==
  ASSUME TypeInv, CutOffNamesItsReason, NEW t \in Task, Agree(t),
         keys' = [keys EXCEPT ![t.key].enabled = t.enabled, ![t.key].status = t.status]
  PROVE  CutOffNamesItsReason'
<1>1. keys \in [Keys -> KeyRow] BY DEF TypeInv, DataOK
<1>2. t.key \in Keys => keys'[t.key].enabled = t.enabled /\ keys'[t.key].status = t.status
  BY <1>1 DEF KeyRow
<1>3. \A k \in Keys \ {t.key} : keys'[k] = keys[k] BY <1>1
<1> QED BY <1>2, <1>3 DEF CutOffNamesItsReason, Agree

\* No other failed call that was carried out disturbs the two columns.
LEMMA CarriedOutKeeps ==
  ASSUME TypeInv, NEW p \in Procs, CarriedOut(p)
  PROVE  \/ KeepsStatus
         \/ /\ At(p, "mark")
            /\ keys' = [keys EXCEPT ![task[p].key].enabled = task[p].enabled,
                                    ![task[p].key].status = task[p].status]
<1> DEFINE t == task[p]
           k == t.key
<1>1. keys \in [Keys -> KeyRow] BY DEF TypeInv, DataOK
<1>2. CASE UNCHANGED keys BY <1>2 DEF KeepsStatus
<1>3. CASE keys' = [keys EXCEPT ![k].used = t.meter[k]] BY <1>1, <1>3 DEF KeepsStatus, KeyRow
<1>4. CASE keys' = [keys EXCEPT ![k].price = DefaultPrice]
  BY <1>1, <1>4 DEF KeepsStatus, KeyRow
<1>5. ASSUME NEW price, keys' = [keys EXCEPT ![k].price = price] PROVE KeepsStatus
  BY <1>1, <1>5 DEF KeepsStatus, KeyRow
<1>6. ASSUME NEW auto, keys' = [keys EXCEPT ![k].autoRenew = auto] PROVE KeepsStatus
  BY <1>1, <1>6 DEF KeepsStatus, KeyRow
<1>7. CASE keys' = OnDefaultLimit(t.limit)
  BY <1>1, <1>7 DEF OnDefaultLimit, KeepsStatus, KeyRow
<1>8. CASE keys' = [keys EXCEPT ![k].limit = t.limit, ![k].end = t.end]
  BY <1>1, <1>8 DEF KeepsStatus, KeyRow
<1> QED BY <1>2, <1>3, <1>4, <1>5, <1>6, <1>7, <1>8 DEF CarriedOut, db

\* A reconciliation: the pair is derived at the push and written as it is.
LEMMA ReconcileStatusInv ==
  ASSUME StatusInv, NEW p \in Procs, ReconcileStep(p)
  PROVE  TasksAgree' /\ CutOffNamesItsReason'
<1> USE DEF StatusInv
<1> DEFINE t == task[p]
<1>1. t \in Task /\ t \in WellFormed /\ Agree(t)
  BY DEF TypeInv, TasksOK, WellFormed, TasksAgree
<1>2. CASE Reload(p)
  <2>1. Agree([t EXCEPT !.step = "flag", !.seen[t.key] = keys[t.key]]) BY <1>1 DEF Agree, Task
  <2> QED BY <1>2, <2>1, BecomeAgrees, KeepsStatusMatches DEF Reload, db, KeepsStatus
<1>3. CASE ReadFlag(p)
  <2>1. Agree([t EXCEPT !.step = "push", !.down = server.disabled]) BY <1>1 DEF Agree, Task
  <2> QED BY <1>3, <2>1, BecomeAgrees, KeepsStatusMatches DEF ReadFlag, db, KeepsStatus
<1>4. CASE Push(p)
  <2> DEFINE row == t.seen[t.key]
             d   == DeriveKeyStatus(now, row.end, row.limit, row.used, row.enabled)
  <2>1. t.key \in Keys BY <1>1, <1>4 DEF Push, At, WellFormed, KeySteps
  <2>2. row.enabled \in BOOLEAN BY <1>1, <2>1 DEF Task, KeyRow
  <2>3. /\ d.shouldBeEnabled <=> d.status \in {"active", "disabled"}
        /\ d.status \in KeyStatus
    BY <2>2, StatusNamesTheReason DEF DeriveKeyStatus, DerivedStatus, KeyStatus
  <2> HIDE DEF row, d
  <2>4. Agree([t EXCEPT !.step = "mark", !.enabled = d.shouldBeEnabled, !.status = d.status])
    BY <1>1, <2>3 DEF Agree, Task, KeyStatus
  <2>5. TasksAgree' BY <1>1, <1>4, <2>4, BecomeAgrees, AfterReconcileAgrees DEF Push, row, d
  <2> QED BY <1>4, <2>5, KeepsStatusMatches DEF Push, db, KeepsStatus
<1>5. CASE SetKeyEnabledStatus(p)
  <2>1. t.key \in Keys BY <1>1, <1>5 DEF SetKeyEnabledStatus, At, WellFormed, KeySteps
  <2>2. TasksAgree' BY <1>1, <1>5, AfterReconcileAgrees DEF SetKeyEnabledStatus
  <2> QED BY <1>1, <1>5, <2>1, <2>2, MarkAgrees DEF SetKeyEnabledStatus
<1>6. CASE ListKeys(p)
  <2>1. [t EXCEPT !.todo = Keys, !.seen = keys] \in Task BY <1>1 DEF Task, TypeInv, DataOK
  <2>2. Agree([t EXCEPT !.todo = Keys, !.seen = keys]) BY <1>1 DEF Agree, Task
  <2> QED BY <1>6, <2>1, <2>2, ContinueAgrees, KeepsStatusMatches DEF ListKeys, db, KeepsStatus
<1> QED BY <1>2, <1>3, <1>4, <1>5, <1>6 DEF ReconcileStep

LEMMA SyncStatusInv ==
  ASSUME StatusInv, NEW p \in Procs, SyncStep(p)
  PROVE  TasksAgree' /\ CutOffNamesItsReason'
<1> USE DEF StatusInv
<1> DEFINE t == task[p]
<1>1. t \in Task /\ t \in WellFormed /\ Agree(t)
  BY DEF TypeInv, TasksOK, WellFormed, TasksAgree
<1>2. CASE ReadMetrics(p)
  <2> DEFINE meter == [k \in Keys |-> outline[k].used]
             next  == [t EXCEPT !.todo = Keys, !.meter = meter]
  <2>1. meter \in [Keys -> Nat] BY DEF TypeInv, DataOK
  <2> HIDE DEF meter
  <2>2. next \in Task BY <1>1, <2>1 DEF Task
  <2>3. Agree(next) BY <1>1 DEF Agree, Task
  <2> HIDE DEF next
  <2>4. Continue(p, next) BY <1>2 DEF ReadMetrics, next, meter
  <2> QED BY <1>2, <2>2, <2>3, <2>4, ContinueAgrees, KeepsStatusMatches
          DEF ReadMetrics, db, KeepsStatus
<1>3. CASE UpsertKey(p)
  <2>1. Agree([t EXCEPT !.step = "usage", !.seen[t.key] = keys[t.key]]) BY <1>1 DEF Agree, Task
  <2> QED BY <1>3, <2>1, BecomeAgrees, KeepsStatusMatches DEF UpsertKey, db, KeepsStatus
<1>4. CASE UpdateKeyUsage(p)
  <2> DEFINE used == t.meter[t.key]
  <2> HIDE DEF used
  <2>1. Agree([t EXCEPT !.step = "push", !.seen[t.key].used = used]) BY <1>1 DEF Agree, Task
  <2>2. TasksAgree' BY <1>4, <2>1, BecomeAgrees DEF UpdateKeyUsage, used
  <2>3. KeepsStatus BY <1>4 DEF UpdateKeyUsage, KeepsStatus, TypeInv, DataOK, KeyRow
  <2> QED BY <2>2, <2>3, KeepsStatusMatches
<1> QED BY <1>2, <1>3, <1>4 DEF SyncStep

LEMMA RenewStatusInv ==
  ASSUME StatusInv, NEW p \in Procs, RenewStep(p)
  PROVE  TasksAgree' /\ CutOffNamesItsReason'
<1> USE DEF StatusInv
<1> DEFINE t == task[p]
<1>1. t \in Task /\ t \in WellFormed /\ Agree(t)
  BY DEF TypeInv, TasksOK, WellFormed, TasksAgree
<1>2. ASSUME NEW price, NEW step, Become(p, [t EXCEPT !.step = step, !.newPrice = price])
      PROVE  TasksAgree'
  <2>1. Agree([t EXCEPT !.step = step, !.newPrice = price]) BY <1>1 DEF Agree, Task
  <2> QED BY <1>2, <2>1, BecomeAgrees
<1>3. CASE SetKeyLimitAndEndDate(p)
  <2>1. TasksAgree' BY <1>3, GotoAgrees DEF SetKeyLimitAndEndDate
  <2>2. KeepsStatus
    BY <1>3 DEF SetKeyLimitAndEndDate, KeepsStatus, TypeInv, DataOK, KeyRow
  <2> QED BY <2>1, <2>2, KeepsStatusMatches
<1>4. CASE ReadServerPrice(p)
  <2>1. TasksAgree' BY <1>2, <1>4 DEF ReadServerPrice
  <2> QED BY <1>4, <2>1, KeepsStatusMatches DEF ReadServerPrice, db, KeepsStatus
<1>5. CASE SetRaisedPrice(p)
  <2>1. TasksAgree' BY <1>2, <1>5 DEF SetRaisedPrice
  <2>2. KeepsStatus BY <1>5 DEF SetRaisedPrice, KeepsStatus, TypeInv, DataOK, KeyRow
  <2> QED BY <2>1, <2>2, KeepsStatusMatches
<1>6. CASE InsertRenewalLog(p)
  BY <1>6, GotoAgrees, KeepsStatusMatches DEF InsertRenewalLog, db, KeepsStatus
<1> QED BY <1>3, <1>4, <1>5, <1>6 DEF RenewStep

LEMMA CronStatusInv ==
  ASSUME StatusInv, NEW c \in Procs, CronStep(c)
  PROVE  TasksAgree' /\ CutOffNamesItsReason'
<1> USE DEF StatusInv
<1> DEFINE t == task[c]
<1>1. t \in Task /\ t \in WellFormed /\ Agree(t)
  BY DEF TypeInv, TasksOK, WellFormed, TasksAgree
<1>2. CASE StartRun(c)
  <2>1. [IdleTask EXCEPT !.op = "sync"] \in Task
    BY IdleTaskWellFormed DEF WellFormed, Task, Ops
  <2>2. Agree([IdleTask EXCEPT !.op = "sync"]) BY DEF Agree, IdleTask
  <2>3. Agree([IdleTask EXCEPT !.op = "sync", !.step = "metrics", !.down = server.disabled])
    BY DEF Agree, IdleTask
  <2>4. TasksAgree' BY <1>2, <2>1, <2>2, <2>3, BecomeAgrees, ContinueAgrees DEF StartRun, BeginSync
  <2> QED BY <1>2, <2>4, KeepsStatusMatches DEF StartRun, db, KeepsStatus
<1>3. CASE CheckCap(c)
  BY <1>1, <1>3, GotoAgrees, ContinueAgrees, KeepsStatusMatches DEF CheckCap, db, KeepsStatus
<1>4. CASE MeasureUsage(c)
  BY <1>1, <1>4, GotoAgrees, ContinueAgrees, KeepsStatusMatches DEF MeasureUsage, db, KeepsStatus
<1>5. CASE SetServerBandwidthDisabled(c)
  <2>1. Agree([t EXCEPT !.step = "keys", !.down = TRUE]) BY <1>1 DEF Agree, Task
  <2> QED BY <1>5, <2>1, BecomeAgrees, KeepsStatusMatches
          DEF SetServerBandwidthDisabled, KeepsStatus
<1>6. CASE ScanAutoRenew(c)
  <2> DEFINE next == [t EXCEPT !.todo = {k \in Keys : AutoRenewable(k)}]
  <2>1. next \in Task /\ Agree(next) BY <1>1 DEF Agree, Task
  <2> QED BY <1>6, <2>1, ContinueAgrees, KeepsStatusMatches DEF ScanAutoRenew, db, KeepsStatus
<1>7. CASE LookUpDefault(c)
  <2>1. Agree([t EXCEPT !.step = "grant", !.add = AutoRenewAllowance(t)]) BY <1>1 DEF Agree, Task
  <2> QED BY <1>7, <2>1, BecomeAgrees, KeepsStatusMatches DEF LookUpDefault, db, KeepsStatus
<1>8. CASE GrantAutoRenewal(c)
  <2>1. Agree(Granted(t, t.key, t.add)) BY <1>1, GrantedAgrees
  <2> QED BY <1>8, <2>1, BecomeAgrees, KeepsStatusMatches DEF GrantAutoRenewal, db, KeepsStatus
<1> QED BY <1>2, <1>3, <1>4, <1>5, <1>6, <1>7, <1>8 DEF CronStep

LEMMA HandlerStatusInv ==
  ASSUME StatusInv, NEW r \in Procs, HandlerStep(r)
  PROVE  TasksAgree' /\ CutOffNamesItsReason'
<1> USE DEF StatusInv
<1> DEFINE t == task[r]
<1>1. t \in Task /\ t \in WellFormed /\ Agree(t)
  BY DEF TypeInv, TasksOK, WellFormed, TasksAgree
<1>2. CASE SetKeyPrice(r)
  <2>1. [t EXCEPT !.newPrice = {}] \in Task /\ Agree([t EXCEPT !.newPrice = {}])
    BY <1>1 DEF Agree, Task
  <2>2. TasksAgree' BY <1>2, <2>1, LocalColumnsAgrees, BecomeAgrees DEF SetKeyPrice
  <2>3. KeepsStatus BY <1>2 DEF SetKeyPrice, KeepsStatus, TypeInv, DataOK, KeyRow
  <2> QED BY <2>2, <2>3, KeepsStatusMatches
<1>3. CASE SetKeyAutoRenew(r)
  <2>1. TasksAgree' BY <1>3, IdleTaskAgrees, BecomeAgrees DEF SetKeyAutoRenew
  <2>2. KeepsStatus BY <1>3 DEF SetKeyAutoRenew, KeepsStatus, TypeInv, DataOK, KeyRow
  <2> QED BY <2>1, <2>2, KeepsStatusMatches
<1>4. CASE ClearServerBandwidthDisabled(r)
  BY <1>4, GotoAgrees, KeepsStatusMatches DEF ClearServerBandwidthDisabled, KeepsStatus
<1>5. CASE RefetchServer(r)
  <2>1. Agree([t EXCEPT !.step = "keys", !.down = server.disabled]) BY <1>1 DEF Agree, Task
  <2> QED BY <1>5, <2>1, BecomeAgrees, KeepsStatusMatches DEF RefetchServer, db, KeepsStatus
<1>6. CASE SetServerDefaultLimit(r)
  BY <1>6, IdleTaskAgrees, BecomeAgrees, GotoAgrees, KeepsStatusMatches
     DEF SetServerDefaultLimit, KeepsStatus
<1>7. CASE ApplyDefaultLimitToUnlimitedKeys(r)
  <2>1. [t EXCEPT !.todo = UnlimitedKeys] \in Task /\ Agree([t EXCEPT !.todo = UnlimitedKeys])
    BY <1>1 DEF Agree, Task, UnlimitedKeys
  <2>2. TasksAgree' BY <1>7, <2>1, ContinueAgrees DEF ApplyDefaultLimitToUnlimitedKeys
  <2>3. KeepsStatus
    BY <1>7 DEF ApplyDefaultLimitToUnlimitedKeys, OnDefaultLimit, KeepsStatus, TypeInv, DataOK,
                KeyRow
  <2> QED BY <2>2, <2>3, KeepsStatusMatches
<1> QED BY <1>2, <1>3, <1>4, <1>5, <1>6, <1>7 DEF HandlerStep

LEMMA StepStatusInv ==
  ASSUME StatusInv, NEW p \in Procs, Step(p)
  PROVE  TasksAgree' /\ CutOffNamesItsReason'
<1>1. CASE ServerGone(p)
  BY <1>1, GiveUpAgrees, KeepsStatusMatches DEF StatusInv, ServerGone, db, KeepsStatus
<1> QED BY <1>1, ReconcileStatusInv, SyncStatusInv, RenewStatusInv, CronStatusInv,
           HandlerStatusInv DEF Step

\* A request starts from nothing, so it holds no pair to write.
LEMMA ArrivalStatusInv ==
  ASSUME StatusInv, NEW r \in Procs, Arrival(r)
  PROVE  TasksAgree' /\ CutOffNamesItsReason'
<1> USE DEF StatusInv
<1>1. IdleTask \in Task /\ Agree(IdleTask) BY IdleTaskWellFormed, IdleTaskAgrees DEF WellFormed
<1>2. ASSUME NEW handler, NEW t, Agree(t), Receive(r, handler, t) PROVE TasksAgree'
  BY <1>2, BecomeAgrees DEF Receive
<1>3. ASSUME NEW k \in Keys, NEW add \in Allowances, ReceiveRenew(r, k, add)
      PROVE  TasksAgree' /\ UNCHANGED keys
  <2>1. [IdleTask EXCEPT !.op = "renew"] \in Task BY <1>1 DEF Task, Ops, AllHandlers
  <2>2. Agree([IdleTask EXCEPT !.op = "renew"]) BY DEF Agree, IdleTask
  <2> QED BY <1>2, <1>3, <2>1, <2>2, GrantedAgrees DEF ReceiveRenew, db
<1>4. ASSUME NEW k \in Keys, NEW limit, NEW days, NEW price, NEW auto,
             ReceiveEdit(r, k, limit, days, price, auto)
      PROVE  TasksAgree' /\ UNCHANGED keys
  <2> DEFINE plan  == EditedPlan(keys[k], limit, days)
             asked == (IF limit = {} THEN {} ELSE {"limit"}) \cup (IF days = {} THEN {} ELSE {"end"})
             t == [IdleTask EXCEPT !.op = "edit", !.step = "save", !.key = k,
                                   !.limit = plan.limit, !.end = plan.end, !.asked = asked,
                                   !.newPrice = price, !.newAuto = auto]
  <2> HIDE DEF plan, asked
  <2>1. Agree(t) BY DEF Agree, IdleTask
  <2>2. ASSUME NEW step PROVE Agree([t EXCEPT !.step = step]) BY DEF Agree, IdleTask
  <2>3. Agree(LocalColumns(t)) BY <1>1, <2>2 DEF LocalColumns
  <2>4. Receive(r, "edit", t) \/ Receive(r, "edit", LocalColumns(t))
    BY <1>4 DEF ReceiveEdit, plan, asked
  <2> HIDE DEF t
  <2>5. TasksAgree' BY <1>2, <2>1, <2>3, <2>4
  <2> QED BY <1>4, <2>5 DEF ReceiveEdit, db
<1>5. CASE ReceiveSync(r)
  <2>1. Agree([IdleTask EXCEPT !.op = "sync", !.step = "metrics", !.down = server.disabled])
    BY DEF Agree, IdleTask
  <2> QED BY <1>2, <1>5, <2>1, KeepsStatusMatches DEF ReceiveSync, db, KeepsStatus
<1>6. CASE ReceiveReenable(r)
  <2>1. Agree([IdleTask EXCEPT !.op = "reenable", !.step = "clear"]) BY DEF Agree, IdleTask
  <2> QED BY <1>2, <1>6, <2>1, KeepsStatusMatches DEF ReceiveReenable, db, KeepsStatus
<1>7. ASSUME NEW limit, NEW apply, ReceiveDefault(r, limit, apply)
      PROVE  TasksAgree' /\ UNCHANGED keys
  <2> DEFINE asked == IF apply THEN {"limit"} ELSE {}
  <2> HIDE DEF asked
  <2>1. Agree([IdleTask EXCEPT !.op = "default", !.step = "setDefault", !.limit = limit,
                               !.asked = asked])
    BY DEF Agree, IdleTask
  <2> QED BY <1>2, <1>7, <2>1 DEF ReceiveDefault, asked, db
<1> QED BY <1>3, <1>4, <1>5, <1>6, <1>7, KeepsStatusMatches DEF Arrival, KeepsStatus

LEMMA FailureStatusInv ==
  ASSUME StatusInv, (\E p \in Procs : Fail(p)) \/ (\E c \in CronRuns : FailLookUp(c)) \/ Crash
  PROVE  TasksAgree' /\ CutOffNamesItsReason'
<1> USE DEF StatusInv
<1>1. (\E c \in CronRuns : FailLookUp(c)) \/ Crash => UNCHANGED keys
  BY Zenon DEF FailLookUp, Crash, db
<1>2. ASSUME NEW p \in Procs, Fail(p) PROVE TasksAgree' /\ CutOffNamesItsReason'
  <2> DEFINE t == task[p]
  <2>1. t \in Task /\ t \in WellFormed /\ Agree(t)
    BY DEF TypeInv, TasksOK, WellFormed, TasksAgree
  <2>2. TasksAgree' BY <1>2, <2>1, ContinueAgrees DEF Fail
  <2>3. CASE UNCHANGED <<db, outline, unlogged>>
    BY <2>2, <2>3, KeepsStatusMatches DEF db, KeepsStatus
  <2>4. CASE CarriedOut(p)
    <3>1. CASE KeepsStatus BY <2>2, <3>1, KeepsStatusMatches
    <3>2. CASE ~KeepsStatus
      <4>1. At(p, "mark") /\ keys' = [keys EXCEPT ![t.key].enabled = t.enabled,
                                                  ![t.key].status = t.status]
        BY <2>4, <3>2, CarriedOutKeeps
      <4> QED BY <2>1, <2>2, <4>1, MarkAgrees
    <3> QED BY <3>1, <3>2
  <2> QED BY <1>2, <2>3, <2>4 DEF Fail
<1>3. ASSUME NEW c \in CronRuns, FailLookUp(c) PROVE TasksAgree'
  <2> DEFINE t   == task[c]
             add == IF t.add = None THEN MinPlanData ELSE t.add
  <2>1. c \in Procs BY DEF Procs
  <2>2. t \in Task /\ Agree(t) BY <2>1 DEF TypeInv, TasksOK, WellFormed, TasksAgree
  <2> HIDE DEF add
  <2>3. Agree([t EXCEPT !.step = "grant", !.add = add]) BY <2>2 DEF Agree, Task
  <2> QED BY <1>3, <2>1, <2>3, BecomeAgrees DEF FailLookUp, add
<1>4. ASSUME Crash PROVE TasksAgree'
  <2>1. \A p \in Procs : task'[p] = IdleTask BY <1>4 DEF Crash
  <2> QED BY <2>1, IdleTaskAgrees DEF TasksAgree, Agree
<1> QED BY <1>1, <1>2, <1>3, <1>4, KeepsStatusMatches DEF KeepsStatus

-----------------------------------------------------------------------------
(* The invariant *)

LEMMA InitStatusInv == Init => StatusInv
<1> SUFFICES ASSUME Init PROVE StatusInv OBVIOUS
<1>1. \A k \in Keys : keys[k].enabled /\ keys[k].status = "active"
  BY EnforcementAssumption DEF Init
<1>2. \A p \in Procs : task[p] = IdleTask BY DEF Init
<1> QED BY <1>1, <1>2, InitTypeInv, IdleTaskAgrees DEF StatusInv, CutOffNamesItsReason, TasksAgree

LEMMA NextStatusInv == StatusInv /\ [Next]_vars => StatusInv'
<1> SUFFICES ASSUME StatusInv, [Next]_vars PROVE TasksAgree' /\ CutOffNamesItsReason'
  BY NextTypeInv DEF StatusInv
<1>1. ASSUME UNCHANGED <<keys, task>> PROVE TasksAgree' /\ CutOffNamesItsReason'
  BY <1>1 DEF StatusInv, TasksAgree, Agree, CutOffNamesItsReason
<1>2. ASSUME NEW r \in Requests, Arrival(r) PROVE TasksAgree' /\ CutOffNamesItsReason'
  BY <1>2, ArrivalStatusInv DEF Procs
<1>3. ASSUME NEW p \in Procs, Step(p) PROVE TasksAgree' /\ CutOffNamesItsReason'
  BY <1>3, StepStatusInv
<1>4. CASE (\E p \in Procs : Fail(p)) \/ (\E c \in CronRuns : FailLookUp(c)) \/ Crash
  BY <1>4, FailureStatusInv
<1>5. CASE ArchiveServer \/ (\E k \in Keys : Traffic(k)) \/ Tick \/ UNCHANGED vars
  BY <1>1, <1>5, Zenon DEF ArchiveServer, Traffic, Tick, vars, db
<1> QED BY <1>2, <1>3, <1>4, <1>5 DEF Next

\* For any number of overlapping runs and requests, any failures and any values
\* of the constants: a key is stored as cut off exactly when its status says why
\* (reconcileKey derives the pair, SetKeyEnabledStatus writes it in one
\* statement).  Whether a key stored as working reads "active" or "disabled" is
\* not settled by this.
THEOREM StatusCorrect == Spec => []CutOffNamesItsReason
<1>1. StatusInv => CutOffNamesItsReason BY DEF StatusInv
<1> QED BY <1>1, InitStatusInv, NextStatusInv, PTL DEF Spec

-----------------------------------------------------------------------------
(* Stored usage does not run ahead of Outline's *)

\* The counters that a process holds are not above u.
Low(t, u) == \A k \in Keys : t.meter[k] <= u[k]

AllLow(u) == \A p \in Procs : Low(task[p], u)

Counters == [k \in Keys |-> outline[k].used]

UsageInv == TypeInv /\ UsageNotAhead /\ AllLow(Counters)

LEMMA IdleTaskLow ==
  ASSUME NEW u \in [Keys -> Nat], NEW t, t.meter = IdleTask.meter
  PROVE  Low(t, u)
BY DEF IdleTask, Low

LEMMA BecomeLow ==
  ASSUME TypeInv, NEW u, AllLow(u), NEW p \in Procs, NEW t, Low(t, u), Become(p, t)
  PROVE  AllLow(u)'
<1>1. task'[p] = t /\ \A q \in Procs \ {p} : task'[q] = task[q]
  BY DEF Become, TypeInv, TasksOK
<1> QED BY <1>1 DEF AllLow, Low

LEMMA GotoLow ==
  ASSUME TypeInv, NEW u, AllLow(u), NEW p \in Procs, NEW step, Goto(p, step)
  PROVE  AllLow(u)'
<1>1. task[p] \in Task /\ Low(task[p], u) BY DEF TypeInv, TasksOK, WellFormed, AllLow
<1>2. Low([task[p] EXCEPT !.step = step], u) BY <1>1 DEF Low, Task
<1> QED BY <1>2, BecomeLow DEF Goto

LEMMA ContinueLow ==
  ASSUME TypeInv, NEW u \in [Keys -> Nat], AllLow(u), NEW p \in Procs, NEW t \in Task,
         Low(t, u), Continue(p, t)
  PROVE  AllLow(u)'
<1> DEFINE done == [t EXCEPT !.seen[t.key] = AdoptedKey, !.meter[t.key] = 0,
                             !.limit = None, !.end = None, !.enabled = TRUE, !.status = "active"]
           base == IF t.key = None THEN t ELSE done
<1>1. DOMAIN base = DOMAIN t /\ Low(base, u)
  <2>1. done.meter = [t.meter EXCEPT ![t.key] = 0] /\ DOMAIN done = DOMAIN t BY DEF Task
  <2>2. t.meter \in [Keys -> Nat] BY DEF Task
  <2>3. Low(done, u) BY <2>1, <2>2 DEF Low
  <2> QED BY <2>1, <2>3
<1> HIDE DEF base
<1>2. ASSUME NEW k, NEW todo, NEW step
      PROVE  Low([base EXCEPT !.key = k, !.todo = todo, !.step = step], u)
  BY <1>1 DEF Low, Task
<1>3. PICK next \in Following(p, t) : Become(p, next) BY DEF Continue
<1>4. CASE \E k \in t.todo :
             next = [base EXCEPT !.key = k, !.todo = t.todo \ {k}, !.step = LoopBody(t.op)]
  BY <1>2, <1>3, <1>4, BecomeLow
<1>5. CASE \/ next = IdleTask
           \/ next = [IdleTask EXCEPT !.op = "cutoff", !.step = "cap"]
           \/ next = [IdleTask EXCEPT !.op = "autorenew", !.step = "scan"]
  <2>1. next.meter = IdleTask.meter BY <1>5 DEF IdleTask
  <2> QED BY <1>3, <2>1, IdleTaskLow, BecomeLow
<1> QED BY <1>3, <1>4, <1>5 DEF Following, base

LEMMA LocalColumnsLow ==
  ASSUME NEW t \in Task, NEW u \in [Keys -> Nat], Low(t, u)
  PROVE  Low(LocalColumns(t), u)
BY IdleTaskLow DEF LocalColumns, Low, Task

LEMMA AfterReconcileLow ==
  ASSUME TypeInv, NEW u \in [Keys -> Nat], AllLow(u), NEW p \in Procs, NEW t \in Task,
         Low(t, u), AfterReconcile(p, t)
  PROVE  AllLow(u)'
BY LocalColumnsLow, BecomeLow, ContinueLow DEF AfterReconcile

LEMMA GrantedLow ==
  ASSUME NEW t \in Task, NEW u, Low(t, u), NEW k, NEW add
  PROVE  Low(Granted(t, k, add), u)
BY DEF Granted, Low, Task

\* A process keeps its counters or drops them; only a sync reads new ones.
LEMMA StepLow ==
  ASSUME TypeInv, NEW u \in [Keys -> Nat], AllLow(u), NEW p \in Procs, Step(p), u = Counters
  PROVE  AllLow(u)'
<1> DEFINE t == task[p]
<1>1. t \in Task /\ t \in WellFormed /\ Low(t, u)
  BY DEF TypeInv, TasksOK, WellFormed, AllLow
<1>2. CASE ReconcileStep(p)
  <2>1. Low([t EXCEPT !.step = "flag", !.seen[t.key] = keys[t.key]], u) BY <1>1 DEF Low, Task
  <2>2. Low([t EXCEPT !.step = "push", !.down = server.disabled], u) BY <1>1 DEF Low, Task
  <2>3. ASSUME NEW enabled, NEW status
        PROVE  Low([t EXCEPT !.step = "mark", !.enabled = enabled, !.status = status], u)
    BY <1>1 DEF Low, Task
  <2>4. /\ [t EXCEPT !.todo = Keys, !.seen = keys] \in Task
        /\ Low([t EXCEPT !.todo = Keys, !.seen = keys], u)
    BY <1>1 DEF Low, Task, TypeInv, DataOK
  <2>5. CASE Reload(p) BY <2>1, <2>5, BecomeLow DEF Reload
  <2>6. CASE ReadFlag(p) BY <2>2, <2>6, BecomeLow DEF ReadFlag
  <2>7. CASE Push(p) BY <1>1, <2>3, <2>7, BecomeLow, AfterReconcileLow DEF Push
  <2>8. CASE SetKeyEnabledStatus(p) BY <1>1, <2>8, AfterReconcileLow DEF SetKeyEnabledStatus
  <2>9. CASE ListKeys(p) BY <2>4, <2>9, ContinueLow DEF ListKeys
  <2> QED BY <1>2, <2>5, <2>6, <2>7, <2>8, <2>9 DEF ReconcileStep
<1>3. CASE SyncStep(p)
  <2>1. CASE ReadMetrics(p)
    <3> DEFINE n == [t EXCEPT !.todo = Keys, !.meter = [k \in Keys |-> outline[k].used]]
    <3>1. \A k \in Keys : outline[k].used \in Nat BY DEF TypeInv, DataOK
    <3>2. n \in Task BY <1>1, <3>1 DEF Task
    <3>3. n.meter = u BY <1>1 DEF Task, Counters
    <3>4. Low(n, u) BY <3>3 DEF Low
    <3> QED BY <2>1, <3>2, <3>4, ContinueLow DEF ReadMetrics
  <2>2. CASE UpsertKey(p)
    <3>1. Low([t EXCEPT !.step = "usage", !.seen[t.key] = keys[t.key]], u) BY <1>1 DEF Low, Task
    <3> QED BY <2>2, <3>1, BecomeLow DEF UpsertKey
  <2>3. CASE UpdateKeyUsage(p)
    <3>1. ASSUME NEW used PROVE Low([t EXCEPT !.step = "push", !.seen[t.key].used = used], u)
      BY <1>1 DEF Low, Task
    <3> QED BY <2>3, <3>1, BecomeLow DEF UpdateKeyUsage
  <2> QED BY <1>3, <2>1, <2>2, <2>3 DEF SyncStep
<1>4. CASE RenewStep(p)
  <2>1. ASSUME NEW step, NEW price PROVE Low([t EXCEPT !.step = step, !.newPrice = price], u)
    BY <1>1 DEF Low, Task
  <2>2. CASE ReadServerPrice(p) \/ SetRaisedPrice(p)
    BY <2>1, <2>2, BecomeLow DEF ReadServerPrice, SetRaisedPrice
  <2> QED BY <1>4, <2>2, GotoLow DEF RenewStep, SetKeyLimitAndEndDate, InsertRenewalLog
<1>5. CASE CronStep(p)
  <2>1. CASE StartRun(p)
    <3>1. [IdleTask EXCEPT !.op = "sync"] \in Task
      BY IdleTaskWellFormed DEF WellFormed, Task, Ops
    <3>2. Low([IdleTask EXCEPT !.op = "sync"], u) BY IdleTaskLow DEF IdleTask
    <3>3. Low([IdleTask EXCEPT !.op = "sync", !.step = "metrics", !.down = server.disabled], u)
      BY IdleTaskLow DEF IdleTask
    <3> QED BY <2>1, <3>1, <3>2, <3>3, BecomeLow, ContinueLow DEF StartRun, BeginSync
  <2>2. CASE CheckCap(p) BY <1>1, <2>2, GotoLow, ContinueLow DEF CheckCap
  <2>3. CASE MeasureUsage(p) BY <1>1, <2>3, GotoLow, ContinueLow DEF MeasureUsage
  <2>4. CASE SetServerBandwidthDisabled(p)
    <3>1. Low([t EXCEPT !.step = "keys", !.down = TRUE], u) BY <1>1 DEF Low, Task
    <3> QED BY <2>4, <3>1, BecomeLow DEF SetServerBandwidthDisabled
  <2>5. CASE ScanAutoRenew(p)
    <3> DEFINE next == [t EXCEPT !.todo = {k \in Keys : AutoRenewable(k)}]
    <3>1. next \in Task /\ Low(next, u) BY <1>1 DEF Low, Task
    <3> QED BY <2>5, <3>1, ContinueLow DEF ScanAutoRenew
  <2>6. CASE LookUpDefault(p)
    <3>1. Low([t EXCEPT !.step = "grant", !.add = AutoRenewAllowance(t)], u)
      BY <1>1 DEF Low, Task
    <3> QED BY <2>6, <3>1, BecomeLow DEF LookUpDefault
  <2>7. CASE GrantAutoRenewal(p) BY <1>1, <2>7, GrantedLow, BecomeLow DEF GrantAutoRenewal
  <2> QED BY <1>5, <2>1, <2>2, <2>3, <2>4, <2>5, <2>6, <2>7 DEF CronStep
<1>6. CASE HandlerStep(p)
  <2>1. CASE SetKeyPrice(p)
    <3>1. [t EXCEPT !.newPrice = {}] \in Task /\ Low([t EXCEPT !.newPrice = {}], u)
      BY <1>1 DEF Low, Task
    <3> QED BY <2>1, <3>1, LocalColumnsLow, BecomeLow DEF SetKeyPrice
  <2>2. CASE SetKeyAutoRenew(p) \/ SetServerDefaultLimit(p)
    BY <2>2, IdleTaskLow, BecomeLow, GotoLow DEF SetKeyAutoRenew, SetServerDefaultLimit
  <2>3. CASE ClearServerBandwidthDisabled(p)
    BY <2>3, GotoLow DEF ClearServerBandwidthDisabled
  <2>4. CASE RefetchServer(p)
    <3>1. Low([t EXCEPT !.step = "keys", !.down = server.disabled], u) BY <1>1 DEF Low, Task
    <3> QED BY <2>4, <3>1, BecomeLow DEF RefetchServer
  <2>5. CASE ApplyDefaultLimitToUnlimitedKeys(p)
    <3>1. /\ [t EXCEPT !.todo = UnlimitedKeys] \in Task
          /\ Low([t EXCEPT !.todo = UnlimitedKeys], u)
      BY <1>1 DEF Low, Task, UnlimitedKeys
    <3> QED BY <2>5, <3>1, ContinueLow DEF ApplyDefaultLimitToUnlimitedKeys
  <2> QED BY <1>6, <2>1, <2>2, <2>3, <2>4, <2>5 DEF HandlerStep
<1>7. CASE ServerGone(p) BY <1>1, <1>7, ContinueLow DEF ServerGone, GiveUp
<1> QED BY <1>2, <1>3, <1>4, <1>5, <1>6, <1>7 DEF Step

\* A request starts without counters.
LEMMA ArrivalLow ==
  ASSUME TypeInv, NEW u \in [Keys -> Nat], AllLow(u), NEW r \in Procs, Arrival(r)
  PROVE  AllLow(u)'
<1>1. IdleTask \in Task /\ Low(IdleTask, u)
  BY IdleTaskWellFormed, IdleTaskLow DEF WellFormed
<1>2. ASSUME NEW handler, NEW t, Low(t, u), Receive(r, handler, t) PROVE AllLow(u)'
  BY <1>2, BecomeLow DEF Receive
<1>3. ASSUME NEW k, NEW add, ReceiveRenew(r, k, add) PROVE AllLow(u)'
  <2>1. [IdleTask EXCEPT !.op = "renew"] \in Task BY <1>1 DEF Task, Ops, AllHandlers
  <2>2. Low([IdleTask EXCEPT !.op = "renew"], u) BY IdleTaskLow DEF IdleTask
  <2> QED BY <1>2, <1>3, <2>1, <2>2, GrantedLow DEF ReceiveRenew
<1>4. ASSUME NEW k, NEW limit, NEW days, NEW price, NEW auto,
             ReceiveEdit(r, k, limit, days, price, auto)
      PROVE  AllLow(u)'
  <2> DEFINE plan  == EditedPlan(keys[k], limit, days)
             asked == (IF limit = {} THEN {} ELSE {"limit"}) \cup (IF days = {} THEN {} ELSE {"end"})
             t == [IdleTask EXCEPT !.op = "edit", !.step = "save", !.key = k,
                                   !.limit = plan.limit, !.end = plan.end, !.asked = asked,
                                   !.newPrice = price, !.newAuto = auto]
  <2> HIDE DEF plan, asked
  <2>1. t.meter = IdleTask.meter BY DEF IdleTask
  <2>2. ASSUME NEW step PROVE [t EXCEPT !.step = step].meter = IdleTask.meter BY DEF IdleTask
  <2>3. LocalColumns(t).meter = IdleTask.meter BY <2>2 DEF LocalColumns
  <2>4. Receive(r, "edit", t) \/ Receive(r, "edit", LocalColumns(t))
    BY <1>4 DEF ReceiveEdit, plan, asked
  <2> HIDE DEF t
  <2> QED BY <1>2, <2>1, <2>3, <2>4, IdleTaskLow
<1>5. CASE ReceiveSync(r) \/ ReceiveReenable(r)
  <2>1. [IdleTask EXCEPT !.op = "sync", !.step = "metrics", !.down = server.disabled].meter
          = IdleTask.meter BY DEF IdleTask
  <2>2. [IdleTask EXCEPT !.op = "reenable", !.step = "clear"].meter = IdleTask.meter
    BY DEF IdleTask
  <2> QED BY <1>2, <1>5, <2>1, <2>2, IdleTaskLow DEF ReceiveSync, ReceiveReenable
<1>6. ASSUME NEW limit, NEW apply, ReceiveDefault(r, limit, apply) PROVE AllLow(u)'
  <2> DEFINE asked == IF apply THEN {"limit"} ELSE {}
  <2> HIDE DEF asked
  <2>1. [IdleTask EXCEPT !.op = "default", !.step = "setDefault", !.limit = limit,
                         !.asked = asked].meter = IdleTask.meter
    BY DEF IdleTask
  <2> QED BY <1>2, <1>6, <2>1, IdleTaskLow DEF ReceiveDefault, asked
<1> QED BY <1>3, <1>4, <1>5, <1>6 DEF Arrival

LEMMA NextLow ==
  ASSUME TypeInv, NEW u \in [Keys -> Nat], AllLow(u), [Next]_vars, u = Counters
  PROVE  AllLow(u)'
<1>1. ASSUME NEW p \in Procs, Step(p) PROVE AllLow(u)' BY <1>1, StepLow
<1>2. ASSUME NEW r \in Requests, Arrival(r) PROVE AllLow(u)' BY <1>2, ArrivalLow DEF Procs
<1>3. ASSUME NEW p \in Procs, Fail(p) PROVE AllLow(u)'
  <2>1. task[p] \in Task /\ Low(task[p], u) BY DEF TypeInv, TasksOK, WellFormed, AllLow
  <2> QED BY <1>3, <2>1, ContinueLow DEF Fail
<1>4. ASSUME NEW c \in CronRuns, FailLookUp(c) PROVE AllLow(u)'
  <2> DEFINE t   == task[c]
             add == IF t.add = None THEN MinPlanData ELSE t.add
  <2>1. c \in Procs BY DEF Procs
  <2>2. t \in Task /\ Low(t, u) BY <2>1 DEF TypeInv, TasksOK, WellFormed, AllLow
  <2> HIDE DEF add
  <2>3. Low([t EXCEPT !.step = "grant", !.add = add], u) BY <2>2 DEF Low, Task
  <2> QED BY <1>4, <2>1, <2>3, BecomeLow DEF FailLookUp, add
<1>5. CASE Crash
  <2>1. \A p \in Procs : task'[p] = IdleTask BY <1>5 DEF Crash
  <2>2. Low(IdleTask, u) BY IdleTaskLow
  <2> QED BY <2>1, <2>2 DEF AllLow, Low
<1>6. CASE ArchiveServer \/ (\E k \in Keys : Traffic(k)) \/ Tick \/ UNCHANGED vars
  <2>1. UNCHANGED task BY <1>6, Zenon DEF ArchiveServer, Traffic, Tick, vars
  <2> QED BY <2>1 DEF AllLow, Low
<1> QED BY <1>1, <1>2, <1>3, <1>4, <1>5, <1>6 DEF Next

\* Outline's counters never go back.
LEMMA CountersGrow ==
  ASSUME TypeInv, [Next]_vars, NEW k \in Keys
  PROVE  outline'[k].used \in Nat /\ outline'[k].used >= outline[k].used
<1>1. outline \in [Keys -> [limit: NatOrNone, used: Nat]] BY DEF TypeInv, DataOK
<1>2. ASSUME UNCHANGED outline
      PROVE  outline'[k].used \in Nat /\ outline'[k].used >= outline[k].used
  BY <1>1, <1>2
<1>3. ASSUME NEW j, NEW limit, outline' = [outline EXCEPT ![j].limit = limit]
      PROVE  outline'[k].used \in Nat /\ outline'[k].used >= outline[k].used
  BY <1>1, <1>3
<1>4. ASSUME NEW j \in Keys, Traffic(j)
      PROVE  outline'[k].used \in Nat /\ outline'[k].used >= outline[k].used
  BY <1>1, <1>4 DEF Traffic
<1>5. ASSUME NEW p \in Procs, Step(p)
      PROVE  UNCHANGED outline \/ Push(p)
  <2>1. ReconcileStep(p) => UNCHANGED outline \/ Push(p)
    BY Zenon DEF ReconcileStep, Reload, ReadFlag, SetKeyEnabledStatus, ListKeys
  <2>2. SyncStep(p) => UNCHANGED outline
    BY Zenon DEF SyncStep, ReadMetrics, UpsertKey, UpdateKeyUsage
  <2>3. RenewStep(p) => UNCHANGED outline
    BY Zenon DEF RenewStep, SetKeyLimitAndEndDate, ReadServerPrice, SetRaisedPrice,
                 InsertRenewalLog
  <2>4. CronStep(p) => UNCHANGED outline
    BY Zenon DEF CronStep, StartRun, CheckCap, MeasureUsage, SetServerBandwidthDisabled,
                 ScanAutoRenew, LookUpDefault, GrantAutoRenewal
  <2>5. HandlerStep(p) => UNCHANGED outline
    BY Zenon DEF HandlerStep, SetKeyPrice, SetKeyAutoRenew, ClearServerBandwidthDisabled,
                 RefetchServer, SetServerDefaultLimit, ApplyDefaultLimitToUnlimitedKeys
  <2>6. ServerGone(p) => UNCHANGED outline BY Zenon DEF ServerGone
  <2> QED BY <1>5, <2>1, <2>2, <2>3, <2>4, <2>5, <2>6 DEF Step
<1>6. ASSUME NEW p \in Procs, Push(p)
      PROVE  outline'[k].used \in Nat /\ outline'[k].used >= outline[k].used
  BY <1>3, <1>6 DEF Push
<1>7. ASSUME NEW p \in Procs, Fail(p)
      PROVE  outline'[k].used \in Nat /\ outline'[k].used >= outline[k].used
  <2>1. UNCHANGED outline
          \/ outline' = [outline EXCEPT ![task[p].key].limit =
                           PushedLimit(task[p].seen[task[p].key], task[p].down)]
    <3>1. UNCHANGED outline \/ CarriedOut(p) BY <1>7 DEF Fail
    <3> QED BY <3>1, Zenon DEF CarriedOut
  <2> QED BY <1>2, <1>3, <2>1
<1>8. ASSUME NEW r \in Requests, Arrival(r) PROVE UNCHANGED outline
  <2>1. ASSUME NEW j, NEW limit, NEW days, NEW price, NEW auto,
               ReceiveEdit(r, j, limit, days, price, auto)
        PROVE  UNCHANGED outline
    BY <2>1 DEF ReceiveEdit
  <2>2. ASSUME NEW j, NEW add, ReceiveRenew(r, j, add) PROVE UNCHANGED outline
    BY <2>2 DEF ReceiveRenew
  <2>3. ASSUME NEW limit, NEW apply, ReceiveDefault(r, limit, apply) PROVE UNCHANGED outline
    BY <2>3 DEF ReceiveDefault
  <2>4. ReceiveSync(r) \/ ReceiveReenable(r) => UNCHANGED outline
    BY DEF ReceiveSync, ReceiveReenable
  <2> QED BY <1>8, <2>1, <2>2, <2>3, <2>4, Zenon DEF Arrival
<1>9. ASSUME (\E c \in CronRuns : FailLookUp(c)) \/ ArchiveServer \/ Tick \/ Crash \/ UNCHANGED vars
      PROVE  UNCHANGED outline
  BY <1>9, Zenon DEF FailLookUp, ArchiveServer, Tick, Crash, vars
<1> QED BY <1>2, <1>4, <1>5, <1>6, <1>7, <1>8, <1>9 DEF Next

\* Only a sync writes usage, from the counters it holds.
LEMMA UsageWriters ==
  ASSUME TypeInv, [Next]_vars, NEW k \in Keys
  PROVE  \/ keys'[k].used = keys[k].used
         \/ \E p \in Procs : keys'[k].used = task[p].meter[k]
<1>1. keys \in [Keys -> KeyRow] /\ keys[k] \in KeyRow BY DEF TypeInv, DataOK
<1> DEFINE Kept == keys'[k].used = keys[k].used
<1>2. UNCHANGED keys => Kept OBVIOUS
<1>3. ASSUME NEW j, NEW enabled, NEW status,
             keys' = [keys EXCEPT ![j].enabled = enabled, ![j].status = status]
      PROVE  Kept
  BY <1>1, <1>3 DEF KeyRow
<1>4. ASSUME NEW j, NEW limit, NEW end, keys' = [keys EXCEPT ![j].limit = limit, ![j].end = end]
      PROVE  Kept
  BY <1>1, <1>4 DEF KeyRow
<1>5. ASSUME NEW j, NEW price, keys' = [keys EXCEPT ![j].price = price] PROVE Kept
  BY <1>1, <1>5 DEF KeyRow
<1>6. ASSUME NEW j, NEW auto, keys' = [keys EXCEPT ![j].autoRenew = auto] PROVE Kept
  BY <1>1, <1>6 DEF KeyRow
<1>7. ASSUME NEW limit, keys' = OnDefaultLimit(limit) PROVE Kept
  BY <1>1, <1>7 DEF OnDefaultLimit, KeyRow
<1>8. ASSUME NEW p \in Procs,
             keys' = [keys EXCEPT ![task[p].key].used = task[p].meter[task[p].key]]
      PROVE  Kept \/ keys'[k].used = task[p].meter[k]
  <2>1. CASE k = task[p].key BY <1>1, <1>8, <2>1 DEF KeyRow
  <2>2. CASE k # task[p].key BY <1>1, <1>8, <2>2
  <2> QED BY <2>1, <2>2
<1> HIDE DEF Kept
<1>9. ASSUME NEW p \in Procs, Step(p)
      PROVE  \/ UNCHANGED keys
             \/ SetKeyEnabledStatus(p) \/ UpdateKeyUsage(p) \/ SetKeyLimitAndEndDate(p)
             \/ SetRaisedPrice(p) \/ SetKeyPrice(p) \/ SetKeyAutoRenew(p)
             \/ ApplyDefaultLimitToUnlimitedKeys(p)
  <2>1. ReconcileStep(p) => UNCHANGED keys \/ SetKeyEnabledStatus(p)
    BY Zenon DEF ReconcileStep, Reload, ReadFlag, Push, ListKeys, db
  <2>2. SyncStep(p) => UNCHANGED keys \/ UpdateKeyUsage(p)
    BY Zenon DEF SyncStep, ReadMetrics, UpsertKey, db
  <2>3. RenewStep(p) => UNCHANGED keys \/ SetKeyLimitAndEndDate(p) \/ SetRaisedPrice(p)
    BY Zenon DEF RenewStep, ReadServerPrice, InsertRenewalLog, db
  <2>4. CronStep(p) => UNCHANGED keys
    BY Zenon DEF CronStep, StartRun, CheckCap, MeasureUsage, SetServerBandwidthDisabled,
                 ScanAutoRenew, LookUpDefault, GrantAutoRenewal, db
  <2>5. HandlerStep(p) => UNCHANGED keys \/ SetKeyPrice(p) \/ SetKeyAutoRenew(p)
                            \/ ApplyDefaultLimitToUnlimitedKeys(p)
    BY Zenon DEF HandlerStep, ClearServerBandwidthDisabled, RefetchServer, SetServerDefaultLimit, db
  <2>6. ServerGone(p) => UNCHANGED keys BY Zenon DEF ServerGone, db
  <2> QED BY <1>9, <2>1, <2>2, <2>3, <2>4, <2>5, <2>6 DEF Step
<1>10. ASSUME NEW p \in Procs, SetKeyEnabledStatus(p) \/ SetKeyLimitAndEndDate(p) PROVE Kept
  BY <1>3, <1>4, <1>10 DEF SetKeyEnabledStatus, SetKeyLimitAndEndDate
<1>11. ASSUME NEW p \in Procs, SetRaisedPrice(p) \/ SetKeyPrice(p) PROVE Kept
  BY <1>5, <1>11 DEF SetRaisedPrice, SetKeyPrice
<1>12. ASSUME NEW p \in Procs, SetKeyAutoRenew(p) \/ ApplyDefaultLimitToUnlimitedKeys(p)
       PROVE  Kept
  BY <1>6, <1>7, <1>12 DEF SetKeyAutoRenew, ApplyDefaultLimitToUnlimitedKeys
<1>13. ASSUME NEW p \in Procs, UpdateKeyUsage(p) PROVE Kept \/ keys'[k].used = task[p].meter[k]
  BY <1>8, <1>13 DEF UpdateKeyUsage
<1>14. ASSUME NEW p \in Procs, Fail(p) PROVE Kept \/ keys'[k].used = task[p].meter[k]
  <2>1. UNCHANGED keys \/ CarriedOut(p) BY <1>14 DEF Fail, db
  <2>2. CASE CarriedOut(p)
    <3> DEFINE t == task[p]
               k0 == t.key
    <3>1. \/ UNCHANGED keys
          \/ keys' = [keys EXCEPT ![k0].used = t.meter[k0]]
          \/ keys' = [keys EXCEPT ![k0].enabled = t.enabled, ![k0].status = t.status]
          \/ \E price : keys' = [keys EXCEPT ![k0].price = price]
          \/ \E auto : keys' = [keys EXCEPT ![k0].autoRenew = auto]
          \/ keys' = OnDefaultLimit(t.limit)
          \/ keys' = [keys EXCEPT ![k0].limit = t.limit, ![k0].end = t.end]
      BY <2>2, Zenon DEF CarriedOut, db
    <3>2. keys' = [keys EXCEPT ![k0].used = t.meter[k0]] => Kept \/ keys'[k].used = task[p].meter[k]
      BY <1>8
    <3>3. keys' = [keys EXCEPT ![k0].enabled = t.enabled, ![k0].status = t.status] => Kept
      BY <1>3
    <3>4. keys' = [keys EXCEPT ![k0].limit = t.limit, ![k0].end = t.end] => Kept BY <1>4
    <3> QED BY <1>2, <1>5, <1>6, <1>7, <3>1, <3>2, <3>3, <3>4
  <2> QED BY <1>2, <2>1, <2>2
<1>15. ASSUME NEW r \in Requests, Arrival(r) PROVE UNCHANGED keys
  BY <1>15, ArrivalOnlyReads DEF db
<1>16. ASSUME \/ \E c \in CronRuns : FailLookUp(c)
              \/ \E j \in Keys : Traffic(j)
              \/ ArchiveServer \/ Tick \/ Crash \/ UNCHANGED vars
       PROVE  UNCHANGED keys
  BY <1>16, Zenon DEF FailLookUp, ArchiveServer, Traffic, Tick, Crash, vars, db
<1> QED BY <1>2, <1>9, <1>10, <1>11, <1>12, <1>13, <1>14, <1>15, <1>16 DEF Next, Kept

LEMMA NextUsageInv == UsageInv /\ [Next]_vars => UsageInv'
<1> SUFFICES ASSUME UsageInv, [Next]_vars PROVE UsageInv' OBVIOUS
<1>1. TypeInv /\ TypeInv' BY NextTypeInv DEF UsageInv
<1>2. \A k \in Keys : keys[k].used \in Nat /\ outline[k].used \in Nat
  BY <1>1 DEF TypeInv, DataOK, KeyRow
<1>3. PICK u \in [Keys -> Nat] : u = Counters BY <1>2 DEF Counters
<1>4. AllLow(u) /\ AllLow(u)' BY <1>1, <1>3, NextLow DEF UsageInv
<1>5. \A k \in Keys : /\ outline'[k].used \in Nat /\ outline'[k].used >= u[k]
                      /\ u[k] = outline[k].used
  BY <1>1, <1>3, CountersGrow DEF Counters
<1>6. AllLow(Counters)'
  <2> SUFFICES ASSUME NEW p \in Procs, NEW k \in Keys
               PROVE  task'[p].meter[k] <= outline'[k].used
    BY DEF AllLow, Low, Counters
  <2>1. task'[p].meter[k] <= u[k] BY <1>4 DEF AllLow, Low
  <2>2. task'[p].meter[k] \in Nat BY <1>1 DEF TypeInv, TasksOK, WellFormed, Task
  <2> QED BY <1>5, <2>1, <2>2
<1>7. UsageNotAhead'
  <2> SUFFICES ASSUME NEW k \in Keys PROVE keys'[k].used <= outline'[k].used
    BY DEF UsageNotAhead
  <2>1. CASE keys'[k].used = keys[k].used
    BY <1>2, <1>5, <2>1 DEF UsageInv, UsageNotAhead
  <2>2. ASSUME NEW p \in Procs, keys'[k].used = task[p].meter[k]
        PROVE  keys'[k].used <= outline'[k].used
    <3>1. task[p].meter[k] <= u[k] BY <1>4 DEF AllLow, Low
    <3>2. task[p].meter[k] \in Nat BY <1>1 DEF TypeInv, TasksOK, WellFormed, Task
    <3> QED BY <1>5, <2>2, <3>1, <3>2
  <2> QED BY <1>1, <2>1, <2>2, UsageWriters
<1> QED BY <1>1, <1>6, <1>7 DEF UsageInv

\* However many syncs overlap, in whatever order they write what they have read,
\* and whatever fails: the database never has more usage for a key than Outline
\* has counted (SyncServer writes the counters it read, updateKeyUsage), so that
\* no key is cut off for data that was not used.
THEOREM UsageNeverAhead == Spec => []UsageNotAhead
<1>1. Init => UsageInv
  <2> SUFFICES ASSUME Init PROVE UsageInv OBVIOUS
  <2>1. TypeInv BY InitTypeInv
  <2>2. \A k \in Keys : keys[k].used \in Nat /\ outline[k].used = keys[k].used
    BY <2>1 DEF Init, TypeInv, DataOK, KeyRow
  <2>3. Counters \in [Keys -> Nat] BY <2>2 DEF Counters
  <2>4. \A p \in Procs : task[p] = IdleTask BY DEF Init
  <2>5. AllLow(Counters) BY <2>3, <2>4, IdleTaskLow DEF AllLow
  <2> QED BY <2>1, <2>2, <2>5 DEF UsageInv, UsageNotAhead
<1>2. UsageInv => UsageNotAhead BY DEF UsageInv
<1> QED BY <1>1, <1>2, NextUsageInv, PTL DEF Spec

-----------------------------------------------------------------------------
(* Renewals are logged *)

\* A process that has saved a renewal of key k and has yet to log it.
Owes(t, k) == t.key = k /\ Renews(t) /\ t.step \in {"price", "raise", "log"}

Logged == failures = 0 => \A k \in unlogged : \E p \in Procs : Owes(task[p], k)

LoggedInv == TypeInv /\ ~server.archived /\ Logged

\* A step of p that logs nothing keeps the debts of the others.
LEMMA KeepsDebts ==
  ASSUME LoggedInv, NEW p \in Procs, NEW n, Become(p, n), failures' = failures,
         \A k \in unlogged' : \/ Owes(n, k)
                              \/ k \in unlogged /\ ~Owes(task[p], k)
  PROVE  Logged'
<1>1. task'[p] = n /\ \A q \in Procs \ {p} : task'[q] = task[q]
  BY DEF Become, LoggedInv, TypeInv, TasksOK
<1> SUFFICES ASSUME failures' = 0, NEW k \in unlogged'
             PROVE  \E q \in Procs : Owes(task'[q], k)
  BY DEF Logged, Owes, Renews
<1>2. CASE Owes(n, k) BY <1>1, <1>2
<1>3. CASE k \in unlogged /\ ~Owes(task[p], k)
  <2>1. PICK q \in Procs : Owes(task[q], k) BY <1>3 DEF LoggedInv, Logged
  <2> QED BY <1>1, <1>3, <2>1
<1> QED BY <1>2, <1>3

\* In particular a step from which nothing was owed.
LEMMA OwesNothing ==
  ASSUME LoggedInv, NEW p \in Procs, UNCHANGED <<unlogged, failures>>, \E n : Become(p, n),
         task[p].step \notin {"price", "raise", "log"} \/ ~Renews(task[p])
  PROVE  Logged'
BY KeepsDebts DEF Owes

\* Every step of a process makes it something.
LEMMA StepBecomes ==
  /\ \A p, t : Continue(p, t) => \E n : Become(p, n)
  /\ \A p, t : AfterReconcile(p, t) => \E n : Become(p, n)
  /\ \A p, step : Goto(p, step) => \E n : Become(p, n)
<1>1. \A p, t : Continue(p, t) => \E n : Become(p, n) BY DEF Continue
<1> QED BY <1>1 DEF AfterReconcile, Goto

LEMMA RenewLogged ==
  ASSUME LoggedInv, NEW p \in Procs, RenewStep(p)
  PROVE  Logged'
<1>1. task[p] \in Task BY DEF LoggedInv, TypeInv, TasksOK, WellFormed
<1>2. PICK t \in Task : t = task[p] BY <1>1
<1>3. UNCHANGED failures
  BY Zenon DEF RenewStep, SetKeyLimitAndEndDate, ReadServerPrice, SetRaisedPrice,
               InsertRenewalLog, budget
<1>4. CASE SetKeyLimitAndEndDate(p)
  <2>1. PICK n : n = [t EXCEPT !.step = IF Renews(t) THEN "price" ELSE "log"] OBVIOUS
  <2>2. /\ t.step = "save" /\ Become(p, n)
        /\ unlogged' = IF Renews(t) THEN unlogged \cup {t.key} ELSE unlogged
    BY <1>2, <1>4, <2>1 DEF SetKeyLimitAndEndDate, At, Goto
  <2>3. n.key = t.key /\ n.op = t.op /\ n.step = IF Renews(t) THEN "price" ELSE "log"
    BY <2>1 DEF Task
  <2>4. \A k \in unlogged' : Owes(n, k) \/ (k \in unlogged /\ ~Owes(t, k))
    BY <2>2, <2>3 DEF Owes, Renews
  <2> QED BY <1>2, <1>3, <2>2, <2>4, KeepsDebts
<1>5. ASSUME ReadServerPrice(p) \/ SetRaisedPrice(p) PROVE Logged'
  <2>1. PICK n : /\ Become(p, n)
                 /\ \/ n = [t EXCEPT !.step = "raise", !.newPrice = {DefaultPrice}]
                    \/ n = [t EXCEPT !.step = "log", !.newPrice = {}]
    BY <1>2, <1>5 DEF ReadServerPrice, SetRaisedPrice
  <2>2. n.key = t.key /\ n.op = t.op /\ n.step \in {"raise", "log"} BY <2>1 DEF Task
  <2>3. UNCHANGED unlogged BY <1>5 DEF ReadServerPrice, SetRaisedPrice, ghosts
  <2>4. t.step \in {"price", "raise"} BY <1>2, <1>5 DEF ReadServerPrice, SetRaisedPrice, At
  <2>5. \A k \in unlogged' : Owes(n, k) \/ (k \in unlogged /\ ~Owes(t, k))
    BY <2>2, <2>3, <2>4 DEF Owes, Renews
  <2> QED BY <1>2, <1>3, <2>1, <2>5, KeepsDebts
<1>6. CASE InsertRenewalLog(p)
  <2>1. PICK n : n = [t EXCEPT !.step = "reload"] OBVIOUS
  <2>2. /\ t.step = "log" /\ Become(p, n)
        /\ unlogged' = IF Renews(t) THEN unlogged \ {t.key} ELSE unlogged
    BY <1>2, <1>6, <2>1 DEF InsertRenewalLog, At, Goto
  <2>3. \A k \in unlogged' : k \in unlogged /\ ~Owes(t, k) BY <2>2 DEF Owes
  <2> QED BY <1>2, <1>3, <2>2, <2>3, KeepsDebts
<1> QED BY <1>4, <1>5, <1>6 DEF RenewStep

LEMMA StepLogged ==
  ASSUME LoggedInv, NEW p \in Procs, Step(p)
  PROVE  Logged'
<1>1. CASE ReconcileStep(p)
  <2>1. task[p].step \notin {"price", "raise", "log"} /\ UNCHANGED <<unlogged, failures>>
    BY <1>1 DEF ReconcileStep, Reload, ReadFlag, Push, SetKeyEnabledStatus, ListKeys, At, ghosts,
                budget
  <2>2. \E n : Become(p, n)
    BY <1>1, StepBecomes DEF ReconcileStep, Reload, ReadFlag, Push, SetKeyEnabledStatus, ListKeys
  <2> QED BY <2>1, <2>2, OwesNothing
<1>2. CASE SyncStep(p)
  <2>1. task[p].step \notin {"price", "raise", "log"} /\ UNCHANGED <<unlogged, failures>>
    BY <1>2 DEF SyncStep, ReadMetrics, UpsertKey, UpdateKeyUsage, At, ghosts, budget
  <2>2. \E n : Become(p, n)
    BY <1>2, StepBecomes DEF SyncStep, ReadMetrics, UpsertKey, UpdateKeyUsage
  <2> QED BY <2>1, <2>2, OwesNothing
<1>3. CASE CronStep(p)
  <2>1. task[p].step \notin {"price", "raise", "log"} \/ ~Renews(task[p])
    BY <1>3 DEF CronStep, StartRun, CheckCap, MeasureUsage, SetServerBandwidthDisabled,
                ScanAutoRenew, LookUpDefault, GrantAutoRenewal, At, MayStart, Idle, Renews
  <2>2. UNCHANGED <<unlogged, failures>>
    BY <1>3 DEF CronStep, StartRun, CheckCap, MeasureUsage, SetServerBandwidthDisabled,
                ScanAutoRenew, LookUpDefault, GrantAutoRenewal, ghosts, budget
  <2>3. \E n : Become(p, n)
    BY <1>3, StepBecomes
       DEF CronStep, StartRun, BeginSync, CheckCap, MeasureUsage, SetServerBandwidthDisabled,
           ScanAutoRenew, LookUpDefault, GrantAutoRenewal
  <2> QED BY <2>1, <2>2, <2>3, OwesNothing
<1>4. CASE HandlerStep(p)
  <2>1. task[p].step \notin {"price", "raise", "log"} /\ UNCHANGED <<unlogged, failures>>
    BY <1>4 DEF HandlerStep, SetKeyPrice, SetKeyAutoRenew, ClearServerBandwidthDisabled,
                RefetchServer, SetServerDefaultLimit, ApplyDefaultLimitToUnlimitedKeys, At, ghosts,
                budget
  <2>2. \E n : Become(p, n)
    BY <1>4, StepBecomes
       DEF HandlerStep, SetKeyPrice, SetKeyAutoRenew, ClearServerBandwidthDisabled,
           RefetchServer, SetServerDefaultLimit, ApplyDefaultLimitToUnlimitedKeys
  <2> QED BY <2>1, <2>2, OwesNothing
<1>5. ~ServerGone(p) BY DEF ServerGone, LoggedInv
<1> QED BY <1>1, <1>2, <1>3, <1>4, <1>5, RenewLogged DEF Step

LEMMA ArrivalLogged ==
  ASSUME LoggedInv, NEW r \in Procs, Arrival(r)
  PROVE  Logged'
<1>1. ASSUME NEW handler, NEW t, Receive(r, handler, t), UNCHANGED <<unlogged, failures>>
      PROVE  Logged'
  <2>1. ~Renews(task[r]) BY <1>1 DEF Receive, MayStart, Idle, Renews
  <2> QED BY <1>1, <2>1, OwesNothing DEF Receive
<1>2. ASSUME NEW k, NEW add, ReceiveRenew(r, k, add) PROVE Logged'
  BY <1>1, <1>2 DEF ReceiveRenew, ghosts
<1>3. ASSUME NEW k, NEW limit, NEW days, NEW price, NEW auto,
             ReceiveEdit(r, k, limit, days, price, auto)
      PROVE  Logged'
  BY <1>1, <1>3 DEF ReceiveEdit, ghosts
<1>4. ReceiveSync(r) \/ ReceiveReenable(r) => Logged'
  BY <1>1 DEF ReceiveSync, ReceiveReenable, ghosts
<1>5. ASSUME NEW limit, NEW apply, ReceiveDefault(r, limit, apply) PROVE Logged'
  BY <1>1, <1>5 DEF ReceiveDefault, ghosts
<1> QED BY <1>2, <1>3, <1>4, <1>5 DEF Arrival

\* Only a deletion archives a server.
LEMMA Archivers ==
  ASSUME TypeInv, ~server.archived, "archive" \notin Handlers, [Next]_vars
  PROVE  ~server'.archived
<1>1. server \in ServerRow BY DEF TypeInv, DataOK
<1> SUFFICES ASSUME server' # server PROVE ~server'.archived OBVIOUS
<1>2. ASSUME NEW p \in Procs, Step(p) PROVE ~server'.archived
  <2>1. ~ReconcileStep(p)
    BY Zenon DEF ReconcileStep, Reload, ReadFlag, Push, SetKeyEnabledStatus, ListKeys, db
  <2>2. ~SyncStep(p) BY Zenon DEF SyncStep, ReadMetrics, UpsertKey, UpdateKeyUsage, db
  <2>3. ~RenewStep(p)
    BY Zenon DEF RenewStep, SetKeyLimitAndEndDate, ReadServerPrice, SetRaisedPrice,
                 InsertRenewalLog, db
  <2>4. CronStep(p) => SetServerBandwidthDisabled(p)
    BY Zenon DEF CronStep, StartRun, CheckCap, MeasureUsage, ScanAutoRenew, LookUpDefault,
                 GrantAutoRenewal, db
  <2>5. HandlerStep(p) => ClearServerBandwidthDisabled(p) \/ SetServerDefaultLimit(p)
    BY Zenon DEF HandlerStep, SetKeyPrice, SetKeyAutoRenew, RefetchServer,
                 ApplyDefaultLimitToUnlimitedKeys, db
  <2>6. ~ServerGone(p) BY DEF ServerGone
  <2>7. \/ SetServerBandwidthDisabled(p) \/ ClearServerBandwidthDisabled(p)
        \/ SetServerDefaultLimit(p)
    BY <1>2, <2>1, <2>2, <2>3, <2>4, <2>5, <2>6 DEF Step
  <2>8. server'.archived = server.archived
    BY <1>1, <2>7 DEF SetServerBandwidthDisabled, ClearServerBandwidthDisabled,
                      SetServerDefaultLimit, ServerRow
  <2> QED BY <2>8
<1>3. ASSUME NEW r \in Requests, Arrival(r) PROVE FALSE BY <1>3, ArrivalOnlyReads DEF db
<1>4. ASSUME \/ \E c \in CronRuns : FailLookUp(c)
             \/ \E k \in Keys : Traffic(k)
             \/ Tick \/ Crash \/ UNCHANGED vars
      PROVE  UNCHANGED server
  BY <1>4, Zenon DEF FailLookUp, Traffic, Tick, Crash, vars, db
<1>5. ~ArchiveServer BY DEF ArchiveServer
<1>6. ASSUME NEW p \in Procs, Fail(p) PROVE ~server'.archived
  <2>1. CarriedOut(p) BY <1>6 DEF Fail, db
  <2> QED BY <1>1, <2>1 DEF CarriedOut, db, ServerRow
<1> QED BY <1>2, <1>3, <1>4, <1>5, <1>6 DEF Next

LEMMA NextLogged == "archive" \notin Handlers /\ LoggedInv /\ [Next]_vars => LoggedInv'
<1> SUFFICES ASSUME "archive" \notin Handlers, LoggedInv, [Next]_vars PROVE Logged'
  BY NextTypeInv, Archivers DEF LoggedInv
<1>1. failures \in Nat BY DEF LoggedInv, TypeInv, DataOK
<1>2. ASSUME NEW p \in Procs, Step(p) PROVE Logged' BY <1>2, StepLogged
<1>3. ASSUME NEW r \in Requests, Arrival(r) PROVE Logged' BY <1>3, ArrivalLogged DEF Procs
<1>4. ASSUME (\E p \in Procs : Fail(p)) \/ (\E c \in CronRuns : FailLookUp(c)) \/ Crash
      PROVE  Logged'
  <2>1. failures' = failures + 1 BY <1>4, Zenon DEF Fail, FailLookUp, Crash
  <2> QED BY <1>1, <2>1 DEF Logged
<1>5. ASSUME (\E k \in Keys : Traffic(k)) \/ Tick \/ UNCHANGED vars PROVE Logged'
  <2>1. UNCHANGED <<task, unlogged, failures>>
    BY <1>5, Zenon DEF Traffic, Tick, vars, ghosts, budget
  <2> QED BY <2>1 DEF LoggedInv, Logged, Owes, Renews
<1>6. ~ArchiveServer BY DEF ArchiveServer
<1> QED BY <1>2, <1>3, <1>4, <1>5, <1>6 DEF Next

\* Whatever overlaps, as long as no server is archived and no call fails: a
\* renewal that was saved, by an admin or by the cron, has a row in the renewal
\* log by the time all is quiet ("Every auto-renewal is logged unpaid", RenewKey).
THEOREM RenewalsEndUpLogged ==
  ASSUME "archive" \notin Handlers
  PROVE  Spec => []RenewalsLogged
<1>1. LoggedInv /\ [Next]_vars => LoggedInv' BY NextLogged
<1>2. Init => LoggedInv BY InitTypeInv DEF Init, LoggedInv, Logged
<1>3. LoggedInv => RenewalsLogged
  BY DEF LoggedInv, Logged, RenewalsLogged, Owes, Renews, AllIdle, Idle
<1> QED BY <1>1, <1>2, <1>3, PTL DEF Spec
=============================================================================

---------------------------- MODULE Enforcement ----------------------------
(***************************************************************************)
(* The enforcement engine of one Outline server                            *)
(* (backend/internal/enforcement/enforcement.go, cron/cron.go and the      *)
(* handlers that call into it).                                            *)
(*                                                                         *)
(* The Go process runs cron runs and HTTP handlers as goroutines without   *)
(* any lock or transaction: every repository call is one SQL statement and *)
(* every Outline call one HTTP request, so each is one action here, and a  *)
(* value read by one is used by a later one however stale it has become.   *)
(* A process p keeps its local variables in task[p].                       *)
(***************************************************************************)
EXTENDS KeyPolicy, FiniteSets, FiniteSetsExt

CONSTANTS
  Keys,         \* the keys of the server
  CronRuns,     \* cron runs that can be in progress at once
  Requests,     \* admin requests that can be in progress at once
  Handlers,     \* the handlers the admins use, a subset of AllHandlers
  Overlap,      \* FALSE: an operation starts only when no other is running
  InitialKeys,  \* the rows the keys start from
  InitialDefault, \* the server's default_limit_bytes at the start
  Margin,       \* BandwidthDisableMarginBytes
  Cap,          \* the server's bandwidth_limit_bytes, None if unset
  MonthTicks,   \* clock ticks in a calendar month
  Allowances,   \* data allowances asked for by a renewal
  Limits,       \* total limits typed into an edit or a server default
  Terms,        \* days from now of the end dates typed into an edit
  Prices,       \* prices typed into an edit, None to clear the key's own
  Toggles,      \* auto_renew settings chosen in an edit
  DefaultPrice, \* the server's default_price_mmk, None if unset
  MaxTime, MaxTraffic, MaxFailures, MaxRequests  \* bounds of the exploration

AllHandlers == {"renew", "edit", "reenable", "default", "sync", "archive"}

Procs == CronRuns \cup Requests

VARIABLES
  now,        \* the clock
  keys,       \* the rows of table keys
  server,     \* the row of table servers
  monthStart, \* each key's usage snapshot that this month is measured from
  outline,    \* what the Outline server holds for each key
  unlogged,   \* keys renewed without a renewal_logs row to show for it yet
  lagging,    \* keys whose last reconciliation was cut short
  task,       \* what each process is doing, with its local variables
  failures,   \* calls that have failed so far
  received    \* requests that have been received so far

db == <<keys, server, monthStart>>
ghosts == <<unlogged, lagging>>
budget == <<failures, received>>

vars == <<now, db, outline, ghosts, task, budget>>

-----------------------------------------------------------------------------
(* Rows and tasks *)

KeyRow == [limit: NatOrNone, end: NatOrNone, used: Nat, enabled: BOOLEAN,
           status: KeyStatus, price: NatOrNone, autoRenew: BOOLEAN]

ServerRow == [default: NatOrNone, disabled: BOOLEAN, reenabled: NatOrNone,
              archived: BOOLEAN]

\* A key just adopted from Outline: no limit, no end date, no price.
AdoptedKey == [limit |-> None, end |-> None, used |-> 0, enabled |-> TRUE,
               status |-> "active", price |-> None, autoRenew |-> FALSE]

Steps == {"idle", "metrics", "upsert", "usage", "push", "mark", "cap", "measure",
          "trip", "keys", "scan", "default", "grant", "save", "price", "raise",
          "log", "reload", "flag", "local", "auto", "clear", "refetch", "setDefault", "apply"}

Ops == {"idle", "sync", "cutoff", "autorenew"} \cup AllHandlers

Task == [op: Ops, step: Steps,
         todo: SUBSET Keys,            \* keys a loop has still to visit
         key: Keys \cup {None},        \* the key being worked on
         seen: [Keys -> KeyRow],       \* rows as this process read them
         down: BOOLEAN,                \* BandwidthDisabledAt as it was read
         meter: [Keys -> Nat],         \* Outline's counters as they were read
         add: NatOrNone,               \* the data allowance of a renewal
         limit: NatOrNone, end: NatOrNone,  \* the plan to save
         asked: SUBSET {"limit", "end"},    \* the plan fields an edit names
         newPrice: SUBSET NatOrNone,   \* a price to write, if any
         newAuto: SUBSET BOOLEAN,      \* an auto_renew to write, if any
         enabled: BOOLEAN, status: KeyStatus]  \* the status to write

KeySteps == {"upsert", "usage", "push", "mark", "default", "grant", "save", "price",
             "raise", "log", "reload", "flag", "local", "auto"}

IdleTask == [op |-> "idle", step |-> "idle", todo |-> {}, key |-> None,
             seen |-> [k \in Keys |-> AdoptedKey], down |-> FALSE,
             meter |-> [k \in Keys |-> 0], add |-> None, limit |-> None,
             end |-> None, asked |-> {}, newPrice |-> {}, newAuto |-> {},
             enabled |-> TRUE, status |-> "active"]

ASSUME EnforcementAssumption ==
  /\ None \notin Keys
  /\ CronRuns \cap Requests = {}
  /\ Handlers \subseteq AllHandlers
  /\ Overlap \in BOOLEAN
  /\ InitialKeys \subseteq {r \in KeyRow : r.enabled /\ r.status = "active"}
  /\ InitialDefault \in NatOrNone
  /\ Margin \in Nat
  /\ Cap \in NatOrNone
  /\ MonthTicks \in Nat \ {0}
  /\ Allowances \subseteq Nat \ {0}
  /\ Limits \subseteq Nat \ {0}
  /\ Terms \subseteq Nat
  /\ Prices \subseteq NatOrNone
  /\ Toggles \subseteq BOOLEAN
  /\ DefaultPrice \in NatOrNone
  /\ MaxTime \in Nat /\ MaxTraffic \in Nat /\ MaxFailures \in Nat /\ MaxRequests \in Nat

Init ==
  /\ now = 0
  /\ keys \in [Keys -> InitialKeys]
  /\ server = [default |-> InitialDefault, disabled |-> FALSE, reenabled |-> None,
               archived |-> FALSE]
  /\ monthStart = [k \in Keys |-> keys[k].used]
  /\ outline = [k \in Keys |-> [limit |-> keys[k].limit, used |-> keys[k].used]]
  /\ unlogged = {}
  /\ lagging = {}
  /\ task = [p \in Procs |-> IdleTask]
  /\ failures = 0
  /\ received = 0

-----------------------------------------------------------------------------
(* Control flow of a process *)

Idle(p) == task[p].op = "idle"
AllIdle == \A p \in Procs : Idle(p)

MayStart(p) == Idle(p) /\ (Overlap \/ AllIdle)

At(p, step) == task[p].step = step

Become(p, t) == task' = [task EXCEPT ![p] = t]

Goto(p, step) == Become(p, [task[p] EXCEPT !.step = step])

\* The first step of the body of a loop over keys.
LoopBody(op) == CASE op = "sync" -> "upsert"
                  [] op \in {"cutoff", "reenable"} -> "push"
                  [] op = "autorenew" -> "default"
                  [] OTHER -> "reload"

\* Where a process goes when it is done with a key: to the body of its loop
\* with another key, to the next phase of RunOnce, to an edit's local columns,
\* or to the end.
Following(p, t) ==
  LET done == [t EXCEPT !.seen[t.key] = AdoptedKey, !.meter[t.key] = 0,
                        !.limit = None, !.end = None, !.enabled = TRUE, !.status = "active"]
      base == IF t.key = None THEN t ELSE done
  IN  IF t.todo # {}
      THEN {[base EXCEPT !.key = k, !.todo = t.todo \ {k}, !.step = LoopBody(t.op)] :
              k \in t.todo}
      ELSE IF t.op = "sync" /\ p \in CronRuns
      THEN {[IdleTask EXCEPT !.op = "cutoff", !.step = "cap"]}
      ELSE IF t.op = "cutoff"
      THEN {[IdleTask EXCEPT !.op = "autorenew", !.step = "scan"]}
      ELSE {IdleTask}

Continue(p, t) == \E next \in Following(p, t) : Become(p, next)

\* An edit goes on to the columns that Outline knows nothing of.
LocalColumns(t) ==
  IF t.newPrice # {} THEN [t EXCEPT !.step = "local"]
  ELSE IF t.newAuto # {} THEN [t EXCEPT !.step = "auto"]
  ELSE IdleTask

\* Where a process goes when a key has been reconciled.
AfterReconcile(p, t) ==
  IF t.op = "edit" THEN Become(p, LocalColumns(t)) ELSE Continue(p, t)

\* The keys a process leaves out of step with Outline if it stops here.
Unfinished(t) ==
  IF t.step \in {"keys", "refetch"} THEN Keys
  ELSE (IF t.op \in {"cutoff", "reenable"} THEN t.todo ELSE {})
       \cup (IF t.step \in {"price", "raise", "log", "reload", "flag", "push", "mark"}
             THEN {t.key} ELSE {})

\* Abandons the key, or the phase if no key is being worked on.
GiveUp(p) ==
  /\ lagging' = lagging \cup Unfinished(task[p])
  /\ Continue(p, task[p])

\* GetServer finds no archived server: the call returns an error.
ServerGone(p) ==
  /\ server.archived
  /\ GiveUp(p)
  /\ UNCHANGED <<now, db, outline, unlogged, budget>>

-----------------------------------------------------------------------------
(* reconcileKey: one key's desired state, pushed from the row as it was read *)

\* Faulty variant: the kill switch is forgotten.
PushedLimitIgnoringSwitch(row, down) ==
  IF ShouldBeEnabled(now, row.end, row.limit, row.used) THEN row.limit ELSE 0

PushedLimit(row, down) ==
  IF ShouldBeEnabled(now, row.end, row.limit, row.used) /\ ~down THEN row.limit ELSE 0

\* Faulty variant: Outline is only told when the status changes.
PushOnChange(p) ==
  LET t   == task[p]
      row == t.seen[t.key]
      d   == DeriveKeyStatus(now, row.end, row.limit, row.used, row.enabled)
  IN  /\ At(p, "push")
      /\ lagging' = lagging \ {t.key}
      /\ IF d.shouldBeEnabled # row.enabled \/ d.status # row.status
         THEN /\ outline' = [outline EXCEPT ![t.key].limit = PushedLimit(row, t.down)]
              /\ Become(p, [t EXCEPT !.step = "mark", !.enabled = d.shouldBeEnabled,
                                     !.status = d.status])
         ELSE AfterReconcile(p, t) /\ UNCHANGED outline
      /\ UNCHANGED <<now, db, unlogged, budget>>

\* Faulty variant: the switch's flag is taken for the key's.
PushTakingSwitchForKey(p) ==
  LET t   == task[p]
      row == t.seen[t.key]
      d   == DeriveKeyStatus(now, row.end, row.limit, row.used, ~t.down)
  IN  /\ At(p, "push")
      /\ outline' = [outline EXCEPT ![t.key].limit = PushedLimit(row, t.down)]
      /\ Become(p, [t EXCEPT !.step = "mark", !.enabled = d.shouldBeEnabled, !.status = d.status])
      /\ UNCHANGED lagging
      /\ UNCHANGED <<now, db, unlogged, budget>>

\* The limit is pushed every time, not only on a change of the enabled state.
Push(p) ==
  LET t   == task[p]
      row == t.seen[t.key]
      d   == DeriveKeyStatus(now, row.end, row.limit, row.used, row.enabled)
  IN  /\ At(p, "push")
      /\ outline' = [outline EXCEPT ![t.key].limit = PushedLimit(row, t.down)]
      /\ IF d.shouldBeEnabled # row.enabled \/ d.status # row.status
         THEN /\ Become(p, [t EXCEPT !.step = "mark", !.enabled = d.shouldBeEnabled,
                                     !.status = d.status])
              /\ UNCHANGED lagging
         ELSE /\ AfterReconcile(p, t)
              /\ lagging' = lagging \ {t.key}
      /\ UNCHANGED <<now, db, unlogged, budget>>

\* Faulty variant: the enabled column is left as it was.
SetKeyStatusOnly(p) ==
  LET t == task[p]
  IN  /\ At(p, "mark")
      /\ keys' = [keys EXCEPT ![t.key].status = t.status]
      /\ AfterReconcile(p, t)
      /\ lagging' = lagging \ {t.key}
      /\ UNCHANGED <<now, server, monthStart, outline, unlogged, budget>>

SetKeyEnabledStatus(p) ==
  LET t == task[p]
  IN  /\ At(p, "mark")
      /\ keys' = [keys EXCEPT ![t.key].enabled = t.enabled, ![t.key].status = t.status]
      /\ AfterReconcile(p, t)
      /\ lagging' = lagging \ {t.key}
      /\ UNCHANGED <<now, server, monthStart, outline, unlogged, budget>>

\* ReconcileKeyByID reads the key, then its server, then reconciles.
Reload(p) ==
  LET t == task[p]
  IN  /\ At(p, "reload")
      /\ Become(p, [t EXCEPT !.step = "flag", !.seen[t.key] = keys[t.key]])
      /\ UNCHANGED <<now, db, outline, ghosts, budget>>

ReadFlag(p) ==
  /\ At(p, "flag")
  /\ ~server.archived
  /\ Become(p, [task[p] EXCEPT !.step = "push", !.down = server.disabled])
  /\ UNCHANGED <<now, db, outline, ghosts, budget>>

-----------------------------------------------------------------------------
(* SyncServer, from a cron run or from a "sync now" request *)

BeginSync(p) ==
  Become(p, [IdleTask EXCEPT !.op = "sync", !.step = "metrics", !.down = server.disabled])

\* RunOnce lists the servers; an archived one is left out of the syncs.
StartRun(c) ==
  /\ MayStart(c)
  /\ IF server.archived THEN Continue(c, [IdleTask EXCEPT !.op = "sync"]) ELSE BeginSync(c)
  /\ UNCHANGED <<now, db, outline, ghosts, budget>>

\* Faulty variant: the loop is entered before a key has been picked.
ReadMetricsPickingNoKey(p) ==
  /\ At(p, "metrics")
  /\ Become(p, [task[p] EXCEPT !.todo = Keys, !.step = "upsert"])
  /\ UNCHANGED <<now, db, outline, ghosts, budget>>

\* Faulty variant: a key whose counter did not move is not visited.
ReadMetricsSkippingUnused(p) ==
  /\ At(p, "metrics")
  /\ Continue(p, [task[p] EXCEPT !.todo = {k \in Keys : outline[k].used # keys[k].used},
                                 !.meter = [k \in Keys |-> outline[k].used]])
  /\ UNCHANGED <<now, db, outline, ghosts, budget>>

\* ListAccessKeys and GetMetricsTransfer.
ReadMetrics(p) ==
  /\ At(p, "metrics")
  /\ Continue(p, [task[p] EXCEPT !.todo = Keys, !.meter = [k \in Keys |-> outline[k].used]])
  /\ UNCHANGED <<now, db, outline, ghosts, budget>>

\* UpsertKeyFromOutline refreshes Outline's own columns and returns the row.
UpsertKey(p) ==
  LET t == task[p]
  IN  /\ At(p, "upsert")
      /\ Become(p, [t EXCEPT !.step = "usage", !.seen[t.key] = keys[t.key]])
      /\ UNCHANGED <<now, db, outline, ghosts, budget>>

\* Faulty variant: Outline's counter is taken for what was used since last time.
AddKeyUsage(p) ==
  LET t == task[p]
      used == t.seen[t.key].used + t.meter[t.key]
  IN  /\ At(p, "usage")
      /\ keys' = [keys EXCEPT ![t.key].used = used]
      /\ Become(p, [t EXCEPT !.step = "push", !.seen[t.key].used = used])
      /\ UNCHANGED <<now, server, monthStart, outline, ghosts, budget>>

UpdateKeyUsage(p) ==
  LET t == task[p]
      used == t.meter[t.key]
  IN  /\ At(p, "usage")
      /\ keys' = [keys EXCEPT ![t.key].used = used]
      /\ Become(p, [t EXCEPT !.step = "push", !.seen[t.key].used = used])
      /\ UNCHANGED <<now, server, monthStart, outline, ghosts, budget>>

-----------------------------------------------------------------------------
(* CheckBandwidthLimits: the monthly kill switch *)

Month(t) == t \div MonthTicks

\* Faulty variant: a manual re-enable does not hold the switch off.
CapAppliesAfterReenable == Cap # None /\ ~server.archived /\ ~server.disabled

\* A server with a cap, not yet tripped, not re-enabled by hand this month.
CapApplies ==
  /\ Cap # None
  /\ ~server.archived
  /\ ~server.disabled
  /\ server.reenabled # Month(now)

CheckCap(c) ==
  /\ At(c, "cap")
  /\ IF CapApplies THEN Goto(c, "measure") ELSE Continue(c, task[c])
  /\ UNCHANGED <<now, db, outline, ghosts, budget>>

TrackedUsage == MapThenSumSet(LAMBDA k : AtLeastZero(keys[k].used - monthStart[k]), Keys)
LiveUsage == MapThenSumSet(LAMBDA k : outline[k].used, Keys)

\* Month 0 is the month tracking began in: its snapshots are partial, so
\* Outline's own figure counts too, or nothing if that call fails.
UsageFigures ==
  IF Month(now) > 0 THEN {TrackedUsage}
  ELSE {TrackedUsage} \cup {u \in {LiveUsage} : u > TrackedUsage}

MeasureUsage(c) ==
  /\ At(c, "measure")
  /\ \E used \in UsageFigures :
       IF used < Cap - Margin THEN Continue(c, task[c]) ELSE Goto(c, "trip")
  /\ UNCHANGED <<now, db, outline, ghosts, budget>>

SetServerBandwidthDisabled(c) ==
  /\ At(c, "trip")
  /\ server' = [server EXCEPT !.disabled = TRUE]
  /\ Become(c, [task[c] EXCEPT !.step = "keys", !.down = TRUE])
  /\ UNCHANGED <<now, keys, monthStart, outline, ghosts, budget>>

\* ReconcileServerKeys reads every row at once, then reconciles one by one.
ListKeys(p) ==
  /\ At(p, "keys")
  /\ Continue(p, [task[p] EXCEPT !.todo = Keys, !.seen = keys])
  /\ UNCHANGED <<now, db, outline, ghosts, budget>>

-----------------------------------------------------------------------------
(* RenewKey, from an admin's request or from AutoRenewKeys *)

\* The task of a renewal that has read the key's row.
Granted(t, k, add) ==
  LET target == RenewalTarget(now, keys[k].limit, keys[k].end, keys[k].used, add, MinPlanDays)
  IN  [t EXCEPT !.step = "save", !.key = k, !.add = add, !.limit = target.limit,
                !.end = target.end, !.newPrice = {keys[k].price}]

AutoRenewable(k) ==
  keys[k].autoRenew /\ RunningLow(now, keys[k].end, keys[k].limit, keys[k].used)

\* ListKeysWithAutoRenew does not look at the server, archived or not.
ScanAutoRenew(c) ==
  /\ At(c, "scan")
  /\ Continue(c, [task[c] EXCEPT !.todo = {k \in Keys : AutoRenewable(k)}])
  /\ UNCHANGED <<now, db, outline, ghosts, budget>>

\* The server's default limit, or the plan floor without one or without a
\* server; looked up once per server.
AutoRenewAllowance(t) ==
  IF t.add # None THEN t.add
  ELSE IF server.archived \/ server.default = None THEN MinPlanData
  ELSE server.default

LookUpDefault(c) ==
  /\ At(c, "default")
  /\ Become(c, [task[c] EXCEPT !.step = "grant", !.add = AutoRenewAllowance(task[c])])
  /\ UNCHANGED <<now, db, outline, ghosts, budget>>

GrantAutoRenewal(c) ==
  /\ At(c, "grant")
  /\ Become(c, Granted(task[c], task[c].key, task[c].add))
  /\ UNCHANGED <<now, db, outline, ghosts, budget>>

Renews(t) == t.op \in {"renew", "autorenew"}

\* Faulty variant: a new plan period starts with no usage.
SetKeyLimitAndEndDateResettingUsage(p) ==
  LET t == task[p]
  IN  /\ At(p, "save")
      /\ keys' = [keys EXCEPT ![t.key].limit = t.limit, ![t.key].end = t.end, ![t.key].used = 0]
      /\ Goto(p, IF Renews(t) THEN "price" ELSE "log")
      /\ unlogged' = IF Renews(t) THEN unlogged \cup {t.key} ELSE unlogged
      /\ UNCHANGED <<now, server, monthStart, outline, lagging, budget>>

\* SetKeyLimitAndEndDate writes both columns whatever the request named.
SetKeyLimitAndEndDate(p) ==
  LET t == task[p]
  IN  /\ At(p, "save")
      /\ keys' = [keys EXCEPT ![t.key].limit = t.limit, ![t.key].end = t.end]
      /\ Goto(p, IF Renews(t) THEN "price" ELSE "log")
      /\ unlogged' = IF Renews(t) THEN unlogged \cup {t.key} ELSE unlogged
      /\ UNCHANGED <<now, server, monthStart, outline, lagging, budget>>

\* A key's own price is raised to the server's default, never lowered to it.
RaisesPrice(price) == price # None /\ DefaultPrice # None /\ DefaultPrice > price

ReadServerPrice(p) ==
  LET t == task[p]
  IN  /\ At(p, "price")
      /\ ~server.archived
      /\ IF \E price \in t.newPrice : RaisesPrice(price)
         THEN Become(p, [t EXCEPT !.step = "raise", !.newPrice = {DefaultPrice}])
         ELSE Become(p, [t EXCEPT !.step = "log", !.newPrice = {}])
      /\ UNCHANGED <<now, db, outline, ghosts, budget>>

\* Faulty variant: a renewal that raises the price is not logged.
SetRaisedPriceUnlogged(p) ==
  LET t == task[p]
  IN  /\ At(p, "raise")
      /\ keys' = [keys EXCEPT ![t.key].price = DefaultPrice]
      /\ Become(p, [t EXCEPT !.step = "reload", !.newPrice = {}])
      /\ UNCHANGED <<now, server, monthStart, outline, ghosts, budget>>

SetRaisedPrice(p) ==
  LET t == task[p]
  IN  /\ At(p, "raise")
      /\ keys' = [keys EXCEPT ![t.key].price = DefaultPrice]
      /\ Become(p, [t EXCEPT !.step = "log", !.newPrice = {}])
      /\ UNCHANGED <<now, server, monthStart, outline, ghosts, budget>>

InsertRenewalLog(p) ==
  /\ At(p, "log")
  /\ unlogged' = IF Renews(task[p]) THEN unlogged \ {task[p].key} ELSE unlogged
  /\ Goto(p, "reload")
  /\ UNCHANGED <<now, db, outline, lagging, budget>>

-----------------------------------------------------------------------------
(* The admins' requests *)

\* A request comes in and its handler starts as task t.
Receive(r, handler, t) ==
  /\ handler \in Handlers
  /\ MayStart(r)
  /\ received < MaxRequests
  /\ received' = received + 1
  /\ Become(r, t)

ReceiveRenew(r, k, add) ==
  /\ Receive(r, "renew", Granted([IdleTask EXCEPT !.op = "renew"], k, add))
  /\ UNCHANGED <<now, db, outline, ghosts, failures>>

\* Faulty variant: a limit that is not named is removed.
EditedPlanDroppingLimit(row, limit, days) ==
  [limit |-> IF limit = {} THEN None ELSE CHOOSE l \in limit : TRUE,
   end   |-> IF days = {} THEN row.end ELSE AddDate(now, CHOOSE d \in days : TRUE)]

\* updateKey: limit, days, price and auto are what the request names, each a
\* set with the new value or empty.  What it does not name is taken from the
\* row that was read.
EditedPlan(row, limit, days) ==
  [limit |-> IF limit = {} THEN row.limit ELSE CHOOSE l \in limit : TRUE,
   end   |-> IF days = {} THEN row.end ELSE AddDate(now, CHOOSE d \in days : TRUE)]

ReceiveEdit(r, k, limit, days, price, auto) ==
  LET plan  == EditedPlan(keys[k], limit, days)
      plans == limit # {} \/ days # {}
      t     == [IdleTask EXCEPT
                  !.op = "edit", !.step = "save", !.key = k,
                  !.limit = plan.limit, !.end = plan.end,
                  !.asked = (IF limit = {} THEN {} ELSE {"limit"})
                              \cup (IF days = {} THEN {} ELSE {"end"}),
                  !.newPrice = price, !.newAuto = auto]
  IN  /\ plans \/ price # {} \/ auto # {}
      /\ Receive(r, "edit", IF plans THEN t ELSE LocalColumns(t))
      /\ UNCHANGED <<now, db, outline, ghosts, failures>>

SetKeyPrice(r) ==
  LET t == task[r]
  IN  /\ At(r, "local")
      /\ \E price \in t.newPrice : keys' = [keys EXCEPT ![t.key].price = price]
      /\ Become(r, LocalColumns([t EXCEPT !.newPrice = {}]))
      /\ UNCHANGED <<now, server, monthStart, outline, ghosts, budget>>

SetKeyAutoRenew(r) ==
  LET t == task[r]
  IN  /\ At(r, "auto")
      /\ \E auto \in t.newAuto : keys' = [keys EXCEPT ![t.key].autoRenew = auto]
      /\ Become(r, IdleTask)
      /\ UNCHANGED <<now, server, monthStart, outline, ghosts, budget>>

ReceiveSync(r) ==
  /\ ~server.archived
  /\ Receive(r, "sync", [IdleTask EXCEPT !.op = "sync", !.step = "metrics",
                                         !.down = server.disabled])
  /\ UNCHANGED <<now, db, outline, ghosts, failures>>

\* reenableServerBandwidth: clear the flag, fetch the server again, reconcile.
ReceiveReenable(r) ==
  /\ ~server.archived
  /\ Receive(r, "reenable", [IdleTask EXCEPT !.op = "reenable", !.step = "clear"])
  /\ UNCHANGED <<now, db, outline, ghosts, failures>>

ClearServerBandwidthDisabled(r) ==
  /\ At(r, "clear")
  /\ server' = [server EXCEPT !.disabled = FALSE, !.reenabled = Month(now)]
  /\ Goto(r, "refetch")
  /\ UNCHANGED <<now, keys, monthStart, outline, ghosts, budget>>

RefetchServer(r) ==
  /\ At(r, "refetch")
  /\ ~server.archived
  /\ Become(r, [task[r] EXCEPT !.step = "keys", !.down = server.disabled])
  /\ UNCHANGED <<now, db, outline, ghosts, budget>>

\* setServerDefaultLimit: save the default and, when asked to, put every
\* unlimited key on it.
ReceiveDefault(r, limit, apply) ==
  /\ ~server.archived
  /\ apply => limit # None
  /\ Receive(r, "default",
       [IdleTask EXCEPT !.op = "default", !.step = "setDefault", !.limit = limit,
                        !.asked = IF apply THEN {"limit"} ELSE {}])
  /\ UNCHANGED <<now, db, outline, ghosts, failures>>

SetServerDefaultLimit(r) ==
  LET t == task[r]
  IN  /\ At(r, "setDefault")
      /\ server' = [server EXCEPT !.default = t.limit]
      /\ IF t.asked = {} THEN Become(r, IdleTask) ELSE Goto(r, "apply")
      /\ UNCHANGED <<now, keys, monthStart, outline, ghosts, budget>>

UnlimitedKeys == {k \in Keys : keys[k].limit = None}

OnDefaultLimit(limit) ==
  [k \in Keys |-> IF k \in UnlimitedKeys THEN [keys[k] EXCEPT !.limit = limit] ELSE keys[k]]

ApplyDefaultLimitToUnlimitedKeys(r) ==
  LET t == task[r]
  IN  /\ At(r, "apply")
      /\ keys' = OnDefaultLimit(t.limit)
      /\ Continue(r, [t EXCEPT !.todo = UnlimitedKeys])
      /\ lagging' = lagging \cup UnlimitedKeys
      /\ UNCHANGED <<now, server, monthStart, outline, unlogged, budget>>

\* deleteServer archives the row in one statement.
ArchiveServer ==
  /\ "archive" \in Handlers
  /\ Overlap \/ AllIdle
  /\ ~server.archived
  /\ received < MaxRequests
  /\ received' = received + 1
  /\ server' = [server EXCEPT !.archived = TRUE]
  /\ UNCHANGED <<now, keys, monthStart, outline, ghosts, task, failures>>

-----------------------------------------------------------------------------
(* Failing calls *)

\* A call that was carried out although its caller was told that it failed, as
\* when its answer came too late.
CarriedOut(p) ==
  LET t == task[p]
      k == t.key
  IN  \/ /\ At(p, "push")
         /\ outline' = [outline EXCEPT ![k].limit = PushedLimit(t.seen[k], t.down)]
         /\ UNCHANGED <<db, unlogged>>
      \/ /\ \/ At(p, "usage") /\ keys' = [keys EXCEPT ![k].used = t.meter[k]]
            \/ At(p, "mark") /\ keys' = [keys EXCEPT ![k].enabled = t.enabled,
                                                      ![k].status = t.status]
            \/ At(p, "raise") /\ keys' = [keys EXCEPT ![k].price = DefaultPrice]
            \/ At(p, "local") /\ \E price \in t.newPrice : keys' = [keys EXCEPT ![k].price = price]
            \/ At(p, "auto") /\ \E auto \in t.newAuto : keys' = [keys EXCEPT ![k].autoRenew = auto]
            \/ At(p, "apply") /\ keys' = OnDefaultLimit(t.limit)
         /\ UNCHANGED <<server, monthStart, outline, unlogged>>
      \/ /\ At(p, "save")
         /\ keys' = [keys EXCEPT ![k].limit = t.limit, ![k].end = t.end]
         /\ unlogged' = IF Renews(t) THEN unlogged \cup {k} ELSE unlogged
         /\ UNCHANGED <<server, monthStart, outline>>
      \/ /\ At(p, "log")
         /\ unlogged' = IF Renews(t) THEN unlogged \ {k} ELSE unlogged
         /\ UNCHANGED <<db, outline>>
      \/ /\ \/ At(p, "trip") /\ server' = [server EXCEPT !.disabled = TRUE]
            \/ At(p, "clear") /\ server' = [server EXCEPT !.disabled = FALSE,
                                                          !.reenabled = Month(now)]
            \/ At(p, "setDefault") /\ server' = [server EXCEPT !.default = t.limit]
         /\ UNCHANGED <<keys, monthStart, outline, unlogged>>

\* The keys that Outline has to be told about again once a call is carried out.
Touched(t) ==
  CASE t.step = "save" -> {t.key}
    [] t.step = "apply" -> UnlimitedKeys
    [] t.step \in {"trip", "clear"} -> Keys
    [] OTHER -> {}

\* A failed or timed-out call, carried out or not.
Fail(p) ==
  /\ ~Idle(p)
  /\ ~At(p, "default")
  /\ failures < MaxFailures
  /\ failures' = failures + 1
  /\ Continue(p, task[p])
  /\ \/ /\ lagging' = lagging \cup Unfinished(task[p])
        /\ UNCHANGED <<db, outline, unlogged>>
     \/ /\ lagging' = lagging \cup Unfinished(task[p]) \cup Touched(task[p])
        /\ CarriedOut(p)
  /\ UNCHANGED <<now, received>>

\* AutoRenewKeys falls back to the plan floor if it cannot read the server.
FailLookUp(c) ==
  /\ At(c, "default")
  /\ failures < MaxFailures
  /\ failures' = failures + 1
  /\ Become(c, [task[c] EXCEPT !.step = "grant",
                  !.add = IF task[c].add = None THEN MinPlanData ELSE task[c].add])
  /\ UNCHANGED <<now, db, outline, ghosts, received>>

\* The Go process dies and is started again: what was running is forgotten.
Crash ==
  /\ ~AllIdle
  /\ failures < MaxFailures
  /\ failures' = failures + 1
  /\ task' = [p \in Procs |-> IdleTask]
  /\ lagging' = lagging \cup UNION {Unfinished(task[p]) : p \in Procs}
  /\ UNCHANGED <<now, db, outline, unlogged, received>>

-----------------------------------------------------------------------------
(* The world outside the process *)

\* The holder of a key uses it, as far as Outline's limit allows.
Traffic(k) ==
  /\ outline[k].limit # None => outline[k].used < outline[k].limit
  /\ outline[k].used < MaxTraffic
  /\ outline' = [outline EXCEPT ![k].used = @ + 1]
  /\ UNCHANGED <<now, db, ghosts, task, budget>>

\* Time passes; a new month is measured from the latest snapshots.
Tick ==
  /\ now < MaxTime
  /\ now' = now + 1
  /\ monthStart' = IF Month(now + 1) = Month(now) THEN monthStart
                   ELSE [k \in Keys |-> keys[k].used]
  /\ UNCHANGED <<keys, server, outline, ghosts, task, budget>>

-----------------------------------------------------------------------------
(* The specification *)

ReconcileStep(p) ==
  Reload(p) \/ ReadFlag(p) \/ Push(p) \/ SetKeyEnabledStatus(p) \/ ListKeys(p)

SyncStep(p) == ReadMetrics(p) \/ UpsertKey(p) \/ UpdateKeyUsage(p)

RenewStep(p) ==
  \/ SetKeyLimitAndEndDate(p) \/ ReadServerPrice(p) \/ SetRaisedPrice(p) \/ InsertRenewalLog(p)

CronStep(c) ==
  \/ StartRun(c) \/ CheckCap(c) \/ MeasureUsage(c) \/ SetServerBandwidthDisabled(c)
  \/ ScanAutoRenew(c) \/ LookUpDefault(c) \/ GrantAutoRenewal(c)

HandlerStep(r) ==
  \/ SetKeyPrice(r) \/ SetKeyAutoRenew(r) \/ ClearServerBandwidthDisabled(r) \/ RefetchServer(r)
  \/ SetServerDefaultLimit(r) \/ ApplyDefaultLimitToUnlimitedKeys(r)

\* What a process does of its own accord once started, and starting a run.
Step(p) ==
  \/ ReconcileStep(p) \/ SyncStep(p) \/ RenewStep(p)
  \/ p \in CronRuns /\ CronStep(p)
  \/ p \in Requests /\ HandlerStep(p)
  \/ At(p, "flag") /\ ServerGone(p)
  \/ At(p, "price") /\ ServerGone(p)
  \/ At(p, "refetch") /\ ServerGone(p)

\* At most one new value of a field that a request may leave out.
Optional(S) == {{}} \cup {{v} : v \in S}

Arrival(r) ==
  \/ \E k \in Keys, add \in Allowances : ReceiveRenew(r, k, add)
  \/ \E k \in Keys, limit \in Optional(Limits), days \in Optional(Terms),
        price \in Optional(Prices), auto \in Optional(Toggles) :
       ReceiveEdit(r, k, limit, days, price, auto)
  \/ ReceiveSync(r)
  \/ ReceiveReenable(r)
  \/ \E limit \in Limits \cup {None}, apply \in BOOLEAN : ReceiveDefault(r, limit, apply)

Next ==
  \/ \E p \in Procs : Step(p) \/ Fail(p)
  \/ \E c \in CronRuns : FailLookUp(c)
  \/ \E r \in Requests : Arrival(r)
  \/ ArchiveServer
  \/ \E k \in Keys : Traffic(k)
  \/ Tick
  \/ Crash

Spec == Init /\ [][Next]_vars

\* The scheduler starts a run every interval and goroutines are not starved:
\* every process that has begun goes on, and every cron run is followed by
\* another.  Arrivals, traffic, failures and time are under no obligation.
Fairness == \A p \in Procs : WF_vars(Step(p))

FairSpec == Spec /\ Fairness

-----------------------------------------------------------------------------
(* Properties *)

\* Every variable has its type, and a process that is working on a key has one.
TypeOK ==
  /\ now \in Nat
  /\ keys \in [Keys -> KeyRow]
  /\ server \in ServerRow
  /\ monthStart \in [Keys -> Nat]
  /\ outline \in [Keys -> [limit: NatOrNone, used: Nat]]
  /\ unlogged \subseteq Keys
  /\ lagging \subseteq Keys
  /\ task \in [Procs -> Task]
  /\ \A p \in Procs : task[p].step \in KeySteps => task[p].key \in Keys
  /\ failures \in Nat
  /\ received \in Nat

\* A key is stored as cut off exactly when its status names the reason, a past
\* end date or a used-up limit: the two columns are derived together and written
\* later, by whichever process reconciles last, from a row it may have read long
\* before, and they never come from two derivations.  This says nothing of a key
\* stored as working: its status may still be "disabled".
CutOffNamesItsReason ==
  \A k \in Keys : ~keys[k].enabled <=> keys[k].status \in {"expired", "limit_exceeded"}

\* Only a key that comes back reads "disabled" (and is missed by the queries that
\* count "active" keys until the next sync): a reconciliation that nothing
\* disturbs never puts that status on a key that was stored as working.
OnlyComebacksReadDisabled ==
  [][\A k \in Keys :
       keys'[k].status = "disabled" /\ keys[k].status # "disabled" => ~keys[k].enabled]_vars

\* However old the counters that a sync writes down, and whichever sync writes
\* last, the database never has more usage for a key than Outline has counted,
\* so that no key is cut off for data it has not used.
UsageNotAhead == \A k \in Keys : keys[k].used <= outline[k].used

\* When no operation is running, what Outline enforces is what the row says:
\* the limit of an enabled key, 0 for a disabled key or on a tripped server.
\* Only a key whose last reconciliation failed half-way may differ.
EnforcedAtRest ==
  AllIdle =>
    \A k \in Keys \ lagging :
      outline[k].limit = IF keys[k].enabled /\ ~server.disabled THEN keys[k].limit ELSE 0

\* A renewal that was saved has been logged, unless a call failed
\* ("Every auto-renewal is logged unpaid", RenewKey "logs it").
RenewalsLogged == AllIdle /\ failures = 0 => unlogged = {}

\* The stored usage of a key, Outline's ever-growing counter, never goes back.
UsageNeverRegresses ==
  [][\A k \in Keys : keys'[k].used >= keys[k].used]_vars

\* An edit that names only the limit keeps the end date, and the reverse.
EditKeepsWhatItDoesNotName ==
  [][\A p \in Procs : At(p, "save") /\ task[p].op = "edit" /\ task'[p].step = "log" =>
       LET k == task[p].key
       IN  /\ "limit" \notin task[p].asked => keys'[k].limit = keys[k].limit
           /\ "end" \notin task[p].asked => keys'[k].end = keys[k].end]_vars

\* The kill switch does not trip in a month in which it was re-enabled by hand.
NoTripAfterReenable ==
  [][server'.disabled /\ ~server.disabled => server.reenabled # Month(now)]_vars

\* An auto-renewal takes the key out of the running-low window, so that the
\* next run finds nothing to do for it.
AutoRenewalSuffices ==
  [][\A p \in Procs : At(p, "save") /\ task[p].op = "autorenew" /\ task'[p].step = "price" =>
       LET row == keys'[task[p].key]
       IN  ~RunningLow(now, row.end, row.limit, row.used)]_vars

Settled(k) ==
  LET row == keys[k]
      d   == DeriveKeyStatus(now, row.end, row.limit, row.used, TRUE)
  IN  /\ row.used = outline[k].used
      /\ row.enabled = d.shouldBeEnabled
      /\ row.status = d.status
      /\ outline[k].limit = IF d.shouldBeEnabled /\ ~server.disabled THEN row.limit ELSE 0

\* However renewals, edits, trips, re-enables, crashes and overlapping syncs
\* have interleaved, once they stop the cron brings every key of a server that
\* is not archived to the state its plan and the kill switch call for, for good.
Converges == <>[](server.archived \/ \A k \in Keys : Settled(k))
=====

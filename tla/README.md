# Outline Fleet Manager: a TLA+ development

This directory models the Go backend (`backend/`) and the admin console and share
pages (`frontend/`) of the repository in TLA+, checks the models with TLC on small
instances and proves the most important facts about them with TLAPS for all
instances. File names in this document are relative to the repository (`src/` in
`PROJECT.json`), those of the front end to `frontend/src/`, and line numbers are those
of the commit modelled.

## 1. The system

One Go process serves the console, the holders' share pages and a Telegram webhook
over HTTP (Fiber) and runs a cron job (robfig/cron). Its state is in Postgres; what
it manages lives on Outline servers, reached over HTTPS. Every repository call is one
autocommitted SQL statement: there are no transactions around handlers, no locks
between them, and nothing is queued or replayed. Consequently

- any two operations (cron run, handler) interleave between any two calls;
- a value read from the database is used later, however stale;
- an error, the per-request timeout (`handlers/middleware.go:61`) or the death of
  the process can end an operation between any two calls;
- the cron is the repair mechanism: it pushes the desired state again every
  interval, and adopts every key it finds on Outline.

Cron runs may overlap too: the one that `Job.Start` launches with the process and
the scheduled ones are independent (`cron/cron.go:48-69`).

The front end is a React application whose server state is in a TanStack Query
cache. A page displays what its queries hold; a query is fetched when a page that
shows it is mounted and its copy is missing, marked or older than its `staleTime`;
live data is polled while the tab is in use; a save marks the queries it names by hand
in its `onSuccess`. Forms copy a row into local state and send back what differs. A
request that is not answered in 30 seconds (`lib/api.ts:17`) is reported as failed
while the server may still carry it out.

### Components

| Component | State | Operations | What makes it correct |
|---|---|---|---|
| Plan and status arithmetic (`models/models.go`, `handlers/keys.go`; `lib/format.ts`, the cells and dialogs) | none (pure) | `DeriveKeyStatus`, `RenewalTarget`, `applyPlanMinimums`, `resolveKeyPlan`, `resolveMovePlan`; badges, bars, previews, carried-over plans | the derived fields cohere; an accepted renewal restores a key; a preview is granted |
| Enforcement engine (`enforcement/enforcement.go`, `cron/cron.go`) | rows of `keys` and `servers`, usage snapshots; Outline's limits and counters | `RunOnce`: `SyncServer` for each server, `CheckBandwidthLimits`, `AutoRenewKeys`; `RenewKey`, `ReconcileKeyByID`, `ReconcileServerKeys` | Outline enforces what the row and the kill switch call for; renewals are logged; the cron converges |
| Key handlers (`handlers/keys.go`) | as above | provision, edit, renew, delete | an edit keeps what it does not name; a key on Outline does not stay unmanaged; the ceiling |
| Server handlers (`handlers/servers.go`) | `servers` | create, archive, revive, change URL or ceiling or default, re-enable | a re-enable holds; a server is listed once |
| Users and holders (`handlers/users.go`, `repository/users.go`) | `users`, `keys.user_id`, primary keys | create, claim, link, unlink, promote, move, reset usage, remove | a link resolves to one's own key; moving keeps a connection |
| Orders (`handlers/orders.go`, the orders page) | `orders` | place, approve, reject, remove | decided once; approved means set up |
| Share links (`handlers/share.go`, three pages) | passcode, attempts, lock; token in the browser | set up, verify, reset | attempts are bounded; the passcode is the holder's; the pages come to rest |
| Admin sign-in (`handlers/auth.go`, `repository/otp.go`) | codes, sessions, admins | send, verify, sign out | attempts are bounded; a code is used up |
| Console pages and query cache (`lib/queries.ts`, `routes/_authed/`) | the cache, fetches and saves in flight, the session cookie | visit, poll, save, sign out | what was saved shows; live data catches up; an ended session is noticed |
| Edit forms (`components/**/edit-*-dialog.tsx`, ...) | fields, the row they were seeded from, the request in flight | seed, type, submit, refetch | no stale field is shown or sent; no unnoticed renewal |
| Usage and revenue (`repository/usage.go`, `revenue.go`) | snapshots | record, sum over a range | counters never counted twice |
| Alerts (`alerts/alerts.go`) | sent marks | send once per condition | neither lost nor repeated |
| Telegram bot, dynamic keys, settings, analytics, DNS lookup, HTTP layer, Outline client, configuration, UI primitives | none of their own, or a single row | reads and presentation | outside the models, or a single action of them (section 8) |

Interactions: handlers call the enforcement engine directly (renew, edit, re-enable,
sync, default limit); the engine and the handlers share the `keys` and `servers`
rows; both talk to Outline; a sync adopts whatever it finds on Outline, so it
interacts with provisioning and deletion; an approved order creates a user and
provisions a key; the console sends one request per save and reads the effect of
everybody's through its cache.

The hard behaviours, with the line where each bites, are the `hazards` of
`PROJECT.json`.

## 2. Modules

```
KeyPolicy ──── KeyLife ──── KeyDisplay ──── MCKeyLife          key_life
   │                            └─ KeyLifeProofs (on KeyPolicyProofs)
   └──── Enforcement ──── MCEnforcement       serial, loops, overlap, runs, findings
              └─ EnforcementProofs ── SerialProofs

OrderBook ◁── Desk ── MCDesk ── DeskProofs                     desk
ShareLink ┐
AdminCodes┴── MCVisitors ── VisitorsProofs                     visitors
ConsolePages ── Console ── MCConsole ── ConsoleProofs          console
Editing ── EditingProofs                                       editing
```

(`◁──` is a refinement, the other lines are EXTENDS.)

**KeyPolicy** has the pure functions. Data is in whole units, time in ticks of which
`DayTicks` make a day, a nil pointer is `None`. `None` is only assumed not to be an
integer. The thresholds are constants; `PolicyAssumption` states the two relations
between them that the code's values have (a plan is at least as large as the
running-low thresholds: 200 GB against 3 GB, 30 days against 2).

**KeyLife** drives these functions: one key that is adopted or created on a plan,
renewed (`renewKey` with the plan floor), edited in its limit, its end date or both,
moved to a fresh key, used, and aged. Its stored `enabled` flag, which `Key.Enrich`
derives the status with, is as old as the last push that took: `Save` may leave it
where it was (the push failed), and `Reconcile`, a sync that reaches the server,
brings it up to date. There is no concurrency in it; it exists to reach every
combination of plan, usage, flag and time around the boundaries. **KeyDisplay** adds what the console computes
of the same key: usage bar, expiry badges, the attention list and the donut; the plan
floor as the forms check it; the extension's preview; the remainder that the move
dialog fills in.

**Enforcement** is the engine of one server and the handlers that call it.

| Model | Code |
|---|---|
| `keys[k]` | the row of `keys`: limit, end date, used bytes, enabled, status, own price, auto_renew |
| `server` | the row of `servers`: default limit, `bandwidth_disabled_at` (`disabled`), the month of `bandwidth_reenabled_at` (`reenabled`), `deleted_at` (`archived`) |
| `monthStart` | the snapshot a month's usage is measured from |
| `outline[k]` | what the Outline server holds: the access limit and the transfer counter (external) |
| `task[p]` | what process `p` is doing: its operation, its next call and its local variables (the rows it read, the flag it read, the plan it will save, the pair of enabled and status it will write) |
| `lagging`, `unlogged` | ghosts: keys whose last reconciliation was cut short; keys renewed with no log row yet |
| `now`, `failures`, `received` | the clock and the budgets of the exploration |

Every call to the database or to Outline is one action, named after the method it
models (`SetKeyLimitAndEndDate`, `SetKeyEnabledStatus`, `InsertRenewalLog`,
`ClearServerBandwidthDisabled`, ...). Reads copy into `task[p]`. Code between two
calls belongs to the action of the call before it. `Following` is the control flow
around a key: the next key of the loop, the next phase of `RunOnce` (sync, kill
switch, auto-renewal), or the end. `GiveUp` is the error path: the loop goes on
with the next key, a request or a phase ends. A call that is reported as failed, a
push or a statement whose answer is late, may have been carried out all the same
(`CarriedOut`). `Crash` ends everything that runs.

The operations: `StartRun` (a cron run), and the handlers `renew`, `edit` (any
subset of limit, end date, price, auto-renewal), `reenable`, `default` (with or
without applying it to the unlimited keys), `sync` and `archive`. `Traffic` uses a
key as far as Outline lets it, `Tick` moves the clock and, at the first of a month,
the snapshot. A holder's traffic, the clock and the failures are the environment.

A model with one server suffices because the operations modelled touch one server
and its keys only. A key's row has no name, URL or holder. Month 0 stands for the
calendar month in which tracking began, where the code takes the larger of its
snapshots' and Outline's own figure (`enforcement.go:110-133`). The set of keys is
fixed here: a sync's adoption, and the creation and removal of keys, are in Desk. The
usage recorded by a sync, its daily snapshot and the activity log are one step.

**Desk** has the handlers that create, hand over and remove keys, users and orders,
on one server. Each handler is a sequence of steps (`provisionKey`, `claimFreeKey`,
`replaceUserKey`, `createUser`, `userKeys`, `orderHandlers`), each step one SQL
statement or one call of Outline, and requests in several slots take theirs in any
order. New keys are provisioned for an order (`approve`), with a user (`createUser`), for
one (`addKey`, `newKey` with a holder) or for nobody (`newKey`, the server's own
dialog); a user may also be created without a key.

| Model | Code |
|---|---|
| `order[o]` | the row of `orders`: status, resulting user |
| `primary[u]`, `holder[k]` | the rows of `users` and `keys` with their two references; `Absent` is no row |
| `onOutline` | the keys the Outline server has (external) |
| `req[r]` | the request in slot `r`: its handler, the steps it has left, the rows it is about |
| `listed` | the list of keys that a running sync has fetched and not yet upserted |
| `tab` | the console's orders page: the list it shows, its dialog, the answers it awaits |
| `madeFor`, `recorded`, `torn` | ghosts: the order a user was created for; the keys whose row a handler made; what two requests worked on at once or one left half done |

A step's failure runs the code's own roll-back (`Fails`: `discardUser`,
`discardRemoteKey`), which may fail itself (`FailToDiscard`); Outline's answer to a
creation or to a removal may be lost (`CreateAccessKeyFails`,
`DeleteAccessKeyUnanswered`), and a forced removal goes on whatever it was
(`ForceDelete`); the client may give up while the server
goes on (`GiveUp`); `Crash` ends all requests and the sync. The schema's foreign keys
and its unique constraint are guards and effects (`Refused`, `DeleteUserRow`,
`DeleteKeyRow`, `KeyNotRecorded`). A behaviour is about the order desk, which starts
empty, or about users' keys, which starts with two holders and a free key: the two
kinds of request meet in the same steps, and exploring both at once only multiplies
the states.

**OrderBook** is what the desk promises of an order. MCDesk maps Desk to it: the
status and the user of the row; the users created for the order, but for the one a
request is still working on (`Settled`); and as disputed the orders that are torn,
of which OrderBook promises the direction only.

**ShareLink** is a holder's link: the row (passcode, attempts, lock, legacy hash) and
the requests to set it up and verify it, statement by statement, with the admin's
reset and the holder's removal; and the three pages (`keys-status`, `login`, `setup`)
in the browser with their effects, the two queries they share and the token in
`localStorage`. **AdminCodes** is `requestOTP` and `verifyOTP` with the codes'
table, the e-mails in flight and the admin's status; a latest code that cannot be read
cools nothing down, as in the code (`auth.go:50`). The two do not interact; MCVisitors
takes one or the other in a behaviour (`about`).

**ConsolePages** is data: for each of the 18 queries its key and the facts its
handler reads, for each part of each page the facts it displays of which query, and
for each of the 30 saves the facts it writes, the query keys it invalidates or fills
and the page it lands on. The name of a server is a fact of its own (`label`), since it
is joined into the rows of keys, holders and orders that other pages show; the rest of
the row (`srv`) is not. **Console** is the machine: one tab with its page, dialog,
session, cache and saves. The entries of the cache do not influence each other, so that a
behaviour follows one query, chosen at the start: `copy` and `fetch` are what the
cached copy and the answer under way miss of what changed since they were read, and
why and by which save (the tab's own, one that overtook the answer, somebody else).

**Editing** is the edit forms: key (opened from the page and from the table), server,
user, overall limit, settings. A form is described by its fields, those it sends whole,
whether its row follows the page's data, what seeds it again and whether success
closes it; `server`, `cache`, `row` and `form` are the four places where a field's value
is kept on its way; `pending` and `stray` are the request in flight and one that was
given up on. `Refuse` is an error answer, before the server did anything or after it
(`renewKey` answers 502 when the renewal is saved and its push failed, `keys.go:632`);
`toldDone` and `toldFailed` count what the form reported of its renewals, `granted` the
renewals there were.

## 3. Properties and runs

Every property is stated with a comment in its module. The runs:

| Run | Configuration | What it shows |
|---|---|---|
| `key_life` | days of two ticks, tenths of a gigabyte of two units, amounts one below, at and above each floor, negative and zero ones | `DerivedFieldsAgree`, `DisabledByFailedPushOnly`, `RenewalRestores`; of the console, `CellsAgreeWithStatus`, `PreviewIsGranted`, `CarriedPlanKeepsWhatIsLeft` |
| `serial` | one operation at a time (`Overlap = FALSE`), one key, two requests of any kind, a cap, a price, a change of month, one failure or crash anywhere | the promises made by the comments, each operation taken for itself: what Outline enforces at rest is what the row says, renewals are logged, counters do not go back, an edit keeps the other column, only a key that comes back is stored as "disabled", a manual re-enable holds for the month, an auto-renewal leaves nothing to do |
| `loops` | two keys, one operation at a time, one failure | the loops over keys: a failing key does not keep the loop from the others |
| `overlap` | a cron run and a request of any kind, interleaved call by call, with a failure or a crash | a key stored as cut off says why and a key with such a reason is cut off, no usage is recorded that Outline has not counted, and when the disturbances stop, the cron brings the key to its desired state for good |
| `runs` | two cron runs overlapping with a re-enable and the archiving of the server | the same convergence, with two processes renewing, tripping and marking |
| `desk` | two slots and a sync; one order with four requests about it and two failures, on a ceiling of one; or two holders and three keys with two requests of any kind and one failure, on a ceiling of four | a holder's link resolves to their own key, a move keeps the connection, the ceiling is passed by one key per other request at most, no key on Outline stays without a row, and the order book is implemented - each with the overlaps or broken-off requests it does not survive named in the property |
| `visitors` | two slots, two passcodes, two attempts; four codes sent, two page loads, and one reset, failure, lock or session running out; or two sign-in codes, four tries, a failure | guesses are bounded, the passcode stays the chosen one, a code is used up, the three pages come to rest |
| `console` | every query in turn, two visits (a page opened, a dialog opened or closed, or the tab left idle), one save, one request lost or change from elsewhere | what a save wrote is on screen when it has been answered, on its own page and everywhere else but for the lags listed; live pages catch up with the server; an ended session is noticed |
| `editing` | every form in turn, four openings, typings or saves, one change by somebody else, any number of refetches, errors before and after the server has acted, and time-outs | a form shows its row where nothing was typed, sends nothing that was not, and grants no renewal that it neither reports nor answers with an error |
| `stale_push`, `archived_renewal`, `small_default` | see section 5 | disagreements between a statement in the repository and the code |

Why the small bounds are enough. In `key_life` and in Enforcement every amount is
compared with another one or with a threshold, so two or three units per threshold
give all the orderings; the configurations choose a plan of two units with a cap and
traffic of two or three, so that limit, cap and margin are each reached and passed.
Two ticks to a month give a time inside, at the end of and after a month, and a plan
that ends in between. The races are between two processes at one key, between two
requests about one holder, key, order, link or code, or between a request and a sync; a
third adds interleavings of pairs. (Larger random simulations of Desk, Console and
Visitors, with three slots and up to eight requests, found nothing else.) Two keys
appear where the code loops over keys. One failure, at any call, suffices for
properties about what a single cut-short operation leaves behind, and the next
operation starts from that state; the order desk has two, since a roll-back can fail
as well. The ceiling of one lets two approvals pass it; the ceiling of four leaves
one place beside the three keys of the start. Two attempts are the smallest
allowance with a try before the last. In Console a second visit is the one from
which a stale copy is seen after the save; a query, and not a page, is what is
followed, so that one of each suffices. The four acts of Editing are an opening, a
field typed into, a save, and the reopening or the second save.

Deadlock is not checked where the clock, the requests and the visits are bounded and
the system may really be at its end: a server that is archived, a form that is closed,
a visitor who has gone.

### Fairness

- Enforcement: `FairSpec` assumes weak fairness of `Step(p)` for each process: a
  goroutine that has begun an operation goes on with it (the Go scheduler, and a
  deadline on every call), and a cron run that has ended is followed by another
  (the scheduler fires every interval, and `StartRun` is a disjunct of `Step`).
- Desk: a sync is started again and again and gets through its list
  (`ListAccessKeys`, `UpsertKeyFromOutline`): the cron. Requests are under no
  obligation, not even to end.
- Visitors: React runs the effects of the page that is shown, and the two queries of
  a link are answered (or fail, which `Loses` bounds).
- Console: `Poll`, the interval timer of a page in use; `Answer`, a request sent is
  answered while the session is open; and `Unauthorized` for the answer to a request
  under way when it is not. An unanswered request ends by the client's time-out, which
  is `LoseFetch`, under no obligation, bounded.
- Editing has none: its properties are of safety.

Requests, traffic, failures, crashes, visits and time are under no obligation. Their
number is bounded, which is how "once they stop" is expressed.

### The refinement

`ImplementsOrderBook` maps every step of Desk to a step of OrderBook or a stutter. An
approval writes users, keys and the order in up to eight calls. In the order book it is
the one step `Approve`, which happens at `decide`: until then the user is hidden by
`Settled`, as one that a request is still working on. An approval that fails on the
way removes that user again and is a stutter. Where that is not so - two decisions on
one order overlap, or an approval fails after `createUser` and cannot remove the user,
or at its last two steps, where it no longer tries - the order is torn, and all that is
promised is that a decided order does not become pending again and a removed one
stays removed. These exceptions are real: the desk keeps no lock on an order between
reading that it is pending (`orders.go:133`) and deciding it.

## 4. What the models show about overlapping

The properties of `serial` are *not* claimed for overlapping operations, and most of
them do not hold there:

- an edit of one plan column, read before a concurrent renewal, undoes the other
  column of that renewal (`handlers/keys.go:447-493`);
- a key's price that was edited between a renewal's comparison and its write can be
  lowered (`enforcement.go:400-402`), where the comment at line 368 says "raises (never
  lowers)". No property says so of renewals on their own: it would repeat the
  comparison;
- a cap check that began before a manual re-enable trips the switch after it
  (`enforcement.go:103-138`);
- of two overlapping syncs the older counter can be written last
  (`enforcement.go:65`);
- Outline can be left with an older limit (`stale_push`).

`Converges` (runs `overlap` and `runs`) says that those on the enforced state are
repaired by the next undisturbed run; a lost plan column, price or log row stays
lost. What holds of every interleaving besides is `CutOffNamesItsReason` and
`UsageNotAhead`: an older counter can be written last, one that was never counted
cannot. Two further remarks about serial behaviour. A key that comes back into its
bounds is stored for one interval with `enabled = true` and `status = "disabled"`,
since the status is derived with the flag that is being replaced
(`enforcement.go:484`); the revenue report counts by `status = 'active'`
(`revenue.go:22`) and leaves it out. `CutOffNamesItsReason` therefore says nothing of
keys stored as working, and `OnlyComebacksReadDisabled` says that no other key gets
that status. And the headroom of a renewal is anchored to the usage of the last sync, so that what has been
transferred since is taken from it.

Desk. Two claims of one free key both succeed, and the holder who came first is left
with a primary key that is another's; the same is left by a link or an unlink that
fails between its two statements. Both are exempt from `LinkResolvesToOwnKey` by
`torn`. A sync that listed a key before its removal inserts its row again
(`enforcement.go:58`): the row has no key on Outline, and nobody removes it but the
admin. A reset of usage removes the old key before it counts the keys for the new one
(`users.go:515-553`), so that a full server has room for it; but one that is over its
ceiling already, because the ceiling was lowered or a sync adopted keys, which are not
held to it, refuses the new key after the old one is gone. An answer of Outline to a
removal that is lost leaves the row of a key that is gone: the removal can only be
repeated with force.

Visitors. Two overlapping set-ups both succeed and the later one wins; a rehash begun
before a reset stores the old passcode again after it (exempt by `crossed`). A token
issued before a reset stays valid until it lapses. Codes are counted after they are
compared, so that each request handled at the same time has one try more.

Console. The queries a save does not name lag for their `staleTime`;
`MCConsole!Lags` is the complete list, and `SavedIsShownElsewhere` says so. Its longest
entries are names that are joined into other rows: a renamed server keeps its old name
on the keys list, the holders' list, a holder's page and the orders
(`edit-server-dialog.tsx` invalidates the servers only), a renamed holder theirs on the
keys' and the servers' pages. A change of a server's URL does not lag: it leaves the name
as it is (`repository/servers.go:96`). The retention report is named by no save. Settings are put in the
cache by `setQueryData` without cancelling a fetch under way, whose older answer may
then be shown (`settings.tsx:62`). A suspended admin keeps the session.

Editing. A refetch that brings a new row object seeds the form again and discards what
was typed, in the forms with `reseeds`. A renewal that timed out in the browser may have
been granted, and so has one that was answered with 502 (saved and not pushed,
`keys.go:632`) or with the 500 of a later statement (`enforcement.go:389-418`); the form
keeps its fields, and pressing Save again grants a second one.
`EveryRenewalIsAccountedFor` says that there is at most one such renewal for each error
or time-out the form has shown.

Display. `daysLeft` never goes below 0, so that the "Expired" of `keys-table.tsx:137`
and `format.ts:122`, drawn for negative figures, is never shown: a key past its end
date reads "Expires today" there and "Expired" in its status badge.

## 5. Findings

1. **`stale_push`** (`enforcement.go:74`). A sync holds a row, a renewal saves and
   pushes the new limit, the sync pushes the old one. Both succeed, and the key
   stays at the old limit until the next tick; `docs/ARCHITECTURE.md:252` says the
   change is reflected "without waiting for the next cron tick".
2. **`archived_renewal`** (`enforcement.go:389`). Auto-renewal selects keys of
   archived servers; their plan is saved, then `GetServer` fails and no log row is
   written, once per period; `enforcement.go:243` says "Every auto-renewal is
   logged unpaid".
3. **`small_default`** (`enforcement.go:275`). The allowance of an auto-renewal is
   the server's default limit, on which no floor is imposed; below the running-low
   threshold the key is renewed and logged on every tick; `enforcement.go:241` says
   one auto-renewal "reliably pushes the key back out of the 'running low' window".

## 6. Proofs

All theorems hold for every value of the constants that satisfies the named
assumptions, which TLC evaluates in every run: `PolicyAssumption`, `LifeAssumption`
and `DisplayAssumption` (the key), `EnforcementAssumption`, `BoundsAssumption`
(Editing, Console), `ShareAssumption` and `CodesAssumption` (the visitors) and
`DeskAssumption`. In particular they hold for any number of keys, processes, slots
and overlapping operations, and for any budget of failures.

- **KeyPolicyProofs**: what the pure functions return. `StatusNamesTheReason`
  relates the status to the access; `WholePlanRestores` shows that a renewal with a
  plan at or above the floor leaves a key working and not running low. It rests on
  `WholeTermLeft`, the rounding of days, which rests on `DivReaches`.
- **KeyLifeProofs**: `LifeTypeCorrect` (`TypeOK` is inductive), and from it
  `RenewalAlwaysRestores` (an action property: `FloorHolds` and
  `WholePlanRestores`), `DerivedAlwaysAgree` (`DaysLeftReaches`) and
  `DisabledAlwaysByFailedPush`, an action property again: a status of "disabled" appears
  by a change of plan alone, since a tick or a transfer only ever takes access away and
  a reconciliation stores what is derived. Of what the
  console computes: `CellsAlwaysAgree`, `PreviewAlwaysGranted` and
  `CarriedPlanAlwaysKeeps`, from facts about division: days are rounded up by the
  server and by the console alike, and the tenths of a gigabyte a move carries over
  are rounded down.
- **EnforcementProofs**: `TypeCorrect`. `TypeOK` is not inductive as it stands,
  because a renewal adds `task[p].add`, which is `None` in most steps: `TypeInv`
  keeps every task in `WellFormed`, tasks with a key where their step needs one and
  an allowance where a renewal is about to be granted. One lemma per group of
  actions, one step per action, with the type of the next task worked out first.
  Then `StatusCorrect`, that `CutOffNamesItsReason` is an invariant
  whatever overlaps. Since the pair is derived at a push and written one step
  later, possibly after others have written, `StatusInv` also says that the pair in
  the hands of *every* process agrees (`TasksAgree`). A push derives an agreeing
  pair (`StatusNamesTheReason`), `SetKeyEnabledStatus` writes both columns of it
  together, and nothing else touches either column (`KeepsStatus`).
  `UsageNeverAhead` needs that no sync holds a counter that Outline has not reached:
  the counters it read grow on Outline only, and are all that is ever written.
  Last, `RenewalsEndUpLogged`, for handlers that do not archive the
  server (with them it is false: the finding `archived_renewal`): every key saved and
  not logged is owed a log row by a process that is on its way to it (`Owes`).
- **SerialProofs**: `EnforcedWhenSerial`, for operations that do not overlap
  (`Overlap = FALSE`, as in the run `serial`; the finding `stale_push` shows the
  interleaving in which it fails, and `Converges` what is left of it then), and for any
  failure, crash, traffic and clock. `SerialInv` says that a process relies only on
  what is still true: at most one is not idle (`Alone`); the row, the flag and the pair
  of columns it holds are those of the database (`Undisturbed`, one conjunct for each);
  and a key that is out of step with Outline is `lagging` or among those that the
  process has still to push (`OutOfStepOnly`, `Unfinished`). A call that is carried out
  although it is reported as failed disturbs no more than the process would have
  (`CarriedOutDisturbs`). The other serial promises are left to TLC: with
  `Overlap = FALSE` assumed, what a proof of them shows is little more than their guards.
- **EditingProofs**: `EditingTypeCorrect`, `FormsShowTheirRow`,
  `SavesNameWhatWasTyped` and `RenewalsAreAccountedFor` from one invariant,
  `EditingInv`. It strengthens the properties by what a request carries from its
  submission to its answer (`Sent`: the patch is of fields typed in, or sent whole)
  and by counting the renewals still owed to a request in flight or to one that was
  given up on, beside those that the form reported and the errors it showed (`Counted`).
- **VisitorsProofs**: `AttemptsAlwaysBounded` and `CodesSignInOnce`. A bound on the
  guesses alone is not inductive, since a request admitted before the lock is still
  to be compared. `VisitorsInv` counts those: the guesses made and the slots in
  which a wrong code is about to be turned down (`Guessing`) are together bounded
  by what the attempts leave (`TriesLeft`); likewise for sign-in codes, with the
  slots that are comparing, and with those that hold a code that was consumed
  (`UsedUp`): nobody new gets hold of it, since it is never the latest again.
  The slots leave these sets one at a time (`SlotLeaves`). `PasscodeStaysChosen`
  rests on `NothingOverlapped`: until a set-up or reset meets another request, who
  sets up is alone and has found no passcode, who verifies has read the one in force,
  and a rehash carries that very passcode. `VisitorsTypeCorrect` adds what the browser
  holds (`BrowserInv`: the page has no session that storage does not) and that a link
  counts a try for a request at its end only (`VisitsCounted`).
- **DeskProofs**, in five parts, each an invariant on top of the one before.
  - `CeilingAlmostKept`. A handler looks at the ceiling and inserts the key two steps
    later, so `DeskInv` counts promises: the keys that handlers recorded, and the
    slots that have seen room and not yet inserted, never exceed the ceiling by more
    than the slots less one. It needs that every handler counts immediately before it
    creates on Outline and creates immediately before it inserts (`StepsAreCounted`,
    for each handler's sequence of steps), and the types of rows, tab and requests.
    All steps but `CountKeys`, `CreateKey` and `DeleteKey` are `Calm`.
  - `LinksAreOwn`. The two references of a holder and a key are written by different
    statements, so between them they disagree. `LinkInv` says where: a primary key is
    held by its user (`Resolves`) except while the one request that works on the pair
    is at a step between the two statements (`InBetween`), or after one was torn.
    It needs what a request has in hand at each step (`Held`, `OnTheWay`) and
    that what two requests work on at once is torn from then on (`NoSharing`), so
    that what is not torn has one request at most.
  - `MovesKeepConnection`, an action property, from the same invariant.
  - `OrderBookImplemented`, the refinement `Spec => Book!Spec`. `BookInv` says what a
    request about an order may rely on (`OnOrder`), that a decided order and the user
    made for it match unless a step was torn (`Matched`), and that the page's dialog
    and spinner belong to the order shown. Every step of the desk but four is `Quiet`,
    a stutter of the book; `createOrder`, `CreateUser`, `decide` and
    `deleteOrder` are each one of its actions.
  - `TypeCorrect`: no row refers to one that is gone.
- **ConsoleProofs**: `ConsoleTypeCorrect`, `SavesAreShown` and
  `SavesAreShownElsewhere`, for any number of saves, visits and upsets, where the run
  has one save. The first half reads the tables off: the queries under each prefix,
  what each page displays, and save by save what is displayed of what it writes and
  not marked, which is what `Lags` lists (`UnmarkedLags`); none of that is on a page
  that offers the save (`OfferedIsMarked`) or on which it lands (`LandingIsMarked`).
  The second half is the machine's: `ConsoleInv` says that a copy taken for up to
  date misses a fact only by a save that is not over or that does not mark it
  (`OwnInv`), that an answer the last save overtook is dropped or marked on the page
  it was made on (`CrossedInv`), and where the admin can be meanwhile (`ScreenOK`,
  `MadeOK`). With several saves it matters by which save a fact is missed, so what a
  copy misses names the save.

Only model-checked:

- every liveness property, which is out of the prover's reach, as are fairness and
  ENABLED;
- the other promises of `serial`, `UsageNeverRegresses`, `OnlyComebacksReadDisabled`,
  `EditKeepsWhatItDoesNotName` and `NoTripAfterReenable`;
- `AutoRenewalSuffices` of `serial`: it compares the plan that is granted
  with thresholds at the time it is saved, which holds only if less time than the
  shortest plan passes between granting and saving, and only for default limits above
  the thresholds (the finding `small_default`); the run's bounds are chosen so;
- what holds of overlapping operations in `overlap`, `loops` and `runs` beyond the
  theorems that do not assume `Overlap = FALSE`.

## 7. Plan

Done: the engine, its handlers and the arithmetic; provisioning, holders and orders
with the order book they implement; share links and sign-in codes; the console with
its cache; the edit forms. Left, in this order:

1. theorems: `OnlyComebacksReadDisabled` and `AutoRenewalSuffices`, with the assumptions
   on the thresholds that the latter needs;
2. **UsageAccounting**: daily snapshots, deltas and months against an abstract
   meter, for keys that come and go (`repository/usage.go:229`);
3. **ServerRegistry**: create, archive, revive and change of URL, with the flag that
   a revival keeps (`repository/servers.go:66`);
4. alerts (`alerts/alerts.go:54`).

## 8. Not modelled

- Alerts: one read, one message and one mark for each key; what can go wrong is a
  repeated message, and nothing depends on it.
- The Telegram bot and the analytics and revenue reports only read.
- Usage snapshots: Enforcement has the month's total and the counter it is measured
  from. The snapshots by day serve the charts.
- Server creation, revival and the change of a URL: single statements behind
  Outline's answer. Enforcement ends with the archiving.
- The payment bookkeeping of a renewal, renames and activity logs: columns nothing
  else reads.
- The HTTP layer, the Outline client with its metrics cache, and the browser's
  `fetch`: they carry the calls of the models, and their failures and time-outs are
  the failures of those. Dynamic access keys are one read, which
  `LinkResolvesToOwnKey` is about; the DNS lookup is one as well.
- In Desk a statement of the database that is reported as failed was not carried out;
  of the calls of Outline both outcomes are there, and of Enforcement's statements as
  well.
- Configuration, migrations and the start and stop of the cron; the constraints of
  the schema are guards and effects of Desk.
- The user-interface primitives (`components/ui/`), charts, tables' sorting and
  filters, the mock data and the generated routes: presentation, without state the
  properties speak of.
- Several admins editing in several tabs are the changes by somebody else of
  Console and Editing; a second tab with its own cache is not a variable.

`PROJECT.json` lists each part with its status.

-------------------------------- MODULE Desk --------------------------------
(***************************************************************************)
(* The handlers that set up and hand over keys, running side by side on    *)
(* one server: an order is approved, rejected or removed from the console; *)
(* users are created with a new or a free key, moved to another one, and   *)
(* removed; keys are linked, unlinked, promoted, reset and removed.        *)
(* Meanwhile the server's sync adopts the keys it finds on Outline.        *)
(*                                                                         *)
(* A handler is a sequence of steps, each one statement of the database or *)
(* one call of Outline.  Any step may fail, an answer of Outline may be    *)
(* lost after it did what was asked, and the process may stop.             *)
(***************************************************************************)
EXTENDS Naturals, FiniteSets, Sequences

CONSTANTS
  Orders,       \* the self-serve orders
  MaxUsers,     \* users ever created
  MaxOnOutline, \* keys ever created on Outline
  MaxKeys,      \* the server's key ceiling, max_keys, by what about is
  Slots,        \* requests handled at the same time
  MaxRequests,  \* requests in all, likewise
  MaxTroubles,  \* failures, lost answers and crashes, likewise
  None, Absent  \* NULL, and a row that is not there

Users == 1 .. MaxUsers
Keys == 1 .. MaxOnOutline

(* The bounds leave room for the two users and three keys that users'     *)
(* behaviours begin with.                                                  *)
ASSUME DeskAssumption ==
  /\ {MaxUsers, MaxOnOutline} \subseteq Nat
  /\ {MaxKeys, MaxRequests, MaxTroubles} \subseteq [{"orders", "users"} -> Nat]
  /\ IsFiniteSet(Slots) /\ Slots # {}
  /\ MaxUsers >= 2 /\ MaxOnOutline >= 3 /\ MaxKeys["users"] >= 3
  /\ None # Absent
  /\ {None, Absent} \cap (Users \cup Keys \cup Orders) = {}

VARIABLES
  about,      \* what a behaviour is about: the order desk, or users' keys
  order,      \* order[o]: its status and resulting user
  primary,    \* primary[u]: Absent, or the user's primary key or None
  holder,     \* holder[k]: Absent, or the user of the key's row or None
  onOutline,  \* the keys the Outline server has
  req,        \* req[r]: the request in slot r
  listed,     \* what a running sync has listed and not yet adopted
  tab,        \* the orders page of the admin's console
  madeFor,    \* history: the order each user was created for
  recorded,   \* history: the keys whose row a handler made
  torn,       \* history: what two requests worked on at once, or one left
              \* half done
  created,    \* users created and keys created on Outline
  requests, troubles

vars == <<about, order, primary, holder, onOutline, req, listed, tab, madeFor, recorded,
          torn, created, requests, troubles>>
rows == <<order, primary, holder>>
history == <<madeFor, recorded>>
counters == <<about, created, requests, troubles>>

Exists(u) == u \in Users /\ primary[u] # Absent
Recorded(k) == k \in Keys /\ holder[k] # Absent
KeyCount == Cardinality({k \in Keys : Recorded(k)})

(***************************************************************************)
(* The steps of each handler, after the reads it starts with.              *)
(***************************************************************************)
provisionKey == <<"count", "createAccessKey", "createKey", "reconcile">>
SetKeyUser == <<"setHolder", "clearPrimary">>
claimFreeKey == <<"checkFree">> \o SetKeyUser \o <<"setPrimary">>
releaseOld == <<"release", "releaseClear">>

(* Faulty variant: the holder's old key is released before the new one is  *)
(* made primary.                                                           *)
ReplaceEarly ==
  [replaceByFree |-> <<"checkFree">> \o SetKeyUser \o releaseOld \o <<"setPrimary">>,
   replaceByNew |-> provisionKey \o releaseOld \o <<"setPrimary">>]

replaceUserKey ==
  [replaceByFree |-> claimFreeKey \o releaseOld,
   replaceByNew |-> provisionKey \o <<"setPrimary">> \o releaseOld]

createUser ==
  [createUser |-> <<"createUser">> \o provisionKey \o <<"adoptPrimary">>,
   createUserByClaim |-> <<"createUser">> \o claimFreeKey \o <<"applyKeyPlan">>,
   createUserAlone |-> <<"createUser">>]

userKeys ==
  [link |-> SetKeyUser \o <<"adoptPrimary">>,
   unlink |-> <<"unlink", "clearPrimaryOfFree">>,
   promote |-> <<"setPrimary">>,
   addKey |-> provisionKey \o <<"adoptPrimary">>,
   newKey |-> provisionKey,
   resetUsage |-> <<"deleteAccessKey", "deleteKey">> \o provisionKey
                  \o <<"setPrimary">>,
   deleteKey |-> <<"deleteAccessKey", "deleteKey">>,
   deleteUser |-> <<"deleteUser">>]

orderHandlers ==
  [approve |-> <<"createUser">> \o provisionKey \o <<"adoptPrimary", "decide">>,
   reject |-> <<"decide">>,
   remove |-> <<"deleteOrder">>]

StepsOf(op) ==
  CASE op \in DOMAIN orderHandlers -> orderHandlers[op]
    [] op \in DOMAIN createUser -> createUser[op]
    [] op \in DOMAIN replaceUserKey -> replaceUserKey[op]
    [] OTHER -> userKeys[op]

(* The handlers that remove the user they created when a later step fails, *)
(* up to the point where the user has a key and a link.                    *)
Discards(q) ==
  /\ q.op \in {"approve"} \cup DOMAIN createUser
  /\ q.user # None
  /\ Head(q.todo) \notin {"adoptPrimary", "decide"}

Idle == [op |-> "none", todo |-> <<>>, order |-> None, user |-> None,
         key |-> None, old |-> None]
Live(r) == req[r].op # "none"
At(r, step) == Live(r) /\ Head(req[r].todo) = step

(* What a request works on. *)
Objects(q) ==
  ({q.order} \ {None})
    \cup {<<"user", u>> : u \in {q.user} \ {None}}
    \cup {<<"key", k>> : k \in {q.key, q.old} \ {None}}
Crossing(r, q) ==
  UNION {Objects(q) \cup Objects(req[s]) :
           s \in {x \in Slots \ {r} : Objects(q) \cap Objects(req[x]) # {}}}
Untorn(objects) == objects \cap torn = {}
AtRest(objects) == \A r \in Slots : objects \cap Objects(req[r]) = {}

NoDialog == [what |-> "none", order |-> None]

Init ==
  /\ order = [o \in Orders |-> [status |-> "none", user |-> None]]
  /\ \/ /\ about = "orders"
        /\ primary = [u \in Users |-> Absent]
        /\ holder = [k \in Keys |-> Absent]
        /\ created = [users |-> 0, keys |-> 0]
     \/ /\ about = "users"
        /\ primary = [u \in Users |-> IF u < 3 THEN u ELSE Absent]
        /\ holder = [k \in Keys |-> CASE k < 3 -> k [] k = 3 -> None [] OTHER -> Absent]
        /\ created = [users |-> 2, keys |-> 3]
  /\ onOutline = {k \in Keys : holder[k] # Absent}
  /\ req = [r \in Slots |-> Idle]
  /\ listed = {}
  /\ tab = [shown |-> [o \in Orders |-> "none"], dialog |-> NoDialog, awaits |-> {}]
  /\ madeFor = [u \in Users |-> None]
  /\ recorded = onOutline
  /\ torn = {}
  /\ requests = 0 /\ troubles = 0

-----------------------------------------------------------------------------
(* How a request goes on and ends.                                         *)

(* The page's onSuccess closes its dialog and has the list fetched again.  *)
Answered(r, ok) ==
  tab' = [tab EXCEPT !.awaits = @ \ {r},
            !.dialog = IF ok /\ r \in tab.awaits /\ @.what = req[r].op
                       THEN NoDialog ELSE @,
            !.shown = IF ok /\ r \in tab.awaits
                      THEN [o \in Orders |-> order'[o].status] ELSE @]

(* Request r, now as in q, has taken its step.                             *)
Goes(r, q) ==
  LET left == Tail(q.todo) IN
  /\ req' = [req EXCEPT ![r] = IF left = <<>> THEN Idle ELSE [q EXCEPT !.todo = left]]
  /\ torn' = torn \cup Crossing(r, q)
  /\ IF left = <<>> THEN Answered(r, TRUE) ELSE UNCHANGED tab

(* Faulty variant: a schema without ON DELETE SET NULL on keys.user_id.    *)
DeleteUserRowOnly(u) ==
  /\ primary' = [primary EXCEPT ![u] = Absent]
  /\ UNCHANGED <<holder, order>>

(* DELETE FROM users, FROM keys: the schema's ON DELETE SET NULL.          *)
DeleteUserRow(u) ==
  /\ primary' = [primary EXCEPT ![u] = Absent]
  /\ holder' = [k \in Keys |-> IF holder[k] = u THEN None ELSE holder[k]]
  /\ order' = [o \in Orders |-> IF order[o].user = u
                               THEN [order[o] EXCEPT !.user = None] ELSE order[o]]
DeleteKeyRow(k) ==
  /\ holder' = [holder EXCEPT ![k] = Absent]
  /\ primary' = [u \in Users |-> IF primary[u] = k THEN None ELSE primary[u]]
  /\ UNCHANGED order

(* Faulty variant: the user stays.                                         *)
FailsKeepingUser(r) ==
  /\ UNCHANGED rows
  /\ req' = [req EXCEPT ![r] = Idle]
  /\ Answered(r, FALSE)

(* Request r ends in an error, and what it created for nothing is undone.  *)
Fails(r) ==
  /\ IF Discards(req[r]) /\ Exists(req[r].user)
     THEN DeleteUserRow(req[r].user)
     ELSE UNCHANGED rows
  /\ req' = [req EXCEPT ![r] = Idle]
  /\ Answered(r, FALSE)

(* What is left half done when r gets no further.                          *)
LeftTorn(r) ==
  IF \/ At(r, "clearPrimary") \/ At(r, "clearPrimaryOfFree")
     \/ req[r].op = "approve" /\ ~Discards(req[r]) /\ req[r].user # None
  THEN Objects(req[r]) ELSE {}

Trouble ==
  /\ troubles < MaxTroubles[about]
  /\ troubles' = troubles + 1
  /\ UNCHANGED <<about, created, requests>>

-----------------------------------------------------------------------------
(* The orders page.                                                        *)

createOrder(o) ==
  /\ about = "orders"
  /\ order[o].status = "none"
  /\ requests < MaxRequests[about]
  /\ requests' = requests + 1
  /\ order' = [order EXCEPT ![o].status = "pending"]
  /\ UNCHANGED <<about, primary, holder, onOutline, req, listed, tab, history, torn,
                 created, troubles>>

(* The list of the status the page is on is fetched.                       *)
Refetch ==
  /\ tab' = [tab EXCEPT !.shown = [o \in Orders |-> order[o].status]]
  /\ UNCHANGED <<rows, onOutline, req, listed, history, torn, counters>>

(* Approve and Reject are offered on the pending list, removal on others.  *)
Offered(what, status) ==
  IF what = "remove" THEN status \in {"approved", "rejected"} ELSE status = "pending"

OpenDialog(what, o) ==
  /\ tab.dialog = NoDialog
  /\ Offered(what, tab.shown[o])
  /\ tab' = [tab EXCEPT !.dialog = [what |-> what, order |-> o]]
  /\ UNCHANGED <<rows, onOutline, req, listed, history, torn, counters>>

(* Cancel works at any time, a request in flight or not.                   *)
CloseDialog ==
  /\ tab.dialog # NoDialog
  /\ tab' = [tab EXCEPT !.dialog = NoDialog]
  /\ UNCHANGED <<rows, onOutline, req, listed, history, torn, counters>>

(* The next free slot takes a request. *)
Accepts(r) ==
  /\ ~Live(r)
  /\ \A s \in Slots : s < r => Live(s)
  /\ requests < MaxRequests[about]

Arrives(r, q) ==
  /\ Accepts(r)
  /\ requests' = requests + 1
  /\ req' = [req EXCEPT ![r] = q]
  /\ torn' = torn \cup Crossing(r, q)

(* Confirming.  The button rests while the page awaits an answer to a      *)
(* request of the kind.  An order that has been decided is refused.        *)
Confirm(r) ==
  LET what == tab.dialog.what
      o == tab.dialog.order
  IN
  /\ tab.dialog # NoDialog
  /\ \A s \in tab.awaits : req[s].op # what
  /\ what # "remove" => order[o].status = "pending"
  /\ what = "remove" => order[o].status # "removed"
  /\ Arrives(r, [Idle EXCEPT !.op = what, !.todo = StepsOf(what), !.order = o])
  /\ tab' = [tab EXCEPT !.awaits = @ \cup {r}]
  /\ UNCHANGED <<about, rows, onOutline, listed, history, created, troubles>>

(* The client gives up on an answer; the server goes on.                   *)
GiveUp(r) ==
  /\ r \in tab.awaits
  /\ troubles < MaxTroubles[about]
  /\ troubles' = troubles + 1
  /\ tab' = [tab EXCEPT !.awaits = @ \ {r}]
  /\ UNCHANGED <<about, rows, onOutline, req, listed, history, torn, created, requests>>

(* DecideOrder writes whatever the order has become since it was read.     *)
decide(r) ==
  LET q == req[r] IN
  /\ At(r, "decide")
  /\ order[q.order].status # "removed"
  /\ q.op = "approve" => Exists(q.user)
  /\ order' = [order EXCEPT ![q.order] =
                 [status |-> IF q.op = "approve" THEN "approved" ELSE "rejected",
                  user |-> q.user]]
  /\ Goes(r, q)
  /\ UNCHANGED <<primary, holder, onOutline, listed, history, counters>>

deleteOrder(r) ==
  LET q == req[r] IN
  /\ At(r, "deleteOrder")
  /\ order[q.order].status # "removed"
  /\ order' = [order EXCEPT ![q.order].status = "removed"]
  /\ Goes(r, q)
  /\ UNCHANGED <<primary, holder, onOutline, listed, history, counters>>

-----------------------------------------------------------------------------
(* The users and keys pages: one request with its first reads.             *)

Send(r, op, u, k, old) ==
  /\ Arrives(r, [op |-> op, todo |-> StepsOf(op), order |-> None, user |-> u,
                 key |-> k, old |-> old])
  /\ UNCHANGED <<about, rows, onOutline, listed, tab, history, created, troubles>>

Creates(r) ==
  \/ \E op \in {"createUser", "createUserAlone"} : Send(r, op, None, None, None)
  \/ \E k \in Keys : Recorded(k) /\ Send(r, "createUserByClaim", None, k, None)

Replaces(r) ==
  \E u \in Users :
    /\ Exists(u)
    /\ \/ \E k \in Keys : Recorded(k) /\ Send(r, "replaceByFree", u, k, primary[u])
       \/ Send(r, "replaceByNew", u, None, primary[u])

Relinks(r) ==
  \E u \in Users, k \in Keys :
    /\ Exists(u)
    /\ \/ holder[k] \in {None, u} /\ Send(r, "link", u, k, None)
       \/ holder[k] = u /\ Send(r, "unlink", u, k, None)
       \/ holder[k] = u /\ Send(r, "promote", u, k, None)

(* A server's new key belongs to nobody unless it is made for a user, whom  *)
(* addKey also puts on it if they are on none.                             *)
Provides(r) ==
  \/ Send(r, "newKey", None, None, None)
  \/ \E u \in Users :
       /\ Exists(u)
       /\ \/ \E op \in {"newKey", "addKey"} : Send(r, op, u, None, None)
          \/ Recorded(primary[u]) /\ Send(r, "resetUsage", u, None, primary[u])

Removes(r) ==
  \/ \E k \in Keys : Recorded(k) /\ Send(r, "deleteKey", None, None, k)
  \/ \E u \in Users : Exists(u) /\ Send(r, "deleteUser", u, None, None)

-----------------------------------------------------------------------------
(* Their steps.                                                            *)

CreateUser(r) ==
  LET u == created.users + 1 IN
  /\ At(r, "createUser")
  /\ u \in Users
  /\ created' = [created EXCEPT !.users = u]
  /\ primary' = [primary EXCEPT ![u] = None]
  /\ madeFor' = [madeFor EXCEPT ![u] = req[r].order]
  /\ Goes(r, [req[r] EXCEPT !.user = u])
  /\ UNCHANGED <<about, order, holder, onOutline, listed, recorded, requests, troubles>>

DeleteUser(r) ==
  /\ At(r, "deleteUser")
  /\ Exists(req[r].user)
  /\ DeleteUserRow(req[r].user)
  /\ Goes(r, req[r])
  /\ UNCHANGED <<onOutline, listed, history, counters>>

(* A read that lets the request go on, or sends it back with an error.     *)
Checks(r, passes) ==
  /\ IF passes THEN UNCHANGED rows /\ Goes(r, req[r])
     ELSE Fails(r) /\ UNCHANGED torn
  /\ UNCHANGED <<onOutline, listed, history, counters>>

(* Faulty variant: the ceiling can be filled once over.                    *)
CountKeysAtMost(r) == At(r, "count") /\ Checks(r, KeyCount <= MaxKeys[about])

CountKeys(r) == At(r, "count") /\ Checks(r, KeyCount < MaxKeys[about])

CheckFree(r) ==
  At(r, "checkFree") /\ Checks(r, holder[req[r].key] \in {None, req[r].user})

(* CreateAccessKey on Outline, which names the key in a second call.       *)
CreateAccessKey(r) ==
  LET k == created.keys + 1 IN
  /\ At(r, "createAccessKey")
  /\ k \in Keys
  /\ created' = [created EXCEPT !.keys = k]
  /\ onOutline' = onOutline \cup {k}
  /\ Goes(r, [req[r] EXCEPT !.key = k])
  /\ UNCHANGED <<about, rows, listed, history, requests, troubles>>

(* The answer is lost, or the name is refused and the key removed again,   *)
(* unless that fails as well.                                              *)
CreateAccessKeyFails(r, stays) ==
  LET k == created.keys + 1 IN
  /\ At(r, "createAccessKey")
  /\ k \in Keys
  /\ troubles < MaxTroubles[about]
  /\ troubles' = troubles + 1
  /\ created' = [created EXCEPT !.keys = k]
  /\ onOutline' = IF stays THEN onOutline \cup {k} ELSE onOutline
  /\ Fails(r)
  /\ UNCHANGED <<about, listed, history, torn, requests>>

(* The insert, which a row a sync has adopted meanwhile refuses: then the  *)
(* key is removed from Outline, if that can be done.                       *)
CanRecord(q) ==
  /\ ~Recorded(q.key)
  /\ Exists(q.user) \/ (q.op = "newKey" /\ q.user = None)

CreateKey(r) ==
  LET q == req[r] IN
  /\ At(r, "createKey")
  /\ CanRecord(q)
  /\ holder' = [holder EXCEPT ![q.key] = q.user]
  /\ recorded' = recorded \cup {q.key}
  /\ Goes(r, q)
  /\ UNCHANGED <<order, primary, onOutline, listed, madeFor, counters>>

KeyNotRecorded(r) ==
  LET q == req[r] IN
  /\ At(r, "createKey")
  /\ ~CanRecord(q)
  /\ onOutline' = onOutline \ {q.key}
  /\ Fails(r)
  /\ UNCHANGED <<listed, history, torn, counters>>

SetHolder(r) ==
  LET q == req[r] IN
  /\ At(r, "setHolder")
  /\ Recorded(q.key) /\ Exists(q.user)
  /\ holder' = [holder EXCEPT ![q.key] = q.user]
  /\ Goes(r, q)
  /\ UNCHANGED <<order, primary, onOutline, listed, history, counters>>

ClearPrimary(r) ==
  LET q == req[r] IN
  /\ At(r, "clearPrimary")
  /\ primary' = [u \in Users |-> IF primary[u] = q.key /\ u # q.user
                                 THEN None ELSE primary[u]]
  /\ Goes(r, q)
  /\ UNCHANGED <<order, holder, onOutline, listed, history, counters>>

SetPrimary(r) ==
  LET q == req[r] IN
  /\ At(r, "setPrimary")
  /\ Recorded(q.key) /\ Exists(q.user)
  /\ primary' = [primary EXCEPT ![q.user] = q.key]
  /\ Goes(r, q)
  /\ UNCHANGED <<order, holder, onOutline, listed, history, counters>>

AdoptPrimaryKeyIfUnset(r) ==
  LET q == req[r] IN
  /\ At(r, "adoptPrimary")
  /\ q.user # None
  /\ primary[q.user] = None => Recorded(q.key)
  /\ primary' = IF primary[q.user] = None
                THEN [primary EXCEPT ![q.user] = q.key] ELSE primary
  /\ Goes(r, q)
  /\ UNCHANGED <<order, holder, onOutline, listed, history, counters>>

(* Pushing the key's limit, and writing the plan of a key that was claimed.*)
Pushable(q) == Recorded(q.key) /\ q.key \in onOutline

PushPlan(r) ==
  /\ At(r, "reconcile") \/ At(r, "applyKeyPlan")
  /\ Pushable(req[r])
  /\ Goes(r, req[r])
  /\ UNCHANGED <<rows, onOutline, listed, history, counters>>

(* Freeing a key: the one a request unlinks, or the one its user was on    *)
(* before, which is not worth an error.                                    *)
Free(r, k) ==
  /\ holder' = IF Recorded(k) THEN [holder EXCEPT ![k] = None] ELSE holder
  /\ Goes(r, req[r])
  /\ UNCHANGED <<order, primary, onOutline, listed, history, counters>>

Unlink(r) == At(r, "unlink") /\ Recorded(req[r].key) /\ Free(r, req[r].key)
Release(r) ==
  At(r, "release") /\ Free(r, IF req[r].old = req[r].key THEN None ELSE req[r].old)

(* Faulty variant: the user the key was taken from keeps it as primary.    *)
ClearPrimaryOfFreeNot(r) ==
  /\ At(r, "clearPrimaryOfFree") \/ At(r, "releaseClear")
  /\ Goes(r, req[r])
  /\ UNCHANGED <<rows, onOutline, listed, history, counters>>

ClearPrimaryOfFree(r) ==
  LET k == IF At(r, "releaseClear") THEN req[r].old ELSE req[r].key IN
  /\ At(r, "clearPrimaryOfFree") \/ At(r, "releaseClear")
  /\ primary' = IF At(r, "releaseClear") /\ k = req[r].key THEN primary
                ELSE [u \in Users |-> IF primary[u] = k THEN None ELSE primary[u]]
  /\ Goes(r, req[r])
  /\ UNCHANGED <<order, holder, onOutline, listed, history, counters>>

(* Outline answers with an error to the removal of a key it does not have. *)
DeleteAccessKey(r) ==
  /\ At(r, "deleteAccessKey")
  /\ req[r].old \in onOutline
  /\ onOutline' = onOutline \ {req[r].old}
  /\ Goes(r, req[r])
  /\ UNCHANGED <<rows, listed, history, counters>>

(* The key is gone and the answer is lost: the row stays.                  *)
DeleteAccessKeyUnanswered(r) ==
  /\ At(r, "deleteAccessKey")
  /\ Trouble
  /\ onOutline' = onOutline \ {req[r].old}
  /\ Fails(r)
  /\ torn' = torn \cup LeftTorn(r)
  /\ UNCHANGED <<listed, history>>

(* deleteKey with force: the row goes whatever Outline's error was, which  *)
(* may have removed the key although its answer is lost.                   *)
ForceDelete(r) ==
  /\ At(r, "deleteAccessKey")
  /\ req[r].op = "deleteKey"
  /\ IF req[r].old \in onOutline THEN Trouble ELSE UNCHANGED counters
  /\ onOutline' \in {onOutline, onOutline \ {req[r].old}}
  /\ Goes(r, req[r])
  /\ UNCHANGED <<rows, listed, history>>

DeleteKey(r) ==
  /\ At(r, "deleteKey")
  /\ Recorded(req[r].old)
  /\ DeleteKeyRow(req[r].old)
  /\ recorded' = recorded \ {req[r].old}
  /\ Goes(r, req[r])
  /\ UNCHANGED <<onOutline, listed, madeFor, counters>>

-----------------------------------------------------------------------------
(* Failures.                                                               *)

(* A step that finds its row, its key on Outline or what it refers to gone.*)
Refused(r) ==
  LET q == req[r] IN
  \/ q.todo[1] \in {"setHolder", "setPrimary"}
       /\ ~(Recorded(q.key) /\ Exists(q.user))
  \/ q.todo[1] = "adoptPrimary" /\ primary[q.user] = None /\ ~Recorded(q.key)
  \/ q.todo[1] \in {"reconcile", "applyKeyPlan"} /\ ~Pushable(q)
  \/ q.todo[1] = "unlink" /\ ~Recorded(q.key)
  \/ q.todo[1] = "deleteAccessKey" /\ q.old \notin onOutline
  \/ q.todo[1] = "deleteKey" /\ ~Recorded(q.old)
  \/ q.todo[1] = "deleteUser" /\ ~Exists(q.user)
  \/ q.todo[1] \in {"decide", "deleteOrder"} /\ order[q.order].status = "removed"
  \/ q.todo[1] = "decide" /\ q.op = "approve" /\ ~Exists(q.user)

Refuse(r) ==
  /\ Live(r)
  /\ Refused(r)
  /\ Fails(r)
  /\ torn' = torn \cup LeftTorn(r)
  /\ UNCHANGED <<onOutline, listed, history, counters>>

(* The database or Outline fails a step, or the request's time is up.  A   *)
(* key whose old one cannot be released is only logged.                    *)
Fail(r) ==
  /\ Live(r)
  /\ Trouble
  /\ IF req[r].todo[1] \in {"release", "releaseClear"}
     THEN /\ UNCHANGED rows
          /\ req' = [req EXCEPT ![r] = Idle]
          /\ Answered(r, TRUE)
          /\ torn' = torn \cup (IF At(r, "releaseClear") THEN Objects(req[r]) ELSE {})
     ELSE Fails(r) /\ torn' = torn \cup LeftTorn(r)
  /\ onOutline' = IF At(r, "createKey") THEN onOutline \ {req[r].key} ELSE onOutline
  /\ UNCHANGED <<listed, history>>

(* What was created cannot be removed again either: discardUser and        *)
(* discardRemoteKey only log that.                                         *)
FailToDiscard(r) ==
  /\ Live(r)
  /\ Discards(req[r]) \/ At(r, "createKey")
  /\ Trouble
  /\ UNCHANGED rows
  /\ req' = [req EXCEPT ![r] = Idle]
  /\ Answered(r, FALSE)
  /\ torn' = torn \cup Objects(req[r])
  /\ UNCHANGED <<onOutline, listed, history>>

Crash ==
  /\ Trouble
  /\ req' = [r \in Slots |-> Idle]
  /\ torn' = torn \cup UNION {Objects(req[r]) : r \in Slots}
  /\ listed' = {}
  /\ tab' = [tab EXCEPT !.awaits = {}]
  /\ UNCHANGED <<rows, onOutline, history>>

-----------------------------------------------------------------------------
(* The sync of the server: a list of its keys, and a row for each.         *)

ListAccessKeys ==
  /\ listed = {}
  /\ listed' = onOutline
  /\ UNCHANGED <<rows, onOutline, req, tab, history, torn, counters>>

(* Faulty variant: rows are only refreshed.                                *)
UpsertOnlyKnown(k) ==
  /\ k \in listed
  /\ \A j \in listed : k <= j
  /\ listed' = listed \ {k}
  /\ UNCHANGED <<rows, onOutline, req, tab, history, torn, counters>>

UpsertKeyFromOutline(k) ==
  /\ k \in listed
  /\ \A j \in listed : k <= j
  /\ listed' = listed \ {k}
  /\ holder' = [holder EXCEPT ![k] = IF @ = Absent THEN None ELSE @]
  /\ UNCHANGED <<order, primary, onOutline, req, tab, history, torn, counters>>

-----------------------------------------------------------------------------
Handler(r) ==
  \/ CreateUser(r)
  \/ DeleteUser(r)
  \/ CountKeys(r)
  \/ CheckFree(r)
  \/ CreateAccessKey(r)
  \/ CreateKey(r)
  \/ KeyNotRecorded(r)
  \/ SetHolder(r)
  \/ ClearPrimary(r)
  \/ SetPrimary(r)
  \/ AdoptPrimaryKeyIfUnset(r)
  \/ PushPlan(r)
  \/ Unlink(r)
  \/ Release(r)
  \/ ClearPrimaryOfFree(r)
  \/ DeleteAccessKey(r)
  \/ DeleteAccessKeyUnanswered(r)
  \/ ForceDelete(r)
  \/ DeleteKey(r)
  \/ decide(r)
  \/ deleteOrder(r)
  \/ Refuse(r)

Page ==
  \/ \E o \in Orders : createOrder(o)
  \/ Refetch
  \/ \E o \in Orders, what \in DOMAIN orderHandlers : OpenDialog(what, o)
  \/ CloseDialog
  \/ \E r \in Slots : Confirm(r)

Next ==
  \/ Page
  \/ \E r \in Slots :
       \/ /\ about = "users" /\ Accepts(r)
          /\ Creates(r) \/ Replaces(r) \/ Relinks(r) \/ Provides(r) \/ Removes(r)
       \/ Handler(r)
       \/ GiveUp(r)
       \/ Fail(r)
       \/ FailToDiscard(r)
       \/ \E stays \in BOOLEAN : CreateAccessKeyFails(r, stays)
  \/ Crash
  \/ ListAccessKeys
  \/ \E k \in Keys : UpsertKeyFromOutline(k)

(* The cron keeps syncing, and a sync gets through its list.               *)
Spec ==
  /\ Init
  /\ [][Next]_vars
  /\ WF_vars(ListAccessKeys)
  /\ WF_vars(\E k \in Keys : UpsertKeyFromOutline(k))
=============================================================================

------------------------------ MODULE DeskProofs ------------------------------
(***************************************************************************)
(* Proofs about MCDesk, for any number of requests handled at the same     *)
(* time and whatever fails, crashes, is lost or is adopted meanwhile:      *)
(*                                                                         *)
(*   - the key ceiling, which every request looks at before it creates a   *)
(*     key and none looks at again, is passed by at most one key for every *)
(*     other request;                                                      *)
(*   - no row refers to one that is gone;                                  *)
(*   - a link resolves to a key its user holds, and a move to another key  *)
(*     never leaves a user without one;                                    *)
(*   - the desk implements the order book.                                 *)
(***************************************************************************)
EXTENDS MCDesk, FiniteSetTheorems, TLAPS

-----------------------------------------------------------------------------
(* The order of a handler's steps. *)

\* The steps after the ceiling was looked at, up to the insert of the key.
Creating == {"createAccessKey", "createKey"}
Provisioning == {"count", "createAccessKey", "createKey", "reconcile"}
Claiming == {"checkFree", "setHolder", "clearPrimary", "setPrimary"}
Releasing == {"release", "releaseClear"}

\* Step b comes right after step a.
Follows(a, b) ==
  \/ a = "createUser" /\ b \in {"count", "checkFree"}
  \/ a = "count" /\ b = "createAccessKey"
  \/ a = "createAccessKey" /\ b = "createKey"
  \/ a = "createKey" /\ b = "reconcile"
  \/ a = "reconcile" /\ b \in {"adoptPrimary", "setPrimary"}
  \/ a = "checkFree" /\ b = "setHolder"
  \/ a = "setHolder" /\ b = "clearPrimary"
  \/ a = "clearPrimary" /\ b \in {"adoptPrimary", "setPrimary"}
  \/ a = "setPrimary" /\ b \in {"release", "applyKeyPlan"}
  \/ a = "release" /\ b = "releaseClear"
  \/ a = "adoptPrimary" /\ b = "decide"
  \/ a = "unlink" /\ b = "clearPrimaryOfFree"
  \/ a = "deleteAccessKey" /\ b = "deleteKey"
  \/ a = "deleteKey" /\ b = "count"

OrderOps == {"approve", "reject", "remove"}
Replacing == {"replaceByFree", "replaceByNew"}
UserOps == {"createUser", "createUserByClaim", "createUserAlone", "replaceByFree",
            "replaceByNew", "link", "unlink", "promote", "newKey", "addKey", "resetUsage",
            "deleteKey", "deleteUser"}
Ops == OrderOps \cup UserOps

\* The steps an operation has.
StepsIn(op) ==
  CASE op = "approve" -> {"createUser"} \cup Provisioning \cup {"adoptPrimary", "decide"}
    [] op = "reject" -> {"decide"}
    [] op = "remove" -> {"deleteOrder"}
    [] op \in Replacing -> Provisioning \cup Claiming \cup Releasing
    [] op = "newKey" -> Provisioning
    [] OTHER -> Provisioning \cup Claiming
                \cup {"createUser", "adoptPrimary", "applyKeyPlan", "unlink",
                      "clearPrimaryOfFree", "deleteAccessKey", "deleteKey", "deleteUser"}

FirstOf(op) ==
  CASE op \in {"approve", "createUser", "createUserByClaim", "createUserAlone"} ->
         "createUser"
    [] op = "reject" -> "decide"
    [] op = "remove" -> "deleteOrder"
    [] op = "replaceByFree" -> "checkFree"
    [] op \in {"replaceByNew", "newKey", "addKey"} -> "count"
    [] op = "link" -> "setHolder"
    [] op = "unlink" -> "unlink"
    [] op = "promote" -> "setPrimary"
    [] op \in {"resetUsage", "deleteKey"} -> "deleteAccessKey"
    [] OTHER -> "deleteUser"

\* A sequence of steps of S, from a to b, each of which follows the one before.
Part(S, s, a, b) ==
  /\ s \in Seq(S)
  /\ Len(s) >= 1 /\ s[1] = a /\ s[Len(s)] = b
  /\ \A n \in 2 .. Len(s) : Follows(s[n - 1], s[n])

\* The steps an operation ends with.
EndsOf(op) ==
  CASE op = "approve" -> {"decide"}
    [] op \in Replacing -> {"releaseClear"}
    [] op = "createUserAlone" -> {"createUser"}
    [] op = "newKey" -> {"reconcile"}
    [] OTHER -> {"decide", "deleteOrder", "adoptPrimary", "applyKeyPlan", "setPrimary",
                 "clearPrimaryOfFree", "deleteKey", "deleteUser"}

\* What is left of an operation's steps.
InOrder(op, s) == \E a, b : Part(StepsIn(op), s, a, b) /\ b \in EndsOf(op)

LEMMA Joined ==
  ASSUME NEW S, NEW s, NEW t, NEW a, NEW b, NEW c, NEW d,
         Part(S, s, a, b), Part(S, t, c, d), Follows(b, c)
  PROVE  Part(S, s \o t, a, d)
<1>1. s \in Seq(S) /\ t \in Seq(S) /\ Len(s) \in Nat /\ Len(t) \in Nat
      /\ Len(s) >= 1 /\ Len(t) >= 1
  BY DEF Part
<1> DEFINE st == s \o t
<1>2. st \in Seq(S) /\ Len(st) = Len(s) + Len(t) BY <1>1
<1>3. ASSUME NEW n \in 1 .. Len(s) PROVE st[n] = s[n] BY <1>1
<1>4. ASSUME NEW n \in Int, Len(s) + 1 <= n, n <= Len(s) + Len(t)
      PROVE  st[n] = t[n - Len(s)]
  BY <1>1, <1>4
<1> HIDE DEF st
<1>5. st[1] = a
  <2>1. 1 \in 1 .. Len(s) BY <1>1
  <2> QED BY <2>1, <1>3 DEF Part
<1>6. st[Len(st)] = d
  <2>1. PICK n : n = Len(st) OBVIOUS
  <2>2. n \in Int /\ Len(s) + 1 <= n /\ n <= Len(s) + Len(t) /\ n - Len(s) = Len(t)
    BY <1>1, <1>2, <2>1
  <2>3. st[n] = t[n - Len(s)] BY <1>4, <2>2
  <2> QED BY <2>1, <2>2, <2>3 DEF Part
<1>7. ASSUME NEW n \in 2 .. Len(st) PROVE Follows(st[n - 1], st[n])
  <2>1. CASE n <= Len(s)
    <3>1. n \in 2 .. Len(s) /\ n \in 1 .. Len(s) /\ n - 1 \in 1 .. Len(s)
      BY <1>1, <1>2, <2>1
    <3>2. st[n] = s[n] /\ st[n - 1] = s[n - 1] BY <1>3, <3>1
    <3> QED BY <3>1, <3>2 DEF Part
  <2>2. CASE n = Len(s) + 1
    <3>1. n \in Int /\ Len(s) + 1 <= n /\ n <= Len(s) + Len(t) /\ n - Len(s) = 1
      BY <1>1, <2>2
    <3>2. st[n] = t[n - Len(s)] BY <1>4, <3>1
    <3>3. st[n] = c BY <3>1, <3>2 DEF Part
    <3>4. n - 1 = Len(s) /\ n - 1 \in 1 .. Len(s) BY <1>1, <2>2
    <3>5. st[n - 1] = s[n - 1] BY <1>3, <3>4
    <3>6. st[n - 1] = b BY <3>4, <3>5 DEF Part
    <3> QED BY <3>3, <3>6
  <2>3. CASE n > Len(s) + 1
    <3>1. PICK m : m = n - Len(s) OBVIOUS
    <3>2. m \in 2 .. Len(t) /\ (n - 1) - Len(s) = m - 1 BY <1>1, <1>2, <2>3, <3>1
    <3>3. /\ n \in Int /\ Len(s) + 1 <= n /\ n <= Len(s) + Len(t)
          /\ n - 1 \in Int /\ Len(s) + 1 <= n - 1 /\ n - 1 <= Len(s) + Len(t)
      BY <1>1, <1>2, <2>3
    <3>4. st[n] = t[m] BY <1>4, <3>1, <3>3
    <3>5. st[n - 1] = t[m - 1]
      <4>1. st[n - 1] = t[(n - 1) - Len(s)] BY <1>4, <3>3
      <4> QED BY <4>1, <3>2
    <3> QED BY <3>2, <3>4, <3>5 DEF Part
  <2> QED BY <1>1, <1>2, <2>1, <2>2, <2>3
<1>8. Len(st) >= 1 BY <1>1, <1>2
<1> QED BY <1>2, <1>5, <1>6, <1>7, <1>8 DEF Part, st

LEMMA OneOrTwo ==
  ASSUME NEW S, NEW x \in S
  PROVE  /\ Part(S, <<x>>, x, x)
         /\ \A y \in S : Follows(x, y) => Part(S, <<x, y>>, x, y)
<1>1. Part(S, <<x>>, x, x)
  BY DEF Part
<1>2. ASSUME NEW y \in S, Follows(x, y) PROVE Part(S, <<x, y>>, x, y)
  <2> DEFINE s == <<x, y>>
  <2>1. s \in Seq(S) /\ Len(s) = 2 /\ s[1] = x /\ s[2] = y OBVIOUS
  <2> HIDE DEF s
  <2>2. Part(S, s, x, y) BY <1>2, <2>1, 2 .. 2 = {2} DEF Part
  <2> QED BY <2>2 DEF s
<1> QED BY <1>1, <1>2

LEMMA PartProvision ==
  ASSUME NEW S, Provisioning \subseteq S
  PROVE  Part(S, provisionKey, "count", "reconcile")
<1>1. /\ "count" \in S /\ "createAccessKey" \in S /\ "createKey" \in S /\ "reconcile" \in S
  BY DEF Provisioning
<1> DEFINE s == <<"count", "createAccessKey", "createKey", "reconcile">>
<1>2. s \in Seq(S) /\ Len(s) = 4
  BY <1>1
<1>3. s[1] = "count" /\ s[2] = "createAccessKey" /\ s[3] = "createKey" /\ s[4] = "reconcile"
  OBVIOUS
<1> HIDE DEF s
<1>4. ASSUME NEW n \in 2 .. 4 PROVE Follows(s[n - 1], s[n])
  <2>1. n = 2 \/ n = 3 \/ n = 4 OBVIOUS
  <2> QED BY <2>1, <1>3 DEF Follows
<1>5. Part(S, s, "count", "reconcile") BY <1>2, <1>3, <1>4 DEF Part
<1> QED BY <1>5 DEF s, provisionKey

LEMMA PartClaim ==
  ASSUME NEW S
  PROVE  /\ "setHolder" \in S /\ "clearPrimary" \in S =>
              Part(S, SetKeyUser, "setHolder", "clearPrimary")
         /\ Claiming \subseteq S => Part(S, claimFreeKey, "checkFree", "setPrimary")
         /\ Releasing \subseteq S => Part(S, releaseOld, "release", "releaseClear")
<1>1. ASSUME "setHolder" \in S, "clearPrimary" \in S
      PROVE  Part(S, SetKeyUser, "setHolder", "clearPrimary")
  <2>1. Follows("setHolder", "clearPrimary") BY DEF Follows
  <2> QED BY <1>1, <2>1, OneOrTwo DEF SetKeyUser
<1>2. ASSUME Claiming \subseteq S PROVE Part(S, claimFreeKey, "checkFree", "setPrimary")
  <2>1. /\ "checkFree" \in S /\ "setHolder" \in S
        /\ "clearPrimary" \in S /\ "setPrimary" \in S
    BY <1>2 DEF Claiming
  <2>2. Part(S, <<"checkFree">>, "checkFree", "checkFree") BY <2>1, OneOrTwo
  <2>3. Part(S, <<"setPrimary">>, "setPrimary", "setPrimary") BY <2>1, OneOrTwo
  <2>4. Follows("checkFree", "setHolder") /\ Follows("clearPrimary", "setPrimary")
    BY DEF Follows
  <2>5. Part(S, <<"checkFree">> \o SetKeyUser, "checkFree", "clearPrimary")
    BY <1>1, <2>1, <2>2, <2>4, Joined
  <2>6. Part(S, <<"checkFree">> \o SetKeyUser \o <<"setPrimary">>,
             "checkFree", "setPrimary")
    BY <2>3, <2>4, <2>5, Joined
  <2> QED BY <2>6 DEF claimFreeKey
<1>3. ASSUME Releasing \subseteq S PROVE Part(S, releaseOld, "release", "releaseClear")
  <2>1. Follows("release", "releaseClear") BY DEF Follows
  <2>2. "release" \in S /\ "releaseClear" \in S BY <1>3 DEF Releasing
  <2> QED BY <2>1, <2>2, OneOrTwo DEF releaseOld
<1> QED BY <1>1, <1>2, <1>3

\* What each handler has to do is in order.
LEMMA AllInOrder ==
  ASSUME NEW op \in Ops
  PROVE  \E b \in EndsOf(op) : Part(StepsIn(op), StepsOf(op), FirstOf(op), b)
<1>1. /\ DOMAIN orderHandlers = {"approve", "reject", "remove"}
      /\ DOMAIN createUser = {"createUser", "createUserByClaim", "createUserAlone"}
      /\ DOMAIN replaceUserKey = {"replaceByFree", "replaceByNew"}
  BY DEF orderHandlers, createUser, replaceUserKey
<1>2. /\ op \in OrderOps => StepsOf(op) = orderHandlers[op]
      /\ op \in DOMAIN createUser => StepsOf(op) = createUser[op]
      /\ op \in Replacing => StepsOf(op) = replaceUserKey[op]
      /\ op \notin OrderOps \cup DOMAIN createUser \cup Replacing =>
           StepsOf(op) = userKeys[op]
  BY <1>1 DEF StepsOf, OrderOps, Replacing
<1>3. /\ Follows("createUser", "count") /\ Follows("createUser", "checkFree")
      /\ Follows("reconcile", "adoptPrimary") /\ Follows("reconcile", "setPrimary")
      /\ Follows("adoptPrimary", "decide") /\ Follows("setPrimary", "release")
      /\ Follows("setPrimary", "applyKeyPlan") /\ Follows("clearPrimary", "adoptPrimary")
      /\ Follows("unlink", "clearPrimaryOfFree") /\ Follows("deleteAccessKey", "deleteKey")
      /\ Follows("deleteKey", "count")
  BY DEF Follows
<1>4. CASE op = "approve"
  <2> DEFINE S == StepsIn("approve")
  <2>1. /\ Provisioning \subseteq S /\ "createUser" \in S
        /\ "adoptPrimary" \in S /\ "decide" \in S
    BY DEF StepsIn, Replacing
  <2> HIDE DEF S
  <2>2. Part(S, <<"createUser">>, "createUser", "createUser") BY <2>1, OneOrTwo
  <2>3. Part(S, <<"adoptPrimary", "decide">>, "adoptPrimary", "decide")
    BY <1>3, <2>1, OneOrTwo
  <2>4. Part(S, <<"createUser">> \o provisionKey, "createUser", "reconcile")
    BY <1>3, <2>1, <2>2, PartProvision, Joined
  <2>5. Part(S, <<"createUser">> \o provisionKey \o <<"adoptPrimary", "decide">>,
             "createUser", "decide")
    BY <1>3, <2>3, <2>4, Joined
  <2>6. StepsOf(op) = <<"createUser">> \o provisionKey \o <<"adoptPrimary", "decide">>
    BY <1>2, <1>4 DEF OrderOps, orderHandlers
  <2> QED BY <1>4, <2>5, <2>6 DEF FirstOf, EndsOf, Replacing, S
<1>5. CASE op = "reject"
  <2>1. StepsOf(op) = <<"decide">> BY <1>2, <1>5 DEF OrderOps, orderHandlers
  <2>2. "decide" \in StepsIn(op) BY <1>5 DEF StepsIn, Replacing
  <2> QED BY <1>5, <2>1, <2>2, OneOrTwo DEF FirstOf, EndsOf, Replacing
<1>6. CASE op = "remove"
  <2>1. StepsOf(op) = <<"deleteOrder">> BY <1>2, <1>6 DEF OrderOps, orderHandlers
  <2>2. "deleteOrder" \in StepsIn(op) BY <1>6 DEF StepsIn, Replacing
  <2> QED BY <1>6, <2>1, <2>2, OneOrTwo DEF FirstOf, EndsOf, Replacing
<1>7. CASE op \in Replacing
  <2> DEFINE S == StepsIn(op)
  <2>1. Provisioning \subseteq S /\ Claiming \subseteq S /\ Releasing \subseteq S
    BY <1>7 DEF StepsIn, Replacing
  <2> HIDE DEF S
  <2>2. Part(S, <<"setPrimary">>, "setPrimary", "setPrimary")
    BY <2>1, OneOrTwo DEF Claiming
  <2>3. Part(S, provisionKey \o <<"setPrimary">>, "count", "setPrimary")
    BY <1>3, <2>1, <2>2, PartProvision, Joined
  <2>4. Part(S, provisionKey \o <<"setPrimary">> \o releaseOld, "count", "releaseClear")
    BY <1>3, <2>1, <2>3, PartClaim, Joined
  <2>5. Part(S, claimFreeKey \o releaseOld, "checkFree", "releaseClear")
    BY <1>3, <2>1, PartClaim, Joined
  <2>6. CASE op = "replaceByFree"
    <3>1. StepsOf(op) = claimFreeKey \o releaseOld
      BY <1>2, <1>7, <2>6 DEF replaceUserKey
    <3> QED BY <2>5, <2>6, <3>1 DEF FirstOf, EndsOf, Replacing, S
  <2>7. CASE op = "replaceByNew"
    <3>1. StepsOf(op) = provisionKey \o <<"setPrimary">> \o releaseOld
      BY <1>2, <1>7, <2>7 DEF replaceUserKey
    <3> QED BY <2>4, <2>7, <3>1 DEF FirstOf, EndsOf, Replacing, S
  <2> QED BY <1>7, <2>6, <2>7 DEF Replacing
<1>9. CASE op = "newKey"
  <2>1. StepsOf(op) = provisionKey
    BY <1>1, <1>2, <1>9 DEF OrderOps, Replacing, userKeys
  <2>2. Part(StepsIn(op), provisionKey, "count", "reconcile")
    BY <1>9, PartProvision DEF StepsIn, Replacing
  <2> QED BY <1>9, <2>1, <2>2 DEF FirstOf, EndsOf, Replacing
<1>8. CASE op \notin OrderOps \cup Replacing \cup {"newKey"}
  <2> DEFINE S == StepsIn(op)
  <2>1. /\ Provisioning \subseteq S /\ Claiming \subseteq S
        /\ {"createUser", "adoptPrimary", "applyKeyPlan", "unlink", "clearPrimaryOfFree",
            "deleteAccessKey", "deleteKey", "deleteUser"} \subseteq S
    BY <1>8 DEF StepsIn, OrderOps
  <2>2. "setHolder" \in S /\ "clearPrimary" \in S /\ "setPrimary" \in S
    BY <2>1 DEF Claiming
  <2> HIDE DEF S
  <2>3. /\ Part(S, <<"createUser">>, "createUser", "createUser")
        /\ Part(S, <<"adoptPrimary">>, "adoptPrimary", "adoptPrimary")
        /\ Part(S, <<"setPrimary">>, "setPrimary", "setPrimary")
        /\ Part(S, <<"applyKeyPlan">>, "applyKeyPlan", "applyKeyPlan")
        /\ Part(S, <<"deleteUser">>, "deleteUser", "deleteUser")
    BY <2>1, <2>2, OneOrTwo
  <2>4. /\ Part(S, <<"unlink", "clearPrimaryOfFree">>, "unlink", "clearPrimaryOfFree")
        /\ Part(S, <<"deleteAccessKey", "deleteKey">>, "deleteAccessKey", "deleteKey")
    BY <1>3, <2>1, OneOrTwo
  <2>5. CASE op = "createUser"
    <3>1. Part(S, <<"createUser">> \o provisionKey, "createUser", "reconcile")
      BY <1>3, <2>1, <2>3, PartProvision, Joined
    <3>2. Part(S, <<"createUser">> \o provisionKey \o <<"adoptPrimary">>,
               "createUser", "adoptPrimary")
      BY <1>3, <2>3, <3>1, Joined
    <3>3. StepsOf(op) = <<"createUser">> \o provisionKey \o <<"adoptPrimary">>
      BY <1>1, <1>2, <2>5 DEF createUser
    <3> QED BY <2>5, <3>2, <3>3 DEF FirstOf, EndsOf, Replacing, S
  <2>6. CASE op = "createUserByClaim"
    <3>1. Part(S, <<"createUser">> \o claimFreeKey, "createUser", "setPrimary")
      BY <1>3, <2>1, <2>3, PartClaim, Joined
    <3>2. Part(S, <<"createUser">> \o claimFreeKey \o <<"applyKeyPlan">>,
               "createUser", "applyKeyPlan")
      BY <1>3, <2>3, <3>1, Joined
    <3>3. StepsOf(op) = <<"createUser">> \o claimFreeKey \o <<"applyKeyPlan">>
      BY <1>1, <1>2, <2>6 DEF createUser
    <3> QED BY <2>6, <3>2, <3>3 DEF FirstOf, EndsOf, Replacing, S
  <2>8. CASE op = "createUserAlone"
    <3>1. StepsOf(op) = <<"createUser">> BY <1>1, <1>2, <2>8 DEF createUser
    <3> QED BY <2>3, <2>8, <3>1 DEF FirstOf, EndsOf, Replacing, S
  <2>7. CASE op \notin DOMAIN createUser
    <3>0. StepsOf(op) = userKeys[op] BY <1>2, <1>8, <2>7
    <3>1. CASE op = "link"
      <4>1. StepsOf(op) = SetKeyUser \o <<"adoptPrimary">> BY <3>0, <3>1 DEF userKeys
      <4>2. Part(S, SetKeyUser \o <<"adoptPrimary">>, "setHolder", "adoptPrimary")
        BY <1>3, <2>2, <2>3, PartClaim, Joined
      <4> QED BY <3>1, <4>1, <4>2 DEF FirstOf, EndsOf, Replacing, S
    <3>2. CASE op = "addKey"
      <4>1. StepsOf(op) = provisionKey \o <<"adoptPrimary">> BY <3>0, <3>2 DEF userKeys
      <4>2. Part(S, provisionKey \o <<"adoptPrimary">>, "count", "adoptPrimary")
        BY <1>3, <2>1, <2>3, PartProvision, Joined
      <4> QED BY <3>2, <4>1, <4>2 DEF FirstOf, EndsOf, Replacing, S
    <3>3. CASE op = "resetUsage"
      <4>1. StepsOf(op) = <<"deleteAccessKey", "deleteKey">> \o provisionKey
                           \o <<"setPrimary">>
        BY <3>0, <3>3 DEF userKeys
      <4>2. Part(S, <<"deleteAccessKey", "deleteKey">> \o provisionKey,
                 "deleteAccessKey", "reconcile")
        BY <1>3, <2>1, <2>4, PartProvision, Joined
      <4>3. Part(S, <<"deleteAccessKey", "deleteKey">> \o provisionKey \o <<"setPrimary">>,
                 "deleteAccessKey", "setPrimary")
        BY <1>3, <2>3, <4>2, Joined
      <4> QED BY <3>3, <4>1, <4>3 DEF FirstOf, EndsOf, Replacing, S
    <3>4. CASE op = "unlink"
      BY <2>4, <3>0, <3>4 DEF userKeys, FirstOf, EndsOf, Replacing, S
    <3>5. CASE op = "promote"
      BY <2>3, <3>0, <3>5 DEF userKeys, FirstOf, EndsOf, Replacing, S
    <3>6. CASE op = "deleteKey"
      BY <2>4, <3>0, <3>6 DEF userKeys, FirstOf, EndsOf, Replacing, S
    <3>7. CASE op = "deleteUser"
      BY <2>3, <3>0, <3>7 DEF userKeys, FirstOf, EndsOf, Replacing, S
    <3> QED BY <1>1, <1>8, <2>7, <3>1, <3>2, <3>3, <3>4, <3>5, <3>6, <3>7
        DEF Ops, OrderOps, UserOps, Replacing
  <2> QED BY <1>1, <2>5, <2>6, <2>7, <2>8
<1> QED BY <1>4, <1>5, <1>6, <1>7, <1>8, <1>9 DEF OrderOps

-----------------------------------------------------------------------------
(* The invariant of the ceiling: the keys made by handlers, and those that *)
(* requests which have looked at the ceiling are still about to make.      *)

GoodRequest(q) ==
  /\ q = [op |-> q.op, todo |-> q.todo, order |-> q.order, user |-> q.user,
          key |-> q.key, old |-> q.old]
  /\ \/ q = Idle
     \/ q.op \in Ops /\ InOrder(q.op, q.todo)
  /\ q.op \in OrderOps => q.order \in Orders
  /\ q.op \in UserOps => q.order = None
  /\ q.op \in {"reject", "remove"} => q.user = None
  /\ q.user \in Users \cup {None} /\ Absent \notin {q.key, q.old}
  /\ q.todo # <<>> /\ Head(q.todo) = "createKey" => q.key \in Keys

GoodRequests(rq) == rq = [r \in Slots |-> rq[r]] /\ \A r \in Slots : GoodRequest(rq[r])

GoodTab(t) ==
  /\ t = [shown |-> t.shown, dialog |-> t.dialog, awaits |-> t.awaits]
  /\ \/ t.dialog = NoDialog
     \/ t.dialog.what \in OrderOps /\ t.dialog.order \in Orders

IsCreating(q) == q.todo # <<>> /\ Head(q.todo) \in Creating
Pending(rq) == {r \in Slots : IsCreating(rq[r])}

HolderType == [Keys -> Users \cup {None, Absent}]

DeskInv ==
  /\ about \in {"orders", "users"}
  /\ holder \in HolderType
  /\ GoodTab(tab)
  /\ GoodRequests(req)
  /\ recorded \subseteq {k \in Keys : holder[k] # Absent}
  /\ Cardinality(recorded) + Cardinality(Pending(req))
       <= MaxKeys[about] + Cardinality(Slots) - 1

LEMMA IdleIsGood == GoodRequest(Idle) /\ ~IsCreating(Idle)
<1>1. /\ Idle.op = "none" /\ Idle.todo = <<>> /\ Idle.user = None
      /\ Idle.key = None /\ Idle.old = None
      /\ Idle = [op |-> Idle.op, todo |-> Idle.todo, order |-> Idle.order,
                 user |-> Idle.user, key |-> Idle.key, old |-> Idle.old]
  BY DEF Idle
<1>2. "none" \notin OrderOps \cup UserOps BY DEF OrderOps, UserOps
<1> QED BY <1>1, <1>2, DeskAssumption DEF GoodRequest, IsCreating

LEMMA Fields ==
  ASSUME NEW a, NEW b, NEW c, NEW d, NEW e, NEW f, NEW q,
         q = [op |-> a, todo |-> b, order |-> c, user |-> d, key |-> e, old |-> f]
  PROVE  q.op = a /\ q.todo = b /\ q.order = c /\ q.user = d /\ q.key = e /\ q.old = f
OBVIOUS

\* What a live request still has to do.
LEMMA Todo ==
  ASSUME NEW q, GoodRequest(q), q.op # "none"
  PROVE  /\ q.op \in Ops
         /\ q.todo \in Seq(StepsIn(q.op)) /\ q.todo # <<>>
         /\ Len(q.todo) \in Nat /\ Len(q.todo) >= 1
         /\ Head(q.todo) = q.todo[1] /\ Head(q.todo) \in StepsIn(q.op)
         /\ \A n \in 2 .. Len(q.todo) : Follows(q.todo[n - 1], q.todo[n])
         /\ q.todo[Len(q.todo)] \in EndsOf(q.op)
<1>1. q.op \in Ops /\ InOrder(q.op, q.todo) BY DEF GoodRequest, Idle
<1>2. PICK a, b : Part(StepsIn(q.op), q.todo, a, b) /\ b \in EndsOf(q.op)
  BY <1>1 DEF InOrder
<1> DEFINE s == q.todo
           S == StepsIn(q.op)
<1>3. s \in Seq(S) /\ Len(s) >= 1 BY <1>2 DEF Part
<1> HIDE DEF s, S
<1>4. Len(s) \in Nat /\ s # <<>> /\ Head(s) = s[1] /\ Head(s) \in S BY <1>3
<1> QED BY <1>1, <1>2, <1>3, <1>4 DEF Part, s, S

LEMMA Lives == ASSUME NEW q, GoodRequest(q) PROVE q.todo # <<>> <=> q.op # "none"
BY Todo DEF GoodRequest, Idle, Ops, OrderOps, UserOps

\* n is what q becomes with its first step taken.
Continues(q, n) ==
  /\ n = [op |-> q.op, todo |-> n.todo, order |-> q.order, user |-> q.user,
          key |-> q.key, old |-> q.old]
  /\ n.todo # <<>>
  /\ Follows(Head(q.todo), Head(n.todo))
  /\ Head(n.todo) \in StepsIn(q.op)

LEMMA Rest ==
  ASSUME NEW S, NEW s \in Seq(S), Len(s) >= 1,
         \A n \in 2 .. Len(s) : Follows(s[n - 1], s[n])
  PROVE  \/ Tail(s) = <<>> /\ Len(s) = 1
         \/ /\ Tail(s) # <<>>
            /\ Part(S, Tail(s), Head(Tail(s)), s[Len(s)])
            /\ Follows(s[1], Head(Tail(s)))
            /\ Head(Tail(s)) \in S
<1>1. PICK t : t = Tail(s) OBVIOUS
<1>2. t \in Seq(S) /\ Len(t) = Len(s) - 1 /\ Len(s) \in Nat BY <1>1
<1>3. \A i \in 1 .. Len(t) : t[i] = s[i + 1] BY <1>1, <1>2
<1>4. Len(t) = 0 <=> t = <<>> BY <1>2
<1>5. CASE t = <<>>
  BY <1>1, <1>2, <1>4, <1>5
<1>6. CASE t # <<>>
  <2>1. Len(t) >= 1 /\ Len(s) >= 2 BY <1>2, <1>4, <1>6
  <2>2. Head(t) = t[1] /\ t[1] = s[2] /\ t[1] \in S BY <1>2, <1>3, <2>1
  <2>3. Follows(s[1], s[2]) BY <1>2, <2>1, 2 - 1 = 1, 2 \in 2 .. Len(s)
  <2>4. ASSUME NEW i \in 2 .. Len(t) PROVE Follows(t[i - 1], t[i])
    <3>1. i + 1 \in 2 .. Len(s) /\ (i + 1) - 1 = i BY <1>2
    <3>2. i \in 1 .. Len(t) /\ i - 1 \in 1 .. Len(t) /\ (i - 1) + 1 = i BY <1>2
    <3>3. t[i] = s[i + 1] /\ t[i - 1] = s[i] BY <1>3, <3>2
    <3>4. Follows(s[(i + 1) - 1], s[i + 1]) BY <3>1
    <3> QED BY <3>1, <3>3, <3>4
  <2>5. t[Len(t)] = s[Len(s)]
    <3>1. Len(t) \in 1 .. Len(t) /\ Len(t) + 1 = Len(s) BY <1>2, <2>1
    <3> QED BY <1>3, <3>1
  <2>6. Part(S, t, Head(t), s[Len(s)]) BY <1>2, <2>1, <2>2, <2>4, <2>5 DEF Part
  <2> QED BY <1>1, <1>6, <2>2, <2>3, <2>6
<1> QED BY <1>5, <1>6

LEMMA NextStep ==
  ASSUME NEW q, GoodRequest(q), q.op # "none",
         Head(q.todo) = "createAccessKey" => q.key \in Keys,
         NEW n, n = IF Tail(q.todo) = <<>> THEN Idle ELSE [q EXCEPT !.todo = Tail(q.todo)]
  PROVE  /\ GoodRequest(n)
         /\ IsCreating(n) => Head(q.todo) \in {"count", "createAccessKey"}
         /\ Tail(q.todo) = <<>> => n = Idle
         /\ Tail(q.todo) # <<>> => Continues(q, n)
         /\ Head(q.todo) \notin EndsOf(q.op) => Tail(q.todo) # <<>>
         /\ Head(q.todo) = "decide" => Tail(q.todo) = <<>>
<1>1. PICK a, t, S : a = Head(q.todo) /\ t = Tail(q.todo) /\ S = StepsIn(q.op) OBVIOUS
<1>2. \/ t = <<>> /\ Len(q.todo) = 1
      \/ /\ t # <<>>
         /\ Part(S, t, Head(t), q.todo[Len(q.todo)])
         /\ Follows(a, Head(t))
         /\ Head(t) \in S
  BY <1>1, Todo, Rest
<1>3. /\ a = q.todo[1] /\ q.op \in Ops
      /\ q.todo[Len(q.todo)] \in EndsOf(q.op)
  BY <1>1, Todo
<1>4. CASE t = <<>>
  <2>1. a \in EndsOf(q.op) BY <1>2, <1>3, <1>4
  <2> QED BY <1>1, <1>4, <2>1, IdleIsGood
<1>5. CASE t # <<>>
  <2>1. n = [op |-> q.op, todo |-> t, order |-> q.order, user |-> q.user,
             key |-> q.key, old |-> q.old]
    BY <1>1, <1>5 DEF GoodRequest
  <2>2. InOrder(q.op, t) BY <1>1, <1>2, <1>3, <1>5 DEF InOrder
  <2>3. Head(t) = "createKey" => a = "createAccessKey" BY <1>2, <1>5 DEF Follows
  <2>4. Head(t) \in Creating => a \in {"count", "createAccessKey"}
    BY <1>2, <1>5 DEF Follows, Creating
  <2>5. a # "decide" BY <1>2, <1>5 DEF Follows
  <2>6. /\ n.op = q.op /\ n.todo = t /\ n.order = q.order /\ n.user = q.user
        /\ n.key = q.key /\ n.old = q.old
    <3>1. n.op = q.op /\ n.todo = t BY <2>1
    <3>2. n.order = q.order /\ n.user = q.user BY <2>1
    <3>3. n.key = q.key /\ n.old = q.old BY <2>1
    <3> QED BY <3>1, <3>2, <3>3
  <2>7. GoodRequest(n) BY <1>1, <1>3, <2>1, <2>2, <2>3, <2>6 DEF GoodRequest
  <2>8. Continues(q, n) BY <1>1, <1>2, <1>5, <2>1, <2>6 DEF Continues
  <2> QED BY <1>1, <1>5, <2>4, <2>5, <2>6, <2>7, <2>8 DEF IsCreating
<1> QED BY <1>4, <1>5

\* One request changes.
LEMMA OneChanges ==
  ASSUME NEW rq, GoodRequests(rq), NEW r \in Slots, NEW n, GoodRequest(n)
  PROVE  /\ GoodRequests([rq EXCEPT ![r] = n])
         /\ Pending([rq EXCEPT ![r] = n]) \subseteq Pending(rq) \cup {r}
         /\ ~IsCreating(n) => Pending([rq EXCEPT ![r] = n]) = Pending(rq) \ {r}
<1>1. PICK new : new = [rq EXCEPT ![r] = n] OBVIOUS
<1>2. /\ new = [s \in Slots |-> new[s]] /\ new[r] = n
      /\ \A s \in Slots \ {r} : new[s] = rq[s]
  BY <1>1 DEF GoodRequests
<1>3. GoodRequests(new)
  <2>1. ASSUME NEW s \in Slots PROVE GoodRequest(new[s])
    BY <1>2 DEF GoodRequests
  <2> QED BY <1>2, <2>1 DEF GoodRequests
<1>4. /\ Pending(new) \subseteq Pending(rq) \cup {r}
      /\ ~IsCreating(n) => Pending(new) = Pending(rq) \ {r}
  BY <1>2 DEF Pending
<1> QED BY <1>1, <1>3, <1>4

LEMMA GoodTabs ==
  ASSUME GoodTab(tab), NEW r, NEW ok \in BOOLEAN, Answered(r, ok)
  PROVE  GoodTab(tab')
<1> DEFINE d == tab.dialog
           e == IF ok /\ r \in tab.awaits /\ d.what = req[r].op THEN NoDialog ELSE d
           w == IF ok /\ r \in tab.awaits THEN [o \in Orders |-> order'[o].status]
                ELSE tab.shown
<1>1. tab' = [shown |-> w, dialog |-> e, awaits |-> tab.awaits \ {r}]
  BY DEF GoodTab, Answered
<1> HIDE DEF w
<1> QED BY <1>1 DEF GoodTab

-----------------------------------------------------------------------------
(* What the parts of the actions do.                                       *)

HolderKept ==
  /\ holder' \in HolderType
  /\ \A k \in Keys : holder[k] # Absent => holder'[k] # Absent

\* A step by which no more keys are made or about to be made than before.
Calm ==
  /\ about' = about
  /\ GoodTab(tab')
  /\ GoodRequests(req')
  /\ Pending(req') \subseteq Pending(req)
  /\ HolderKept
  /\ recorded' = recorded

LEMMA Finite ==
  /\ IsFiniteSet(Keys)
  /\ \A rq : IsFiniteSet(Pending(rq)) /\ Cardinality(Pending(rq)) \in Nat
           /\ Cardinality(Pending(rq)) <= Cardinality(Slots)
  /\ Cardinality(Slots) \in Nat /\ Cardinality(Slots) >= 1
  /\ \A S : S \subseteq Keys => IsFiniteSet(S) /\ Cardinality(S) \in Nat
<1>1. IsFiniteSet(Keys) BY FS_Interval, DeskAssumption DEF Keys
<1>2. IsFiniteSet(Slots) /\ Slots # {} BY DeskAssumption
<1>3. Cardinality(Slots) \in Nat /\ Cardinality(Slots) >= 1
  <2>1. Cardinality(Slots) \in Nat BY <1>2, FS_CardinalityType
  <2>2. Cardinality(Slots) # 0 BY <1>2, FS_EmptySet
  <2> QED BY <2>1, <2>2
<1>4. ASSUME NEW rq
      PROVE  /\ IsFiniteSet(Pending(rq)) /\ Cardinality(Pending(rq)) \in Nat
             /\ Cardinality(Pending(rq)) <= Cardinality(Slots)
  <2>1. Pending(rq) \subseteq Slots BY DEF Pending
  <2> QED BY <2>1, <1>2, FS_Subset, FS_CardinalityType
<1>5. ASSUME NEW S, S \subseteq Keys PROVE IsFiniteSet(S) /\ Cardinality(S) \in Nat
  BY <1>1, <1>5, FS_Subset, FS_CardinalityType
<1> QED BY <1>1, <1>3, <1>4, <1>5

LEMMA CalmKeeps == DeskInv /\ Calm => DeskInv'
<1> SUFFICES ASSUME DeskInv, Calm PROVE DeskInv' OBVIOUS
<1>1. recorded \subseteq Keys BY DEF DeskInv
<1>2. Cardinality(Pending(req')) <= Cardinality(Pending(req))
  BY Finite, FS_Subset DEF Calm
<1>3. PICK a \in Nat : a = Cardinality(recorded) BY <1>1, Finite
<1>4. PICK b \in Nat : b = Cardinality(Pending(req)) BY Finite
<1>5. PICK c \in Nat : c = Cardinality(Pending(req')) BY Finite
<1>6. PICK m \in Int : m = MaxKeys[about] + Cardinality(Slots) - 1
  <2>1. MaxKeys[about] \in Nat BY DeskAssumption DEF DeskInv
  <2> QED BY <2>1, Finite
<1>7. a + c <= m BY <1>2, <1>3, <1>4, <1>5, <1>6 DEF DeskInv
<1>8. Cardinality(recorded') + Cardinality(Pending(req'))
        <= MaxKeys[about'] + Cardinality(Slots) - 1
  BY <1>3, <1>5, <1>6, <1>7 DEF Calm
<1>9. recorded' \subseteq {k \in Keys : holder'[k] # Absent}
  BY DEF DeskInv, Calm, HolderKept
<1> QED BY <1>8, <1>9 DEF DeskInv, Calm, HolderKept

LEMMA Going ==
  ASSUME DeskInv, NEW r \in Slots, Live(r), NEW q, GoodRequest(q),
         q.todo = req[r].todo, q.op = req[r].op,
         Head(req[r].todo) = "createAccessKey" => q.key \in Keys,
         Goes(r, q)
  PROVE  /\ GoodTab(tab')
         /\ GoodRequests(req')
         /\ Head(req[r].todo) # "count" => Pending(req') \subseteq Pending(req)
         /\ Head(req[r].todo) \notin {"count", "createAccessKey"} =>
              Pending(req') = Pending(req) \ {r}
<1>1. GoodTab(tab')
  <2>1. GoodTab(tab) BY DEF DeskInv
  <2>2. CASE Tail(q.todo) = <<>>
    BY <2>1, <2>2, GoodTabs DEF Goes
  <2>3. CASE Tail(q.todo) # <<>>
    BY <2>1, <2>3 DEF Goes
  <2> QED BY <2>2, <2>3
<1> DEFINE n == IF Tail(q.todo) = <<>> THEN Idle ELSE [q EXCEPT !.todo = Tail(q.todo)]
<1>2. req' = [req EXCEPT ![r] = n] BY DEF Goes
<1>3. q.op # "none" /\ q.todo # <<>> BY Todo DEF Live
<1>4. /\ GoodRequest(n)
      /\ IsCreating(n) => Head(q.todo) \in {"count", "createAccessKey"}
  BY <1>3, NextStep
<1> HIDE DEF n
<1>5. GoodRequests(req) BY DEF DeskInv
<1>6. GoodRequests(req') BY <1>2, <1>4, <1>5, OneChanges
<1>7. Head(req[r].todo) \notin {"count", "createAccessKey"} =>
        Pending(req') = Pending(req) \ {r}
  BY <1>2, <1>4, <1>5, OneChanges
<1>8. Pending(req') \subseteq Pending(req) \cup {r} BY <1>2, <1>4, <1>5, OneChanges
<1>9. Head(req[r].todo) = "createAccessKey" => r \in Pending(req)
  BY <1>3 DEF Pending, IsCreating, Creating
<1> QED BY <1>1, <1>6, <1>7, <1>8, <1>9

LEMMA Ending ==
  ASSUME DeskInv, NEW r \in Slots, NEW ok \in BOOLEAN,
         req' = [req EXCEPT ![r] = Idle], Answered(r, ok)
  PROVE  /\ GoodTab(tab')
         /\ GoodRequests(req')
         /\ Pending(req') \subseteq Pending(req)
<1>1. GoodTab(tab') BY GoodTabs DEF DeskInv
<1>2. GoodRequests(req) BY DEF DeskInv
<1>3. GoodRequests(req') /\ Pending(req') = Pending(req) \ {r}
  BY <1>2, IdleIsGood, OneChanges
<1> QED BY <1>1, <1>3

LEMMA RowsKept ==
  ASSUME DeskInv
  PROVE  /\ UNCHANGED holder => HolderKept
         /\ \A u \in Users : DeleteUserRow(u) => HolderKept
         /\ \A k, v : v \in Users \cup {None} /\ holder' = [holder EXCEPT ![k] = v]
              => HolderKept
<1>1. None # Absent /\ Absent \notin Users BY DeskAssumption
<1>2. holder \in HolderType BY DEF DeskInv
<1>3. UNCHANGED holder => HolderKept BY <1>2 DEF HolderKept
<1>4. ASSUME NEW u \in Users, DeleteUserRow(u) PROVE HolderKept
  BY <1>1, <1>2, <1>4 DEF HolderKept, HolderType, DeleteUserRow
<1>5. ASSUME NEW k, NEW v, v \in Users \cup {None}, holder' = [holder EXCEPT ![k] = v]
      PROVE  HolderKept
  <2>1. v # Absent BY <1>1, <1>5
  <2> QED BY <2>1, <1>2, <1>5 DEF HolderKept, HolderType
<1> QED BY <1>3, <1>4, <1>5

LEMMA Failing ==
  ASSUME DeskInv, NEW r \in Slots, Fails(r)
  PROVE  /\ GoodTab(tab')
         /\ GoodRequests(req')
         /\ Pending(req') \subseteq Pending(req)
         /\ HolderKept
<1>1. req' = [req EXCEPT ![r] = Idle] /\ Answered(r, FALSE) BY DEF Fails
<1>2. HolderKept
  <2>1. CASE Discards(req[r]) /\ Exists(req[r].user)
    <3>1. req[r].user \in Users /\ DeleteUserRow(req[r].user)
      BY <2>1 DEF Fails, Exists
    <3> QED BY <3>1, RowsKept
  <2>2. CASE ~(Discards(req[r]) /\ Exists(req[r].user))
    BY <2>2, RowsKept DEF Fails, rows
  <2> QED BY <2>1, <2>2
<1> QED BY <1>1, <1>2, Ending

LEMMA Arriving ==
  ASSUME DeskInv, NEW r \in Slots, NEW op \in OrderOps \cup UserOps, NEW q,
         q = [op |-> op, todo |-> StepsOf(op), order |-> q.order, user |-> q.user,
              key |-> q.key, old |-> q.old],
         op \in OrderOps => q.order \in Orders /\ q.user = None,
         op \in UserOps => q.order = None,
         q.user \in Users \cup {None}, Absent \notin {q.key, q.old},
         Arrives(r, q)
  PROVE  /\ GoodRequests(req') /\ Pending(req') \subseteq Pending(req)
         /\ GoodRequest(q) /\ q.op = op /\ Head(q.todo) = FirstOf(op)
<1>1. PICK s : s = StepsOf(op) OBVIOUS
<1>2. PICK b \in EndsOf(op) : Part(StepsIn(op), s, FirstOf(op), b)
  BY <1>1, AllInOrder DEF Ops
<1>7. s # <<>> /\ Head(s) = FirstOf(op) BY <1>2 DEF Part
<1>8. FirstOf(op) \notin Creating BY DEF FirstOf, Creating
<1>9. q.op = op /\ q.todo = s BY <1>1
<1>3. GoodRequest(q) /\ ~IsCreating(q)
  BY <1>1, <1>2, <1>7, <1>8, <1>9 DEF GoodRequest, InOrder, IsCreating, Creating, Ops,
     OrderOps
<1>4. req' = [req EXCEPT ![r] = q] BY DEF Arrives
<1>5. GoodRequests(req) BY DEF DeskInv
<1>6. GoodRequests(req') /\ Pending(req') = Pending(req) \ {r}
  BY <1>3, <1>4, <1>5, OneChanges
<1> QED BY <1>3, <1>6, <1>7, <1>9

\* What confirming in the dialog sends.
LEMMA Confirmed ==
  ASSUME DeskInv, NEW r \in Slots, Confirm(r)
  PROVE  \E q : /\ Arrives(r, q)
                /\ q = [op |-> q.op, todo |-> StepsOf(q.op), order |-> q.order,
                        user |-> q.user, key |-> q.key, old |-> q.old]
                /\ q.op = tab.dialog.what /\ q.op \in OrderOps
                /\ q.order = tab.dialog.order /\ q.order \in Orders
                /\ q.user = None /\ q.key = None /\ q.old = None
<1>1. PICK what, s, o : what = tab.dialog.what /\ s = StepsOf(what) /\ o = tab.dialog.order
  OBVIOUS
<1>2. what \in OrderOps /\ o \in Orders BY <1>1 DEF DeskInv, GoodTab, Confirm
<1>3. PICK q : q = [op |-> what, todo |-> s, order |-> o,
                    user |-> None, key |-> None, old |-> None]
  OBVIOUS
<1>4. [Idle EXCEPT !.op = what, !.todo = s, !.order = o] = q
  <2>1. PICK a : a = [Idle EXCEPT !.op = what] OBVIOUS
  <2>2. PICK b : b = [a EXCEPT !.todo = s] OBVIOUS
  <2>3. a = [op |-> what, todo |-> <<>>, order |-> None, user |-> None, key |-> None,
             old |-> None]
    BY <2>1 DEF Idle
  <2>4. b = [op |-> what, todo |-> s, order |-> None, user |-> None, key |-> None,
             old |-> None]
    BY <2>2, <2>3
  <2>5. q = [b EXCEPT !.order = o] BY <1>3, <2>4
  <2>6. [Idle EXCEPT !.op = what, !.todo = s, !.order = o] = [b EXCEPT !.order = o]
    BY <2>1, <2>2 DEF Idle
  <2> QED BY <2>5, <2>6
<1>5. Arrives(r, q) BY <1>1, <1>4 DEF Confirm
<1>6. /\ q.op = what /\ q.todo = s /\ q.order = o
      /\ q.user = None /\ q.key = None /\ q.old = None
  BY <1>3, Fields
<1> QED BY <1>1, <1>2, <1>3, <1>5, <1>6

-----------------------------------------------------------------------------
(* The actions.                                                            *)

LEMMA PageKeeps == DeskInv /\ Page => DeskInv'
<1> SUFFICES ASSUME DeskInv, Page PROVE DeskInv' OBVIOUS
<1>0. GoodTab(tab) /\ GoodRequests(req) BY DEF DeskInv
<1>1. ASSUME NEW o \in Orders, createOrder(o) PROVE Calm
  BY <1>0, <1>1, RowsKept DEF createOrder, history, Calm
<1>2. ASSUME Refetch PROVE Calm
  <2>1. GoodTab(tab')
    <3> DEFINE w == [o \in Orders |-> order[o].status]
    <3>1. tab' = [shown |-> w, dialog |-> tab.dialog, awaits |-> tab.awaits]
      BY <1>0, <1>2 DEF GoodTab, Refetch
    <3> HIDE DEF w
    <3> QED BY <1>0, <3>1 DEF GoodTab
  <2> QED BY <1>0, <1>2, <2>1, RowsKept DEF Refetch, rows, history, counters, Calm
<1>3. ASSUME NEW o \in Orders, NEW what \in DOMAIN orderHandlers, OpenDialog(what, o)
      PROVE  Calm
  <2>1. what \in OrderOps BY DEF orderHandlers, OrderOps
  <2>2. tab' = [shown |-> tab.shown, dialog |-> [what |-> what, order |-> o],
                awaits |-> tab.awaits]
    BY <1>0, <1>3 DEF GoodTab, OpenDialog
  <2>3. GoodTab(tab') BY <2>1, <2>2 DEF GoodTab
  <2> QED BY <1>0, <1>3, <2>3, RowsKept DEF OpenDialog, rows, history, counters, Calm
<1>4. ASSUME CloseDialog PROVE Calm
  <2>1. tab' = [shown |-> tab.shown, dialog |-> NoDialog, awaits |-> tab.awaits]
    BY <1>0, <1>4 DEF GoodTab, CloseDialog
  <2>2. GoodTab(tab') BY <2>1 DEF GoodTab
  <2> QED BY <1>0, <1>4, <2>2, RowsKept DEF CloseDialog, rows, history, counters, Calm
<1>5. ASSUME NEW r \in Slots, Confirm(r) PROVE Calm
  <2>1. PICK q : /\ Arrives(r, q)
                 /\ q = [op |-> q.op, todo |-> StepsOf(q.op), order |-> q.order,
                         user |-> q.user, key |-> q.key, old |-> q.old]
                 /\ q.op \in OrderOps /\ q.order \in Orders
                 /\ q.user = None /\ q.key = None /\ q.old = None
    BY <1>5, Confirmed
  <2>4. GoodRequests(req') /\ Pending(req') \subseteq Pending(req)
    <3>1. q.op \in OrderOps \cup UserOps /\ q.op \notin UserOps
      BY <2>1 DEF OrderOps, UserOps
    <3>2. Absent \notin {q.key, q.old} BY <2>1, DeskAssumption
    <3> QED BY <2>1, <3>1, <3>2, Arriving
  <2>5. tab' = [shown |-> tab.shown, dialog |-> tab.dialog, awaits |-> tab.awaits \cup {r}]
    BY <1>0, <1>5 DEF GoodTab, Confirm
  <2>6. GoodTab(tab') BY <1>0, <2>5 DEF GoodTab
  <2> QED BY <1>5, <2>4, <2>6, RowsKept DEF Confirm, rows, history, Calm
<1> QED BY <1>1, <1>2, <1>3, <1>4, <1>5, CalmKeeps DEF Page

LEMMA ArrivalKeeps ==
  ASSUME NEW r \in Slots, DeskInv,
         Creates(r) \/ Replaces(r) \/ Relinks(r) \/ Provides(r) \/ Removes(r)
  PROVE  DeskInv'
<1>1. ASSUME NEW op \in UserOps, NEW u \in Users \cup {None}, NEW k, NEW old,
             Absent \notin {k, old}, Send(r, op, u, k, old)
      PROVE  Calm
  <2> DEFINE q == [op |-> op, todo |-> StepsOf(op), order |-> None, user |-> u,
                   key |-> k, old |-> old]
  <2>1. Arrives(r, q) BY <1>1 DEF Send
  <2>2. q = [op |-> op, todo |-> StepsOf(op), order |-> q.order, user |-> q.user,
             key |-> q.key, old |-> q.old]
    OBVIOUS
  <2>3. GoodRequests(req') /\ Pending(req') \subseteq Pending(req)
    <3>1. q.order = None /\ q.user \in Users \cup {None} /\ Absent \notin {q.key, q.old}
      BY <1>1
    <3>2. op \notin OrderOps BY DEF OrderOps, UserOps
    <3> HIDE DEF q
    <3> QED BY <2>1, <2>2, <3>1, <3>2, Arriving
  <2> QED BY <1>1, <2>3, RowsKept DEF Send, rows, history, DeskInv, Calm
<1>2. /\ "createUser" \in UserOps /\ "createUserByClaim" \in UserOps
      /\ "createUserAlone" \in UserOps /\ "newKey" \in UserOps
      /\ "replaceByFree" \in UserOps /\ "replaceByNew" \in UserOps
      /\ "link" \in UserOps /\ "unlink" \in UserOps /\ "promote" \in UserOps
      /\ "addKey" \in UserOps /\ "resetUsage" \in UserOps
      /\ "deleteKey" \in UserOps /\ "deleteUser" \in UserOps
  BY DEF UserOps
<1>8. Absent # None /\ Absent \notin Keys BY DeskAssumption
<1>3. Creates(r) => Calm BY <1>1, <1>2, <1>8 DEF Creates
<1>4. Replaces(r) => Calm BY <1>1, <1>2, <1>8 DEF Replaces, Exists
<1>5. Relinks(r) => Calm BY <1>1, <1>2, <1>8 DEF Relinks
<1>6. Provides(r) => Calm BY <1>1, <1>2, <1>8 DEF Provides, Recorded
<1>7. Removes(r) => Calm BY <1>1, <1>2, <1>8 DEF Removes
<1> QED BY <1>3, <1>4, <1>5, <1>6, <1>7, CalmKeeps

\* A step that goes on with the request as it is.
LEMMA GoesOn ==
  ASSUME DeskInv, NEW r \in Slots, Live(r), Goes(r, req[r]),
         Head(req[r].todo) \notin {"count", "createAccessKey", "createKey"},
         HolderKept, about' = about, recorded' = recorded
  PROVE  Calm
<1>1. GoodRequest(req[r]) BY DEF DeskInv, GoodRequests
<1> QED BY <1>1, Going DEF Calm

LEMMA CountKeysKeeps == ASSUME NEW r \in Slots, DeskInv, CountKeys(r) PROVE DeskInv'
<1>1. UNCHANGED <<about, recorded>> BY DEF CountKeys, Checks, history, counters
<1>2. CASE KeyCount >= MaxKeys[about] \/ ~(KeyCount < MaxKeys[about])
  <2>1. KeyCount \in Nat
    BY Finite, {k \in Keys : Recorded(k)} \subseteq Keys DEF KeyCount
  <2>2. MaxKeys[about] \in Nat BY DeskAssumption DEF DeskInv
  <2>3. Fails(r) BY <1>2, <2>1, <2>2 DEF CountKeys, Checks
  <2> QED BY <1>1, <2>3, Failing, CalmKeeps DEF Calm
<1>3. CASE KeyCount < MaxKeys[about]
  <2>1. Live(r) /\ Goes(r, req[r]) /\ Head(req[r].todo) = "count" /\ UNCHANGED rows
    BY <1>3 DEF CountKeys, Checks, At
  <2>2. GoodRequest(req[r]) BY DEF DeskInv, GoodRequests
  <2>3. GoodTab(tab') /\ GoodRequests(req') BY <2>1, <2>2, Going
  <2>4. HolderKept BY <2>1, RowsKept DEF rows
  <2>5. Cardinality(recorded) <= KeyCount
    <3>1. recorded \subseteq {k \in Keys : Recorded(k)} BY DEF DeskInv, Recorded
    <3>2. IsFiniteSet({k \in Keys : Recorded(k)})
      BY Finite, {k \in Keys : Recorded(k)} \subseteq Keys
    <3> QED BY <3>1, <3>2, FS_Subset DEF KeyCount
  <2>6. /\ Cardinality(recorded) \in Nat /\ KeyCount \in Nat
        /\ Cardinality(Slots) \in Nat /\ Cardinality(Pending(req')) \in Nat
        /\ Cardinality(Pending(req')) <= Cardinality(Slots)
    BY Finite, {k \in Keys : Recorded(k)} \subseteq Keys DEF KeyCount, DeskInv
  <2>7. MaxKeys[about] \in Nat BY DeskAssumption DEF DeskInv
  <2>8. Cardinality(recorded) + Cardinality(Pending(req'))
          <= MaxKeys[about] + Cardinality(Slots) - 1
    <3>1. ASSUME NEW a \in Nat, NEW b \in Nat, NEW c \in Nat, NEW d \in Nat,
                 NEW m \in Nat, a <= b, b < m, c <= d
          PROVE  a + c <= m + d - 1
      BY <3>1
    <3> QED BY <1>3, <2>5, <2>6, <2>7, <3>1
  <2>9. recorded \subseteq {k \in Keys : holder'[k] # Absent}
    BY <2>4 DEF DeskInv, HolderKept
  <2> QED BY <1>1, <2>3, <2>4, <2>8, <2>9 DEF DeskInv, HolderKept
<1> QED BY <1>2, <1>3

LEMMA CreateKeyKeeps == ASSUME NEW r \in Slots, DeskInv, CreateKey(r) PROVE DeskInv'
<1> DEFINE k == req[r].key
<1>1. /\ Live(r) /\ Goes(r, req[r]) /\ Head(req[r].todo) = "createKey"
      /\ about' = about
      /\ recorded' = recorded \cup {k}
      /\ Exists(req[r].user) \/ req[r].user = None
      /\ holder' = [holder EXCEPT ![k] = req[r].user]
  BY DEF CreateKey, CanRecord, At, counters
<1>2. GoodRequest(req[r]) BY DEF DeskInv, GoodRequests
<1>3. /\ GoodTab(tab') /\ GoodRequests(req')
      /\ Pending(req') = Pending(req) \ {r}
  BY <1>1, <1>2, Going
<1>4. r \in Pending(req) /\ k \in Keys
  <2>1. req[r].todo # <<>> BY <1>1, <1>2, Lives DEF Live
  <2> QED BY <1>1, <1>2, <2>1 DEF GoodRequest, Pending, IsCreating, Creating
<1>5. req[r].user \in Users \cup {None} /\ req[r].user # Absent
  BY <1>1, DeskAssumption DEF Exists
<1>6. HolderKept BY <1>1, <1>5, RowsKept
<1>7. recorded' \subseteq {j \in Keys : holder'[j] # Absent}
  <2>1. holder'[k] = req[r].user BY <1>1, <1>4 DEF DeskInv, HolderType
  <2> QED BY <1>1, <1>4, <1>5, <1>6, <2>1 DEF DeskInv, HolderKept
<1>8. Cardinality(recorded') + Cardinality(Pending(req'))
        <= MaxKeys[about] + Cardinality(Slots) - 1
  <2>1. Cardinality(Pending(req')) = Cardinality(Pending(req)) - 1
    BY <1>3, <1>4, Finite, FS_RemoveElement
  <2>2. recorded \subseteq Keys BY DEF DeskInv
  <2>3. PICK a \in Nat : a = Cardinality(recorded) BY <2>2, Finite
  <2>4. PICK b \in Nat : b = Cardinality(Pending(req)) BY Finite
  <2>5. PICK m \in Int : m = MaxKeys[about] + Cardinality(Slots) - 1
    <3>1. MaxKeys[about] \in Nat BY DeskAssumption DEF DeskInv
    <3> QED BY <3>1, Finite
  <2>6. Cardinality(recorded') \in {a, a + 1}
    BY <1>1, <2>2, <2>3, Finite, FS_AddElement
  <2>7. a + b <= m BY <2>3, <2>4, <2>5 DEF DeskInv
  <2>8. PICK c \in Nat : c = Cardinality(recorded') BY <2>6
  <2>9. c + (b - 1) <= m BY <2>6, <2>7, <2>8
  <2> QED BY <2>1, <2>4, <2>5, <2>8, <2>9
<1> QED BY <1>1, <1>3, <1>6, <1>7, <1>8 DEF DeskInv, HolderKept

LEMMA DeleteKeyKeeps == ASSUME NEW r \in Slots, DeskInv, DeleteKey(r) PROVE DeskInv'
<1> DEFINE k == req[r].old
<1>1. /\ Live(r) /\ Goes(r, req[r]) /\ Head(req[r].todo) = "deleteKey"
      /\ about' = about
      /\ recorded' = recorded \ {k}
      /\ holder' = [holder EXCEPT ![k] = Absent]
  BY DEF DeleteKey, DeleteKeyRow, At, counters
<1>2. GoodRequest(req[r]) BY DEF DeskInv, GoodRequests
<1>3. GoodTab(tab') /\ GoodRequests(req') /\ Pending(req') \subseteq Pending(req)
  BY <1>1, <1>2, Going
<1>4. holder' \in HolderType /\ \A j \in Keys \ {k} : holder'[j] = holder[j]
  BY <1>1 DEF DeskInv, HolderType
<1>5. recorded' \subseteq {j \in Keys : holder'[j] # Absent}
  BY <1>1, <1>4 DEF DeskInv
<1>6. Cardinality(recorded') + Cardinality(Pending(req'))
        <= MaxKeys[about] + Cardinality(Slots) - 1
  <2>1. recorded \subseteq Keys /\ recorded' \subseteq recorded BY <1>1 DEF DeskInv
  <2>2. /\ Cardinality(recorded') <= Cardinality(recorded)
        /\ Cardinality(Pending(req')) <= Cardinality(Pending(req))
    BY <1>3, <2>1, Finite, FS_Subset
  <2>3. PICK a \in Nat, c \in Nat : a = Cardinality(recorded) /\ c = Cardinality(recorded')
    BY <2>1, Finite
  <2>4. PICK b \in Nat, d \in Nat : /\ b = Cardinality(Pending(req))
                                   /\ d = Cardinality(Pending(req'))
    BY Finite
  <2>5. PICK m \in Int : m = MaxKeys[about] + Cardinality(Slots) - 1
    <3>1. MaxKeys[about] \in Nat BY DeskAssumption DEF DeskInv
    <3> QED BY <3>1, Finite
  <2>6. a + b <= m BY <2>3, <2>4, <2>5 DEF DeskInv
  <2>7. c + d <= m BY <2>2, <2>3, <2>4, <2>6
  <2> QED BY <2>3, <2>4, <2>5, <2>7
<1> QED BY <1>1, <1>3, <1>4, <1>5, <1>6 DEF DeskInv

\* A request that has got its key, or its user.
LEMMA KeyGiven ==
  ASSUME DeskInv, NEW r \in Slots, NEW k \in Keys, Live(r),
         NEW q, q = [req[r] EXCEPT !.key = k]
  PROVE  /\ GoodRequest(q)
         /\ q = [op |-> req[r].op, todo |-> req[r].todo, order |-> req[r].order,
                 user |-> req[r].user, key |-> k, old |-> req[r].old]
         /\ q.op = req[r].op /\ q.todo = req[r].todo /\ q.order = req[r].order
         /\ q.user = req[r].user /\ q.key = k /\ q.old = req[r].old
<1>1. PICK p : p = req[r] OBVIOUS
<1>2. GoodRequest(p) /\ p.op # "none" BY <1>1 DEF DeskInv, GoodRequests, Live
<1>3. q = [op |-> p.op, todo |-> p.todo, order |-> p.order, user |-> p.user,
           key |-> k, old |-> p.old]
  BY <1>1, <1>2 DEF GoodRequest
<1>4. /\ q.op = p.op /\ q.todo = p.todo /\ q.order = p.order
      /\ q.user = p.user /\ q.key = k /\ q.old = p.old
  BY <1>3, Fields
<1>5. p.op \in Ops /\ InOrder(p.op, p.todo) BY <1>2 DEF GoodRequest, Idle
<1>6. GoodRequest(q) BY <1>2, <1>3, <1>4, <1>5, DeskAssumption DEF GoodRequest
<1> QED BY <1>1, <1>3, <1>4, <1>6

LEMMA UserGiven ==
  ASSUME DeskInv, NEW r \in Slots, NEW u \in Users, Live(r),
         Head(req[r].todo) = "createUser", NEW q, q = [req[r] EXCEPT !.user = u]
  PROVE  /\ GoodRequest(q)
         /\ q = [op |-> req[r].op, todo |-> req[r].todo, order |-> req[r].order,
                 user |-> u, key |-> req[r].key, old |-> req[r].old]
         /\ q.op = req[r].op /\ q.todo = req[r].todo /\ q.order = req[r].order
         /\ q.user = u /\ q.key = req[r].key /\ q.old = req[r].old
<1>1. PICK p : p = req[r] OBVIOUS
<1>2. GoodRequest(p) /\ p.op # "none" BY <1>1 DEF DeskInv, GoodRequests, Live
<1>3. q = [op |-> p.op, todo |-> p.todo, order |-> p.order, user |-> u,
           key |-> p.key, old |-> p.old]
  BY <1>1, <1>2 DEF GoodRequest
<1>4. /\ q.op = p.op /\ q.todo = p.todo /\ q.order = p.order
      /\ q.user = u /\ q.key = p.key /\ q.old = p.old
  BY <1>3, Fields
<1>5. p.op \in Ops /\ InOrder(p.op, p.todo) BY <1>2 DEF GoodRequest, Idle
<1>6. p.op \notin {"reject", "remove"}
  <2>1. "createUser" \in StepsIn(p.op) BY <1>1, <1>2, Todo
  <2> QED BY <2>1 DEF StepsIn, Replacing
<1>7. GoodRequest(q)
  <2>1. Head(p.todo) = "createUser" BY <1>1
  <2> QED BY <1>2, <1>3, <1>4, <1>5, <1>6, <2>1 DEF GoodRequest
<1> QED BY <1>1, <1>3, <1>4, <1>7

LEMMA CreatesOnOutline ==
  ASSUME NEW r \in Slots, DeskInv,
         CreateAccessKey(r) \/ \E stays \in BOOLEAN : CreateAccessKeyFails(r, stays)
  PROVE  Calm
<1>1. CASE CreateAccessKey(r)
  <2>1. PICK k : k = created.keys + 1 OBVIOUS
  <2>2. PICK q : q = [req[r] EXCEPT !.key = k] OBVIOUS
  <2>3. /\ Live(r) /\ Head(req[r].todo) = "createAccessKey" /\ k \in Keys
        /\ Goes(r, q) /\ UNCHANGED rows /\ UNCHANGED <<about, recorded>>
    BY <1>1, <2>1, <2>2 DEF CreateAccessKey, At, history
  <2>4. GoodRequest(q) /\ q.todo = req[r].todo /\ q.op = req[r].op /\ q.key = k
    BY <2>2, <2>3, KeyGiven
  <2>5. /\ GoodTab(tab') /\ GoodRequests(req')
        /\ Pending(req') \subseteq Pending(req)
    BY <2>3, <2>4, Going
  <2> QED BY <2>3, <2>5, RowsKept DEF rows, Calm
<1>2. CASE \E stays \in BOOLEAN : CreateAccessKeyFails(r, stays)
  BY <1>2, Failing DEF CreateAccessKeyFails, history, Calm
<1> QED BY <1>1, <1>2

LEMMA UserRowsKeep ==
  ASSUME NEW r \in Slots, DeskInv, CreateUser(r) \/ DeleteUser(r)
  PROVE  Calm
<1>0. GoodRequest(req[r]) BY DEF DeskInv, GoodRequests
<1>1. CASE CreateUser(r)
  <2>1. PICK u : u = created.users + 1 OBVIOUS
  <2>2. PICK q : q = [req[r] EXCEPT !.user = u] OBVIOUS
  <2>3. /\ Live(r) /\ Head(req[r].todo) = "createUser"
        /\ Goes(r, q) /\ UNCHANGED <<about, recorded, holder>>
    BY <1>1, <2>1, <2>2 DEF CreateUser, At
  <2>4. GoodRequest(q) /\ q.todo = req[r].todo /\ q.op = req[r].op
    <3>1. u \in Users BY <1>1, <2>1 DEF CreateUser
    <3> QED BY <2>2, <2>3, <3>1, UserGiven
  <2>5. /\ GoodTab(tab') /\ GoodRequests(req')
        /\ Pending(req') \subseteq Pending(req)
    BY <2>3, <2>4, Going
  <2> QED BY <2>3, <2>5, RowsKept DEF Calm
<1>2. CASE DeleteUser(r)
  <2>1. /\ Live(r) /\ Head(req[r].todo) = "deleteUser" /\ Goes(r, req[r])
        /\ UNCHANGED <<about, recorded>>
        /\ req[r].user \in Users /\ DeleteUserRow(req[r].user)
    BY <1>2 DEF DeleteUser, At, history, counters, Exists
  <2>2. HolderKept BY <2>1, RowsKept
  <2> QED BY <2>1, <2>2, GoesOn
<1> QED BY <1>1, <1>2

LEMMA HolderStepsKeep ==
  ASSUME NEW r \in Slots, DeskInv,
         \/ CheckFree(r) \/ SetHolder(r) \/ ClearPrimary(r) \/ SetPrimary(r)
         \/ AdoptPrimaryKeyIfUnset(r) \/ PushPlan(r) \/ Unlink(r) \/ Release(r)
         \/ ClearPrimaryOfFree(r) \/ DeleteAccessKey(r) \/ ForceDelete(r)
         \/ decide(r) \/ deleteOrder(r)
  PROVE  Calm
<1>1. CASE CheckFree(r)
  <2>1. CASE holder[req[r].key] \in {None, req[r].user}
    BY <1>1, <2>1, GoesOn, RowsKept DEF CheckFree, Checks, At, rows, history, counters
  <2>2. CASE holder[req[r].key] \notin {None, req[r].user}
    BY <1>1, <2>2, Failing DEF CheckFree, Checks, history, counters, Calm
  <2> QED BY <2>1, <2>2
<1>2. CASE SetHolder(r)
  BY <1>2, GoesOn, RowsKept DEF SetHolder, At, history, counters, Exists
<1>3. CASE ClearPrimary(r)
  BY <1>3, GoesOn, RowsKept DEF ClearPrimary, At, history, counters
<1>4. CASE SetPrimary(r)
  BY <1>4, GoesOn, RowsKept DEF SetPrimary, At, history, counters
<1>5. CASE AdoptPrimaryKeyIfUnset(r)
  BY <1>5, GoesOn, RowsKept DEF AdoptPrimaryKeyIfUnset, At, history, counters
<1>6. CASE PushPlan(r)
  BY <1>6, GoesOn, RowsKept DEF PushPlan, At, rows, history, counters
<1>7. ASSUME NEW k, Live(r), Free(r, k), Head(req[r].todo) \in {"unlink", "release"}
      PROVE  Calm
  BY <1>7, GoesOn, RowsKept DEF Free, history, counters
<1>8. CASE Unlink(r)
  BY <1>7, <1>8 DEF Unlink, At
<1>9. CASE Release(r)
  BY <1>7, <1>9 DEF Release, At
<1>10. CASE ClearPrimaryOfFree(r)
  BY <1>10, GoesOn, RowsKept DEF ClearPrimaryOfFree, At, history, counters
<1>11. CASE DeleteAccessKey(r)
  BY <1>11, GoesOn, RowsKept DEF DeleteAccessKey, At, rows, history, counters
<1>12. CASE ForceDelete(r)
  BY <1>12, GoesOn, RowsKept DEF ForceDelete, Trouble, At, rows, history, counters
<1>13. CASE decide(r)
  BY <1>13, GoesOn, RowsKept DEF decide, At, history, counters
<1>14. CASE deleteOrder(r)
  BY <1>14, GoesOn, RowsKept DEF deleteOrder, At, history, counters
<1> QED BY <1>1, <1>2, <1>3, <1>4, <1>5, <1>6, <1>8, <1>9, <1>10, <1>11, <1>12, <1>13, <1>14

LEMMA FailuresKeep ==
  ASSUME NEW r \in Slots, DeskInv,
         \/ KeyNotRecorded(r) \/ Refuse(r) \/ GiveUp(r) \/ Fail(r) \/ FailToDiscard(r)
         \/ DeleteAccessKeyUnanswered(r)
  PROVE  Calm
<1>1. CASE KeyNotRecorded(r)
  BY <1>1, Failing DEF KeyNotRecorded, history, counters, Calm
<1>2. CASE Refuse(r)
  BY <1>2, Failing DEF Refuse, history, counters, Calm
<1>3. CASE GiveUp(r)
  <2>1. tab' = [shown |-> tab.shown, dialog |-> tab.dialog, awaits |-> tab.awaits \ {r}]
    BY <1>3 DEF DeskInv, GoodTab, GiveUp
  <2>2. GoodTab(tab') BY <2>1 DEF DeskInv, GoodTab
  <2> QED BY <1>3, <2>2, RowsKept DEF GiveUp, rows, history, DeskInv, Calm
<1>4. CASE Fail(r)
  <2>1. UNCHANGED <<about, recorded>> BY <1>4 DEF Fail, Trouble, history
  <2>2. CASE req[r].todo[1] \in {"release", "releaseClear"}
    <3>1. UNCHANGED rows /\ req' = [req EXCEPT ![r] = Idle] /\ Answered(r, TRUE)
      BY <1>4, <2>2 DEF Fail
    <3> QED BY <2>1, <3>1, Ending, RowsKept DEF rows, Calm
  <2>3. CASE req[r].todo[1] \notin {"release", "releaseClear"}
    BY <1>4, <2>1, <2>3, Failing DEF Fail, Calm
  <2> QED BY <2>2, <2>3
<1>5. CASE FailToDiscard(r)
  <2>1. /\ UNCHANGED rows /\ req' = [req EXCEPT ![r] = Idle] /\ Answered(r, FALSE)
        /\ UNCHANGED <<about, recorded>>
    BY <1>5 DEF FailToDiscard, Trouble, history
  <2> QED BY <2>1, Ending, RowsKept DEF rows, Calm
<1>6. CASE DeleteAccessKeyUnanswered(r)
  BY <1>6, Failing DEF DeleteAccessKeyUnanswered, Trouble, history, Calm
<1> QED BY <1>1, <1>2, <1>3, <1>4, <1>5, <1>6

LEMMA CrashKeeps == DeskInv /\ Crash => DeskInv'
<1> SUFFICES ASSUME DeskInv, Crash PROVE Calm BY CalmKeeps
<1>1. req' = [r \in Slots |-> Idle] /\ UNCHANGED rows /\ UNCHANGED <<about, recorded>>
  BY DEF Crash, Trouble, history
<1>2. GoodRequests(req') /\ Pending(req') = {}
  BY <1>1, IdleIsGood DEF GoodRequests, Pending
<1>3. tab' = [shown |-> tab.shown, dialog |-> tab.dialog, awaits |-> {}]
  BY DEF DeskInv, GoodTab, Crash
<1>4. GoodTab(tab') BY <1>3 DEF DeskInv, GoodTab
<1> QED BY <1>1, <1>2, <1>4, RowsKept DEF rows, Calm

LEMMA SyncKeeps ==
  ASSUME DeskInv, ListAccessKeys \/ \E k \in Keys : UpsertKeyFromOutline(k)
  PROVE  Calm
<1>1. CASE ListAccessKeys
  BY <1>1, RowsKept DEF ListAccessKeys, rows, history, counters, DeskInv, Calm
<1>2. ASSUME NEW k \in Keys, UpsertKeyFromOutline(k) PROVE Calm
  <2>1. UNCHANGED <<about, tab, req, recorded>>
    BY <1>2 DEF UpsertKeyFromOutline, history, counters
  <2>2. holder' = [holder EXCEPT ![k] = IF @ = Absent THEN None ELSE @]
    BY <1>2 DEF UpsertKeyFromOutline
  <2>3. HolderKept
    BY <2>2, DeskAssumption DEF DeskInv, HolderType, HolderKept
  <2> QED BY <2>1, <2>3 DEF DeskInv, Calm
<1> QED BY <1>1, <1>2

-----------------------------------------------------------------------------
LEMMA InitiallyInv == Init => DeskInv
<1> SUFFICES ASSUME Init PROVE DeskInv OBVIOUS
<1>1. about \in {"orders", "users"} /\ holder \in HolderType
  <2>1. CASE about = "orders"
    BY <2>1 DEF Init, HolderType
  <2>2. CASE about = "users"
    <3>1. ASSUME NEW k \in Keys
          PROVE  (CASE k < 3 -> k [] k = 3 -> None [] OTHER -> Absent)
                   \in Users \cup {None, Absent}
      BY DeskAssumption DEF Keys, Users
    <3>2. holder = [k \in Keys |-> CASE k < 3 -> k [] k = 3 -> None [] OTHER -> Absent]
      BY <2>2 DEF Init
    <3> QED BY <2>2, <3>1, <3>2 DEF HolderType
  <2> QED BY <2>1, <2>2 DEF Init
<1>2. GoodTab(tab) BY DEF Init, GoodTab
<1>3. GoodRequests(req) /\ Pending(req) = {}
  BY IdleIsGood DEF Init, GoodRequests, Pending
<1>4. recorded = {k \in Keys : holder[k] # Absent} BY DEF Init
<1>5. Cardinality(recorded) + Cardinality(Pending(req))
        <= MaxKeys[about] + Cardinality(Slots) - 1
  <2>1. Cardinality(Pending(req)) = 0 BY <1>3, FS_EmptySet
  <2>2. Cardinality(recorded) \in Nat /\ Cardinality(recorded) <= MaxKeys[about]
    <3>1. MaxKeys[about] \in Nat BY <1>1, DeskAssumption
    <3>2. CASE about = "orders"
      <4>1. recorded = {} BY <3>2, <1>4 DEF Init
      <4> QED BY <3>1, <4>1, FS_EmptySet
    <3>3. CASE about = "users"
      <4>1. recorded \subseteq 1 .. 3
        BY <3>3, <1>4 DEF Init, Keys
      <4>2. IsFiniteSet(1 .. 3) /\ Cardinality(1 .. 3) = 3
        <5>1. PICK a \in Int, b \in Int : a = 1 /\ b = 3 OBVIOUS
        <5>2. a <= b /\ b - a + 1 = 3 BY <5>1
        <5>3. IsFiniteSet(a .. b) /\ Cardinality(a .. b) = b - a + 1
          BY <5>2, FS_Interval
        <5> QED BY <5>1, <5>2, <5>3
      <4>3. IsFiniteSet(recorded) /\ Cardinality(recorded) <= 3
        BY <4>1, <4>2, FS_Subset
      <4>4. Cardinality(recorded) \in Nat BY <4>3, FS_CardinalityType
      <4>5. MaxKeys[about] >= 3 BY <3>3, DeskAssumption
      <4> QED BY <3>1, <4>3, <4>4, <4>5
    <3> QED BY <1>1, <3>2, <3>3
  <2>3. Cardinality(Slots) \in Nat /\ Cardinality(Slots) >= 1 BY Finite
  <2>4. MaxKeys[about] \in Nat BY <1>1, DeskAssumption
  <2> QED BY <2>1, <2>2, <2>3, <2>4
<1> QED BY <1>1, <1>2, <1>3, <1>4, <1>5 DEF DeskInv

LEMMA NextKeepsInv == DeskInv /\ [Next]_vars => DeskInv'
<1> SUFFICES ASSUME DeskInv, [Next]_vars PROVE DeskInv' OBVIOUS
<1>1. CASE Page BY <1>1, PageKeeps
<1>2. ASSUME NEW r \in Slots, Handler(r) PROVE DeskInv'
  BY <1>2, CalmKeeps, CountKeysKeeps, CreateKeyKeeps, DeleteKeyKeeps, CreatesOnOutline,
     UserRowsKeep, HolderStepsKeep, FailuresKeep
  DEF Handler
<1>3. ASSUME NEW r \in Slots, NEW stays \in BOOLEAN, CreateAccessKeyFails(r, stays)
      PROVE  DeskInv'
  BY <1>3, CreatesOnOutline, CalmKeeps
<1>4. ASSUME NEW r \in Slots, GiveUp(r) \/ Fail(r) \/ FailToDiscard(r) PROVE DeskInv'
  BY <1>4, FailuresKeep, CalmKeeps
<1>5. ASSUME NEW r \in Slots,
             Creates(r) \/ Replaces(r) \/ Relinks(r) \/ Provides(r) \/ Removes(r)
      PROVE  DeskInv'
  BY <1>5, ArrivalKeeps
<1>6. CASE Crash BY <1>6, CrashKeeps
<1>7. CASE ListAccessKeys \/ \E k \in Keys : UpsertKeyFromOutline(k)
  BY <1>7, SyncKeeps, CalmKeeps
<1>8. CASE UNCHANGED vars
  <2>1. Calm BY <1>8, RowsKept DEF vars, DeskInv, Calm
  <2> QED BY <2>1, CalmKeeps
<1> QED BY <1>1, <1>2, <1>3, <1>4, <1>5, <1>6, <1>7, <1>8 DEF Next

(* However many requests are handled at once, the keys that handlers have  *)
(* made exceed the ceiling by at most one for each request but one:        *)
(* provisionKey counts, creates and inserts without a lock, and no failure,*)
(* crash or adoption in between makes it worse.                            *)
THEOREM CeilingAlmostKept == Spec => []CeilingHolds
<1>1. DeskInv => CeilingHolds
  <2> SUFFICES ASSUME DeskInv PROVE CeilingHolds OBVIOUS
  <2>1. recorded \subseteq Keys BY DEF DeskInv
  <2>2. PICK a \in Nat : a = Cardinality(recorded) BY <2>1, Finite
  <2>3. PICK b \in Nat : b = Cardinality(Pending(req)) BY Finite
  <2>4. PICK m \in Int : m = MaxKeys[about] + Cardinality(Slots) - 1
    <3>1. MaxKeys[about] \in Nat BY DeskAssumption DEF DeskInv
    <3> QED BY <3>1, Finite
  <2>5. a <= m BY <2>2, <2>3, <2>4 DEF DeskInv
  <2> QED BY <2>2, <2>4, <2>5 DEF CeilingHolds
<1> QED BY InitiallyInv, NextKeepsInv, <1>1, PTL DEF Spec

-----------------------------------------------------------------------------
(* Rows that refer to rows.                                                *)

OrderType == [Orders -> [status : {"none", "pending", "approved", "rejected", "removed"},
                         user : Users \cup {None}]]
PrimaryType == [Users -> Keys \cup {None, Absent}]

\* No row refers to one that is not there.
RowsTyped ==
  /\ order \in OrderType
  /\ primary \in PrimaryType
  /\ holder \in HolderType
  /\ \A u \in Users : primary[u] \in Keys => holder[primary[u]] # Absent
  /\ \A k \in Keys : holder[k] \in Users => primary[holder[k]] # Absent

Distinct ==
  /\ None # Absent /\ None \notin Users /\ None \notin Keys /\ None \notin Orders
  /\ Absent \notin Users /\ Absent \notin Keys

LEMMA AllDistinct == Distinct
BY DeskAssumption DEF Distinct

LEMMA RowsStay == ASSUME RowsTyped, UNCHANGED rows PROVE RowsTyped'
BY DEF RowsTyped, rows

\* An order's row is written, or a user's, or a key's.
LEMMA OrderWritten ==
  ASSUME RowsTyped, UNCHANGED <<primary, holder>>, order' \in OrderType
  PROVE  RowsTyped'
BY DEF RowsTyped

LEMMA UserGone ==
  ASSUME RowsTyped, NEW u \in Users, DeleteUserRow(u)
  PROVE  RowsTyped'
<1>1. order' \in OrderType
  <2>1. ASSUME NEW o \in Orders
        PROVE  [order[o] EXCEPT !.user = None]
                 \in [status : {"none", "pending", "approved", "rejected", "removed"},
                      user : Users \cup {None}]
    BY DEF RowsTyped, OrderType
  <2> QED BY <2>1 DEF RowsTyped, OrderType, DeleteUserRow
<1>2. primary' \in PrimaryType /\ \A v \in Users \ {u} : primary'[v] = primary[v]
  BY DEF RowsTyped, PrimaryType, DeleteUserRow
<1>3. primary'[u] = Absent BY DEF RowsTyped, PrimaryType, DeleteUserRow
<1>4. /\ holder' \in HolderType
      /\ \A k \in Keys : holder'[k] = IF holder[k] = u THEN None ELSE holder[k]
  BY DEF RowsTyped, HolderType, DeleteUserRow
<1> QED BY <1>1, <1>2, <1>3, <1>4, AllDistinct DEF RowsTyped, PrimaryType, Distinct

LEMMA KeyGone ==
  ASSUME RowsTyped, NEW k \in Keys, DeleteKeyRow(k)
  PROVE  RowsTyped'
<1>1. /\ primary' \in PrimaryType
      /\ \A u \in Users : primary'[u] = IF primary[u] = k THEN None ELSE primary[u]
  BY DEF RowsTyped, PrimaryType, DeleteKeyRow
<1>2. /\ holder' \in HolderType /\ holder'[k] = Absent
      /\ \A j \in Keys \ {k} : holder'[j] = holder[j]
  BY DEF RowsTyped, HolderType, DeleteKeyRow
<1>3. order' = order BY DEF DeleteKeyRow
<1> QED BY <1>1, <1>2, <1>3, AllDistinct DEF RowsTyped, Distinct

LEMMA HolderWritten ==
  ASSUME RowsTyped, UNCHANGED <<order, primary>>, NEW k \in Keys,
         NEW v \in Users \cup {None}, v \in Users => primary[v] # Absent,
         holder' = [holder EXCEPT ![k] = v]
  PROVE  RowsTyped'
<1>1. /\ holder' \in HolderType /\ holder'[k] = v
      /\ \A j \in Keys \ {k} : holder'[j] = holder[j]
  BY DEF RowsTyped, HolderType
<1> QED BY <1>1, AllDistinct DEF RowsTyped, Distinct

LEMMA PrimaryWritten ==
  ASSUME RowsTyped, UNCHANGED <<order, holder>>, primary' \in PrimaryType,
         \A u \in Users : \/ primary'[u] = primary[u]
                          \/ primary'[u] = None
                          \/ primary'[u] \in Keys /\ holder[primary'[u]] # Absent
  PROVE  RowsTyped'
<1>1. \A u \in Users : primary[u] # Absent => primary'[u] # Absent
  BY AllDistinct DEF Distinct
<1>2. \A u \in Users : primary'[u] \in Keys => holder[primary'[u]] # Absent
  BY AllDistinct DEF RowsTyped, Distinct
<1> QED BY <1>1, <1>2 DEF RowsTyped

-----------------------------------------------------------------------------
(* What a request works on is torn once another request works on it too.   *)

Meets(p, q) == Objects(p) \cap Objects(q) # {}
NoSharing ==
  \A r, s \in Slots : r # s /\ Meets(req[r], req[s]) =>
    Objects(req[r]) \cup Objects(req[s]) \subseteq torn

\* Request r, as in q, has taken its step, and n is what is left of it.
Took(r, q, n) ==
  /\ req' = [req EXCEPT ![r] = n]
  /\ Objects(n) \subseteq Objects(q)
  /\ torn \subseteq torn'
  /\ \A s \in Slots \ {r} : Meets(q, req[s]) =>
       Objects(q) \cup Objects(req[s]) \subseteq torn'

LEMMA WorksOn ==
  ASSUME NEW q
  PROVE  /\ q.user # None => <<"user", q.user>> \in Objects(q)
         /\ q.key # None => <<"key", q.key>> \in Objects(q)
         /\ q.old # None => <<"key", q.old>> \in Objects(q)
         /\ q.order # None => q.order \in Objects(q)
BY DEF Objects

LEMMA WorksOnSame ==
  ASSUME NEW q, NEW n
  PROVE  Continues(q, n) => Objects(n) = Objects(q)
<1> SUFFICES ASSUME Continues(q, n) PROVE Objects(n) = Objects(q) OBVIOUS
<1>1. n.order = q.order /\ n.user = q.user /\ n.key = q.key /\ n.old = q.old
  BY Fields DEF Continues
<1> QED BY <1>1 DEF Objects

LEMMA IdleWorksOnNothing == Objects(Idle) = {}
BY DEF Objects, Idle

LEMMA Crossed ==
  ASSUME NEW r \in Slots, NEW q, NEW s \in Slots \ {r}, Meets(q, req[s])
  PROVE  Objects(q) \cup Objects(req[s]) \subseteq Crossing(r, q)
<1> DEFINE P == {x \in Slots \ {r} : Objects(q) \cap Objects(req[x]) # {}}
<1>1. s \in P BY DEF Meets
<1>2. Crossing(r, q) = UNION {Objects(q) \cup Objects(req[x]) : x \in P} BY DEF Crossing
<1> HIDE DEF P
<1> QED BY <1>1, <1>2

LEMMA OneSlot ==
  ASSUME DeskInv, NEW r \in Slots, NEW n
  PROVE  /\ [req EXCEPT ![r] = n][r] = n
         /\ \A s \in Slots \ {r} : [req EXCEPT ![r] = n][s] = req[s]
BY DEF DeskInv, GoodRequests

\* A request goes on, or ends.
LEMMA GoesTook ==
  ASSUME DeskInv, NEW r \in Slots, Live(r), NEW q, GoodRequest(q),
         q.todo = req[r].todo, q.op = req[r].op,
         Head(req[r].todo) = "createAccessKey" => q.key \in Keys,
         Goes(r, q)
  PROVE  \E n : /\ Took(r, q, n)
                /\ GoodRequest(n)
                /\ n = Idle \/ Continues(q, n)
                /\ Head(q.todo) \notin EndsOf(q.op) => Continues(q, n)
                /\ Head(q.todo) = "decide" => n = Idle
                /\ IF n = Idle THEN Answered(r, TRUE) ELSE UNCHANGED tab
<1>1. PICK n : n = IF Tail(q.todo) = <<>> THEN Idle ELSE [q EXCEPT !.todo = Tail(q.todo)]
  OBVIOUS
<1>2. q.op # "none" /\ (Head(q.todo) = "createAccessKey" => q.key \in Keys) BY DEF Live
<1>3. /\ GoodRequest(n)
      /\ Tail(q.todo) = <<>> => n = Idle
      /\ Tail(q.todo) # <<>> => Continues(q, n)
      /\ Head(q.todo) \notin EndsOf(q.op) => Tail(q.todo) # <<>>
      /\ Head(q.todo) = "decide" => Tail(q.todo) = <<>>
  BY <1>1, <1>2, NextStep
<1>4. /\ req' = [req EXCEPT ![r] = n]
      /\ torn' = torn \cup Crossing(r, q)
      /\ IF Tail(q.todo) = <<>> THEN Answered(r, TRUE) ELSE UNCHANGED tab
  BY <1>1 DEF Goes
<1>5. ASSUME NEW s \in Slots \ {r}, Meets(q, req[s])
      PROVE  Objects(q) \cup Objects(req[s]) \subseteq torn'
  BY <1>4, <1>5, Crossed
<1>6. n # Idle <=> Tail(q.todo) # <<>>
  <2>1. Continues(q, n) => n.op = q.op BY Fields DEF Continues
  <2>2. Idle.op = "none" BY DEF Idle
  <2> QED BY <1>2, <1>3, <2>1, <2>2
<1>7. Took(r, q, n)
  BY <1>3, <1>4, <1>5, IdleWorksOnNothing, WorksOnSame DEF Took
<1> QED BY <1>3, <1>4, <1>6, <1>7

LEMMA EndsTook ==
  ASSUME DeskInv, NoSharing, NEW r \in Slots, req' = [req EXCEPT ![r] = Idle],
         torn \subseteq torn'
  PROVE  Took(r, req[r], Idle)
BY IdleWorksOnNothing DEF NoSharing, Took

LEMMA ArrivesTook ==
  ASSUME DeskInv, NEW r \in Slots, NEW q, Arrives(r, q)
  PROVE  Took(r, q, q)
<1>1. req' = [req EXCEPT ![r] = q] /\ torn' = torn \cup Crossing(r, q) BY DEF Arrives
<1>2. ASSUME NEW s \in Slots \ {r}, Meets(q, req[s])
      PROVE  Objects(q) \cup Objects(req[s]) \subseteq torn'
  BY <1>1, <1>2, Crossed
<1> QED BY <1>1, <1>2 DEF Took

LEMMA SharingKept ==
  ASSUME DeskInv, NoSharing, NEW r \in Slots, NEW q, NEW n, Took(r, q, n)
  PROVE  NoSharing'
<1>1. req'[r] = n /\ \A s \in Slots \ {r} : req'[s] = req[s]
  BY OneSlot DEF Took
<1>2. Objects(n) \subseteq Objects(q)
  BY DEF Took
<1>3. ASSUME NEW s \in Slots, NEW t \in Slots, s # t, Meets(req'[s], req'[t])
      PROVE  Objects(req'[s]) \cup Objects(req'[t]) \subseteq torn'
  <2>1. CASE s # r /\ t # r
    BY <1>1, <1>3, <2>1 DEF NoSharing, Took
  <2>2. CASE s = r
    <3>1. t \in Slots \ {r} /\ Meets(n, req[t]) BY <1>1, <1>3, <2>2
    <3>2. Meets(q, req[t]) BY <1>2, <3>1 DEF Meets
    <3> QED BY <1>1, <1>2, <2>2, <3>1, <3>2 DEF Took
  <2>3. CASE t = r
    <3>1. s \in Slots \ {r} /\ Meets(n, req[s]) BY <1>1, <1>3, <2>3 DEF Meets
    <3>2. Meets(q, req[s]) BY <1>2, <3>1 DEF Meets
    <3> QED BY <1>1, <1>2, <2>3, <3>1, <3>2 DEF Took
  <2> QED BY <2>1, <2>2, <2>3
<1>4. \A s, t \in Slots : s # t /\ Meets(req'[s], req'[t]) =>
        Objects(req'[s]) \cup Objects(req'[t]) \subseteq torn'
  BY <1>3
<1> QED BY <1>4 DEF NoSharing, Meets, Objects

-----------------------------------------------------------------------------
(* What a request is sure of while nobody else works on the same.          *)

\* From here to the end, the request's key is its user's, if it has one.
KeySteps == {"reconcile", "clearPrimary", "adoptPrimary", "setPrimary", "release",
             "releaseClear"}

Held(q) ==
  q.op \notin {"none", "newKey"} /\ Head(q.todo) \in KeySteps =>
    /\ q.key \in Keys /\ q.user \in Users
    /\ <<"key", q.key>> \notin torn => holder[q.key] = q.user

\* A user who is moved to another key has the old one until it is replaced.
OnTheWay(q) ==
  q.op \in Replacing /\ q.old # None =>
    /\ q.user \in Users /\ q.old \in Keys
    /\ {<<"user", q.user>>, <<"key", q.old>>} \cap torn = {} =>
         IF Head(q.todo) \in Releasing THEN primary[q.user] = q.key
         ELSE primary[q.user] = q.old /\ holder[q.old] = q.user

InHand(q) == Held(q) /\ OnTheWay(q)

\* Key k is no longer u's, or soon somebody else's, and about to be cleared
\* as u's primary.
Half == {"clearPrimary", "clearPrimaryOfFree", "releaseClear"}
InBetween(q, u, k) ==
  /\ q.op # "none"
  /\ \/ Head(q.todo) = "clearPrimary" /\ q.key = k /\ q.user # u
     \/ Head(q.todo) = "clearPrimaryOfFree" /\ q.key = k
     \/ Head(q.todo) = "releaseClear" /\ q.old = k /\ q.key # k

Resolves(u, k) ==
  primary[u] = k /\ {<<"user", u>>, <<"key", k>>} \cap torn = {} =>
    \/ holder[k] = u
    \/ \E r \in Slots : InBetween(req[r], u, k)

Linked == \A u \in Users, k \in Keys : Resolves(u, k)

LinkInv ==
  /\ RowsTyped
  /\ NoSharing
  /\ \A r \in Slots : InHand(req[r])
  /\ Linked

\* A step of a request on q changes only rows it works on, and those that
\* refer to them.
Within(q) ==
  /\ \A k \in Keys : \/ holder'[k] = holder[k]
                     \/ k \in {q.key, q.old}
                     \/ holder[k] = q.user
                     \/ holder[k] = Absent
  /\ \A u \in Users : \/ primary'[u] = primary[u]
                      \/ u = q.user
                      \/ primary[u] \in {q.key, q.old}

\* What the others are sure of stays so.
LEMMA OthersSure ==
  ASSUME DeskInv, LinkInv, NEW r \in Slots, NEW q, NEW n, Took(r, q, n), Within(q),
         NEW s \in Slots \ {r}, NEW p, p = req[s]
  PROVE  InHand(p)'
<1>1. Held(p) /\ OnTheWay(p) BY DEF LinkInv, InHand
<1>2. Meets(q, p) => Objects(p) \subseteq torn' BY DEF Took
<1>3. torn \subseteq torn' BY DEF Took
<1>4. Distinct BY AllDistinct
<1>5. Held(p)'
  <2> SUFFICES ASSUME p.op \notin {"none", "newKey"}, Head(p.todo) \in KeySteps
               PROVE  /\ p.key \in Keys /\ p.user \in Users
                      /\ <<"key", p.key>> \notin torn' => holder'[p.key] = p.user
    BY DEF Held
  <2>1. p.key \in Keys /\ p.user \in Users BY <1>1 DEF Held
  <2>2. ASSUME <<"key", p.key>> \notin torn' PROVE holder'[p.key] = p.user
    <3>1. holder[p.key] = p.user BY <1>1, <1>3, <2>2 DEF Held
    <3>2. <<"key", p.key>> \in Objects(p) /\ <<"user", p.user>> \in Objects(p)
      BY <1>4, <2>1, WorksOn DEF Distinct
    <3>3. ~Meets(q, p) BY <1>2, <2>2, <3>2
    <3>4. p.key \notin {q.key, q.old} /\ p.user # q.user
      BY <1>4, <2>1, <3>2, <3>3, WorksOn DEF Meets, Distinct
    <3>5. p.user # Absent BY <1>4, <2>1 DEF Distinct
    <3> QED BY <2>1, <3>1, <3>4, <3>5 DEF Within
  <2> QED BY <2>1, <2>2
<1>6. OnTheWay(p)'
  <2> SUFFICES ASSUME p.op \in Replacing, p.old # None
               PROVE  /\ p.user \in Users /\ p.old \in Keys
                      /\ {<<"user", p.user>>, <<"key", p.old>>} \cap torn' = {} =>
                           IF Head(p.todo) \in Releasing THEN primary'[p.user] = p.key
                           ELSE primary'[p.user] = p.old /\ holder'[p.old] = p.user
    BY DEF OnTheWay
  <2>1. p.old \in Keys /\ p.user \in Users BY <1>1 DEF OnTheWay
  <2>2. ASSUME {<<"user", p.user>>, <<"key", p.old>>} \cap torn' = {}
        PROVE  IF Head(p.todo) \in Releasing THEN primary'[p.user] = p.key
               ELSE primary'[p.user] = p.old /\ holder'[p.old] = p.user
    <3>1. {<<"user", p.user>>, <<"key", p.old>>} \cap torn = {} BY <1>3, <2>2
    <3>2. /\ <<"user", p.user>> \in Objects(p) /\ <<"key", p.old>> \in Objects(p)
          /\ p.key # None => <<"key", p.key>> \in Objects(p)
      BY <1>4, <2>1, WorksOn DEF Distinct
    <3>3. ~Meets(q, p) BY <1>2, <2>2, <3>2
    <3>4. p.old \notin {q.key, q.old} /\ p.user # q.user
      BY <1>4, <2>1, <3>2, <3>3, WorksOn DEF Meets, Distinct
    <3>5. p.key # None => p.key \notin {q.key, q.old}
      BY <3>2, <3>3, WorksOn DEF Meets
    <3>6. CASE Head(p.todo) \in Releasing
      <4>1. primary[p.user] = p.key BY <1>1, <2>1, <3>1, <3>6 DEF OnTheWay
      <4>2. p.op \notin {"none", "newKey"} BY DEF Replacing
      <4>3. p.key \in Keys BY <1>1, <3>6, <4>2 DEF Held, Releasing, KeySteps
      <4>4. primary'[p.user] = primary[p.user]
        BY <1>4, <2>1, <3>4, <3>5, <4>1, <4>3 DEF Within, Distinct
      <4> QED BY <3>6, <4>1, <4>4
    <3>7. CASE Head(p.todo) \notin Releasing
      <4>1. primary[p.user] = p.old /\ holder[p.old] = p.user
        BY <1>1, <2>1, <3>1, <3>7 DEF OnTheWay
      <4>2. p.user # Absent BY <1>4, <2>1 DEF Distinct
      <4> QED BY <2>1, <3>4, <3>7, <4>1, <4>2 DEF Within
    <3> QED BY <3>6, <3>7
  <2> QED BY <2>1, <2>2
<1> QED BY <1>5, <1>6 DEF InHand

\* A pair a step leaves alone stays linked, unless the request was in between
\* and is not any more.
LEMMA PairStays ==
  ASSUME DeskInv, LinkInv, NEW r \in Slots, NEW q, NEW n, Took(r, q, n),
         NEW u \in Users, NEW k \in Keys,
         primary'[u] = primary[u], holder'[k] = holder[k],
         InBetween(req[r], u, k) => InBetween(n, u, k) \/ <<"key", k>> \in torn'
  PROVE  Resolves(u, k)'
<1> SUFFICES ASSUME primary'[u] = k, {<<"user", u>>, <<"key", k>>} \cap torn' = {}
             PROVE  holder'[k] = u \/ \E s \in Slots : InBetween(req'[s], u, k)
  BY DEF Resolves, InBetween
<1>1. holder[k] = u \/ \E s \in Slots : InBetween(req[s], u, k)
  BY DEF LinkInv, Linked, Resolves, Took
<1>2. req'[r] = n /\ \A s \in Slots \ {r} : req'[s] = req[s]
  BY OneSlot DEF Took
<1>3. CASE holder[k] = u
  BY <1>3
<1>4. ASSUME NEW s \in Slots, InBetween(req[s], u, k)
      PROVE  \E t \in Slots : InBetween(req'[t], u, k)
  BY <1>2, <1>4
<1> QED BY <1>1, <1>3, <1>4

\* No other request is in between for a key that this one works on, and that
\* is not torn.
LEMMA OnlyMine ==
  ASSUME DeskInv, LinkInv, NEW r \in Slots, NEW q, NEW n, Took(r, q, n),
         NEW k \in Keys, k \in {q.key, q.old}, <<"key", k>> \notin torn'
  PROVE  \A s \in Slots \ {r} : \A u : ~InBetween(req[s], u, k)
<1> SUFFICES ASSUME NEW s \in Slots \ {r}, NEW u, InBetween(req[s], u, k) PROVE FALSE
  OBVIOUS
<1>1. k # None BY AllDistinct DEF Distinct
<1>2. k \in {req[s].key, req[s].old} BY DEF InBetween
<1>3. <<"key", k>> \in Objects(q) /\ <<"key", k>> \in Objects(req[s])
  BY <1>1, <1>2, WorksOn
<1>4. Objects(q) \subseteq torn' BY <1>3 DEF Took, Meets
<1> QED BY <1>3, <1>4

\* All of it together.
LEMMA LinksKept ==
  ASSUME DeskInv, LinkInv, NEW r \in Slots, NEW q, NEW n, Took(r, q, n), Within(q),
         RowsTyped', InHand(n)', Linked'
  PROVE  LinkInv'
<1>1. req'[r] = n /\ \A s \in Slots \ {r} : req'[s] = req[s]
  BY OneSlot DEF Took
<1>2. NoSharing' BY SharingKept DEF LinkInv
<1>3. ASSUME NEW s \in Slots PROVE InHand(req[s])'
  <2>1. CASE s = r
    BY <1>1, <2>1 DEF InHand, Held, OnTheWay
  <2>2. CASE s # r
    <3>1. PICK p : p = req[s] OBVIOUS
    <3>2. InHand(p)' BY <2>2, <3>1, OthersSure
    <3>3. req'[s] = p BY <1>1, <2>2, <3>1
    <3> QED BY <3>2, <3>3 DEF InHand, Held, OnTheWay
  <2> QED BY <2>1, <2>2
<1> QED BY <1>2, <1>3 DEF LinkInv

-----------------------------------------------------------------------------
(* The actions keep it.                                                    *)

LEMMA NothingInHand == InHand(Idle)' /\ \A u, k : ~InBetween(Idle, u, k)
BY DEF InHand, Held, OnTheWay, InBetween, Idle, Replacing

LEMMA Still ==
  ASSUME LinkInv, UNCHANGED <<primary, holder, req, torn>>, order' \in OrderType
  PROVE  LinkInv'
<1>1. RowsTyped' BY OrderWritten DEF LinkInv
<1>2. NoSharing' BY DEF LinkInv, NoSharing, Meets, Objects
<1>3. \A r \in Slots : InHand(req[r])' BY DEF LinkInv, InHand, Held, OnTheWay
<1>4. Linked' BY DEF LinkInv, Linked, Resolves, InBetween
<1> QED BY <1>1, <1>2, <1>3, <1>4 DEF LinkInv

\* What a request that goes on takes with it.
LEMMA SureOn ==
  ASSUME DeskInv, LinkInv, NEW q, NEW n, n = Idle \/ Continues(q, n),
         q.op # "none",
         Head(q.todo) \notin {"setHolder", "createKey", "setPrimary"},
         Head(q.todo) \in KeySteps => Held(q) /\ holder'[q.key] = holder[q.key],
         torn \subseteq torn',
         OnTheWay(q),
         q.op \in Replacing =>
           /\ primary'[q.user] = primary[q.user]
           /\ Head(q.todo) \notin Releasing => holder'[q.old] = holder[q.old]
  PROVE  InHand(n)'
<1>1. CASE n = Idle
  BY <1>1, NothingInHand
<1>2. CASE Continues(q, n)
  <2>1. /\ n.op = q.op /\ n.order = q.order /\ n.user = q.user
        /\ n.key = q.key /\ n.old = q.old
    BY <1>2, Fields DEF Continues
  <2>2. PICK a, b : a = Head(q.todo) /\ b = Head(n.todo) OBVIOUS
  <2>3. Follows(a, b) BY <1>2, <2>2 DEF Continues
  <2>4. Held(n)'
    <3>1. b \in KeySteps => a \in KeySteps
      BY <2>2, <2>3 DEF Follows, KeySteps
    <3> QED BY <2>1, <2>2, <3>1 DEF Held
  <2>5. OnTheWay(n)'
    <3>1. b \in Releasing => a \in Releasing
      BY <2>2, <2>3 DEF Follows, Releasing
    <3>2. a \in Releasing => b \in Releasing
      BY <2>3 DEF Follows, Releasing
    <3> QED BY <2>1, <2>2, <3>1, <3>2 DEF OnTheWay
  <2> QED BY <2>4, <2>5 DEF InHand
<1> QED BY <1>1, <1>2

\* A step that writes neither a user's row nor a key's.
Calls == {"count", "createAccessKey", "reconcile", "checkFree", "deleteAccessKey",
          "applyKeyPlan", "decide", "deleteOrder"}

LEMMA CallsKeepLinks ==
  ASSUME DeskInv, LinkInv, NEW r \in Slots, Live(r), Head(req[r].todo) \in Calls,
         NEW q, GoodRequest(q), q.todo = req[r].todo, q.op = req[r].op,
         q.user = req[r].user, q.old = req[r].old,
         IF Head(req[r].todo) = "createAccessKey" THEN q.key \in Keys
         ELSE q.key = req[r].key,
         Goes(r, q), UNCHANGED <<primary, holder>>, order' \in OrderType
  PROVE  LinkInv'
<1>1. PICK n : Took(r, q, n) /\ (n = Idle \/ Continues(q, n)) BY GoesTook
<1>2. RowsTyped' BY OrderWritten DEF LinkInv
<1>3. Within(q) BY DEF Within
<1>4. InHand(n)'
  <2>1. InHand(req[r]) BY DEF LinkInv
  <2>2. /\ q.op # "none" /\ Head(q.todo) \in Calls /\ torn \subseteq torn'
        /\ OnTheWay(q)
    <3>1. OnTheWay(q) BY <2>1 DEF InHand, OnTheWay, Calls, Releasing
    <3> QED BY <1>1, <3>1 DEF Live, Took
  <2>3. Head(q.todo) \in KeySteps => Held(q)
    BY <2>1 DEF Calls, KeySteps, InHand, Held
  <2>4. Head(q.todo) \notin {"setHolder", "createKey", "setPrimary"}
    BY <2>2 DEF Calls
  <2> QED BY <1>1, <2>2, <2>3, <2>4, SureOn
<1>5. Linked'
  <2>1. ASSUME NEW u \in Users, NEW k \in Keys PROVE Resolves(u, k)'
    <3>1. ~InBetween(req[r], u, k) BY DEF InBetween, Calls
    <3>2. primary'[u] = primary[u] /\ holder'[k] = holder[k] OBVIOUS
    <3> QED BY <1>1, <3>1, <3>2, PairStays
  <2> QED BY <2>1 DEF Linked
<1> QED BY <1>1, <1>2, <1>3, <1>4, <1>5, LinksKept

\* A request ends, whatever it leaves half done.
LEMMA EndsKeepLinks ==
  ASSUME DeskInv, LinkInv, NEW r \in Slots,
         req' = [req EXCEPT ![r] = Idle], torn \subseteq torn',
         \/ UNCHANGED rows
         \/ req[r].user \in Users /\ DeleteUserRow(req[r].user),
         Live(r) /\ Head(req[r].todo) \in Half => Objects(req[r]) \subseteq torn'
  PROVE  LinkInv'
<1>1. PICK q : q = req[r] OBVIOUS
<1>2. Took(r, q, Idle) BY <1>1, EndsTook DEF LinkInv
<1>3. RowsTyped' BY RowsStay, UserGone DEF LinkInv
<1>4. /\ \A k \in Keys : holder'[k] = holder[k] \/ (holder[k] = q.user /\ holder'[k] = None)
      /\ \A u \in Users : \/ primary'[u] = primary[u]
                          \/ u = q.user /\ primary'[u] = Absent
  <2>1. CASE UNCHANGED rows
    BY <2>1 DEF rows
  <2>2. CASE req[r].user \in Users /\ DeleteUserRow(req[r].user)
    BY <1>1, <2>2 DEF DeleteUserRow, LinkInv, RowsTyped, PrimaryType
  <2> QED BY <2>1, <2>2
<1>5. Within(q) BY <1>4 DEF Within
<1>6. Linked'
  <2>1. ASSUME NEW u \in Users, NEW k \in Keys PROVE Resolves(u, k)'
    <3>1. CASE primary'[u] # primary[u]
      <4>1. primary'[u] # k BY <1>4, <3>1, AllDistinct DEF Distinct
      <4> QED BY <4>1 DEF Resolves
    <3>2. CASE primary'[u] = primary[u] /\ holder'[k] = holder[k]
      <4>1. InBetween(req[r], u, k) => <<"key", k>> \in torn'
        <5>1. ASSUME InBetween(req[r], u, k) PROVE <<"key", k>> \in torn'
          <6>1. Live(r) /\ Head(req[r].todo) \in Half
            BY <5>1 DEF InBetween, Live, Half
          <6>2. k \in {req[r].key, req[r].old} /\ k # None
            BY <5>1, AllDistinct DEF InBetween, Distinct
          <6> QED BY <6>1, <6>2, WorksOn
        <5> QED BY <5>1
      <4> QED BY <1>2, <3>2, <4>1, PairStays
    <3>3. CASE primary'[u] = primary[u] /\ holder'[k] # holder[k]
      <4> SUFFICES ASSUME primary'[u] = k, {<<"user", u>>, <<"key", k>>} \cap torn' = {}
                   PROVE  \E s \in Slots : InBetween(req'[s], u, k)
        BY DEF Resolves, InBetween
      <4>1. holder[k] = q.user /\ holder'[k] = None BY <1>4, <3>3
      <4>2. q.user \in Users /\ primary'[q.user] = Absent
        <5>1. q.user \in Users /\ DeleteUserRow(q.user)
          BY <1>1, <3>3 DEF rows
        <5> QED BY <5>1 DEF DeleteUserRow, LinkInv, RowsTyped, PrimaryType
      <4>3. u # q.user BY <4>2, AllDistinct DEF Distinct
      <4>4. PICK s \in Slots : InBetween(req[s], u, k)
        BY <1>2, <3>3, <4>1, <4>3 DEF LinkInv, Linked, Resolves, Took
      <4>5. s # r
        <5>1. SUFFICES ASSUME s = r PROVE FALSE OBVIOUS
        <5>2. Live(r) /\ Head(req[r].todo) \in Half
          BY <4>4, <5>1 DEF InBetween, Live, Half
        <5>3. k \in {req[r].key, req[r].old} /\ k # None
          BY <4>4, <5>1, AllDistinct DEF InBetween, Distinct
        <5> QED BY <5>2, <5>3, WorksOn
      <4>6. req'[s] = req[s] BY <1>2, <4>5, OneSlot DEF Took
      <4> QED BY <4>4, <4>6
    <3> QED BY <3>1, <3>2, <3>3
  <2> QED BY <2>1 DEF Linked
<1>7. InHand(Idle)' BY NothingInHand
<1> QED BY <1>2, <1>3, <1>5, <1>6, <1>7, LinksKept

\* The state a step of a request starts from.
LEMMA Starts ==
  ASSUME DeskInv, LinkInv, NEW r \in Slots, Live(r), NEW q, q = req[r]
  PROVE  /\ GoodRequest(q) /\ q.op # "none" /\ q.op \in Ops
         /\ Held(q) /\ OnTheWay(q)
         /\ Head(q.todo) \in StepsIn(q.op)
         /\ Head(q.todo) = q.todo[1]
         /\ q.op = "newKey" => Head(q.todo) \in Provisioning
<1>1. GoodRequest(q) /\ q.op # "none" BY DEF DeskInv, GoodRequests, Live
<1>2. Held(q) /\ OnTheWay(q) BY DEF LinkInv, InHand
<1>3. q.op \in Ops /\ Head(q.todo) \in StepsIn(q.op) /\ Head(q.todo) = q.todo[1]
  BY <1>1, Todo
<1> QED BY <1>1, <1>2, <1>3 DEF StepsIn, Replacing

\* Which operations have a step, and that others do not.
LEMMA StepsOfReplacing ==
  ASSUME NEW op \in Replacing
  PROVE  StepsIn(op) \cap {"createUser", "adoptPrimary", "unlink", "deleteKey"} = {}
<1>1. StepsIn(op) = Provisioning \cup Claiming \cup Releasing
  BY DEF StepsIn, Replacing
<1> QED BY <1>1 DEF Provisioning, Claiming, Releasing

LEMMA NotTheEnd ==
  ASSUME NEW op
  PROVE  {"createKey", "setHolder", "unlink", "release"} \cap EndsOf(op) = {}
BY DEF EndsOf, Replacing

LEMMA CreateUserKeepsLinks ==
  ASSUME DeskInv, LinkInv, NEW r \in Slots, CreateUser(r)
  PROVE  LinkInv'
<1>1. PICK v : v = created.users + 1 OBVIOUS
<1>2. PICK p : p = req[r] OBVIOUS
<1>3. PICK q : q = [p EXCEPT !.user = v] OBVIOUS
<1>4. /\ Live(r) /\ Head(p.todo) = "createUser" /\ v \in Users
      /\ primary' = [primary EXCEPT ![v] = None] /\ UNCHANGED <<order, holder>>
      /\ Goes(r, q)
  BY <1>1, <1>2, <1>3 DEF CreateUser, At
<1>5. /\ GoodRequest(q) /\ q.op = p.op /\ q.todo = p.todo /\ q.user = v
      /\ q.key = p.key /\ q.old = p.old
  BY <1>2, <1>3, <1>4, UserGiven
<1>6. PICK n : Took(r, q, n) /\ (n = Idle \/ Continues(q, n))
  BY <1>2, <1>4, <1>5, GoesTook
<1>7. /\ \A u \in Users \ {v} : primary'[u] = primary[u]
      /\ primary'[v] = None /\ primary' \in PrimaryType
  BY <1>4 DEF LinkInv, RowsTyped, PrimaryType
<1>8. RowsTyped' BY <1>4, <1>7, PrimaryWritten DEF LinkInv
<1>9. Within(q) BY <1>4, <1>5, <1>7 DEF Within
<1>10. InHand(n)'
  <2>1. p.op # "none" /\ Head(p.todo) \in StepsIn(p.op) BY <1>2, <1>4, Starts
  <2>2. q.op \notin Replacing BY <1>4, <1>5, <2>1, StepsOfReplacing
  <2>3. OnTheWay(q) BY <2>2 DEF OnTheWay
  <2>4. torn \subseteq torn' BY <1>6 DEF Took
  <2>5. Head(q.todo) \notin KeySteps /\ Head(q.todo) \notin {"setHolder", "createKey",
                                                              "setPrimary"}
    BY <1>4, <1>5 DEF KeySteps
  <2> QED BY <1>5, <1>6, <2>1, <2>2, <2>3, <2>4, <2>5, SureOn
<1>11. Linked'
  <2>1. ASSUME NEW u \in Users, NEW k \in Keys PROVE Resolves(u, k)'
    <3>1. CASE u = v
      BY <1>7, <3>1, AllDistinct DEF Resolves, Distinct
    <3>2. CASE u # v
      <4>1. ~InBetween(req[r], u, k) BY <1>2, <1>4 DEF InBetween
      <4> QED BY <1>4, <1>6, <1>7, <3>2, <4>1, PairStays
    <3> QED BY <3>1, <3>2
  <2> QED BY <2>1 DEF Linked
<1> QED BY <1>6, <1>8, <1>9, <1>10, <1>11, LinksKept

LEMMA CreateKeyKeepsLinks ==
  ASSUME DeskInv, LinkInv, NEW r \in Slots, CreateKey(r)
  PROVE  LinkInv'
<1>1. PICK q, a : q = req[r] /\ a = q.key OBVIOUS
<1>2. /\ Live(r) /\ Head(q.todo) = "createKey" /\ Goes(r, q)
      /\ ~Recorded(a) /\ (Exists(q.user) \/ (q.op = "newKey" /\ q.user = None))
      /\ holder' = [holder EXCEPT ![a] = q.user] /\ UNCHANGED <<order, primary>>
  BY <1>1 DEF CreateKey, CanRecord, At
<1>3. GoodRequest(q) /\ q.op # "none" /\ Held(q) /\ OnTheWay(q) BY <1>1, <1>2, Starts
<1>4. PICK n : Took(r, q, n) /\ Continues(q, n)
  BY <1>1, <1>2, <1>3, GoesTook, NotTheEnd
<1>5. /\ a \in Keys /\ holder[a] = Absent
      /\ q.user \in Users \/ (q.op = "newKey" /\ q.user = None)
  <2>1. q.todo # <<>> BY <1>3, Todo
  <2> QED BY <1>1, <1>2, <1>3, <2>1 DEF GoodRequest, Recorded, Exists
<1>6. /\ holder'[a] = q.user /\ \A k \in Keys \ {a} : holder'[k] = holder[k]
  BY <1>2, <1>5 DEF LinkInv, RowsTyped, HolderType
<1>7. RowsTyped'
  BY <1>2, <1>5, HolderWritten, AllDistinct DEF LinkInv, Exists, Distinct
<1>8. Within(q) BY <1>1, <1>2, <1>6 DEF Within
<1>9. InHand(n)'
  <2>1. /\ n.op = q.op /\ n.user = q.user /\ n.key = q.key /\ n.old = q.old
    BY <1>4, Fields DEF Continues
  <2>2. Follows("createKey", Head(n.todo)) BY <1>2, <1>4 DEF Continues
  <2>3. Head(n.todo) = "reconcile" BY <2>2 DEF Follows
  <2>4. Held(n)' BY <1>1, <1>5, <1>6, <2>1 DEF Held
  <2>5. OnTheWay(n)'
    <3> SUFFICES ASSUME q.op \in Replacing, q.old # None
                 PROVE  /\ q.user \in Users /\ q.old \in Keys
                        /\ {<<"user", q.user>>, <<"key", q.old>>} \cap torn' = {} =>
                             primary'[q.user] = q.old /\ holder'[q.old] = q.user
      BY <2>1, <2>3 DEF OnTheWay, Releasing
    <3>1. q.user \in Users /\ q.old \in Keys BY <1>3 DEF OnTheWay
    <3>2. ASSUME {<<"user", q.user>>, <<"key", q.old>>} \cap torn' = {}
          PROVE  primary'[q.user] = q.old /\ holder'[q.old] = q.user
      <4>1. torn \subseteq torn' BY <1>4 DEF Took
      <4>2. primary[q.user] = q.old /\ holder[q.old] = q.user
        BY <1>2, <1>3, <3>2, <4>1 DEF OnTheWay, Releasing
      <4>3. q.old # a BY <1>5, <4>2, AllDistinct DEF Distinct
      <4> QED BY <1>2, <1>6, <3>1, <4>2, <4>3
    <3> QED BY <3>1, <3>2
  <2> QED BY <2>4, <2>5 DEF InHand
<1>10. Linked'
  <2>1. ASSUME NEW u \in Users, NEW k \in Keys PROVE Resolves(u, k)'
    <3>1. CASE k = a
      <4>1. primary[u] # a BY <1>5 DEF LinkInv, RowsTyped
      <4> QED BY <1>2, <3>1, <4>1 DEF Resolves
    <3>2. CASE k # a
      <4>1. ~InBetween(req[r], u, k) BY <1>1, <1>2 DEF InBetween
      <4> QED BY <1>2, <1>4, <1>6, <3>2, <4>1, PairStays
    <3> QED BY <3>1, <3>2
  <2> QED BY <2>1 DEF Linked
<1> QED BY <1>4, <1>7, <1>8, <1>9, <1>10, LinksKept

LEMMA SetHolderKeepsLinks ==
  ASSUME DeskInv, LinkInv, NEW r \in Slots, SetHolder(r)
  PROVE  LinkInv'
<1>1. PICK q, a : q = req[r] /\ a = q.key OBVIOUS
<1>2. /\ Live(r) /\ Head(q.todo) = "setHolder" /\ Goes(r, q)
      /\ a \in Keys /\ q.user \in Users /\ primary[q.user] # Absent
      /\ holder' = [holder EXCEPT ![a] = q.user] /\ UNCHANGED <<order, primary>>
  BY <1>1 DEF SetHolder, At, Recorded, Exists
<1>3. GoodRequest(q) /\ q.op # "none" /\ OnTheWay(q) BY <1>1, <1>2, Starts
<1>4. PICK n : Took(r, q, n) /\ Continues(q, n)
  BY <1>1, <1>2, <1>3, GoesTook, NotTheEnd
<1>5. /\ holder'[a] = q.user /\ \A k \in Keys \ {a} : holder'[k] = holder[k]
  BY <1>2 DEF LinkInv, RowsTyped, HolderType
<1>6. RowsTyped' BY <1>2, HolderWritten DEF LinkInv
<1>7. Within(q) BY <1>1, <1>2, <1>5 DEF Within
<1>8. /\ n.op = q.op /\ n.user = q.user /\ n.key = q.key /\ n.old = q.old
      /\ Head(n.todo) = "clearPrimary"
  <2>1. Follows("setHolder", Head(n.todo)) BY <1>2, <1>4 DEF Continues
  <2>2. Head(n.todo) = "clearPrimary" BY <2>1 DEF Follows
  <2> QED BY <1>4, <2>2, Fields DEF Continues
<1>9. InHand(n)'
  <2>1. Held(n)' BY <1>1, <1>2, <1>5, <1>8 DEF Held
  <2>2. OnTheWay(n)'
    <3>1. torn \subseteq torn' BY <1>4 DEF Took
    <3>2. q.old \in Keys /\ holder[q.old] = q.user => holder'[q.old] = q.user
      BY <1>5
    <3> QED BY <1>2, <1>3, <1>8, <3>1, <3>2 DEF OnTheWay, Releasing
  <2> QED BY <2>1, <2>2 DEF InHand
<1>10. Linked'
  <2>1. ASSUME NEW u \in Users, NEW k \in Keys PROVE Resolves(u, k)'
    <3>1. CASE k = a /\ u = q.user
      BY <1>5, <3>1 DEF Resolves
    <3>2. CASE k = a /\ u # q.user
      <4>1. n.op # "none" BY <1>3, <1>8
      <4>2. InBetween(n, u, k) BY <1>1, <1>8, <3>2, <4>1 DEF InBetween
      <4>3. req'[r] = n BY <1>4, OneSlot DEF Took
      <4> QED BY <4>2, <4>3 DEF Resolves, InBetween
    <3>3. CASE k # a
      <4>1. ~InBetween(req[r], u, k) BY <1>1, <1>2 DEF InBetween
      <4> QED BY <1>2, <1>4, <1>5, <3>3, <4>1, PairStays
    <3> QED BY <3>1, <3>2, <3>3
  <2> QED BY <2>1 DEF Linked
<1> QED BY <1>4, <1>6, <1>7, <1>9, <1>10, LinksKept

LEMMA ClearPrimaryKeepsLinks ==
  ASSUME DeskInv, LinkInv, NEW r \in Slots, ClearPrimary(r)
  PROVE  LinkInv'
<1>1. PICK q, a : q = req[r] /\ a = q.key OBVIOUS
<1>2. /\ Live(r) /\ Head(q.todo) = "clearPrimary" /\ Goes(r, q)
      /\ primary' = [u \in Users |-> IF primary[u] = a /\ u # q.user
                                     THEN None ELSE primary[u]]
      /\ UNCHANGED <<order, holder>>
  BY <1>1 DEF ClearPrimary, At
<1>3. GoodRequest(q) /\ q.op # "none" /\ Held(q) /\ OnTheWay(q) BY <1>1, <1>2, Starts
<1>4. PICK n : Took(r, q, n) /\ (n = Idle \/ Continues(q, n))
  BY <1>1, <1>2, <1>3, GoesTook
<1>5. a \in Keys /\ q.user \in Users
  <2>1. q.op # "newKey" BY <1>1, <1>2, Starts DEF Provisioning
  <2> QED BY <1>1, <1>2, <1>3, <2>1 DEF Held, KeySteps
<1>6. /\ \A u \in Users : primary'[u] = IF primary[u] = a /\ u # q.user
                                        THEN None ELSE primary[u]
      /\ primary' \in PrimaryType
  BY <1>2 DEF LinkInv, RowsTyped, PrimaryType
<1>7. RowsTyped' BY <1>2, <1>6, PrimaryWritten DEF LinkInv
<1>8. Within(q) BY <1>1, <1>2, <1>6 DEF Within
<1>9. InHand(n)'
  <2>1. torn \subseteq torn' BY <1>4 DEF Took
  <2>2. Head(q.todo) \notin {"setHolder", "createKey", "setPrimary"} BY <1>2
  <2>3. primary'[q.user] = primary[q.user] BY <1>5, <1>6
  <2> QED BY <1>2, <1>3, <1>4, <2>1, <2>2, <2>3, SureOn
<1>10. Linked'
  <2>1. ASSUME NEW u \in Users, NEW k \in Keys PROVE Resolves(u, k)'
    <3>1. CASE primary'[u] # k
      BY <3>1 DEF Resolves
    <3>2. CASE primary'[u] = k
      <4>1. primary[u] = k /\ ~(k = a /\ u # q.user)
        BY <1>6, <3>2, AllDistinct DEF Distinct
      <4>2. ~InBetween(req[r], u, k) BY <1>1, <1>2, <4>1 DEF InBetween
      <4> QED BY <1>2, <1>4, <3>2, <4>1, <4>2, PairStays
    <3> QED BY <3>1, <3>2
  <2> QED BY <2>1 DEF Linked
<1> QED BY <1>4, <1>7, <1>8, <1>9, <1>10, LinksKept

\* A key becomes a user's primary: their own.
LEMMA PrimaryKeepsLinks ==
  ASSUME DeskInv, LinkInv, NEW r \in Slots, SetPrimary(r) \/ AdoptPrimaryKeyIfUnset(r)
  PROVE  LinkInv'
<1>1. PICK q, a, v : q = req[r] /\ a = q.key /\ v = q.user OBVIOUS
<1>2. /\ Live(r) /\ Head(q.todo) \in {"setPrimary", "adoptPrimary"} /\ Goes(r, q)
      /\ UNCHANGED <<order, holder>>
  BY <1>1 DEF SetPrimary, AdoptPrimaryKeyIfUnset, At
<1>3. GoodRequest(q) /\ q.op # "none" /\ Held(q) /\ OnTheWay(q)
      /\ Head(q.todo) \in StepsIn(q.op)
  BY <1>1, <1>2, Starts
<1>4. PICK n : Took(r, q, n) /\ (n = Idle \/ Continues(q, n))
  BY <1>1, <1>2, <1>3, GoesTook
<1>5. /\ a \in Keys /\ v \in Users
      /\ <<"key", a>> \notin torn => holder[a] = v
  <2>1. q.op # "newKey" BY <1>1, <1>2, Starts DEF Provisioning
  <2> QED BY <1>1, <1>2, <1>3, <2>1 DEF Held, KeySteps
<1>6. /\ \A u \in Users \ {v} : primary'[u] = primary[u]
      /\ primary'[v] = primary[v] \/ (primary'[v] = a /\ holder[a] # Absent)
      /\ Head(q.todo) = "setPrimary" => primary'[v] = a
      /\ primary' \in PrimaryType
  <2>1. CASE SetPrimary(r)
    BY <1>1, <1>5, <2>1 DEF SetPrimary, Recorded, LinkInv, RowsTyped, PrimaryType
  <2>2. CASE AdoptPrimaryKeyIfUnset(r)
    BY <1>1, <1>5, <2>2
    DEF AdoptPrimaryKeyIfUnset, At, Recorded, LinkInv, RowsTyped, PrimaryType
  <2> QED BY <2>1, <2>2
<1>7. RowsTyped'
  <2>1. \A u \in Users : \/ primary'[u] = primary[u]
                         \/ primary'[u] = None
                         \/ primary'[u] \in Keys /\ holder[primary'[u]] # Absent
    BY <1>5, <1>6
  <2> QED BY <1>2, <1>6, <2>1, PrimaryWritten DEF LinkInv
<1>8. Within(q) BY <1>1, <1>2, <1>6 DEF Within
<1>9. InHand(n)'
  <2>1. torn \subseteq torn' BY <1>4 DEF Took
  <2>2. CASE n = Idle
    BY <2>2, NothingInHand
  <2>3. CASE Continues(q, n)
    <3>1. /\ n.op = q.op /\ n.user = q.user /\ n.key = q.key /\ n.old = q.old
      BY <2>3, Fields DEF Continues
    <3>2. Held(n)' BY <1>1, <1>2, <1>5, <2>1, <3>1 DEF Held
    <3>3. OnTheWay(n)'
      <4> SUFFICES ASSUME q.op \in Replacing, q.old # None
                   PROVE  /\ q.user \in Users /\ q.old \in Keys
                          /\ Head(n.todo) \in Releasing
                          /\ primary'[q.user] = q.key
        BY <3>1 DEF OnTheWay
      <4>1. Head(q.todo) = "setPrimary" BY <1>2, <1>3, StepsOfReplacing
      <4>2. Head(n.todo) \in {"release", "applyKeyPlan"}
        <5>1. Follows("setPrimary", Head(n.todo)) BY <2>3, <4>1 DEF Continues
        <5> QED BY <5>1 DEF Follows
      <4>3. Head(n.todo) \in Provisioning \cup Claiming \cup Releasing
        BY <2>3 DEF Continues, StepsIn, Replacing
      <4>4. Head(n.todo) \in Releasing
        BY <4>2, <4>3 DEF Provisioning, Claiming, Releasing
      <4> QED BY <1>1, <1>3, <1>6, <4>1, <4>4 DEF OnTheWay
    <3> QED BY <3>2, <3>3 DEF InHand
  <2> QED BY <1>4, <2>2, <2>3
<1>10. Linked'
  <2>1. ASSUME NEW u \in Users, NEW k \in Keys PROVE Resolves(u, k)'
    <3>1. ~InBetween(req[r], u, k) BY <1>1, <1>2 DEF InBetween
    <3>2. CASE primary'[u] = primary[u]
      BY <1>2, <1>4, <3>1, <3>2, PairStays
    <3>3. CASE primary'[u] # primary[u]
      <4>1. u = v /\ primary'[u] = a BY <1>6, <3>3
      <4>2. torn \subseteq torn' BY <1>4 DEF Took
      <4> QED BY <1>2, <1>5, <4>1, <4>2 DEF Resolves
    <3> QED BY <3>2, <3>3
  <2> QED BY <2>1 DEF Linked
<1> QED BY <1>4, <1>7, <1>8, <1>9, <1>10, LinksKept

\* A key becomes free, and will be nobody's primary.
LEMMA FreeKeepsLinks ==
  ASSUME DeskInv, LinkInv, NEW r \in Slots, Unlink(r) \/ Release(r)
  PROVE  LinkInv'
<1>1. PICK q : q = req[r] OBVIOUS
<1>2. PICK a : a = IF Head(q.todo) = "unlink" THEN q.key
                   ELSE IF q.old = q.key THEN None ELSE q.old
  OBVIOUS
<1>3. /\ Live(r) /\ Head(q.todo) \in {"unlink", "release"} /\ Goes(r, q)
      /\ UNCHANGED <<order, primary>>
      /\ holder' = IF Recorded(a) THEN [holder EXCEPT ![a] = None] ELSE holder
  BY <1>1, <1>2 DEF Unlink, Release, Free, At
<1>4. GoodRequest(q) /\ q.op # "none" /\ Held(q) /\ OnTheWay(q)
      /\ Head(q.todo) \in StepsIn(q.op)
  BY <1>1, <1>3, Starts
<1>5. PICK n : Took(r, q, n) /\ Continues(q, n)
  BY <1>1, <1>3, <1>4, GoesTook, NotTheEnd
<1>6. /\ \A k \in Keys \ {a} : holder'[k] = holder[k]
      /\ a \in Keys => holder'[a] = holder[a] \/ holder'[a] = None
  BY <1>3 DEF Recorded, LinkInv, RowsTyped, HolderType
<1>7. RowsTyped'
  <2>1. CASE Recorded(a)
    BY <1>3, <2>1, HolderWritten, AllDistinct DEF LinkInv, Recorded, Distinct
  <2>2. CASE ~Recorded(a)
    BY <1>3, <2>2, RowsStay DEF LinkInv, rows
  <2> QED BY <2>1, <2>2
<1>8. a \in Keys => a \in {q.key, q.old} BY <1>2, AllDistinct DEF Distinct
<1>9. Within(q) BY <1>3, <1>6, <1>8 DEF Within
<1>10. n.op = q.op /\ n.user = q.user /\ n.key = q.key /\ n.old = q.old
  BY <1>5, Fields DEF Continues
<1>11. /\ Head(q.todo) = "unlink" => Head(n.todo) = "clearPrimaryOfFree"
       /\ Head(q.todo) = "release" => Head(n.todo) = "releaseClear"
  <2>1. Follows(Head(q.todo), Head(n.todo)) BY <1>5 DEF Continues
  <2> QED BY <2>1 DEF Follows
<1>12. InHand(n)'
  <2>1. torn \subseteq torn' BY <1>5 DEF Took
  <2>2. Head(q.todo) \in KeySteps => Held(q) /\ holder'[q.key] = holder[q.key]
    <3> SUFFICES ASSUME Head(q.todo) \in KeySteps PROVE holder'[q.key] = holder[q.key]
      BY <1>4
    <3>1. Head(q.todo) = "release" BY <1>3 DEF KeySteps
    <3>4. q.op # "newKey" BY <1>1, <1>3, <3>1, Starts DEF Provisioning
    <3>2. q.key \in Keys BY <1>4, <3>4 DEF Held
    <3>3. a # q.key BY <1>2, <3>1, <3>2, AllDistinct DEF Distinct
    <3> QED BY <1>6, <3>2, <3>3
  <2>3. q.op \in Replacing => Head(q.todo) \in Releasing
    BY <1>3, <1>4, StepsOfReplacing DEF Releasing
  <2>4. Head(q.todo) \notin {"setHolder", "createKey", "setPrimary"} BY <1>3
  <2> QED BY <1>3, <1>4, <1>5, <2>1, <2>2, <2>3, <2>4, SureOn
<1>13. Linked'
  <2>1. ASSUME NEW u \in Users, NEW k \in Keys PROVE Resolves(u, k)'
    <3>1. ~InBetween(req[r], u, k) BY <1>1, <1>3 DEF InBetween
    <3>2. CASE holder'[k] = holder[k]
      BY <1>3, <1>5, <3>1, <3>2, PairStays
    <3>3. CASE holder'[k] # holder[k]
      <4>1. k = a BY <1>6, <3>3
      <4>2. InBetween(n, u, k)
        <5>1. CASE Head(q.todo) = "unlink"
          BY <1>2, <1>4, <1>10, <1>11, <4>1, <5>1 DEF InBetween
        <5>2. CASE Head(q.todo) = "release"
          <6>1. q.old = k /\ q.key # k
            BY <1>2, <4>1, <5>2, AllDistinct DEF Distinct
          <6> QED BY <1>4, <1>10, <1>11, <5>2, <6>1 DEF InBetween
        <5> QED BY <1>3, <5>1, <5>2
      <4>3. req'[r] = n BY <1>5, OneSlot DEF Took
      <4> QED BY <4>2, <4>3 DEF Resolves, InBetween
    <3> QED BY <3>2, <3>3
  <2> QED BY <2>1 DEF Linked
<1> QED BY <1>5, <1>7, <1>9, <1>12, <1>13, LinksKept

LEMMA ClearFreeKeepsLinks ==
  ASSUME DeskInv, LinkInv, NEW r \in Slots, ClearPrimaryOfFree(r)
  PROVE  LinkInv'
<1>1. PICK q : q = req[r] OBVIOUS
<1>2. PICK a : a = IF Head(q.todo) = "releaseClear" THEN q.old ELSE q.key OBVIOUS
<1>3. /\ Live(r) /\ Head(q.todo) \in {"clearPrimaryOfFree", "releaseClear"} /\ Goes(r, q)
      /\ UNCHANGED <<order, holder>>
      /\ primary' = IF Head(q.todo) = "releaseClear" /\ a = q.key THEN primary
                    ELSE [u \in Users |-> IF primary[u] = a THEN None ELSE primary[u]]
  BY <1>1, <1>2 DEF ClearPrimaryOfFree, At
<1>4. GoodRequest(q) BY <1>1, <1>3, Starts
<1>5. PICK n : Took(r, q, n) /\ (n = Idle \/ Continues(q, n))
  BY <1>1, <1>3, <1>4, GoesTook
<1>6. /\ \A u \in Users : \/ primary'[u] = primary[u]
                          \/ primary[u] = a /\ primary'[u] = None
      /\ ~(Head(q.todo) = "releaseClear" /\ a = q.key) =>
           \A u \in Users : primary[u] = a => primary'[u] = None
      /\ primary' \in PrimaryType
  BY <1>3 DEF LinkInv, RowsTyped, PrimaryType
<1>7. RowsTyped' BY <1>3, <1>6, PrimaryWritten DEF LinkInv
<1>8. Within(q) BY <1>2, <1>3, <1>6 DEF Within
<1>9. n = Idle
  <2> SUFFICES ASSUME Continues(q, n) PROVE FALSE BY <1>5
  <2>1. Follows(Head(q.todo), Head(n.todo)) BY DEF Continues
  <2> QED BY <1>3, <2>1 DEF Follows
<1>10. InHand(n)' BY <1>9, NothingInHand
<1>11. Linked'
  <2>1. ASSUME NEW u \in Users, NEW k \in Keys PROVE Resolves(u, k)'
    <3>1. CASE primary'[u] # k
      BY <3>1 DEF Resolves
    <3>2. CASE primary'[u] = k
      <4>1. primary'[u] = primary[u] /\ primary[u] = k
        BY <1>6, <3>2, AllDistinct DEF Distinct
      <4>2. k = a => Head(q.todo) = "releaseClear" /\ a = q.key
        BY <1>6, <3>2, <4>1, AllDistinct DEF Distinct
      <4>3. ~InBetween(req[r], u, k)
        BY <1>1, <1>2, <1>3, <4>2 DEF InBetween
      <4> QED BY <1>3, <1>5, <4>1, <4>3, PairStays
    <3> QED BY <3>1, <3>2
  <2> QED BY <2>1 DEF Linked
<1> QED BY <1>5, <1>7, <1>8, <1>10, <1>11, LinksKept

LEMMA DeleteKeyKeepsLinks ==
  ASSUME DeskInv, LinkInv, NEW r \in Slots, DeleteKey(r)
  PROVE  LinkInv'
<1>1. PICK q, a : q = req[r] /\ a = q.old OBVIOUS
<1>2. /\ Live(r) /\ Head(q.todo) = "deleteKey" /\ Goes(r, q)
      /\ a \in Keys /\ DeleteKeyRow(a)
  BY <1>1 DEF DeleteKey, At, Recorded
<1>3. GoodRequest(q) /\ q.op # "none" /\ OnTheWay(q) /\ Head(q.todo) \in StepsIn(q.op)
  BY <1>1, <1>2, Starts
<1>4. PICK n : Took(r, q, n) /\ (n = Idle \/ Continues(q, n))
  BY <1>1, <1>2, <1>3, GoesTook
<1>5. RowsTyped' BY <1>2, KeyGone DEF LinkInv
<1>6. /\ \A u \in Users : primary'[u] = IF primary[u] = a THEN None ELSE primary[u]
      /\ \A k \in Keys \ {a} : holder'[k] = holder[k]
  BY <1>2 DEF DeleteKeyRow, LinkInv, RowsTyped, PrimaryType, HolderType
<1>7. Within(q) BY <1>1, <1>6 DEF Within
<1>8. InHand(n)'
  <2>1. torn \subseteq torn' BY <1>4 DEF Took
  <2>2. q.op \notin Replacing BY <1>2, <1>3, StepsOfReplacing
  <2>3. Head(q.todo) \notin KeySteps /\ Head(q.todo) \notin {"setHolder", "createKey",
                                                             "setPrimary"}
    BY <1>2 DEF KeySteps
  <2> QED BY <1>3, <1>4, <2>1, <2>2, <2>3, SureOn
<1>9. Linked'
  <2>1. ASSUME NEW u \in Users, NEW k \in Keys PROVE Resolves(u, k)'
    <3>1. CASE primary'[u] # k
      BY <3>1 DEF Resolves
    <3>2. CASE primary'[u] = k
      <4>1. primary[u] = k /\ k # a BY <1>6, <3>2, AllDistinct DEF Distinct
      <4>2. ~InBetween(req[r], u, k) BY <1>1, <1>2 DEF InBetween
      <4> QED BY <1>4, <1>6, <3>2, <4>1, <4>2, PairStays
    <3> QED BY <3>1, <3>2
  <2> QED BY <2>1 DEF Linked
<1> QED BY <1>4, <1>5, <1>7, <1>8, <1>9, LinksKept

LEMMA DeleteUserKeepsLinks ==
  ASSUME DeskInv, LinkInv, NEW r \in Slots, DeleteUser(r)
  PROVE  LinkInv'
<1>1. PICK q : q = req[r] OBVIOUS
<1>2. /\ Live(r) /\ Head(q.todo) = "deleteUser" /\ Goes(r, q)
      /\ req[r].user \in Users /\ DeleteUserRow(req[r].user)
  BY <1>1 DEF DeleteUser, At, Exists
<1>3. GoodRequest(q) BY <1>1, <1>2, Starts
<1>4. PICK n : Took(r, q, n) /\ (n = Idle \/ Continues(q, n))
  BY <1>1, <1>2, <1>3, GoesTook
<1>5. n = Idle
  <2> SUFFICES ASSUME Continues(q, n) PROVE FALSE BY <1>4
  <2>1. Follows("deleteUser", Head(n.todo)) BY <1>2 DEF Continues
  <2> QED BY <2>1 DEF Follows
<1>6. req' = [req EXCEPT ![r] = Idle] /\ torn \subseteq torn' BY <1>4, <1>5 DEF Took
<1> QED BY <1>1, <1>2, <1>6, EndsKeepLinks DEF Half

\* A request that ends in an error.
LEMMA FailsKeepLinks ==
  ASSUME DeskInv, LinkInv, NEW r \in Slots, Live(r), Fails(r), torn \subseteq torn',
         Head(req[r].todo) \in Half => Objects(req[r]) \subseteq torn'
  PROVE  LinkInv'
<1>1. req' = [req EXCEPT ![r] = Idle] BY DEF Fails
<1>2. \/ UNCHANGED rows
      \/ req[r].user \in Users /\ DeleteUserRow(req[r].user)
  BY DEF Fails, Exists
<1> QED BY <1>1, <1>2, EndsKeepLinks

LEMMA CallKeepsLinks ==
  ASSUME DeskInv, LinkInv, NEW r \in Slots, Live(r), Head(req[r].todo) \in Calls,
         Head(req[r].todo) # "createAccessKey",
         Goes(r, req[r]), UNCHANGED <<primary, holder>>, order' \in OrderType
  PROVE  LinkInv'
<1>1. PICK q : q = req[r] OBVIOUS
<1>2. GoodRequest(q) BY <1>1, Starts
<1> QED BY <1>1, <1>2, CallsKeepLinks

LEMMA OrdersStay == LinkInv /\ UNCHANGED rows => order' \in OrderType
BY DEF LinkInv, RowsTyped, rows

LEMMA ChecksKeepLinks ==
  ASSUME DeskInv, LinkInv, NEW r \in Slots, CountKeys(r) \/ CheckFree(r)
  PROVE  LinkInv'
<1>1. PICK passes \in BOOLEAN : Checks(r, passes)
  <2>1. (KeyCount < MaxKeys[about]) \in BOOLEAN
        /\ (holder[req[r].key] \in {None, req[r].user}) \in BOOLEAN
    OBVIOUS
  <2> QED BY <2>1 DEF CountKeys, CheckFree
<1>2. Live(r) /\ Head(req[r].todo) \in {"count", "checkFree"}
  BY DEF CountKeys, CheckFree, At
<1>3. CASE passes
  <2>1. UNCHANGED rows /\ Goes(r, req[r]) BY <1>1, <1>3 DEF Checks
  <2> QED BY <1>2, <2>1, OrdersStay, CallKeepsLinks DEF rows, Calls
<1>4. CASE ~passes
  <2>1. Fails(r) /\ torn' = torn BY <1>1, <1>4 DEF Checks
  <2> QED BY <1>2, <2>1, FailsKeepLinks DEF Half
<1> QED BY <1>3, <1>4

\* The steps that ask something of Outline, and those that write an order.
LEMMA OutlineStepsKeepLinks ==
  ASSUME DeskInv, LinkInv, NEW r \in Slots,
         \/ CreateAccessKey(r) \/ PushPlan(r) \/ DeleteAccessKey(r) \/ ForceDelete(r)
  PROVE  LinkInv'
<1>1. CASE CreateAccessKey(r)
  <2>1. PICK k : k = created.keys + 1 OBVIOUS
  <2>2. PICK q : q = [req[r] EXCEPT !.key = k] OBVIOUS
  <2>3. /\ Live(r) /\ Head(req[r].todo) = "createAccessKey" /\ k \in Keys
        /\ Goes(r, q) /\ UNCHANGED rows
    BY <1>1, <2>1, <2>2 DEF CreateAccessKey, At
  <2>4. /\ GoodRequest(q) /\ q.todo = req[r].todo /\ q.op = req[r].op /\ q.key = k
        /\ q.user = req[r].user /\ q.old = req[r].old
    BY <2>2, <2>3, KeyGiven
  <2> QED BY <2>3, <2>4, OrdersStay, CallsKeepLinks DEF rows, Calls
<1>2. CASE PushPlan(r) \/ DeleteAccessKey(r) \/ ForceDelete(r)
  <2>1. /\ Live(r) /\ Goes(r, req[r]) /\ UNCHANGED rows
        /\ Head(req[r].todo) \in {"reconcile", "applyKeyPlan", "deleteAccessKey"}
    BY <1>2 DEF PushPlan, DeleteAccessKey, ForceDelete, At
  <2> QED BY <2>1, OrdersStay, CallKeepsLinks DEF rows, Calls
<1> QED BY <1>1, <1>2

LEMMA DecisionsTyped ==
  ASSUME DeskInv, LinkInv, NEW r \in Slots, decide(r) \/ deleteOrder(r)
  PROVE  order' \in OrderType
<1>1. PICK q : q = req[r] OBVIOUS
<1>2. Live(r) BY DEF decide, deleteOrder, At
<1>3. GoodRequest(q) /\ q.op # "none" BY <1>1, <1>2, Starts
<1>4. q.user \in Users \cup {None} BY <1>3 DEF GoodRequest
<1>5. order \in OrderType BY DEF LinkInv, RowsTyped
<1>6. CASE decide(r)
  <2>1. PICK d : d = [status |-> IF q.op = "approve" THEN "approved" ELSE "rejected",
                      user |-> q.user]
    OBVIOUS
  <2>2. d \in [status : {"none", "pending", "approved", "rejected", "removed"},
               user : Users \cup {None}]
    BY <1>4, <2>1
  <2>3. order' = [order EXCEPT ![q.order] = d] BY <1>1, <1>6, <2>1 DEF decide
  <2> QED BY <1>5, <2>2, <2>3 DEF OrderType
<1>7. CASE deleteOrder(r)
  BY <1>1, <1>5, <1>7 DEF deleteOrder, OrderType
<1> QED BY <1>6, <1>7

LEMMA DecisionsKeepLinks ==
  ASSUME DeskInv, LinkInv, NEW r \in Slots, decide(r) \/ deleteOrder(r)
  PROVE  LinkInv'
<1>1. /\ Live(r) /\ Goes(r, req[r]) /\ UNCHANGED <<primary, holder>>
      /\ Head(req[r].todo) \in {"decide", "deleteOrder"}
  BY DEF decide, deleteOrder, At
<1> QED BY <1>1, DecisionsTyped, CallKeepsLinks DEF Calls

LEMMA TroublesKeepLinks ==
  ASSUME DeskInv, LinkInv, NEW r \in Slots,
         \/ KeyNotRecorded(r) \/ Refuse(r) \/ Fail(r) \/ FailToDiscard(r)
         \/ DeleteAccessKeyUnanswered(r)
         \/ \E stays \in BOOLEAN : CreateAccessKeyFails(r, stays)
  PROVE  LinkInv'
<1>0. Live(r)
  BY DEF KeyNotRecorded, Refuse, Fail, FailToDiscard, CreateAccessKeyFails,
         DeleteAccessKeyUnanswered, At
<1>1. Head(req[r].todo) = req[r].todo[1] BY <1>0, Starts
<1>2. Head(req[r].todo) \in {"clearPrimary", "clearPrimaryOfFree"} =>
        LeftTorn(r) = Objects(req[r])
  BY <1>0 DEF LeftTorn, At
<1>3. CASE KeyNotRecorded(r) \/ \E stays \in BOOLEAN : CreateAccessKeyFails(r, stays)
  <2>1. /\ Fails(r) /\ torn' = torn
        /\ Head(req[r].todo) \in {"createKey", "createAccessKey"}
    BY <1>3 DEF KeyNotRecorded, CreateAccessKeyFails, At
  <2> QED BY <1>0, <2>1, FailsKeepLinks DEF Half
<1>4. CASE Refuse(r)
  <2>1. Fails(r) /\ torn' = torn \cup LeftTorn(r) /\ Refused(r) BY <1>4 DEF Refuse
  <2>2. Head(req[r].todo) # "releaseClear" BY <1>1, <2>1 DEF Refused
  <2> QED BY <1>0, <1>2, <2>1, <2>2, FailsKeepLinks DEF Half
<1>5. CASE Fail(r)
  <2>1. CASE Head(req[r].todo) \in {"release", "releaseClear"}
    <3>1. /\ UNCHANGED rows /\ req' = [req EXCEPT ![r] = Idle]
          /\ torn' = torn \cup (IF At(r, "releaseClear") THEN Objects(req[r]) ELSE {})
      BY <1>1, <1>5, <2>1 DEF Fail
    <3> QED BY <1>0, <2>1, <3>1, EndsKeepLinks DEF Half, At
  <2>2. CASE Head(req[r].todo) \notin {"release", "releaseClear"}
    <3>1. Fails(r) /\ torn' = torn \cup LeftTorn(r) BY <1>1, <1>5, <2>2 DEF Fail
    <3> QED BY <1>0, <1>2, <2>2, <3>1, FailsKeepLinks DEF Half
  <2> QED BY <2>1, <2>2
<1>6. CASE FailToDiscard(r)
  <2>1. /\ UNCHANGED rows /\ req' = [req EXCEPT ![r] = Idle]
        /\ torn' = torn \cup Objects(req[r])
    BY <1>6 DEF FailToDiscard
  <2> QED BY <2>1, EndsKeepLinks
<1>7. CASE DeleteAccessKeyUnanswered(r)
  <2>1. /\ Fails(r) /\ torn \subseteq torn'
        /\ Head(req[r].todo) = "deleteAccessKey"
    BY <1>7 DEF DeleteAccessKeyUnanswered, At
  <2> QED BY <1>0, <2>1, FailsKeepLinks DEF Half
<1> QED BY <1>3, <1>4, <1>5, <1>6, <1>7

\* A request arrives, and has read what it goes on.
LEMMA ArrivalKeepsLinks ==
  ASSUME DeskInv, LinkInv, NEW r \in Slots, NEW q, Arrives(r, q), UNCHANGED rows,
         Head(q.todo) \in KeySteps =>
           q.key \in Keys /\ q.user \in Users /\ holder[q.key] = q.user,
         q.op \in Replacing /\ q.old # None =>
           /\ q.user \in Users /\ q.old \in Keys
           /\ Head(q.todo) \notin Releasing /\ primary[q.user] = q.old
  PROVE  LinkInv'
<1>1. Took(r, q, q) BY ArrivesTook
<1>2. torn \subseteq torn' BY <1>1 DEF Took
<1>3. ~Live(r) BY DEF Arrives, Accepts
<1>4. RowsTyped' BY RowsStay DEF LinkInv
<1>5. Within(q) BY DEF Within, rows
<1>6. InHand(q)'
  <2>1. Held(q)' BY DEF Held, rows
  <2>2. OnTheWay(q)'
    <3> SUFFICES ASSUME q.op \in Replacing, q.old # None,
                        {<<"user", q.user>>, <<"key", q.old>>} \cap torn' = {}
                 PROVE  holder[q.old] = q.user
      BY DEF OnTheWay, rows
    <3>1. q.user \in Users /\ q.old \in Keys /\ primary[q.user] = q.old OBVIOUS
    <3>2. {<<"user", q.user>>, <<"key", q.old>>} \cap torn = {} BY <1>2
    <3>3. ~\E s \in Slots : InBetween(req[s], q.user, q.old)
      <4>1. ~InBetween(req[r], q.user, q.old) BY <1>3 DEF InBetween, Live
      <4>2. ASSUME NEW s \in Slots \ {r} PROVE ~InBetween(req[s], q.user, q.old)
        <5>1. <<"key", q.old>> \notin torn' OBVIOUS
        <5> QED BY <1>1, <3>1, <5>1, OnlyMine
      <4> QED BY <4>1, <4>2
    <3> QED BY <3>1, <3>2, <3>3 DEF LinkInv, Linked, Resolves
  <2> QED BY <2>1, <2>2 DEF InHand
<1>7. Linked'
  <2>1. ASSUME NEW u \in Users, NEW k \in Keys PROVE Resolves(u, k)'
    <3>1. ~InBetween(req[r], u, k) BY <1>3 DEF InBetween, Live
    <3>2. primary'[u] = primary[u] /\ holder'[k] = holder[k] BY DEF rows
    <3> QED BY <1>1, <3>1, <3>2, PairStays
  <2> QED BY <2>1 DEF Linked
<1> QED BY <1>1, <1>4, <1>5, <1>6, <1>7, LinksKept

LEMMA ConfirmKeepsLinks ==
  ASSUME DeskInv, LinkInv, NEW r \in Slots, Confirm(r)
  PROVE  LinkInv'
<1>1. PICK q : /\ Arrives(r, q)
               /\ q = [op |-> q.op, todo |-> StepsOf(q.op), order |-> q.order,
                       user |-> q.user, key |-> q.key, old |-> q.old]
               /\ q.op \in OrderOps /\ q.order \in Orders
               /\ q.user = None /\ q.key = None /\ q.old = None
  BY Confirmed
<1>2. Head(q.todo) = FirstOf(q.op)
  <2>1. q.op \in OrderOps \cup UserOps /\ q.op \notin UserOps
    BY <1>1 DEF OrderOps, UserOps
  <2>2. Absent \notin {q.key, q.old} BY <1>1, DeskAssumption
  <2> QED BY <1>1, <2>1, <2>2, Arriving
<1>3. Head(q.todo) \notin KeySteps BY <1>1, <1>2 DEF FirstOf, OrderOps, KeySteps
<1>4. UNCHANGED rows BY DEF Confirm
<1> QED BY <1>1, <1>3, <1>4, ArrivalKeepsLinks

LEMMA SendKeepsLinks ==
  ASSUME DeskInv, LinkInv, NEW r \in Slots, NEW op \in UserOps,
         NEW u \in Users \cup {None}, NEW k, NEW old,
         Absent \notin {k, old}, Send(r, op, u, k, old),
         op = "promote" => k \in Keys /\ u \in Users /\ holder[k] = u,
         op \in Replacing => u \in Users /\ primary[u] # Absent /\ old = primary[u]
  PROVE  LinkInv'
<1>1. PICK s : s = StepsOf(op) OBVIOUS
<1>2. PICK q : q = [op |-> op, todo |-> s, order |-> None, user |-> u,
                    key |-> k, old |-> old]
  OBVIOUS
<1>3. /\ q.op = op /\ q.todo = s /\ q.order = None /\ q.user = u /\ q.key = k
      /\ q.old = old
  BY <1>2, Fields
<1>4. Arrives(r, q) /\ UNCHANGED rows BY <1>1, <1>2 DEF Send
<1>5. Head(q.todo) = FirstOf(op)
  <2>1. op \in OrderOps \cup UserOps /\ op \notin OrderOps BY DEF OrderOps, UserOps
  <2> QED BY <1>1, <1>2, <1>3, <1>4, <2>1, Arriving
<1>6. FirstOf(op) \in KeySteps => op = "promote"
  BY DEF FirstOf, UserOps, KeySteps
<1>7. op \in Replacing => FirstOf(op) \notin Releasing
  BY DEF FirstOf, Replacing, Releasing
<1>8. op \in Replacing /\ old # None => old \in Keys
  BY DEF LinkInv, RowsTyped, PrimaryType
<1> QED BY <1>3, <1>4, <1>5, <1>6, <1>7, <1>8, ArrivalKeepsLinks

LEMMA SendsKeepLinks ==
  ASSUME DeskInv, LinkInv, NEW r \in Slots,
         Creates(r) \/ Replaces(r) \/ Relinks(r) \/ Provides(r) \/ Removes(r)
  PROVE  LinkInv'
<1>1. /\ "createUser" \in UserOps /\ "createUserByClaim" \in UserOps
      /\ "createUserAlone" \in UserOps /\ "newKey" \in UserOps
      /\ "replaceByFree" \in UserOps /\ "replaceByNew" \in UserOps
      /\ "link" \in UserOps /\ "unlink" \in UserOps /\ "promote" \in UserOps
      /\ "addKey" \in UserOps /\ "resetUsage" \in UserOps
      /\ "deleteKey" \in UserOps /\ "deleteUser" \in UserOps
  BY DEF UserOps
<1>2. Absent # None /\ Absent \notin Keys BY DeskAssumption
<1>3. ASSUME NEW op \in UserOps \ ({"promote"} \cup Replacing),
             NEW u \in Users \cup {None}, NEW k \in Keys \cup {None},
             NEW old \in Keys \cup {None}, Send(r, op, u, k, old)
      PROVE  LinkInv'
  BY <1>2, <1>3, SendKeepsLinks
<1>4. Creates(r) => LinkInv' BY <1>1, <1>3 DEF Creates, Replacing
<1>5. Replaces(r) => LinkInv'
  <2> SUFFICES ASSUME NEW u \in Users, Exists(u), NEW op \in Replacing,
                      NEW k \in Keys \cup {None}, Send(r, op, u, k, primary[u])
               PROVE  LinkInv'
    BY DEF Replaces, Replacing
  <2>1. op \in UserOps /\ op # "promote" BY <1>1 DEF Replacing
  <2>2. Absent \notin {k, primary[u]} BY <1>2 DEF Exists
  <2> QED BY <2>1, <2>2, SendKeepsLinks DEF Exists
<1>6. Relinks(r) => LinkInv'
  <2> SUFFICES ASSUME NEW u \in Users, NEW k \in Keys,
                      NEW op \in {"link", "unlink", "promote"}, Send(r, op, u, k, None),
                      op = "promote" => holder[k] = u
               PROVE  LinkInv'
    BY DEF Relinks
  <2>1. op \in UserOps /\ op \notin Replacing BY <1>1 DEF Replacing
  <2> QED BY <1>2, <2>1, SendKeepsLinks
<1>7. Provides(r) => LinkInv' BY <1>1, <1>3 DEF Provides, Replacing, Recorded
<1>8. Removes(r) => LinkInv' BY <1>1, <1>3 DEF Removes, Replacing
<1> QED BY <1>4, <1>5, <1>6, <1>7, <1>8

LEMMA PageKeepsLinks == DeskInv /\ LinkInv /\ Page => LinkInv'
<1> SUFFICES ASSUME DeskInv, LinkInv, Page PROVE LinkInv' OBVIOUS
<1>1. ASSUME NEW o \in Orders, createOrder(o) PROVE LinkInv'
  <2>1. order' \in OrderType
    BY <1>1 DEF createOrder, LinkInv, RowsTyped, OrderType
  <2> QED BY <1>1, <2>1, Still DEF createOrder
<1>2. Refetch => LinkInv' BY OrdersStay, Still DEF Refetch, rows
<1>3. ASSUME NEW what, NEW o, OpenDialog(what, o) PROVE LinkInv'
  BY <1>3, OrdersStay, Still DEF OpenDialog, rows
<1>4. CloseDialog => LinkInv' BY OrdersStay, Still DEF CloseDialog, rows
<1> QED BY <1>1, <1>2, <1>3, <1>4, ConfirmKeepsLinks DEF Page

LEMMA CrashKeepsLinks == DeskInv /\ LinkInv /\ Crash => LinkInv'
<1> SUFFICES ASSUME DeskInv, LinkInv, Crash PROVE LinkInv' OBVIOUS
<1>1. /\ req' = [r \in Slots |-> Idle] /\ UNCHANGED rows
      /\ \A r \in Slots : Objects(req[r]) \subseteq torn'
      /\ torn \subseteq torn'
  BY DEF Crash
<1>2. RowsTyped' BY <1>1, RowsStay DEF LinkInv
<1>3. NoSharing' BY <1>1, IdleWorksOnNothing DEF NoSharing, Meets, Objects
<1>4. \A r \in Slots : InHand(req[r])'
  <2>1. ASSUME NEW r \in Slots PROVE InHand(req[r])'
    <3>1. req'[r] = Idle BY <1>1
    <3> QED BY <3>1, NothingInHand DEF InHand, Held, OnTheWay
  <2> QED BY <2>1
<1>5. Linked'
  <2>1. ASSUME NEW u \in Users, NEW k \in Keys, primary[u] = k,
               {<<"user", u>>, <<"key", k>>} \cap torn' = {}
        PROVE  holder[k] = u
    <3>1. {<<"user", u>>, <<"key", k>>} \cap torn = {} BY <1>1, <2>1
    <3>2. ASSUME NEW r \in Slots, InBetween(req[r], u, k) PROVE FALSE
      <4>1. k \in {req[r].key, req[r].old} /\ k # None
        BY <3>2, AllDistinct DEF InBetween, Distinct
      <4> QED BY <1>1, <2>1, <4>1, WorksOn
    <3> QED BY <2>1, <3>1, <3>2 DEF LinkInv, Linked, Resolves
  <2> QED BY <1>1, <2>1 DEF Linked, Resolves, rows
<1> QED BY <1>2, <1>3, <1>4, <1>5 DEF LinkInv

LEMMA SyncKeepsLinks ==
  ASSUME DeskInv, LinkInv, ListAccessKeys \/ \E k \in Keys : UpsertKeyFromOutline(k)
  PROVE  LinkInv'
<1>1. CASE ListAccessKeys
  BY <1>1, OrdersStay, Still DEF ListAccessKeys, rows
<1>2. ASSUME NEW k \in Keys, UpsertKeyFromOutline(k) PROVE LinkInv'
  <2>1. /\ UNCHANGED <<order, primary, req, torn>>
        /\ holder' = [holder EXCEPT ![k] = IF holder[k] = Absent THEN None ELSE holder[k]]
    BY <1>2 DEF UpsertKeyFromOutline
  <2>2. \A j \in Keys : \/ holder'[j] = holder[j]
                        \/ holder[j] = Absent /\ holder'[j] = None
    BY <2>1 DEF LinkInv, RowsTyped, HolderType
  <2>3. RowsTyped'
    <3>1. PICK v : v = IF holder[k] = Absent THEN None ELSE holder[k] OBVIOUS
    <3>2. v \in Users \cup {None} /\ (v \in Users => primary[v] # Absent)
      BY <3>1, AllDistinct DEF LinkInv, RowsTyped, HolderType, Distinct
    <3> QED BY <2>1, <3>1, <3>2, HolderWritten DEF LinkInv
  <2>4. NoSharing' BY <2>1 DEF LinkInv, NoSharing, Meets, Objects
  <2>5. \A r \in Slots : InHand(req[r])'
    <3>1. ASSUME NEW r \in Slots PROVE InHand(req[r])'
      <4>1. PICK q : q = req[r] OBVIOUS
      <4>2. Held(q) /\ OnTheWay(q) BY <4>1 DEF LinkInv, InHand
      <4>3. Held(q)' BY <2>1, <2>2, <4>2, AllDistinct DEF Held, Distinct
      <4>4. OnTheWay(q)' BY <2>1, <2>2, <4>2, AllDistinct DEF OnTheWay, Distinct
      <4>5. req'[r] = q BY <2>1, <4>1
      <4> QED BY <4>3, <4>4, <4>5 DEF InHand, Held, OnTheWay
    <3> QED BY <3>1
  <2>6. Linked'
    <3>1. ASSUME NEW u \in Users, NEW j \in Keys PROVE Resolves(u, j)'
      <4>1. CASE primary[u] # j
        BY <2>1, <4>1 DEF Resolves
      <4>2. CASE primary[u] = j
        <5>1. holder[j] # Absent BY <4>2 DEF LinkInv, RowsTyped
        <5>2. holder'[j] = holder[j] BY <2>2, <5>1
        <5> QED BY <2>1, <5>2 DEF LinkInv, Linked, Resolves, InBetween
      <4> QED BY <4>1, <4>2
    <3> QED BY <3>1 DEF Linked
  <2> QED BY <2>3, <2>4, <2>5, <2>6 DEF LinkInv
<1> QED BY <1>1, <1>2

LEMMA InitiallyLinked == Init => LinkInv
<1> SUFFICES ASSUME Init PROVE LinkInv OBVIOUS
<1>1. req = [r \in Slots |-> Idle] BY DEF Init
<1>2. {1, 2} \subseteq Users /\ {1, 2, 3} \subseteq Keys
  BY DeskAssumption DEF Users, Keys
<1>3. order \in OrderType BY DEF Init, OrderType
<1>4. holder \in HolderType BY InitiallyInv DEF DeskInv
<1>5. /\ primary \in PrimaryType
      /\ \A u \in Users : primary[u] \in Keys => holder[primary[u]] = u
      /\ \A k \in Keys : holder[k] \in Users => primary[holder[k]] = k
  <2>1. CASE about = "orders"
    BY <2>1, AllDistinct DEF Init, PrimaryType, Distinct
  <2>2. CASE about = "users"
    <3>1. /\ primary = [u \in Users |-> IF u < 3 THEN u ELSE Absent]
          /\ holder = [k \in Keys |-> CASE k < 3 -> k [] k = 3 -> None [] OTHER -> Absent]
      BY <2>2 DEF Init
    <3>2. \A u \in Users : u < 3 <=> u \in {1, 2} BY DEF Users
    <3>3. \A k \in Keys : k < 3 <=> k \in {1, 2} BY DEF Keys
    <3>4. \A u \in Users : primary[u] = IF u \in {1, 2} THEN u ELSE Absent
      BY <3>1, <3>2
    <3>5. ASSUME NEW k \in Keys
          PROVE  IF k \in {1, 2} THEN holder[k] = k ELSE holder[k] \in {None, Absent}
      <4>1. holder[k] = CASE k < 3 -> k [] k = 3 -> None [] OTHER -> Absent BY <3>1
      <4>2. CASE k \in {1, 2}
        <5>1. k < 3 /\ k # 3 BY <4>2
        <5> QED BY <4>1, <4>2, <5>1
      <4>3. CASE k \notin {1, 2}
        <5>1. ~(k < 3) BY <3>3, <4>3
        <5> QED BY <4>1, <4>3, <5>1
      <4> QED BY <4>2, <4>3
    <3>6. primary \in PrimaryType BY <1>2, <3>1, <3>2 DEF PrimaryType
    <3>7. \A u \in Users : primary[u] \in Keys => holder[primary[u]] = u
      BY <3>4, <3>5, AllDistinct DEF Distinct
    <3>8. \A k \in Keys : holder[k] \in Users => primary[holder[k]] = k
      BY <3>4, <3>5, AllDistinct DEF Distinct
    <3> QED BY <3>6, <3>7, <3>8
  <2> QED BY <2>1, <2>2 DEF Init
<1>6. RowsTyped BY <1>3, <1>4, <1>5, AllDistinct DEF RowsTyped, Distinct
<1>7. NoSharing BY <1>1, IdleWorksOnNothing DEF NoSharing, Meets
<1>8. \A r \in Slots : InHand(req[r])
  BY <1>1 DEF InHand, Held, OnTheWay, Idle, Replacing
<1>9. Linked BY <1>5 DEF Linked, Resolves
<1> QED BY <1>6, <1>7, <1>8, <1>9 DEF LinkInv

LEMMA NextKeepsLinks == DeskInv /\ LinkInv /\ [Next]_vars => LinkInv'
<1> SUFFICES ASSUME DeskInv, LinkInv, [Next]_vars PROVE LinkInv' OBVIOUS
<1>1. CASE Page BY <1>1, PageKeepsLinks
<1>2. ASSUME NEW r \in Slots, Handler(r) PROVE LinkInv'
  BY <1>2, CreateUserKeepsLinks, DeleteUserKeepsLinks, ChecksKeepLinks,
     OutlineStepsKeepLinks, CreateKeyKeepsLinks, TroublesKeepLinks, SetHolderKeepsLinks,
     ClearPrimaryKeepsLinks, PrimaryKeepsLinks, FreeKeepsLinks, ClearFreeKeepsLinks,
     DeleteKeyKeepsLinks, DecisionsKeepLinks
  DEF Handler
<1>3. ASSUME NEW r \in Slots, \/ \E stays \in BOOLEAN : CreateAccessKeyFails(r, stays)
                              \/ Fail(r) \/ FailToDiscard(r)
      PROVE  LinkInv'
  BY <1>3, TroublesKeepLinks
<1>4. ASSUME NEW r \in Slots, GiveUp(r) PROVE LinkInv'
  BY <1>4, OrdersStay, Still DEF GiveUp, rows
<1>5. ASSUME NEW r \in Slots,
             Creates(r) \/ Replaces(r) \/ Relinks(r) \/ Provides(r) \/ Removes(r)
      PROVE  LinkInv'
  BY <1>5, SendsKeepLinks
<1>6. CASE Crash BY <1>6, CrashKeepsLinks
<1>7. CASE ListAccessKeys \/ \E k \in Keys : UpsertKeyFromOutline(k)
  BY <1>7, SyncKeepsLinks
<1>8. CASE UNCHANGED vars BY <1>8, OrdersStay, Still DEF vars, rows
<1> QED BY <1>1, <1>2, <1>3, <1>4, <1>5, <1>6, <1>7, <1>8 DEF Next

LEMMA AlwaysLinked == Spec => [](DeskInv /\ LinkInv)
BY InitiallyInv, NextKeepsInv, InitiallyLinked, NextKeepsLinks, PTL DEF Spec

(* A link resolves to a key of the user's own as soon as no request works  *)
(* on either of them, as long as no two requests worked on one of them at  *)
(* the same time and none broke off between its statements: every step     *)
(* that takes a key from its holder is followed, in the same request, by   *)
(* the one that clears it as their primary.                                *)
THEOREM LinksAreOwn == Spec => []LinkResolvesToOwnKey
<1>1. LinkInv => LinkResolvesToOwnKey
  <2> SUFFICES ASSUME LinkInv, NEW u \in Users, NEW k \in Keys, primary[u] = k,
                      Untorn({<<"user", u>>, <<"key", k>>}),
                      AtRest({<<"user", u>>, <<"key", k>>})
               PROVE  holder[k] = u
    BY DEF LinkResolvesToOwnKey
  <2>1. ASSUME NEW r \in Slots, InBetween(req[r], u, k) PROVE FALSE
    <3>1. k \in {req[r].key, req[r].old} /\ k # None
      BY <2>1, AllDistinct DEF InBetween, Distinct
    <3>2. <<"key", k>> \in Objects(req[r]) BY <3>1, WorksOn
    <3> QED BY <3>2 DEF AtRest
  <2> QED BY <2>1 DEF LinkInv, Linked, Resolves, Untorn
<1> QED BY AlwaysLinked, <1>1, PTL

(* A user who is moved to another key is on the old one, still theirs, or  *)
(* on the new one, already theirs, at every moment until the request ends. *)
THEOREM MovesKeepConnection == Spec => []KeepsConnection
<1>1. LinkInv => KeepsConnection
  <2> SUFFICES ASSUME LinkInv, NEW r \in Slots, NEW q, q = req[r],
                      q.op \in Replacing, q.old # None, Untorn(Objects(q))
               PROVE  /\ primary[q.user] \in {q.old, q.key}
                      /\ holder[primary[q.user]] = q.user
    BY DEF KeepsConnection, replaceUserKey, Replacing
  <2>1. Held(q) /\ OnTheWay(q) /\ q.op \notin {"none", "newKey"}
    BY DEF LinkInv, InHand, Replacing
  <2>2. q.user \in Users /\ q.old \in Keys BY <2>1 DEF OnTheWay
  <2>3. {<<"user", q.user>>, <<"key", q.old>>} \cap torn = {}
    BY <2>2, WorksOn, AllDistinct DEF Untorn, Distinct
  <2>4. CASE Head(q.todo) \in Releasing
    <3>1. primary[q.user] = q.key BY <2>1, <2>3, <2>4 DEF OnTheWay
    <3>2. q.key \in Keys BY <2>1, <2>4 DEF Held, Releasing, KeySteps
    <3>3. <<"key", q.key>> \notin torn
      BY <3>2, WorksOn, AllDistinct DEF Untorn, Distinct
    <3> QED BY <2>1, <2>4, <3>1, <3>3 DEF Held, Releasing, KeySteps
  <2>5. CASE Head(q.todo) \notin Releasing
    BY <2>1, <2>3, <2>5 DEF OnTheWay
  <2> QED BY <2>4, <2>5
<1> QED BY AlwaysLinked, <1>1, PTL

-----------------------------------------------------------------------------
(* The order book.                                                         *)

Undecided == {"none", "pending"}
Decided == {"approved", "rejected"}

\* A request on an order: the user it made is the order's, and the order is
\* still as the request has found it.
OnOrder(q) ==
  /\ q.op = "approve" /\ q.user # None =>
       /\ q.user \in Users /\ q.user <= created.users
       /\ madeFor[q.user] = q.order
  /\ q.op = "approve" /\ Head(q.todo) = "createUser" => q.user = None
  /\ q.op \in OrderOps /\ q.order \notin torn =>
       IF q.op = "remove" THEN order[q.order].status \in Decided
       ELSE order[q.order].status = "pending"

\* The user that was set up for an order is the one its row names.
Matched(o) ==
  /\ Settled(o) = {order[o].user} \ {None}
  /\ order[o].status \in Undecided => order[o].user = None

BookInv ==
  /\ madeFor = [u \in Users |-> madeFor[u]]
  /\ created = [users |-> created.users, keys |-> created.keys] /\ created.users \in Nat
  /\ \A u \in Users : Exists(u) => u <= created.users
  /\ \A r \in Slots : OnOrder(req[r])
  /\ \A o \in Orders : o \notin torn => Matched(o)
  /\ tab.awaits \subseteq {r \in Slots : req[r].op \in OrderOps}
  /\ \A o \in Orders : tab.shown[o] \in Decided => order[o].status \notin Undecided
  /\ tab.dialog.what = "remove" => order[tab.dialog.order].status \notin Undecided

\* Nothing goes back to the queue.
NothingReopened ==
  \A o \in Orders : /\ order'[o].status \in Undecided => order[o].status \in Undecided
                    /\ order[o].status = "removed" => order'[o].status = "removed"

\* What the page shows comes from the orders, and what it asks from what it shows.
PageMoves ==
  /\ tab'.awaits \subseteq tab.awaits \cup {s \in Slots : req'[s].op \in OrderOps}
  /\ \A o \in Orders : tab'.shown[o] \in {tab.shown[o], order'[o].status}
  /\ \/ tab'.dialog \in {tab.dialog, NoDialog}
     \/ /\ tab'.dialog.order \in Orders
        /\ tab'.dialog.what = "remove" => tab.shown[tab'.dialog.order] \in Decided

\* What becomes of the request in slot s: it goes on, it ends, or it has just
\* arrived.
GoesOnIn(s) ==
  /\ req'[s].op = req[s].op /\ req'[s].user = req[s].user /\ req'[s].order = req[s].order
  /\ Head(req'[s].todo) = "createUser" => Head(req[s].todo) = "createUser"
EndsIn(s) ==
  /\ req'[s] = Idle /\ s \notin tab'.awaits
  /\ req[s].op = "approve" /\ req[s].user # None =>
       req[s].order \in torn' \/ primary'[req[s].user] = Absent
ArrivesIn(s) ==
  /\ req[s].op = "none"
  /\ req'[s].op = "approve" => req'[s].user = None
  /\ req'[s].op \in OrderOps =>
       /\ req'[s].order \in Orders
       /\ IF req'[s].op = "remove" THEN order[req'[s].order].status \in Decided
          ELSE order[req'[s].order].status = "pending"

\* A step that neither decides an order nor makes a user; it may remove those
\* in D.
Leaves(D) ==
  /\ \A u \in Users : Exists(u)' <=> Exists(u) /\ u \notin D
  /\ \A o \in Orders :
       /\ order'[o].status = order[o].status
       /\ order'[o].user = IF order[o].user \in D THEN None ELSE order[o].user

Quiet ==
  /\ madeFor' = madeFor
  /\ created' = [users |-> created.users, keys |-> created'.keys]
  /\ torn \subseteq torn'
  /\ \E D \in SUBSET Users : Leaves(D)
  /\ \A s \in Slots : GoesOnIn(s) \/ EndsIn(s) \/ ArrivesIn(s)
  /\ PageMoves

\* The page stays right about what is decided.
PageRight ==
  /\ tab.awaits \subseteq {r \in Slots : req[r].op \in OrderOps}
  /\ \A o \in Orders : tab.shown[o] \in Decided => order[o].status \notin Undecided
  /\ tab.dialog.what = "remove" => order[tab.dialog.order].status \notin Undecided

LEMMA PageStaysRight ==
  ASSUME DeskInv, BookInv, PageMoves, NothingReopened,
         \A s \in tab.awaits \cap tab'.awaits : req'[s].op \in OrderOps
  PROVE  PageRight'
<1>1. tab'.awaits \subseteq {r \in Slots : req'[r].op \in OrderOps}
  BY DEF PageMoves, BookInv
<1>2. \A o \in Orders : tab'.shown[o] \in Decided => order'[o].status \notin Undecided
  BY DEF PageMoves, BookInv, NothingReopened, Decided, Undecided
<1>3. tab'.dialog.what = "remove" => order'[tab'.dialog.order].status \notin Undecided
  <2>1. NoDialog.what # "remove" BY DEF NoDialog
  <2>2. tab.dialog.what = "remove" => tab.dialog.order \in Orders
    BY <2>1 DEF DeskInv, GoodTab
  <2> QED BY <2>1, <2>2 DEF PageMoves, BookInv, NothingReopened, Decided, Undecided
<1> QED BY <1>1, <1>2, <1>3 DEF PageRight

\* What the book promises of an order that is not disputed keeps it matched.
LEMMA PromiseKeepsMatch ==
  ASSUME NEW o \in Orders, Matched(o), order[o].user \in Users \cup {None},
         Book!Promised(o)
  PROVE  Matched(o)'
<1>1. None \notin Users BY AllDistinct DEF Distinct
<1>2. CASE order'[o].status = order[o].status /\ Book!KeepsServed(o)
  BY <1>2 DEF Book!KeepsServed, Matched
<1>3. CASE Book!Place(o) \/ Book!Reject(o) \/ Book!Remove(o)
  BY <1>3
  DEF Book!Place, Book!Reject, Book!Remove, Book!Becomes, Book!KeepsServed, Matched,
      Undecided
<1>4. CASE Book!Approve(o)
  BY <1>1, <1>4 DEF Book!Approve, Book!Becomes, Matched, Undecided
<1>5. CASE Book!Leave(o)
  BY <1>1, <1>5 DEF Book!Leave, Matched, Undecided
<1> QED BY <1>2, <1>3, <1>4, <1>5 DEF Book!Promised

\* What is to be shown of each step.
LEMMA BookKept ==
  ASSUME DeskInv, LinkInv, BookInv, torn \subseteq torn', NothingReopened, PageMoves,
         \A s \in tab.awaits \cap tab'.awaits : req'[s].op \in OrderOps,
         \A o \in Orders : o \notin torn' => Book!Promised(o),
         madeFor' = [u \in Users |-> madeFor'[u]],
         created' = [users |-> created'.users, keys |-> created'.keys],
         created'.users \in Nat,
         \A u \in Users : Exists(u)' => u <= created'.users,
         \A s \in Slots : OnOrder(req[s])'
  PROVE  Book!Next /\ BookInv'
<1>1. Book!Next
  <2>1. Orders \cap torn \subseteq Orders \cap torn' OBVIOUS
  <2>2. ASSUME NEW o \in Orders PROVE Book!StaysDecided(o)
    BY DEF NothingReopened, Undecided, Book!StaysDecided
  <2> QED BY <2>1, <2>2 DEF Book!Next
<1>2. ASSUME NEW o \in Orders, o \notin torn' PROVE Matched(o)'
  <2>1. Matched(o) BY <1>2 DEF BookInv
  <2>2. order[o].user \in Users \cup {None} BY DEF LinkInv, RowsTyped, OrderType
  <2> QED BY <1>2, <2>1, <2>2, PromiseKeepsMatch
<1>3. \A o \in Orders : o \notin torn' => Matched(o)'
  BY <1>2
<1>4. PageRight' BY PageStaysRight
<1> QED BY <1>1, <1>3, <1>4 DEF BookInv, PageRight

\* Whose user somebody approving an order still works on.
Busy(rq, u) == \E s \in Slots : rq[s].op = "approve" /\ rq[s].user = u

LEMMA SettledAre ==
  ASSUME NEW o
  PROVE  Settled(o) = {u \in Users : Exists(u) /\ madeFor[u] = o /\ ~Busy(req, u)}
BY DEF Settled, Busy

LEMMA SettledThen ==
  ASSUME NEW o
  PROVE  Settled(o)' = {u \in Users : Exists(u)' /\ madeFor'[u] = o /\ ~Busy(req', u)}
BY DEF Settled, Busy, Exists

LEMMA QuietKeepsSettled ==
  ASSUME DeskInv, BookInv, Quiet, NEW D, Leaves(D), NEW o \in Orders, o \notin torn'
  PROVE  Settled(o)' = Settled(o) \ D
<1>1. ASSUME NEW u \in Users, Exists(u)', madeFor[u] = o
      PROVE  Busy(req', u) <=> Busy(req, u)
  <2>0. u # None BY AllDistinct DEF Distinct
  <2>1. ASSUME NEW s \in Slots, req'[s].op = "approve", req'[s].user = u
        PROVE  req[s].op = "approve" /\ req[s].user = u
    <3>1. ~EndsIn(s) BY <2>1 DEF EndsIn, Idle
    <3>2. ~ArrivesIn(s) BY <2>0, <2>1 DEF ArrivesIn
    <3> QED BY <2>1, <3>1, <3>2 DEF Quiet, GoesOnIn
  <2>2. ASSUME NEW s \in Slots, req[s].op = "approve", req[s].user = u
        PROVE  req'[s].op = "approve" /\ req'[s].user = u
    <3>1. req[s].order = o BY <1>1, <2>0, <2>2 DEF BookInv, OnOrder
    <3>2. ~EndsIn(s) BY <1>1, <2>0, <2>2, <3>1 DEF EndsIn, Exists
    <3>3. ~ArrivesIn(s) BY <2>2 DEF ArrivesIn
    <3> QED BY <2>2, <3>2, <3>3 DEF Quiet, GoesOnIn
  <2> QED BY <2>1, <2>2 DEF Busy
<1>2. madeFor' = madeFor BY DEF Quiet
<1>3. \A u \in Users : Exists(u)' <=> Exists(u) /\ u \notin D BY DEF Leaves
<1> QED BY <1>1, <1>2, <1>3, SettledAre, SettledThen

LEMMA QuietKeepsBook ==
  ASSUME DeskInv, LinkInv, BookInv, Quiet
  PROVE  Book!Next /\ BookInv'
<1>1. PICK D \in SUBSET Users : Leaves(D) BY DEF Quiet
<1>2. NothingReopened BY <1>1 DEF Leaves, NothingReopened
<1>3. ASSUME NEW o \in Orders, o \notin torn' PROVE Book!Promised(o)
  <2>1. Settled(o)' = Settled(o) \ D BY <1>1, <1>3, QuietKeepsSettled
  <2>2. o \notin torn BY <1>3 DEF Quiet
  <2>3. Settled(o) = {order[o].user} \ {None} BY <2>2 DEF BookInv, Matched
  <2>4. /\ order'[o].status = order[o].status
        /\ order'[o].user = IF order[o].user \in D THEN None ELSE order[o].user
    BY <1>1 DEF Leaves
  <2>5. CASE order[o].user \in D
    <3>1. order[o].user # None BY <2>5, AllDistinct DEF Distinct
    <3>2. Settled(o) # {} /\ Settled(o)' = {} BY <2>1, <2>3, <2>5, <3>1
    <3>3. Book!Leave(o) BY <2>4, <2>5, <3>2 DEF Book!Leave
    <3> QED BY <3>3 DEF Book!Promised
  <2>6. CASE order[o].user \notin D
    <3>1. Settled(o)' = Settled(o) BY <2>1, <2>3, <2>6
    <3> QED BY <2>4, <2>6, <3>1 DEF Book!Promised, Book!KeepsServed
  <2> QED BY <2>5, <2>6
<1>4. /\ created'.users = created.users
      /\ created' = [users |-> created'.users, keys |-> created'.keys]
  BY DEF Quiet
<1>5. ASSUME NEW s \in Slots PROVE OnOrder(req[s])'
  <2>1. OnOrder(req[s]) BY DEF BookInv
  <2>2. CASE GoesOnIn(s)
    <3>1. PICK p, q : p = req[s] /\ q = req'[s] OBVIOUS
    <3>2. q.op = p.op /\ q.user = p.user /\ q.order = p.order
          /\ (Head(q.todo) = "createUser" => Head(p.todo) = "createUser")
      BY <2>2, <3>1 DEF GoesOnIn
    <3>3. q.op \in OrderOps => q.order \in Orders
      BY <3>1, <3>2 DEF DeskInv, GoodRequests, GoodRequest
    <3>4. OnOrder(p) BY <2>1, <3>1
    <3>5. OnOrder(q)'
      BY <1>1, <1>4, <3>2, <3>3, <3>4 DEF OnOrder, Quiet, Leaves
    <3> QED BY <3>1, <3>5 DEF OnOrder
  <2>3. CASE EndsIn(s)
    <3>1. req'[s].op = "none" BY <2>3 DEF EndsIn, Idle
    <3> QED BY <3>1 DEF OnOrder, OrderOps
  <2>4. CASE ArrivesIn(s)
    BY <1>1, <2>4 DEF ArrivesIn, OnOrder, Leaves
  <2> QED BY <2>2, <2>3, <2>4 DEF Quiet
<1>6. \A s \in tab.awaits \cap tab'.awaits : req'[s].op \in OrderOps
  <2>1. ASSUME NEW s \in tab.awaits \cap tab'.awaits PROVE req'[s].op \in OrderOps
    <3>1. s \in Slots /\ req[s].op \in OrderOps BY DEF BookInv
    <3>2. ~EndsIn(s) BY DEF EndsIn
    <3>3. ~ArrivesIn(s) BY <3>1 DEF ArrivesIn, OrderOps
    <3> QED BY <3>1, <3>2, <3>3 DEF Quiet, GoesOnIn
  <2> QED BY <2>1
<1> QED BY <1>1, <1>2, <1>3, <1>4, <1>5, <1>6, BookKept DEF Quiet, BookInv, Leaves

LEMMA AnsweredMoves ==
  ASSUME DeskInv, NEW r, NEW ok \in BOOLEAN, Answered(r, ok)
  PROVE  PageMoves /\ r \notin tab'.awaits
<1> DEFINE d == tab.dialog
           e == IF ok /\ r \in tab.awaits /\ d.what = req[r].op THEN NoDialog ELSE d
           w == IF ok /\ r \in tab.awaits THEN [o \in Orders |-> order'[o].status]
                ELSE tab.shown
<1>1. tab' = [shown |-> w, dialog |-> e, awaits |-> tab.awaits \ {r}]
  BY DEF DeskInv, GoodTab, Answered
<1>2. \A o \in Orders : w[o] \in {tab.shown[o], order'[o].status} OBVIOUS
<1>3. e \in {tab.dialog, NoDialog} OBVIOUS
<1> HIDE DEF w, e
<1> QED BY <1>1, <1>2, <1>3 DEF PageMoves

LEMMA PageStill == UNCHANGED tab => PageMoves
BY DEF PageMoves

\* Who a step removes.
LEMMA SameFolk ==
  ASSUME UNCHANGED order, \A u \in Users : primary'[u] = Absent <=> primary[u] = Absent
  PROVE  \E D \in SUBSET Users : Leaves(D)
<1>1. Leaves({}) BY DEF Leaves, Exists
<1> QED BY <1>1

LEMMA FolkLeaves ==
  ASSUME LinkInv
  PROVE  /\ UNCHANGED rows => \E D \in SUBSET Users : Leaves(D)
         /\ \A u \in Users : DeleteUserRow(u) =>
              /\ \E D \in SUBSET Users : Leaves(D)
              /\ primary'[u] = Absent
<1>1. UNCHANGED rows => \E D \in SUBSET Users : Leaves(D) BY SameFolk DEF rows
<1>2. ASSUME NEW u \in Users, DeleteUserRow(u)
      PROVE  (\E D \in SUBSET Users : Leaves(D)) /\ primary'[u] = Absent
  <2>1. /\ primary'[u] = Absent
        /\ \A v \in Users \ {u} : primary'[v] = primary[v]
    BY <1>2 DEF DeleteUserRow, LinkInv, RowsTyped, PrimaryType
  <2>2. ASSUME NEW o \in Orders
        PROVE  /\ order'[o].status = order[o].status
               /\ order'[o].user = IF order[o].user \in {u} THEN None ELSE order[o].user
    <3>1. order'[o] = IF order[o].user = u THEN [order[o] EXCEPT !.user = None] ELSE order[o]
      BY <1>2 DEF DeleteUserRow
    <3>2. order[o] = [status |-> order[o].status, user |-> order[o].user]
      BY DEF LinkInv, RowsTyped, OrderType
    <3>3. CASE order[o].user = u
      <4>1. order'[o] = [status |-> order[o].status, user |-> None]
        BY <3>1, <3>2, <3>3
      <4> QED BY <3>3, <4>1
    <3>4. CASE order[o].user # u
      BY <3>1, <3>4
    <3> QED BY <3>3, <3>4
  <2>3. Leaves({u}) BY <2>1, <2>2 DEF Leaves, Exists
  <2> QED BY <2>1, <2>3
<1> QED BY <1>1, <1>2

\* The other requests go on as they are.
LEMMA OthersGoOn ==
  ASSUME DeskInv, NEW r \in Slots, NEW n, req' = [req EXCEPT ![r] = n]
  PROVE  req'[r] = n /\ \A s \in Slots \ {r} : GoesOnIn(s)
<1>1. req'[r] = n /\ \A s \in Slots \ {r} : req'[s] = req[s] BY OneSlot
<1> QED BY <1>1 DEF GoesOnIn

CreatedSame == created' = [users |-> created.users, keys |-> created'.keys]

LEMMA GoesQuiet ==
  ASSUME DeskInv, BookInv, NEW r \in Slots, Live(r), NEW q, GoodRequest(q),
         q.todo = req[r].todo, q.op = req[r].op, q.user = req[r].user,
         q.order = req[r].order,
         Head(req[r].todo) = "createAccessKey" => q.key \in Keys,
         Head(req[r].todo) # "decide",
         Goes(r, q), madeFor' = madeFor, CreatedSame, \E D \in SUBSET Users : Leaves(D)
  PROVE  Quiet
<1>1. PICK n : /\ Took(r, q, n)
               /\ n = Idle \/ Continues(q, n)
               /\ Head(q.todo) \notin EndsOf(q.op) => Continues(q, n)
               /\ IF n = Idle THEN Answered(r, TRUE) ELSE UNCHANGED tab
  BY GoesTook
<1>2. req' = [req EXCEPT ![r] = n] /\ torn \subseteq torn' BY <1>1 DEF Took
<1>3. q.op # "none" BY DEF Live
<1>4. Continues(q, n) => n # Idle
  BY <1>3, Fields DEF Continues, Idle
<1>5. PageMoves /\ (n = Idle => r \notin tab'.awaits)
  <2>1. CASE n = Idle
    <3>1. Answered(r, TRUE) BY <1>1, <2>1
    <3> QED BY <3>1, AnsweredMoves
  <2>2. CASE n # Idle
    BY <1>1, <2>2, PageStill
  <2> QED BY <2>1, <2>2
<1>6. GoesOnIn(r) \/ EndsIn(r)
  <2>1. CASE n = Idle
    <3>1. q.op # "approve"
      <4>1. "approve" \notin Replacing BY DEF Replacing
      <4> QED BY <1>1, <1>4, <2>1, <4>1 DEF EndsOf
    <3> QED BY <1>2, <1>5, <2>1, <3>1, OthersGoOn DEF EndsIn
  <2>2. CASE Continues(q, n)
    <3>1. n.op = q.op /\ n.user = q.user /\ n.order = q.order
      BY <2>2, Fields DEF Continues
    <3>2. Head(n.todo) # "createUser" BY <2>2 DEF Continues, Follows
    <3>3. req'[r] = n BY <1>2, OthersGoOn
    <3> QED BY <3>1, <3>2, <3>3 DEF GoesOnIn
  <2> QED BY <1>1, <2>1, <2>2
<1>7. \A s \in Slots : GoesOnIn(s) \/ EndsIn(s)
  BY <1>2, <1>6, OthersGoOn
<1> QED BY <1>2, <1>5, <1>7 DEF Quiet, CreatedSame

LEMMA EndsQuiet ==
  ASSUME DeskInv, NEW r \in Slots, NEW ok \in BOOLEAN, Answered(r, ok),
         req' = [req EXCEPT ![r] = Idle], torn \subseteq torn',
         madeFor' = madeFor, CreatedSame, \E D \in SUBSET Users : Leaves(D),
         req[r].op = "approve" /\ req[r].user # None =>
           req[r].order \in torn' \/ primary'[req[r].user] = Absent
  PROVE  Quiet
<1>1. PageMoves /\ r \notin tab'.awaits BY AnsweredMoves
<1>2. req'[r] = Idle /\ \A s \in Slots \ {r} : GoesOnIn(s) BY OthersGoOn
<1>3. EndsIn(r) BY <1>1, <1>2 DEF EndsIn
<1> QED BY <1>1, <1>2, <1>3 DEF Quiet, CreatedSame

LEMMA FailsQuiet ==
  ASSUME DeskInv, LinkInv, BookInv, NEW r \in Slots, Live(r), Fails(r),
         torn \subseteq torn', madeFor' = madeFor, CreatedSame,
         req[r].op = "approve" /\ req[r].user # None =>
           Discards(req[r]) \/ req[r].order \in torn'
  PROVE  Quiet
<1>1. req' = [req EXCEPT ![r] = Idle] /\ Answered(r, FALSE) BY DEF Fails
<1>2. CASE Discards(req[r]) /\ Exists(req[r].user)
  <2>1. req[r].user \in Users /\ DeleteUserRow(req[r].user)
    BY <1>2 DEF Fails, Exists
  <2>2. (\E D \in SUBSET Users : Leaves(D)) /\ primary'[req[r].user] = Absent
    BY <2>1, FolkLeaves
  <2> QED BY <1>1, <2>2, EndsQuiet
<1>3. CASE ~(Discards(req[r]) /\ Exists(req[r].user))
  <2>1. UNCHANGED rows BY <1>3 DEF Fails
  <2>2. \E D \in SUBSET Users : Leaves(D) BY <2>1, FolkLeaves
  <2>3. req[r].op = "approve" /\ req[r].user # None =>
          req[r].order \in torn' \/ primary'[req[r].user] = Absent
    <3>1. req[r].op = "approve" /\ req[r].user # None => req[r].user \in Users
      BY DEF BookInv, OnOrder
    <3> QED BY <1>3, <2>1, <3>1 DEF Exists, rows
  <2> QED BY <1>1, <2>2, <2>3, EndsQuiet
<1> QED BY <1>2, <1>3

LEMMA CountersSame ==
  BookInv => /\ UNCHANGED counters => CreatedSame
             /\ UNCHANGED created => CreatedSame
             /\ \A k : created' = [created EXCEPT !.keys = k] => CreatedSame
<1> SUFFICES ASSUME BookInv
             PROVE  /\ UNCHANGED created => CreatedSame
                    /\ \A k : created' = [created EXCEPT !.keys = k] => CreatedSame
  BY DEF counters
<1>1. created = [users |-> created.users, keys |-> created.keys] BY DEF BookInv
<1>2. UNCHANGED created => CreatedSame BY <1>1 DEF CreatedSame
<1>3. ASSUME NEW k, created' = [created EXCEPT !.keys = k] PROVE CreatedSame
  <2>1. created' = [users |-> created.users, keys |-> k] BY <1>1, <1>3
  <2>2. created'.keys = k BY <2>1
  <2> QED BY <2>1, <2>2 DEF CreatedSame
<1> QED BY <1>2, <1>3

\* Handlers' steps that write no order and make no user.
LEMMA StepsOnQuiet ==
  ASSUME DeskInv, LinkInv, BookInv, NEW r \in Slots, Live(r), Goes(r, req[r]),
         Head(req[r].todo) \notin {"decide", "createAccessKey"},
         madeFor' = madeFor, UNCHANGED counters,
         \/ UNCHANGED rows
         \/ UNCHANGED order /\ \A u \in Users : primary'[u] = Absent <=> primary[u] = Absent
         \/ req[r].user \in Users /\ DeleteUserRow(req[r].user)
  PROVE  Quiet
<1>1. PICK q : q = req[r] OBVIOUS
<1>2. GoodRequest(q) BY <1>1, Starts
<1>3. \E D \in SUBSET Users : Leaves(D) BY SameFolk, FolkLeaves
<1> QED BY <1>1, <1>2, <1>3, CountersSame, GoesQuiet

LEMMA ChecksQuiet ==
  ASSUME DeskInv, LinkInv, BookInv, NEW r \in Slots, CountKeys(r) \/ CheckFree(r)
  PROVE  Quiet
<1>1. PICK passes \in BOOLEAN : Checks(r, passes)
  <2>1. (KeyCount < MaxKeys[about]) \in BOOLEAN
        /\ (holder[req[r].key] \in {None, req[r].user}) \in BOOLEAN
    OBVIOUS
  <2> QED BY <2>1 DEF CountKeys, CheckFree
<1>2. Live(r) /\ Head(req[r].todo) \in {"count", "checkFree"}
  BY DEF CountKeys, CheckFree, At
<1>3. madeFor' = madeFor /\ UNCHANGED counters BY <1>1 DEF Checks, history
<1>4. CASE passes
  <2>1. UNCHANGED rows /\ Goes(r, req[r]) BY <1>1, <1>4 DEF Checks
  <2> QED BY <1>2, <1>3, <2>1, StepsOnQuiet
<1>5. CASE ~passes
  <2>1. Fails(r) /\ torn' = torn BY <1>1, <1>5 DEF Checks
  <2>2. req[r].op = "approve" /\ req[r].user # None => Discards(req[r])
    BY <1>2 DEF Discards
  <2> QED BY <1>2, <1>3, <2>1, <2>2, CountersSame, FailsQuiet
<1> QED BY <1>4, <1>5

LEMMA KeyStepsQuiet ==
  ASSUME DeskInv, LinkInv, BookInv, NEW r \in Slots,
         \/ CreateKey(r) \/ SetHolder(r) \/ PushPlan(r) \/ Unlink(r) \/ Release(r)
         \/ DeleteAccessKey(r) \/ DeleteUser(r)
  PROVE  Quiet
<1>1. /\ Live(r) /\ Goes(r, req[r]) /\ madeFor' = madeFor /\ UNCHANGED counters
      /\ Head(req[r].todo) \notin {"decide", "createAccessKey"}
  BY DEF CreateKey, SetHolder, PushPlan, Unlink, Release, Free, DeleteAccessKey, DeleteUser,
         At, history
<1>2. \/ UNCHANGED <<order, primary>>
      \/ req[r].user \in Users /\ DeleteUserRow(req[r].user)
  BY DEF CreateKey, SetHolder, PushPlan, Unlink, Release, Free, DeleteAccessKey, DeleteUser,
         Exists, rows
<1> QED BY <1>1, <1>2, StepsOnQuiet

LEMMA PrimaryStepsQuiet ==
  ASSUME DeskInv, LinkInv, BookInv, NEW r \in Slots,
         \/ ClearPrimary(r) \/ SetPrimary(r) \/ AdoptPrimaryKeyIfUnset(r)
         \/ ClearPrimaryOfFree(r) \/ DeleteKey(r)
  PROVE  Quiet
<1>1. /\ Live(r) /\ Goes(r, req[r]) /\ madeFor' = madeFor /\ UNCHANGED counters
      /\ Head(req[r].todo) \notin {"decide", "createAccessKey"}
  BY DEF ClearPrimary, SetPrimary, AdoptPrimaryKeyIfUnset, ClearPrimaryOfFree, DeleteKey,
         At, history
<1>2. UNCHANGED order
  BY DEF ClearPrimary, SetPrimary, AdoptPrimaryKeyIfUnset, ClearPrimaryOfFree, DeleteKey,
         DeleteKeyRow
<1>3. primary = [u \in Users |-> primary[u]] BY DEF LinkInv, RowsTyped, PrimaryType
<1>4. None # Absent /\ Absent \notin Keys BY AllDistinct DEF Distinct
<1>5. \A u \in Users : primary'[u] = Absent <=> primary[u] = Absent
  <2>0. PICK q : q = req[r] OBVIOUS
  <2>1. CASE ClearPrimary(r)
    <3>1. Live(r) /\ Head(q.todo) = "clearPrimary" BY <2>0, <2>1 DEF ClearPrimary, At
    <3>4. q.op # "newKey" BY <2>0, <3>1, Starts DEF Provisioning
    <3>2. q.key \in Keys BY <2>0, <3>1, <3>4, Starts DEF Held, KeySteps
    <3>3. primary' = [u \in Users |-> IF primary[u] = q.key /\ u # q.user
                                     THEN None ELSE primary[u]]
      BY <2>0, <2>1 DEF ClearPrimary
    <3> QED BY <1>4, <3>2, <3>3
  <2>2. CASE SetPrimary(r)
    <3>1. req[r].key \in Keys /\ primary[req[r].user] # Absent
          /\ primary' = [primary EXCEPT ![req[r].user] = req[r].key]
      BY <2>2 DEF SetPrimary, Recorded, Exists
    <3> QED BY <1>3, <1>4, <3>1
  <2>3. CASE AdoptPrimaryKeyIfUnset(r)
    <3>1. CASE primary[req[r].user] = None
      <4>1. req[r].key \in Keys /\ primary' = [primary EXCEPT ![req[r].user] = req[r].key]
        BY <2>3, <3>1 DEF AdoptPrimaryKeyIfUnset, Recorded
      <4> QED BY <1>3, <1>4, <3>1, <4>1
    <3>2. CASE primary[req[r].user] # None
      BY <2>3, <3>2 DEF AdoptPrimaryKeyIfUnset
    <3> QED BY <3>1, <3>2
  <2>4. CASE ClearPrimaryOfFree(r)
    <3>1. PICK k : k = IF At(r, "releaseClear") THEN q.old ELSE q.key OBVIOUS
    <3>2. k # Absent
      BY <1>1, <2>0, <3>1, Starts DEF GoodRequest
    <3>3. \/ primary' = primary
          \/ primary' = [u \in Users |-> IF primary[u] = k THEN None ELSE primary[u]]
      BY <2>0, <2>4, <3>1 DEF ClearPrimaryOfFree
    <3> QED BY <1>4, <3>2, <3>3
  <2>5. CASE DeleteKey(r)
    <3>1. q.old \in Keys
          /\ primary' = [u \in Users |-> IF primary[u] = q.old THEN None ELSE primary[u]]
      BY <2>0, <2>5 DEF DeleteKey, DeleteKeyRow, Recorded
    <3> QED BY <1>4, <3>1
  <2> QED BY <2>1, <2>2, <2>3, <2>4, <2>5
<1> QED BY <1>1, <1>2, <1>5, StepsOnQuiet

LEMMA CreateAccessKeyQuiet ==
  ASSUME DeskInv, LinkInv, BookInv, NEW r \in Slots, CreateAccessKey(r)
  PROVE  Quiet
<1>1. PICK k : k = created.keys + 1 OBVIOUS
<1>2. PICK q : q = [req[r] EXCEPT !.key = k] OBVIOUS
<1>3. /\ Live(r) /\ Head(req[r].todo) = "createAccessKey" /\ k \in Keys
      /\ Goes(r, q) /\ UNCHANGED rows /\ madeFor' = madeFor
      /\ created' = [created EXCEPT !.keys = k]
  BY <1>1, <1>2 DEF CreateAccessKey, At, history
<1>4. /\ GoodRequest(q) /\ q.todo = req[r].todo /\ q.op = req[r].op /\ q.key = k
      /\ q.user = req[r].user /\ q.order = req[r].order
  BY <1>2, <1>3, KeyGiven
<1>5. \E D \in SUBSET Users : Leaves(D) BY <1>3, FolkLeaves
<1> QED BY <1>3, <1>4, <1>5, CountersSame, GoesQuiet

LEMMA ForceDeleteQuiet ==
  ASSUME DeskInv, LinkInv, BookInv, NEW r \in Slots, ForceDelete(r)
  PROVE  Quiet
<1>1. PICK q : q = req[r] OBVIOUS
<1>2. /\ Live(r) /\ Head(q.todo) = "deleteAccessKey" /\ Goes(r, q) /\ UNCHANGED rows
      /\ madeFor' = madeFor /\ UNCHANGED created
  BY <1>1 DEF ForceDelete, Trouble, At, history, counters
<1>3. GoodRequest(q) BY <1>1, <1>2, Starts
<1>4. \E D \in SUBSET Users : Leaves(D) BY <1>2, FolkLeaves
<1> QED BY <1>1, <1>2, <1>3, <1>4, CountersSame, GoesQuiet

\* An approval that ends early has removed its user, or leaves the order disputed.
LEMMA TroublesQuiet ==
  ASSUME DeskInv, LinkInv, BookInv, NEW r \in Slots,
         \/ KeyNotRecorded(r) \/ Refuse(r) \/ Fail(r) \/ FailToDiscard(r)
         \/ DeleteAccessKeyUnanswered(r)
         \/ \E stays \in BOOLEAN : CreateAccessKeyFails(r, stays)
  PROVE  Quiet
<1>1. Live(r)
  BY DEF KeyNotRecorded, Refuse, Fail, FailToDiscard, CreateAccessKeyFails,
         DeleteAccessKeyUnanswered, At
<1>2. Head(req[r].todo) = req[r].todo[1] /\ GoodRequest(req[r]) /\ req[r].op # "none"
      /\ Head(req[r].todo) \in StepsIn(req[r].op)
  BY <1>1, Starts
<1>3. req[r].op = "approve" => req[r].order \in Objects(req[r])
  <2>1. req[r].op = "approve" => req[r].order \in Orders
    BY <1>2 DEF GoodRequest, OrderOps
  <2> QED BY <2>1, WorksOn, AllDistinct DEF Distinct
<1>4. req[r].op = "approve" /\ req[r].user # None =>
        Discards(req[r]) \/ req[r].order \in LeftTorn(r)
  BY <1>3 DEF LeftTorn
<1>5. madeFor' = madeFor
  BY DEF KeyNotRecorded, Refuse, Fail, FailToDiscard, CreateAccessKeyFails,
         DeleteAccessKeyUnanswered, history
<1>6. CreatedSame
  <2>1. CASE KeyNotRecorded(r) \/ Refuse(r)
    BY <2>1, CountersSame DEF KeyNotRecorded, Refuse
  <2>2. CASE Fail(r) \/ FailToDiscard(r) \/ DeleteAccessKeyUnanswered(r)
    BY <2>2, CountersSame DEF Fail, FailToDiscard, DeleteAccessKeyUnanswered, Trouble
  <2>3. CASE \E stays \in BOOLEAN : CreateAccessKeyFails(r, stays)
    BY <2>3, CountersSame DEF CreateAccessKeyFails
  <2> QED BY <2>1, <2>2, <2>3
<1>7. CASE KeyNotRecorded(r) \/ \E stays \in BOOLEAN : CreateAccessKeyFails(r, stays)
  <2>1. /\ Fails(r) /\ torn' = torn
        /\ Head(req[r].todo) \in {"createKey", "createAccessKey"}
    BY <1>7 DEF KeyNotRecorded, CreateAccessKeyFails, At
  <2>2. req[r].op = "approve" /\ req[r].user # None => Discards(req[r])
    BY <2>1 DEF Discards
  <2> QED BY <1>1, <1>5, <1>6, <2>1, <2>2, FailsQuiet
<1>8. CASE Refuse(r)
  <2>1. Fails(r) /\ torn' = torn \cup LeftTorn(r) BY <1>8 DEF Refuse
  <2> QED BY <1>1, <1>4, <1>5, <1>6, <2>1, FailsQuiet
<1>9. CASE Fail(r)
  <2>1. CASE Head(req[r].todo) \in {"release", "releaseClear"}
    <3>1. /\ UNCHANGED rows /\ req' = [req EXCEPT ![r] = Idle] /\ Answered(r, TRUE)
          /\ torn \subseteq torn'
      BY <1>2, <1>9, <2>1 DEF Fail
    <3>2. req[r].op # "approve"
      BY <1>2, <2>1 DEF StepsIn, Provisioning, Replacing
    <3> QED BY <1>5, <1>6, <3>1, <3>2, FolkLeaves, EndsQuiet
  <2>2. CASE Head(req[r].todo) \notin {"release", "releaseClear"}
    <3>1. Fails(r) /\ torn' = torn \cup LeftTorn(r) BY <1>2, <1>9, <2>2 DEF Fail
    <3> QED BY <1>1, <1>4, <1>5, <1>6, <3>1, FailsQuiet
  <2> QED BY <2>1, <2>2
<1>10. CASE FailToDiscard(r)
  <2>1. /\ UNCHANGED rows /\ req' = [req EXCEPT ![r] = Idle] /\ Answered(r, FALSE)
        /\ torn' = torn \cup Objects(req[r])
    BY <1>10 DEF FailToDiscard
  <2> QED BY <1>3, <1>5, <1>6, <2>1, FolkLeaves, EndsQuiet
<1>11. CASE DeleteAccessKeyUnanswered(r)
  <2>1. Fails(r) /\ torn' = torn \cup LeftTorn(r)
    BY <1>11 DEF DeleteAccessKeyUnanswered
  <2> QED BY <1>1, <1>4, <1>5, <1>6, <2>1, FailsQuiet
<1> QED BY <1>7, <1>8, <1>9, <1>10, <1>11

LEMMA CrashQuiet ==
  ASSUME DeskInv, LinkInv, BookInv, Crash
  PROVE  Quiet
<1>1. /\ req' = [r \in Slots |-> Idle] /\ UNCHANGED rows
      /\ \A r \in Slots : Objects(req[r]) \subseteq torn'
      /\ torn \subseteq torn' /\ madeFor' = madeFor /\ UNCHANGED created
  BY DEF Crash, Trouble, history
<1>2. tab' = [shown |-> tab.shown, dialog |-> tab.dialog, awaits |-> {}]
  BY DEF DeskInv, GoodTab, Crash
<1>3. PageMoves /\ tab'.awaits = {} BY <1>2 DEF PageMoves
<1>4. ASSUME NEW s \in Slots PROVE EndsIn(s)
  <2>1. req[s].op = "approve" => req[s].order \in Orders
    BY DEF DeskInv, GoodRequests, GoodRequest, OrderOps
  <2>2. req[s].op = "approve" => req[s].order \in Objects(req[s])
    BY <2>1, WorksOn, AllDistinct DEF Distinct
  <2> QED BY <1>1, <1>3, <2>2 DEF EndsIn
<1> QED BY <1>1, <1>3, <1>4, FolkLeaves, CountersSame DEF Quiet, CreatedSame

LEMMA ConfirmQuiet ==
  ASSUME DeskInv, LinkInv, BookInv, NEW r \in Slots, Confirm(r)
  PROVE  Quiet
<1>1. PICK q : /\ Arrives(r, q)
               /\ q.op = tab.dialog.what /\ q.op \in OrderOps
               /\ q.order = tab.dialog.order /\ q.order \in Orders
               /\ q.user = None
  BY Confirmed
<1>2. /\ q.op # "remove" => order[q.order].status = "pending"
      /\ q.op = "remove" => order[q.order].status # "removed"
      /\ UNCHANGED rows /\ madeFor' = madeFor /\ UNCHANGED created
  BY <1>1 DEF Confirm, history
<1>3. ~Live(r) /\ req' = [req EXCEPT ![r] = q] /\ torn \subseteq torn'
  BY <1>1 DEF Arrives, Accepts
<1>4. tab' = [shown |-> tab.shown, dialog |-> tab.dialog, awaits |-> tab.awaits \cup {r}]
  BY DEF DeskInv, GoodTab, Confirm
<1>5. req'[r] = q /\ \A s \in Slots \ {r} : GoesOnIn(s) BY <1>3, OthersGoOn
<1>6. ArrivesIn(r)
  <2>1. q.op = "remove" => order[q.order].status \in Decided
    <3>1. order[q.order].status \in {"none", "pending", "approved", "rejected", "removed"}
      BY <1>1 DEF LinkInv, RowsTyped, OrderType
    <3>2. q.op = "remove" => order[q.order].status \notin Undecided
      BY <1>1 DEF BookInv
    <3> QED BY <1>2, <3>1, <3>2 DEF Undecided, Decided
  <2> QED BY <1>1, <1>2, <1>3, <1>5, <2>1 DEF ArrivesIn, Live
<1>7. PageMoves BY <1>1, <1>4, <1>5 DEF PageMoves
<1> QED BY <1>2, <1>3, <1>5, <1>6, <1>7, FolkLeaves, CountersSame DEF Quiet, CreatedSame

LEMMA SendsQuiet ==
  ASSUME DeskInv, LinkInv, BookInv, NEW r \in Slots,
         Creates(r) \/ Replaces(r) \/ Relinks(r) \/ Provides(r) \/ Removes(r)
  PROVE  Quiet
<1>0. PICK op \in UserOps : \E u, k, old : Send(r, op, u, k, old)
  BY DEF Creates, Replaces, Relinks, Provides, Removes, UserOps
<1>1. PICK u, k, old : Send(r, op, u, k, old) BY <1>0
<1>2. PICK s : s = StepsOf(op) OBVIOUS
<1>3. PICK q : q = [op |-> op, todo |-> s, order |-> None, user |-> u,
                    key |-> k, old |-> old]
  OBVIOUS
<1>4. /\ Arrives(r, q) /\ UNCHANGED rows /\ madeFor' = madeFor /\ UNCHANGED created
      /\ UNCHANGED tab
  BY <1>1, <1>2, <1>3 DEF Send, history
<1>5. ~Live(r) /\ req' = [req EXCEPT ![r] = q] /\ torn \subseteq torn'
  BY <1>4 DEF Arrives, Accepts
<1>6. req'[r] = q /\ \A t \in Slots \ {r} : GoesOnIn(t) BY <1>5, OthersGoOn
<1>7. q.op = op BY <1>3
<1>8. op \notin OrderOps /\ op # "approve" BY DEF UserOps, OrderOps
<1>9. ArrivesIn(r) BY <1>5, <1>6, <1>7, <1>8 DEF ArrivesIn, Live
<1> QED BY <1>4, <1>5, <1>6, <1>9, FolkLeaves, CountersSame, PageStill
    DEF Quiet, CreatedSame

\* A step that works on no request.
LEMMA NobodyMoves ==
  ASSUME DeskInv, LinkInv, BookInv, PageMoves, UNCHANGED <<order, primary>>, UNCHANGED req,
         UNCHANGED torn, madeFor' = madeFor, UNCHANGED created
  PROVE  Quiet
<1>1. \A s \in Slots : GoesOnIn(s) BY DEF GoesOnIn
<1> QED BY <1>1, SameFolk, CountersSame DEF Quiet, CreatedSame

LEMMA PageQuiet ==
  ASSUME DeskInv, LinkInv, BookInv,
         \/ Refetch
         \/ \E o \in Orders, what \in DOMAIN orderHandlers : OpenDialog(what, o)
         \/ CloseDialog
         \/ \E r \in Slots : GiveUp(r)
  PROVE  Quiet
<1>1. tab = [shown |-> tab.shown, dialog |-> tab.dialog, awaits |-> tab.awaits]
  BY DEF DeskInv, GoodTab
<1>2. PageMoves
  <2>1. CASE Refetch
    <3>1. PICK w : w = [o \in Orders |-> order[o].status] OBVIOUS
    <3>2. tab' = [shown |-> w, dialog |-> tab.dialog, awaits |-> tab.awaits]
          /\ order' = order
      BY <1>1, <2>1, <3>1 DEF Refetch, rows
    <3>3. \A o \in Orders : w[o] = order'[o].status BY <3>1, <3>2
    <3> QED BY <3>2, <3>3 DEF PageMoves
  <2>2. ASSUME NEW o \in Orders, NEW what, OpenDialog(what, o) PROVE PageMoves
    <3>1. tab' = [shown |-> tab.shown, dialog |-> [what |-> what, order |-> o],
                  awaits |-> tab.awaits]
      BY <1>1, <2>2 DEF OpenDialog
    <3>2. what = "remove" => tab.shown[o] \in Decided
      BY <2>2 DEF OpenDialog, Offered, Decided
    <3> QED BY <3>1, <3>2 DEF PageMoves
  <2>3. CASE CloseDialog
    <3>1. tab' = [shown |-> tab.shown, dialog |-> NoDialog, awaits |-> tab.awaits]
      BY <1>1, <2>3 DEF CloseDialog
    <3> QED BY <3>1 DEF PageMoves
  <2>4. ASSUME NEW r \in Slots, GiveUp(r) PROVE PageMoves
    <3>1. tab' = [shown |-> tab.shown, dialog |-> tab.dialog, awaits |-> tab.awaits \ {r}]
      BY <1>1, <2>4 DEF GiveUp
    <3> QED BY <3>1 DEF PageMoves
  <2> QED BY <2>1, <2>2, <2>3, <2>4
<1>3. /\ UNCHANGED rows /\ UNCHANGED req /\ UNCHANGED torn
      /\ madeFor' = madeFor /\ UNCHANGED created
  BY DEF Refetch, OpenDialog, CloseDialog, GiveUp, history, counters
<1> QED BY <1>2, <1>3, NobodyMoves DEF rows

LEMMA SyncQuiet ==
  ASSUME DeskInv, LinkInv, BookInv,
         \/ ListAccessKeys
         \/ \E k \in Keys : UpsertKeyFromOutline(k)
         \/ UNCHANGED vars
  PROVE  Quiet
<1>1. /\ UNCHANGED <<order, primary>> /\ UNCHANGED req /\ UNCHANGED torn
      /\ madeFor' = madeFor /\ UNCHANGED created /\ UNCHANGED tab
  BY DEF ListAccessKeys, UpsertKeyFromOutline, vars, rows, history, counters
<1> QED BY <1>1, PageStill, NobodyMoves

\* An order is placed.
LEMMA PlacingKeepsBook ==
  ASSUME DeskInv, LinkInv, BookInv, NEW p \in Orders, createOrder(p)
  PROVE  Book!Next /\ BookInv'
<1>1. /\ order[p].status = "none" /\ order' = [order EXCEPT ![p].status = "pending"]
      /\ UNCHANGED <<primary, req, tab, torn, madeFor, created>>
  BY DEF createOrder, history
<1>2. order = [o \in Orders |-> [status |-> order[o].status, user |-> order[o].user]]
  BY DEF LinkInv, RowsTyped, OrderType
<1>3. /\ order'[p].status = "pending" /\ order'[p].user = order[p].user
      /\ \A o \in Orders \ {p} : order'[o] = order[o]
  BY <1>1, <1>2
<1>4. NothingReopened BY <1>1, <1>3 DEF NothingReopened, Undecided
<1>5. \A o \in Orders : Settled(o)' = Settled(o)
  BY <1>1 DEF Settled, Exists
<1>6. \A o \in Orders : Book!Promised(o)
  BY <1>1, <1>3, <1>5 DEF Book!Promised, Book!Place, Book!Becomes, Book!KeepsServed
<1>7. \A s \in Slots : OnOrder(req[s])'
  <2>1. ASSUME NEW s \in Slots PROVE OnOrder(req[s])'
    <3>1. OnOrder(req[s]) BY DEF BookInv
    <3>2. req[s].op \in OrderOps => req[s].order \in Orders
      BY DEF DeskInv, GoodRequests, GoodRequest
    <3>3. req[s].op \in OrderOps /\ req[s].order \notin torn => req[s].order # p
      BY <1>1, <3>1 DEF OnOrder, Decided
    <3> QED BY <1>1, <1>3, <3>1, <3>2, <3>3 DEF OnOrder
  <2> QED BY <2>1
<1>8. \A s \in tab.awaits \cap tab'.awaits : req'[s].op \in OrderOps
  BY <1>1 DEF BookInv
<1>9. PageMoves BY <1>1, PageStill
<1> QED BY <1>1, <1>4, <1>6, <1>7, <1>8, <1>9, BookKept DEF BookInv, Exists

\* Others on the same order would have made it disputed.
LEMMA OthersOnOrder ==
  ASSUME DeskInv, BookInv, NEW r \in Slots, NEW q, q.order \in Orders, Took(r, q, Idle),
         \A o \in Orders \ {q.order} : order'[o].status = order[o].status,
         madeFor' = madeFor, created' = created
  PROVE  \A s \in Slots : OnOrder(req[s])'
<1> SUFFICES ASSUME NEW s \in Slots PROVE OnOrder(req[s])'
  OBVIOUS
<1>1. req' = [req EXCEPT ![r] = Idle] /\ torn \subseteq torn' BY DEF Took
<1>2. CASE s = r
  <2>1. req'[s] = Idle BY <1>1, <1>2, OthersGoOn
  <2> QED BY <2>1 DEF OnOrder, Idle, OrderOps
<1>3. CASE s # r
  <2>1. req'[s] = req[s] BY <1>1, <1>3, OneSlot
  <2>2. OnOrder(req[s]) BY DEF BookInv
  <2>3. req[s].op \in OrderOps => req[s].order \in Orders
    BY DEF DeskInv, GoodRequests, GoodRequest
  <2>4. req[s].op \in OrderOps /\ req[s].order \notin torn' => req[s].order # q.order
    <3>1. SUFFICES ASSUME req[s].order = q.order PROVE q.order \in torn' OBVIOUS
    <3>2. q.order \in Objects(q) /\ q.order \in Objects(req[s])
      BY <3>1, WorksOn, AllDistinct DEF Distinct
    <3> QED BY <1>3, <3>2 DEF Took, Meets
  <2> QED BY <1>1, <2>1, <2>2, <2>3, <2>4 DEF OnOrder
<1> QED BY <1>2, <1>3

\* Who is still busy once a request is through.
LEMMA BusyThen ==
  ASSUME DeskInv, NEW r \in Slots, req' = [req EXCEPT ![r] = Idle], NEW u
  PROVE  Busy(req, u) <=> Busy(req', u) \/ (req[r].op = "approve" /\ req[r].user = u)
<1>1. req'[r] = Idle /\ \A s \in Slots \ {r} : req'[s] = req[s]
  BY OneSlot
<1>2. req'[r].op # "approve" BY <1>1 DEF Idle
<1> QED BY <1>1, <1>2 DEF Busy

\* An order is approved or rejected.
LEMMA DecidingKeepsBook ==
  ASSUME DeskInv, LinkInv, BookInv, NEW r \in Slots, decide(r)
  PROVE  Book!Next /\ BookInv'
<1>1. PICK q : q = req[r] OBVIOUS
<1>2. PICK p : p = q.order OBVIOUS
<1>3. PICK st : st = IF q.op = "approve" THEN "approved" ELSE "rejected" OBVIOUS
<1>4. /\ Live(r) /\ Head(q.todo) = "decide" /\ Goes(r, q)
      /\ order[p].status # "removed"
      /\ q.op = "approve" => Exists(q.user)
      /\ order' = [order EXCEPT ![p] = [status |-> st, user |-> q.user]]
      /\ UNCHANGED primary /\ madeFor' = madeFor /\ UNCHANGED created
  BY <1>1, <1>2, <1>3 DEF decide, At, history, counters
<1>5. GoodRequest(q) /\ Head(q.todo) \in StepsIn(q.op) BY <1>1, <1>4, Starts
<1>6. q.op \in {"approve", "reject"} /\ p \in Orders /\ (q.op = "reject" => q.user = None)
  <2>1. q.op \in {"approve", "reject"}
    BY <1>4, <1>5 DEF StepsIn, Provisioning, Claiming, Releasing
  <2> QED BY <1>2, <1>5, <2>1 DEF GoodRequest, OrderOps
<1>7. Took(r, q, Idle) /\ Answered(r, TRUE)
  BY <1>1, <1>4, <1>5, GoesTook
<1>8. req' = [req EXCEPT ![r] = Idle] /\ torn \subseteq torn' BY <1>7 DEF Took
<1>9. PageMoves /\ r \notin tab'.awaits BY <1>7, AnsweredMoves
<1>10. /\ order'[p].status = st /\ order'[p].user = q.user
       /\ \A o \in Orders \ {p} : order'[o] = order[o]
  <2>1. order'[p] = [status |-> st, user |-> q.user]
    BY <1>4, <1>6 DEF LinkInv, RowsTyped, OrderType
  <2> QED BY <1>4, <2>1 DEF LinkInv, RowsTyped, OrderType
<1>11. NothingReopened
  BY <1>3, <1>4, <1>10 DEF NothingReopened, Undecided
<1>12. OnOrder(q) BY <1>1 DEF BookInv
<1>13. ASSUME NEW u \in Users
       PROVE  /\ Exists(u)' <=> Exists(u)
              /\ Busy(req, u) <=> Busy(req', u) \/ (q.op = "approve" /\ q.user = u)
  BY <1>1, <1>4, <1>8, BusyThen DEF Exists
<1>14. ASSUME NEW o \in Orders, o \notin torn' PROVE Book!Promised(o)
  <2>0. o \notin torn BY <1>8, <1>14
  <2>1. CASE o # p
    <3>1. ASSUME NEW u \in Users, Exists(u), madeFor[u] = o
          PROVE  Busy(req, u) <=> Busy(req', u)
      <4>1. ~(q.op = "approve" /\ q.user = u)
        BY <1>2, <1>12, <2>1, <3>1, AllDistinct DEF OnOrder, Distinct
      <4> QED BY <1>13, <4>1
    <3>2. Settled(o)' = Settled(o)
      BY <1>4, <1>13, <3>1, SettledAre, SettledThen
    <3> QED BY <1>10, <2>1, <3>2 DEF Book!Promised, Book!KeepsServed
  <2>2. CASE o = p
    <3>1. order[p].status = "pending" BY <1>2, <1>6, <1>12, <2>0, <2>2 DEF OnOrder, OrderOps
    <3>2. Settled(p) = {} /\ order[p].user = None
      BY <1>6, <2>0, <2>2, <3>1 DEF BookInv, Matched, Undecided
    <3>3. CASE q.op = "reject"
      <4>1. Settled(p)' = Settled(p)
        BY <1>4, <1>13, <3>3, SettledAre, SettledThen
      <4> QED BY <1>3, <1>6, <1>10, <2>2, <3>1, <3>2, <3>3, <4>1
          DEF Book!Promised, Book!Reject, Book!Becomes, Book!KeepsServed
    <3>4. CASE q.op = "approve"
      <4>1. /\ q.user \in Users /\ q.user # None /\ Exists(q.user)
            /\ madeFor[q.user] = p
        BY <1>2, <1>4, <1>12, <3>4, AllDistinct DEF OnOrder, Exists, Distinct
      <4>2. ~Busy(req', q.user)
        <5> SUFFICES ASSUME NEW s \in Slots, req'[s].op = "approve", req'[s].user = q.user
                     PROVE  FALSE
          BY DEF Busy
        <5>0. req'[r] = Idle BY <1>8, OneSlot
        <5>1. s # r BY <5>0 DEF Idle
        <5>2. req'[s] = req[s] BY <1>8, <5>1, OneSlot
        <5>3. <<"user", q.user>> \in Objects(q) /\ <<"user", q.user>> \in Objects(req[s])
          BY <4>1, <5>2, WorksOn
        <5>4. p \in Objects(q) BY <1>2, <1>6, WorksOn, AllDistinct DEF Distinct
        <5>5. p \in torn' BY <1>7, <5>1, <5>3, <5>4 DEF Took, Meets
        <5> QED BY <1>14, <2>2, <5>5
      <4>3. Settled(p)' = {q.user}
        <5>1. \A u \in Users \ {q.user} : ~(Exists(u) /\ madeFor[u] = p /\ ~Busy(req, u))
          BY <3>2, SettledAre
        <5>2. \A u \in Users \ {q.user} : ~(Exists(u)' /\ madeFor'[u] = p /\ ~Busy(req', u))
          BY <1>4, <1>13, <5>1
        <5>3. Exists(q.user)'
          BY <1>4, <4>1 DEF Exists
        <5>4. Settled(p)' = {u \in Users : Exists(u)' /\ madeFor'[u] = p /\ ~Busy(req', u)}
          BY SettledThen
        <5>5. PICK v : v = q.user OBVIOUS
        <5>6. v \in Users /\ primary'[v] # Absent /\ madeFor'[v] = p /\ ~Busy(req', v)
          BY <1>4, <4>1, <4>2, <5>5 DEF Exists
        <5> QED BY <5>2, <5>4, <5>5, <5>6 DEF Exists
      <4>4. order'[p].status = "approved" /\ order'[p].user = q.user
        BY <1>3, <1>10, <3>4
      <4>5. Book!Approve(p)
        <5>1. PICK v \in Users : v = q.user BY <4>1
        <5>2. Settled(p)' = {v} /\ order'[p].user = v BY <4>3, <4>4, <5>1
        <5> QED BY <1>6, <3>1, <3>2, <4>4, <5>2 DEF Book!Approve, Book!Becomes
      <4> QED BY <2>2, <4>5 DEF Book!Promised
    <3> QED BY <1>6, <3>3, <3>4
  <2> QED BY <2>1, <2>2
<1>15. \A s \in Slots : OnOrder(req[s])'
  BY <1>2, <1>4, <1>6, <1>7, <1>10, OthersOnOrder
<1>16. \A s \in tab.awaits \cap tab'.awaits : req'[s].op \in OrderOps
  BY <1>8, <1>9, OneSlot DEF BookInv
<1> QED BY <1>4, <1>8, <1>9, <1>11, <1>13, <1>14, <1>15, <1>16, BookKept DEF BookInv

\* A decided order is cleared out of the history.
LEMMA ClearingKeepsBook ==
  ASSUME DeskInv, LinkInv, BookInv, NEW r \in Slots, deleteOrder(r)
  PROVE  Book!Next /\ BookInv'
<1>1. PICK q : q = req[r] OBVIOUS
<1>2. PICK p : p = q.order OBVIOUS
<1>4. /\ Live(r) /\ Head(q.todo) = "deleteOrder" /\ Goes(r, q)
      /\ order' = [order EXCEPT ![p].status = "removed"]
      /\ UNCHANGED primary /\ madeFor' = madeFor /\ UNCHANGED created
  BY <1>1, <1>2 DEF deleteOrder, At, history, counters
<1>5. GoodRequest(q) /\ Head(q.todo) \in StepsIn(q.op) BY <1>1, <1>4, Starts
<1>6. q.op = "remove" /\ p \in Orders
  <2>1. q.op = "remove"
    BY <1>4, <1>5 DEF StepsIn, Provisioning, Claiming, Releasing
  <2> QED BY <1>2, <1>5, <2>1 DEF GoodRequest, OrderOps
<1>7. Took(r, q, Idle) /\ Answered(r, TRUE)
  <2>1. PICK n : /\ Took(r, q, n) /\ (n = Idle \/ Continues(q, n))
                 /\ IF n = Idle THEN Answered(r, TRUE) ELSE UNCHANGED tab
    BY <1>1, <1>4, <1>5, GoesTook
  <2>2. ~Continues(q, n)
    <3> SUFFICES ASSUME Continues(q, n) PROVE FALSE OBVIOUS
    <3>1. Follows("deleteOrder", Head(n.todo)) BY <1>4 DEF Continues
    <3> QED BY <3>1 DEF Follows
  <2> QED BY <2>1, <2>2
<1>8. req' = [req EXCEPT ![r] = Idle] /\ torn \subseteq torn' BY <1>7 DEF Took
<1>9. PageMoves /\ r \notin tab'.awaits BY <1>7, AnsweredMoves
<1>10. /\ order'[p].status = "removed" /\ order'[p].user = order[p].user
       /\ \A o \in Orders \ {p} : order'[o] = order[o]
  <2>1. order[p] = [status |-> order[p].status, user |-> order[p].user]
    BY <1>6 DEF LinkInv, RowsTyped, OrderType
  <2>2. order'[p] = [status |-> "removed", user |-> order[p].user]
    BY <1>4, <1>6, <2>1 DEF LinkInv, RowsTyped, OrderType
  <2> QED BY <1>4, <2>2 DEF LinkInv, RowsTyped, OrderType
<1>11. NothingReopened BY <1>10 DEF NothingReopened, Undecided
<1>12. OnOrder(q) BY <1>1 DEF BookInv
<1>13. ASSUME NEW u \in Users
       PROVE  (Exists(u)' <=> Exists(u)) /\ (Busy(req, u) <=> Busy(req', u))
  BY <1>1, <1>4, <1>6, <1>8, BusyThen DEF Exists
<1>14. ASSUME NEW o \in Orders, o \notin torn' PROVE Book!Promised(o)
  <2>0. o \notin torn BY <1>8, <1>14
  <2>1. Settled(o)' = Settled(o) BY <1>4, <1>13, SettledAre, SettledThen
  <2>2. CASE o # p
    BY <1>10, <2>1, <2>2 DEF Book!Promised, Book!KeepsServed
  <2>3. CASE o = p
    <3>1. order[p].status \in Decided
      BY <1>2, <1>6, <1>12, <2>0, <2>3 DEF OnOrder, OrderOps
    <3> QED BY <1>10, <2>1, <2>3, <3>1
        DEF Book!Promised, Book!Remove, Book!Becomes, Book!KeepsServed, Decided
  <2> QED BY <2>2, <2>3
<1>15. \A s \in Slots : OnOrder(req[s])'
  BY <1>2, <1>4, <1>6, <1>7, <1>10, OthersOnOrder
<1>16. \A s \in tab.awaits \cap tab'.awaits : req'[s].op \in OrderOps
  BY <1>8, <1>9, OneSlot DEF BookInv
<1> QED BY <1>4, <1>8, <1>9, <1>11, <1>13, <1>14, <1>15, <1>16, BookKept DEF BookInv

\* A user is made, for an order or not; an approval works on them until it ends.
LEMMA UserMadeKeepsBook ==
  ASSUME DeskInv, LinkInv, BookInv, NEW r \in Slots, CreateUser(r)
  PROVE  Book!Next /\ BookInv'
<1>1. PICK v : v = created.users + 1 OBVIOUS
<1>2. PICK p : p = req[r] OBVIOUS
<1>3. PICK q : q = [p EXCEPT !.user = v] OBVIOUS
<1>4. /\ Live(r) /\ Head(p.todo) = "createUser" /\ v \in Users
      /\ primary' = [primary EXCEPT ![v] = None] /\ UNCHANGED order
      /\ madeFor' = [madeFor EXCEPT ![v] = p.order]
      /\ created' = [created EXCEPT !.users = v]
      /\ Goes(r, q)
  BY <1>1, <1>2, <1>3 DEF CreateUser, At
<1>5. /\ GoodRequest(q) /\ q.op = p.op /\ q.todo = p.todo /\ q.user = v
      /\ q.order = p.order
  BY <1>2, <1>3, <1>4, UserGiven
<1>6. /\ GoodRequest(p) /\ p.op \in Ops /\ "createUser" \in StepsIn(p.op)
  BY <1>2, <1>4, Starts
<1>7. PICK n : /\ Took(r, q, n)
               /\ n = Idle \/ Continues(q, n)
               /\ Head(q.todo) \notin EndsOf(q.op) => Continues(q, n)
               /\ IF n = Idle THEN Answered(r, TRUE) ELSE UNCHANGED tab
  BY <1>2, <1>4, <1>5, GoesTook
<1>8. \/ /\ n.op = p.op /\ n.user = v /\ n.order = p.order
         /\ Head(n.todo) # "createUser" /\ n # Idle
      \/ n = Idle /\ p.op \notin OrderOps
  <2>1. CASE Continues(q, n)
    <3>1. n.op = q.op /\ n.user = q.user /\ n.order = q.order
      BY <2>1, Fields DEF Continues
    <3>2. Head(n.todo) # "createUser" BY <2>1 DEF Continues, Follows
    <3>3. p.op # "none" BY <1>2, <1>4 DEF Live
    <3> QED BY <1>5, <3>1, <3>2, <3>3 DEF Idle
  <2>2. CASE n = Idle /\ "createUser" \in EndsOf(p.op)
    BY <1>6, <2>2 DEF EndsOf, OrderOps, StepsIn, Replacing
  <2> QED BY <1>4, <1>5, <1>7, <2>1, <2>2
<1>9. /\ req'[r] = n /\ \A s \in Slots \ {r} : req'[s] = req[s]
      /\ torn \subseteq torn'
  BY <1>7, OneSlot DEF Took
<1>21. PageMoves /\ (n = Idle => r \notin tab'.awaits)
  BY <1>7, AnsweredMoves, PageStill
<1>10. /\ created'.users = v /\ v \in Nat /\ created.users < v
       /\ created' = [users |-> created'.users, keys |-> created'.keys]
  <2>1. created = [users |-> created.users, keys |-> created.keys] /\ created.users \in Nat
    BY DEF BookInv
  <2>2. created' = [users |-> v, keys |-> created.keys] BY <1>4, <2>1
  <2>3. created'.users = v /\ created'.keys = created.keys BY <2>2
  <2> QED BY <1>1, <2>1, <2>2, <2>3
<1>11. /\ madeFor' = [u \in Users |-> madeFor'[u]] /\ madeFor'[v] = p.order
       /\ \A u \in Users \ {v} : madeFor'[u] = madeFor[u]
  BY <1>4 DEF BookInv
<1>12. /\ \A u \in Users \ {v} : primary'[u] = primary[u]
       /\ primary[v] = Absent
  <2>1. ~(v <= created.users) BY <1>10 DEF BookInv
  <2> QED BY <1>4, <2>1 DEF LinkInv, RowsTyped, PrimaryType, BookInv, Exists
<1>13. p.op = "approve" => p.user = None BY <1>2, <1>4 DEF BookInv, OnOrder
<1>14. p.order \in Orders => p.op = "approve"
  <2>1. p.order \in Orders => p.op \notin UserOps
    BY <1>6, AllDistinct DEF GoodRequest, Distinct
  <2> QED BY <1>6, <2>1 DEF Ops, OrderOps, StepsIn, Replacing
<1>15. ASSUME NEW u \in Users \ {v} PROVE Busy(req', u) <=> Busy(req, u)
  <2>1. ASSUME NEW s \in Slots
        PROVE  req'[s].op = "approve" /\ req'[s].user = u
                 <=> req[s].op = "approve" /\ req[s].user = u
    <3>1. CASE s = r
      BY <1>2, <1>8, <1>9, <1>13, <1>15, <3>1, AllDistinct DEF Distinct, Idle
    <3>2. CASE s # r
      BY <1>9, <3>2
    <3> QED BY <3>1, <3>2
  <2> QED BY <2>1 DEF Busy
<1>16. ASSUME NEW o \in Orders PROVE Book!Promised(o)
  <2>1. Settled(o)' = Settled(o)
    <3>1. ASSUME NEW u \in Users
          PROVE  Exists(u)' /\ madeFor'[u] = o /\ ~Busy(req', u)
                   <=> Exists(u) /\ madeFor[u] = o /\ ~Busy(req, u)
      <4>1. CASE u = v
        <5>1. ~Exists(u) BY <1>12, <4>1 DEF Exists
        <5>2. madeFor'[u] = o => Busy(req', u)
          BY <1>8, <1>9, <1>11, <1>14, <4>1 DEF Busy, OrderOps
        <5> QED BY <5>1, <5>2
      <4>2. CASE u # v
        BY <1>11, <1>12, <1>15, <4>2 DEF Exists
      <4> QED BY <4>1, <4>2
    <3> QED BY <3>1, SettledAre, SettledThen
  <2> QED BY <1>4, <2>1 DEF Book!Promised, Book!KeepsServed
<1>17. \A s \in Slots : OnOrder(req[s])'
  <2>1. ASSUME NEW s \in Slots PROVE OnOrder(req[s])'
    <3>1. OnOrder(req[s]) BY DEF BookInv
    <3>2. CASE s = r
      <4>1. OnOrder(p) BY <1>2, <3>1, <3>2
      <4>2. OnOrder(n)'
        <5>1. CASE n = Idle
          BY <5>1 DEF OnOrder, Idle, OrderOps
        <5>2. CASE n # Idle
          BY <1>4, <1>8, <1>9, <1>10, <1>11, <4>1, <5>2 DEF OnOrder
        <5> QED BY <5>1, <5>2
      <4> QED BY <1>9, <3>2, <4>2 DEF OnOrder
    <3>3. CASE s # r
      <4>1. PICK t : t = req[s] OBVIOUS
      <4>2. t.op = "approve" /\ t.user # None =>
              /\ t.user \in Users /\ t.user <= v /\ madeFor'[t.user] = t.order
        <5> SUFFICES ASSUME t.op = "approve", t.user # None
                     PROVE  t.user \in Users /\ t.user <= v /\ madeFor'[t.user] = t.order
          OBVIOUS
        <5>1. /\ t.user \in Users /\ t.user <= created.users
              /\ madeFor[t.user] = t.order
          BY <3>1, <4>1 DEF OnOrder
        <5>2. t.user <= v /\ t.user # v
          <6>1. t.user \in Nat /\ created.users \in Nat
            BY <5>1 DEF Users, BookInv
          <6> QED BY <1>10, <5>1, <6>1
        <5> QED BY <1>11, <5>1, <5>2
      <4>3. OnOrder(t)' BY <1>4, <1>9, <1>10, <3>1, <4>1, <4>2 DEF OnOrder
      <4> QED BY <1>9, <3>3, <4>1, <4>3 DEF OnOrder
    <3> QED BY <3>2, <3>3
  <2> QED BY <2>1
<1>18. NothingReopened BY <1>4 DEF NothingReopened
<1>19. \A s \in tab.awaits \cap tab'.awaits : req'[s].op \in OrderOps
  BY <1>2, <1>8, <1>9, <1>21 DEF BookInv
<1>20. \A u \in Users : Exists(u)' => u <= created'.users
  <2>1. ASSUME NEW u \in Users, Exists(u)' PROVE u <= created'.users
    <3>1. CASE u = v
      BY <1>10, <3>1 DEF Users
    <3>2. CASE u # v
      <4>1. u <= created.users /\ u \in Nat /\ created.users \in Nat
        BY <1>12, <2>1, <3>2 DEF BookInv, Exists, Users
      <4> QED BY <1>10, <4>1
    <3> QED BY <3>1, <3>2
  <2> QED BY <2>1
<1> QED BY <1>9, <1>10, <1>11, <1>16, <1>17, <1>18, <1>19, <1>20, <1>21, BookKept

LEMMA InitiallyBook == Init => Book!Init /\ BookInv
<1> SUFFICES ASSUME Init PROVE Book!Init /\ BookInv OBVIOUS
<1>1. /\ order = [o \in Orders |-> [status |-> "none", user |-> None]]
      /\ req = [r \in Slots |-> Idle] /\ torn = {}
      /\ madeFor = [u \in Users |-> None]
      /\ tab = [shown |-> [o \in Orders |-> "none"], dialog |-> NoDialog, awaits |-> {}]
  BY DEF Init
<1>2. \A o \in Orders : order[o].status = "none" /\ order[o].user = None BY <1>1
<1>3. \A o \in Orders : Settled(o) = {}
  BY <1>1, AllDistinct DEF Settled, Distinct
<1>4. Book!Init BY <1>1, <1>2, <1>3 DEF Book!Init
<1>5. /\ created = [users |-> created.users, keys |-> created.keys]
      /\ created.users \in Nat
      /\ \A u \in Users : Exists(u) => u <= created.users
  <2>1. CASE about = "orders"
    BY <2>1 DEF Init, Exists
  <2>2. CASE about = "users"
    <3>1. created = [users |-> 2, keys |-> 3] BY <2>2 DEF Init
    <3>2. \A u \in Users : Exists(u) => u < 3 BY <2>2 DEF Init, Exists
    <3>3. \A u \in Users : u < 3 => u <= 2 BY DEF Users
    <3> QED BY <3>1, <3>2, <3>3
  <2> QED BY <2>1, <2>2 DEF Init
<1>6. \A r \in Slots : OnOrder(req[r]) BY <1>1 DEF OnOrder, Idle, OrderOps
<1>7. \A o \in Orders : Matched(o) BY <1>2, <1>3 DEF Matched
<1>8. PageRight
  <2>1. \A o \in Orders : tab.shown[o] = "none" BY <1>1
  <2>2. tab.dialog.what = "none" /\ tab.awaits = {} BY <1>1 DEF NoDialog
  <2> QED BY <2>1, <2>2 DEF PageRight, Decided
<1> QED BY <1>1, <1>4, <1>5, <1>6, <1>7, <1>8 DEF BookInv, PageRight

LEMMA NextKeepsBook ==
  DeskInv /\ LinkInv /\ BookInv /\ [Next]_vars => Book!Next /\ BookInv'
<1> SUFFICES ASSUME DeskInv, LinkInv, BookInv, [Next]_vars PROVE Book!Next /\ BookInv'
  OBVIOUS
<1>1. CASE Page
  BY <1>1, PlacingKeepsBook, PageQuiet, ConfirmQuiet, QuietKeepsBook DEF Page
<1>2. ASSUME NEW r \in Slots, Handler(r) PROVE Book!Next /\ BookInv'
  BY <1>2, UserMadeKeepsBook, DecidingKeepsBook, ClearingKeepsBook, ChecksQuiet,
     KeyStepsQuiet, PrimaryStepsQuiet, CreateAccessKeyQuiet, ForceDeleteQuiet,
     TroublesQuiet, QuietKeepsBook
  DEF Handler
<1>3. ASSUME NEW r \in Slots, \/ \E stays \in BOOLEAN : CreateAccessKeyFails(r, stays)
                              \/ Fail(r) \/ FailToDiscard(r)
      PROVE  Book!Next /\ BookInv'
  BY <1>3, TroublesQuiet, QuietKeepsBook
<1>4. ASSUME NEW r \in Slots, GiveUp(r) PROVE Book!Next /\ BookInv'
  BY <1>4, PageQuiet, QuietKeepsBook
<1>5. ASSUME NEW r \in Slots,
             Creates(r) \/ Replaces(r) \/ Relinks(r) \/ Provides(r) \/ Removes(r)
      PROVE  Book!Next /\ BookInv'
  BY <1>5, SendsQuiet, QuietKeepsBook
<1>6. CASE Crash BY <1>6, CrashQuiet, QuietKeepsBook
<1>7. CASE ListAccessKeys \/ (\E k \in Keys : UpsertKeyFromOutline(k)) \/ UNCHANGED vars
  BY <1>7, SyncQuiet, QuietKeepsBook
<1> QED BY <1>1, <1>2, <1>3, <1>4, <1>5, <1>6, <1>7 DEF Next

(* The desk implements the order book: whatever overlaps, fails or stops,  *)
(* an order on which nothing overlapped and nothing broke off is decided   *)
(* once, by one who found it pending, and its approval sets up exactly the *)
(* one customer its row then names; no order goes back to the queue.       *)
THEOREM OrderBookImplemented == Spec => ImplementsOrderBook
<1>1. Init => DeskInv /\ LinkInv /\ BookInv /\ Book!Init
  BY InitiallyInv, InitiallyLinked, InitiallyBook
<1>2. /\ DeskInv /\ LinkInv /\ BookInv /\ [Next]_vars
      => (DeskInv /\ LinkInv /\ BookInv)' /\ [Book!Next]_(Book!vars)
  BY NextKeepsInv, NextKeepsLinks, NextKeepsBook
<1> QED BY <1>1, <1>2, PTL DEF Spec, ImplementsOrderBook, Book!Spec

-----------------------------------------------------------------------------
(* Outline has no other keys, and a sync lists no others. *)

OnlyKeys == onOutline \subseteq Keys /\ listed \subseteq Keys

LEMMA NextKeepsKeys == OnlyKeys /\ [Next]_vars => OnlyKeys'
<1> SUFFICES ASSUME OnlyKeys, [Next]_vars
             PROVE  /\ onOutline' \subseteq onOutline \cup Keys
                    /\ listed' \subseteq listed \cup onOutline
  BY DEF OnlyKeys
<1>1. CASE Page
  BY <1>1 DEF Page, createOrder, Refetch, OpenDialog, CloseDialog, Confirm
<1>2. ASSUME NEW r \in Slots, Handler(r)
      PROVE  /\ onOutline' \subseteq onOutline \cup Keys
             /\ listed' = listed
  <2>1. CASE CreateUser(r) \/ DeleteUser(r) \/ CountKeys(r) \/ CheckFree(r)
    BY <2>1 DEF CreateUser, DeleteUser, CountKeys, CheckFree, Checks
  <2>2. CASE CreateAccessKey(r) \/ CreateKey(r) \/ KeyNotRecorded(r)
    BY <2>2 DEF CreateAccessKey, CreateKey, KeyNotRecorded
  <2>3. CASE \/ SetHolder(r) \/ ClearPrimary(r) \/ SetPrimary(r)
             \/ AdoptPrimaryKeyIfUnset(r)
    BY <2>3 DEF SetHolder, ClearPrimary, SetPrimary, AdoptPrimaryKeyIfUnset
  <2>4. CASE PushPlan(r) \/ Unlink(r) \/ Release(r) \/ ClearPrimaryOfFree(r)
    BY <2>4 DEF PushPlan, Unlink, Release, Free, ClearPrimaryOfFree
  <2>5. CASE \/ DeleteAccessKey(r) \/ DeleteAccessKeyUnanswered(r) \/ ForceDelete(r)
             \/ DeleteKey(r)
    BY <2>5 DEF DeleteAccessKey, DeleteAccessKeyUnanswered, ForceDelete, DeleteKey
  <2>6. CASE decide(r) \/ deleteOrder(r) \/ Refuse(r)
    BY <2>6 DEF decide, deleteOrder, Refuse
  <2> QED BY <1>2, <2>1, <2>2, <2>3, <2>4, <2>5, <2>6 DEF Handler
<1>3. ASSUME NEW r \in Slots, NEW stays \in BOOLEAN, CreateAccessKeyFails(r, stays)
      PROVE  onOutline' \subseteq onOutline \cup Keys /\ listed' = listed
  BY <1>3 DEF CreateAccessKeyFails
<1>4. ASSUME NEW r \in Slots, GiveUp(r) \/ Fail(r) \/ FailToDiscard(r)
      PROVE  onOutline' \subseteq onOutline /\ listed' = listed
  BY <1>4 DEF GiveUp, Fail, FailToDiscard
<1>5. ASSUME NEW r \in Slots,
             Creates(r) \/ Replaces(r) \/ Relinks(r) \/ Provides(r) \/ Removes(r)
      PROVE  onOutline' = onOutline /\ listed' = listed
  BY <1>5 DEF Creates, Replaces, Relinks, Provides, Removes, Send
<1>6. CASE Crash BY <1>6 DEF Crash
<1>7. CASE ListAccessKeys \/ \E k \in Keys : UpsertKeyFromOutline(k)
  BY <1>7 DEF ListAccessKeys, UpsertKeyFromOutline
<1>8. CASE UNCHANGED vars BY <1>8 DEF vars
<1> QED BY <1>1, <1>2, <1>3, <1>4, <1>5, <1>6, <1>7, <1>8 DEF Next

(* No row refers to one that is not there (a user to a key, a key to a     *)
(* user), and the page waits only for requests it has sent.                *)
THEOREM TypeCorrect == Spec => []TypeOK
<1>1. Init => OnlyKeys BY DEF Init, OnlyKeys
<1>2. DeskInv /\ LinkInv /\ BookInv /\ OnlyKeys => TypeOK
  <2> SUFFICES ASSUME DeskInv, LinkInv, BookInv, OnlyKeys PROVE TypeOK OBVIOUS
  <2>1. DOMAIN orderHandlers = OrderOps BY DEF orderHandlers, OrderOps
  <2>2. recorded \subseteq Keys BY DEF DeskInv
  <2>3. \A u \in Users : primary[u] \in Keys => Recorded(primary[u])
    BY DEF LinkInv, RowsTyped, Recorded
  <2>4. \A k \in Keys : holder[k] \in Users => Exists(holder[k])
    BY DEF LinkInv, RowsTyped, Exists
  <2> QED BY <2>1, <2>2, <2>3, <2>4
      DEF TypeOK, LinkInv, RowsTyped, OrderType, PrimaryType, HolderType, BookInv, OnlyKeys
<1> QED BY <1>1, <1>2, InitiallyInv, InitiallyLinked, InitiallyBook, NextKeepsInv,
           NextKeepsLinks, NextKeepsBook, NextKeepsKeys, PTL DEF Spec
=============================================================================

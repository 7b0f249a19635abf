------------------------------- MODULE MCDesk -------------------------------
(* Desk, with what it promises, and the order book it implements. *)
EXTENDS Desk

FewKeys == [orders |-> 1, users |-> 4]
FewRequests == [orders |-> 4, users |-> 2]
FewTroubles == [orders |-> 2, users |-> 1]

(* The users set up for an order, but for the one a request still works on. *)
Settled(o) ==
  {u \in Users : /\ madeFor[u] = o
                 /\ Exists(u)
                 /\ \A r \in Slots : req[r].op = "approve" => req[r].user # u}

Book == INSTANCE OrderBook
  WITH Nobody <- None,
       status <- [o \in Orders |-> order[o].status],
       named <- [o \in Orders |-> order[o].user],
       served <- [o \in Orders |-> Settled(o)],
       disputed <- Orders \cap torn

TypeOK ==
  /\ order \in [Orders -> [status : {"none", "pending", "approved", "rejected", "removed"},
                           user : Users \cup {None}]]
  /\ primary \in [Users -> Keys \cup {None, Absent}]
  /\ holder \in [Keys -> Users \cup {None, Absent}]
  /\ onOutline \subseteq Keys /\ listed \subseteq Keys /\ recorded \subseteq Keys
  /\ tab.awaits \subseteq {r \in Slots : req[r].op \in DOMAIN orderHandlers}
  /\ \A u \in Users : primary[u] \in Keys => Recorded(primary[u])
  /\ \A k \in Keys : holder[k] \in Users => Exists(holder[k])

(* A user's link never resolves to a key they do not hold, once the        *)
(* requests about them and the key are through ("so a user's dynamic link  *)
(* can never resolve to a key they no longer hold") - unless two of those  *)
(* requests overlapped or one broke off between its statements.            *)
LinkResolvesToOwnKey ==
  \A u \in Users, k \in Keys :
    LET pair == {<<"user", u>>, <<"key", k>>} IN
    primary[u] = k /\ Untorn(pair) /\ AtRest(pair) => holder[k] = u

(* Moving a user to another key never leaves them without one on the way:  *)
(* the key their link resolves to is the old or the new one, and theirs,   *)
(* after every statement ("the new key is secured first and only then      *)
(* becomes primary, so a failure part-way through leaves the holder on     *)
(* their original key").  Whether Outline still has that key is not asked. *)
KeepsConnection ==
  \A r \in Slots :
    LET q == req[r] IN
    q.op \in DOMAIN replaceUserKey /\ q.old # None /\ Untorn(Objects(q)) =>
      /\ primary[q.user] \in {q.old, q.key}
      /\ holder[primary[q.user]] = q.user

(* Of the keys made by handlers there are never more than the ceiling      *)
(* allows and one for every other request handled at the same time.  (The  *)
(* keys a sync adopts are not held to the ceiling, and neither is one that *)
(* was removed and comes back with a list made before.)                    *)
CeilingHolds == Cardinality(recorded) <= MaxKeys[about] + Cardinality(Slots) - 1

(* A key on Outline that has no row, because an answer was lost or a       *)
(* rollback failed, gets one from a sync or is removed: it does not stay   *)
(* out of the reach of limits for good.                                    *)
EveryKeyIsManaged == []<>(\A k \in onOutline : Recorded(k))

(* The desk keeps what the order book promises.                            *)
ImplementsOrderBook == Book!Spec
=============================================================================

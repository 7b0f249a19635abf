------------------------------ MODULE OrderBook ------------------------------
(***************************************************************************)
(* What the order desk promises of each self-serve order: it is decided    *)
(* once, an approval sets up one customer and names them, a rejection sets *)
(* up none, and only a decided order is cleared out of the history.        *)
(*                                                                         *)
(* An order is disputed once two of its decisions overlapped, or one broke *)
(* off half-way.  Of those only the direction is promised: an order never  *)
(* goes back to the queue of pending ones.                                 *)
(***************************************************************************)
CONSTANTS Orders, Users, Nobody

VARIABLES
  status,    \* status[o]: "none", "pending", "approved", "rejected", "removed"
  named,     \* named[o]: the user the order's row names, or Nobody
  served,    \* served[o]: the users that were set up for the order
  disputed   \* the orders of which less is promised

vars == <<status, named, served, disputed>>

Init ==
  /\ status = [o \in Orders |-> "none"]
  /\ named = [o \in Orders |-> Nobody]
  /\ served = [o \in Orders |-> {}]
  /\ disputed = {}

Becomes(o, from, to) == status[o] \in from /\ status'[o] = to
KeepsServed(o) == served'[o] = served[o] /\ named'[o] = named[o]

Place(o) == Becomes(o, {"none"}, "pending") /\ KeepsServed(o)
Reject(o) == Becomes(o, {"pending"}, "rejected") /\ KeepsServed(o)
Remove(o) == Becomes(o, {"approved", "rejected"}, "removed") /\ KeepsServed(o)
Approve(o) ==
  /\ Becomes(o, {"pending"}, "approved")
  /\ served[o] = {}
  /\ \E u \in Users : served'[o] = {u} /\ named'[o] = u


(* The customer is removed later, on purpose: their keys stay, free.       *)
Leave(o) ==
  /\ status'[o] = status[o]
  /\ served[o] # {} /\ served'[o] = {}
  /\ named'[o] = Nobody

Promised(o) ==
  \/ status'[o] = status[o] /\ KeepsServed(o)
  \/ Place(o)
  \/ Reject(o)
  \/ Remove(o)
  \/ Approve(o)
  \/ Leave(o)

StaysDecided(o) ==
  /\ status'[o] \in {"none", "pending"} => status[o] \in {"none", "pending"}
  /\ status[o] = "removed" => status'[o] = "removed"

Next ==
  /\ disputed \subseteq disputed'
  /\ \A o \in Orders : IF o \in disputed' THEN StaysDecided(o) ELSE Promised(o)

Spec == Init /\ [][Next]_vars
=============================================================================

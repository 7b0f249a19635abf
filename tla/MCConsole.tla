------------------------------ MODULE MCConsole ------------------------------
(* Console, with what it promises. *)
EXTENDS Console

Misses == Reasons \X ({"none"} \cup Saves) \X Facts

TypeOK ==
  /\ followed \in Queries
  /\ page \in Pages \cup SignInPages
  /\ dialog \in {"none"} \cup DOMAIN DialogParts
  /\ present \in BOOLEAN
  /\ session \in {"open", "ended"}
  /\ copy \in [held : BOOLEAN, invalid : BOOLEAN, missed : SUBSET Misses]
  /\ fetch \in [on : BOOLEAN, missed : SUBSET Misses]
  /\ pending \in {NoSave} \cup [what : Saves, done : BOOLEAN]
  /\ made \in [what : {"none"} \cup Saves, where : {"here", "elsewhere", "landed"}]

AtRest == pending = NoSave /\ ~fetch.on /\ copy.held /\ ~copy.invalid
OnScreen(f) == page \in Pages /\ <<followed, f>> \in Shown[<<page, dialog>>]

OthersMissing == \E x \in copy.missed : x[1] = "other" /\ OnScreen(x[3])

(* A save that has succeeded shows on the page it was made on: no query    *)
(* the page or its open dialog displays, and that the console takes for up *)
(* to date, misses a fact the save wrote; not even when the save overtook  *)
(* an answer that was already under way.  The same holds of the page the   *)
(* removal of a key, server or holder lands on, but for such overtaken     *)
(* answers.  (Settings are put in the cache instead of asked for again,    *)
(* and only what the cache held before the save is covered for them.)      *)
SavedIsShown ==
  AtRest => \A f \in Facts :
    OnScreen(f) =>
      /\ made.where \in {"here", "landed"}
         => <<"own", made.what, f>> \notin copy.missed
      /\ made.where = "here" /\ made.what \notin DOMAIN SetsData
         => <<"crossed", made.what, f>> \notin copy.missed

(* The queries a save leaves out of date on the pages it was not made on,  *)
(* for as long as their staleTime has not run out: renaming a server, say, *)
(* leaves its old name on its keys, on their holders' pages and on orders. *)
Lags ==
  [editServer |-> {"keys", "users", "user", "orders"},
   addServer |-> {"stats", "keys", "unassigned"},
   newKey |-> {"keys", "unassigned"},
   overallLimit |-> {"stats"}, reenable |-> {"stats"},
   syncServer |-> {"stats"}, syncFromKey |-> {"stats"},
   togglePaid |-> {"serverRenewals"}, removeKeyRow |-> {"user", "users"},
   removeServer |-> {"key", "keys", "unassigned", "user", "users"},
   removeServerCard |-> {"key", "keys", "unassigned", "user", "users"},
   unlink |-> {"server", "serverRenewals"},
   removeUser |-> {"server", "serverRenewals"},
   removeUserRow |-> {"server", "serverRenewals"},
   editUser |-> {"key", "keys", "server", "serverRenewals"},
   approve |-> {"key", "keys", "server", "serverList", "serverRenewals",
                "stats", "unassigned", "user", "users"}]

(* What the tab's saves changed, however many they are, shows wherever the *)
(* admin goes next, but for the windows listed in Lags and the retention   *)
(* report, which no save marks: everywhere else the cache is marked.       *)
SavedIsShownElsewhere ==
  AtRest => \A x \in copy.missed :
    x[1] = "own" /\ OnScreen(x[3]) =>
      \/ followed = "retention"
      \/ x[2] \in DOMAIN Lags /\ followed \in Lags[x[2]]

(* While the tab is used on a page with live data, whatever the server     *)
(* sync or another admin changes comes on screen without a reload.         *)
LiveCatchesUp ==
  (OthersMissing /\ present /\ followed \in Live(page))
  ~> (~OthersMissing \/ ~present \/ followed \notin Live(page))

(* An admin whose session has ended does not stay on a page with live data *)
(* while using the tab: the next answer sends the tab to the sign-in page. *)
SignedOutIsThrownOut ==
  (session = "ended" /\ present /\ followed \in Live(page))
  ~> (page \in SignInPages \/ ~present \/ followed \notin Live(page)
      \/ session = "open")
=============================================================================

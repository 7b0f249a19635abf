------------------------------- MODULE Console -------------------------------
(***************************************************************************)
(* One browser tab of the admin console: the page and dialog on screen,    *)
(* the query cache behind them, one save at a time, and the session the    *)
(* server keeps for the tab's cookie.                                      *)
(*                                                                         *)
(* The entries of the cache do not touch each other, so a behaviour        *)
(* follows one query, any one: the copy the cache holds of it and the      *)
(* fetch of it in flight.  Of the data only what it misses is kept: the    *)
(* facts that changed at the server after the data was read.               *)
(***************************************************************************)
EXTENDS ConsolePages, Naturals

CONSTANTS MaxVisits,   \* pages opened, dialogs opened or closed, tab left
          MaxSaves,    \* saves sent
          MaxUpsets    \* requests lost, and changes made elsewhere

ASSUME BoundsAssumption ==
  /\ MaxVisits \in Nat
  /\ MaxSaves \in Nat
  /\ MaxUpsets \in Nat

VARIABLES
  followed,  \* the query this behaviour follows
  page,      \* the page on screen
  dialog,    \* the dialog over it that has queries of its own, or "none"
  present,   \* useIsUserActive: the tab is visible and was used lately
  session,   \* what the server makes of the tab's cookie: "open" or "ended"
  copy,      \* the cache's copy of the followed query
  fetch,     \* the fetch of the followed query in flight
  pending,   \* the save in flight, and whether the server has done it
  made,      \* the last save answered, and where the admin was meanwhile
  visits, saves, upsets

vars == <<followed, page, dialog, present, session, copy, fetch, pending, made,
          visits, saves, upsets>>
counters == <<visits, saves, upsets>>

SignInPages == {"login", "verify"}

(* Why a copy misses a fact, and by which save: the tab's own save changed *)
(* it after the copy was read; the save overtook an answer already under   *)
(* way; or it was changed by somebody else, or by a save whose answer      *)
(* never came.                                                             *)
Reasons == {"own", "crossed", "other"}
Missing(why, by, facts) ==
  {<<why, by, f>> : f \in facts \cap QueryOf[followed].reads}

NoCopy == [held |-> FALSE, invalid |-> FALSE, missed |-> {}]
Read(missed) == [held |-> TRUE, invalid |-> FALSE, missed |-> missed]
NoFetch == [on |-> FALSE, missed |-> {}]
Sent == [on |-> TRUE, missed |-> {}]

NoSave == [what |-> "none", done |-> FALSE]
NotMade == [what |-> "none", where |-> "here"]

Observing(p, d) == p \in Pages /\ followed \in Observed[<<p, d>>]

(* The queries a page asks for again every LIVE_REFRESH_MS while active,   *)
(* which are also the ones asked for again when the tab is looked at.      *)
Live(p) ==
  CASE p \in {"overview", "servers"} -> {"serverList"}
    [] p \in {"server", "key", "user"} -> {"server"}
    [] OTHER -> {}

(* A behaviour that follows a query makes the saves that change or mark    *)
(* that query, and visits the overview and the pages that show it or offer *)
(* such a save: any other page is no different to the query.               *)
Touches == [q \in Queries |->
  {m \in Saves : q \in Invalidated[m] \cup Filled[m]
                 \/ SaveOf[m].writes \cap QueryOf[q].reads # {}}]
Concerned == [q \in Queries |->
  {p \in Pages : \/ q \in Observed[<<p, "none">>]
                 \/ \E m \in Touches[q] : p \in SaveOf[m].on}
  \cup {"overview"}]

(***************************************************************************)
(* Mounting a page or a dialog.  Data that is missing, marked out of date, *)
(* or older than its staleTime (aged) is fetched, unless a fetch of it is  *)
(* already under way.                                                      *)
(***************************************************************************)
Mounted(p, d, aged, held) ==
  IF Observing(p, d) /\ ~fetch.on /\ (~held.held \/ held.invalid \/ aged)
  THEN Sent ELSE fetch

Elsewhere == [made EXCEPT !.where = "elsewhere"]

(* A page load by its address: nothing is cached, and nothing is awaited.  *)
Load(p) ==
  /\ page' = p
  /\ dialog' = "none"
  /\ copy' = NoCopy
  /\ fetch' = IF Observing(p, "none") THEN Sent ELSE NoFetch
  /\ pending' = NoSave
  /\ made' = NotMade

Init ==
  /\ followed \in Queries
  /\ page \in Concerned[followed]
  /\ dialog = "none"
  /\ present = TRUE
  /\ session = "open"
  /\ copy = NoCopy
  /\ fetch = IF Observing(page, "none") THEN Sent ELSE NoFetch
  /\ pending = NoSave
  /\ made = NotMade
  /\ visits = 0 /\ saves = 0 /\ upsets = 0

(* Following a link.  The guard of the console's pages asks the cache for  *)
(* the admin first, and any copy of it will do.  A save in flight is not   *)
(* called off, and neither is a fetch.                                     *)
Visit(p, aged) ==
  /\ page \in Pages
  /\ p \in Concerned[followed] \ {page}
  /\ visits < MaxVisits
  /\ visits' = visits + 1
  /\ page' = p
  /\ dialog' = "none"
  /\ fetch' = Mounted(p, "none", aged, copy)
  /\ made' = Elsewhere
  /\ UNCHANGED <<followed, present, session, copy, pending, saves, upsets>>

OpenDialog(d, aged) ==
  /\ page \in SaveOf[d].on
  /\ dialog = "none"
  /\ visits < MaxVisits
  /\ visits' = visits + 1
  /\ dialog' = d
  /\ fetch' = Mounted(page, d, aged, copy)
  /\ made' = Elsewhere
  /\ UNCHANGED <<followed, page, present, session, copy, pending, saves, upsets>>

CloseDialog ==
  /\ dialog # "none"
  /\ visits < MaxVisits
  /\ visits' = visits + 1
  /\ dialog' = "none"
  /\ UNCHANGED <<followed, page, present, session, copy, fetch, pending, made,
                 saves, upsets>>

(* A copy nothing on screen uses is dropped after a while.                 *)
Collect ==
  /\ copy.held
  /\ ~fetch.on
  /\ ~Observing(page, dialog)
  /\ copy' = NoCopy
  /\ UNCHANGED <<followed, page, dialog, present, session, fetch, pending, made,
                 counters>>

(***************************************************************************)
(* Fetches.                                                                *)
(***************************************************************************)
Answer ==
  /\ fetch.on
  /\ session = "open"
  /\ copy' = Read(fetch.missed)
  /\ fetch' = NoFetch
  /\ UNCHANGED <<followed, page, dialog, present, session, pending, made, counters>>

(* The fetch fails: the copy stays as it is, still marked if it was.       *)
LoseFetch ==
  /\ fetch.on
  /\ upsets < MaxUpsets
  /\ upsets' = upsets + 1
  /\ fetch' = NoFetch
  /\ UNCHANGED <<followed, page, dialog, present, session, copy, pending, made,
                 visits, saves>>

(* Faulty variant: only a first load that fails is looked into.            *)
UnauthorizedFirstLoad ==
  /\ page \in Pages
  /\ session = "ended"
  /\ ~copy.held
  /\ Load("login")
  /\ UNCHANGED <<followed, present, session, counters>>

(* The server no longer knows the session: the answer of any request, the  *)
(* followed query's or another's, sends the browser to the sign-in page.   *)
Unauthorized ==
  /\ page \in Pages
  /\ session = "ended"
  /\ Load("login")
  /\ UNCHANGED <<followed, present, session, counters>>

(* Faulty variant: what is held is not asked for again.                    *)
PollUntilHeld ==
  /\ present
  /\ followed \in Live(page)
  /\ ~copy.held
  /\ ~fetch.on
  /\ fetch' = Sent
  /\ UNCHANGED <<followed, page, dialog, present, session, copy, pending, made,
                 counters>>

Poll ==
  /\ present
  /\ followed \in Live(page)
  /\ ~fetch.on
  /\ fetch' = Sent
  /\ UNCHANGED <<followed, page, dialog, present, session, copy, pending, made,
                 counters>>

(***************************************************************************)
(* Saves.                                                                  *)
(***************************************************************************)
Submit(m) ==
  /\ m \in Touches[followed]
  /\ page \in SaveOf[m].on
  /\ m \in DOMAIN DialogParts => dialog = m
  /\ pending = NoSave
  /\ saves < MaxSaves
  /\ saves' = saves + 1
  /\ pending' = [what |-> m, done |-> FALSE]
  /\ made' = [what |-> m, where |-> "here"]
  /\ UNCHANGED <<followed, page, dialog, present, session, copy, fetch, visits, upsets>>

(* The server does what was asked.  Every copy misses it, and so does an   *)
(* answer the server had already given.                                    *)
Apply(given) ==
  LET writes == SaveOf[pending.what].writes IN
  /\ pending # NoSave
  /\ ~pending.done
  /\ session = "open"
  /\ pending' = [pending EXCEPT !.done = TRUE]
  /\ copy' = IF copy.held
             THEN [copy EXCEPT !.missed = @ \cup Missing("own", pending.what, writes)]
             ELSE copy
  /\ fetch' = IF fetch.on /\ given
              THEN [fetch EXCEPT !.missed = @ \cup Missing("crossed", pending.what, writes)]
              ELSE fetch
  /\ UNCHANGED <<followed, page, dialog, present, session, made, counters>>

(* invalidateQueries: every copy under the prefixes is marked out of date, *)
(* and one on screen is fetched again, the fetch under way being dropped.  *)
Marked(m) == followed \in Invalidated[m]
MarkedCopy(m) == IF Marked(m) THEN [copy EXCEPT !.invalid = copy.held] ELSE copy
Refetched(m) == IF Marked(m) /\ Observing(page, dialog) THEN Sent ELSE fetch

(* onSuccess, wherever the admin is by now: the caches, then the dialog    *)
(* closes.  The answer of some saves is put in the cache (setQueryData),   *)
(* and a fetch under way is not dropped for it.                            *)
Succeed ==
  LET m == pending.what IN
  /\ pending.done
  /\ session = "open"
  /\ SaveOf[m].lands = ""
  /\ copy' = IF followed \in Filled[m] THEN Read({}) ELSE MarkedCopy(m)
  /\ fetch' = Refetched(m)
  /\ dialog' = IF dialog = m THEN "none" ELSE dialog
  /\ pending' = NoSave
  /\ UNCHANGED <<followed, page, present, session, made, counters>>

(* onSuccess of a removal: the caches, then the page of the removed thing  *)
(* gives way to the one above it.                                          *)
SucceedAndLand(aged) ==
  LET m == pending.what
      next == SaveOf[m].lands IN
  /\ pending.done
  /\ session = "open"
  /\ next # ""
  /\ copy' = MarkedCopy(m)
  /\ fetch' = IF Refetched(m) # fetch THEN Refetched(m)
              ELSE Mounted(next, "none", aged, copy')
  /\ page' = next
  /\ dialog' = "none"
  /\ pending' = NoSave
  /\ made' = [made EXCEPT !.where = "landed"]
  /\ UNCHANGED <<followed, present, session, counters>>

Disowned(missed, m) ==
  {IF x[2] = m THEN <<"other", "none", x[3]>> ELSE x : x \in missed}

(* The answer does not come within the client's timeout, or is an error.   *)
(* Nothing is marked; the save may have been done all the same.            *)
LoseSave ==
  /\ pending # NoSave
  /\ upsets < MaxUpsets
  /\ upsets' = upsets + 1
  /\ pending' = NoSave
  /\ made' = NotMade
  /\ copy' = [copy EXCEPT !.missed = Disowned(@, pending.what)]
  /\ fetch' = [fetch EXCEPT !.missed = Disowned(@, pending.what)]
  /\ UNCHANGED <<followed, page, dialog, present, session, visits, saves>>

(***************************************************************************)
(* What happens around the tab.  Only of live data is it promised that     *)
(* what others change comes on screen, and only live data is asked for     *)
(* again by presence, so both are followed for the live queries alone.     *)
(***************************************************************************)
LiveQueries == UNION {Live(p) : p \in Pages}

Change(f, given) ==
  /\ followed \in LiveQueries
  /\ f \in QueryOf[followed].reads
  /\ upsets < MaxUpsets
  /\ upsets' = upsets + 1
  /\ copy' = IF copy.held
             THEN [copy EXCEPT !.missed = @ \cup Missing("other", "none", {f})] ELSE copy
  /\ fetch' = IF fetch.on /\ given
              THEN [fetch EXCEPT !.missed = @ \cup Missing("other", "none", {f})] ELSE fetch
  /\ UNCHANGED <<followed, page, dialog, present, session, pending, made, visits, saves>>

(* The tab is hidden, or left alone for five minutes. *)
GoIdle ==
  /\ followed \in LiveQueries
  /\ present
  /\ visits < MaxVisits
  /\ visits' = visits + 1
  /\ present' = FALSE
  /\ UNCHANGED <<followed, page, dialog, session, copy, fetch, pending, made,
                 saves, upsets>>

(* The admin is back.  A tab that was hidden asks for its live data at     *)
(* once if it is older than its staleTime.                                 *)
MarkActive(aged) ==
  /\ ~present
  /\ present' = TRUE
  /\ fetch' = IF followed \in Live(page) /\ ~fetch.on /\ aged THEN Sent ELSE fetch
  /\ UNCHANGED <<followed, page, dialog, session, copy, pending, made, counters>>

(* The session expires, or is signed out of in another tab of the browser. *)
(* Suspending or removing an admin does not end it.                        *)
EndSession ==
  /\ session = "open"
  /\ upsets < MaxUpsets
  /\ upsets' = upsets + 1
  /\ session' = "ended"
  /\ UNCHANGED <<followed, page, dialog, present, copy, fetch, pending, made,
                 visits, saves>>

(* Logging out empties the cache and loads the sign-in page.               *)
Logout ==
  /\ page \in Pages
  /\ session = "open"
  /\ saves < MaxSaves
  /\ saves' = saves + 1
  /\ session' = "ended"
  /\ Load("login")
  /\ UNCHANGED <<followed, present, visits, upsets>>

RequestOtp ==
  /\ page = "login"
  /\ page' = "verify"
  /\ UNCHANGED <<followed, dialog, present, session, copy, fetch, pending, made,
                 counters>>

ChangeEmail ==
  /\ page = "verify"
  /\ page' = "login"
  /\ UNCHANGED <<followed, dialog, present, session, copy, fetch, pending, made,
                 counters>>

(* The right code: the answer carries the admin, whom the guard of the     *)
(* overview then finds in the cache.                                       *)
VerifyOtp ==
  /\ page = "verify"
  /\ visits < MaxVisits
  /\ visits' = visits + 1
  /\ session' = "open"
  /\ page' = "overview"
  /\ copy' = IF followed = "me" THEN Read({}) ELSE copy
  /\ fetch' = Mounted("overview", "none", FALSE, copy')
  /\ UNCHANGED <<followed, dialog, present, pending, made, saves, upsets>>

(***************************************************************************)
(* The specification.  A tab that is used keeps asking for its live data,  *)
(* and a request that is sent is answered or lost.                         *)
(***************************************************************************)
Next ==
  \/ \E p \in Pages, aged \in BOOLEAN : Visit(p, aged)
  \/ \E d \in DOMAIN DialogParts, aged \in BOOLEAN : OpenDialog(d, aged)
  \/ CloseDialog
  \/ Collect
  \/ Answer
  \/ LoseFetch
  \/ Unauthorized
  \/ Poll
  \/ \E m \in Saves : Submit(m)
  \/ \E given \in BOOLEAN : Apply(given)
  \/ Succeed
  \/ \E aged \in BOOLEAN : SucceedAndLand(aged)
  \/ LoseSave
  \/ \E f \in Facts, given \in BOOLEAN : Change(f, given)
  \/ GoIdle
  \/ \E aged \in BOOLEAN : MarkActive(aged)
  \/ EndSession
  \/ Logout
  \/ RequestOtp
  \/ ChangeEmail
  \/ VerifyOtp

Fairness ==
  /\ WF_vars(Poll)
  /\ WF_vars(Answer)
  /\ WF_vars(fetch.on /\ Unauthorized)

Spec == Init /\ [][Next]_vars /\ Fairness
=============================================================================

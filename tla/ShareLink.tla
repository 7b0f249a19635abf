------------------------------ MODULE ShareLink ------------------------------
(***************************************************************************)
(* A holder's share link.  On the server: the passcode its holder chooses  *)
(* on the first visit, the lockout, the admin's reset, and requests that   *)
(* overlap.  In the holder's browser: the three pages of the link, the     *)
(* session kept in localStorage, and the two queries the pages redirect    *)
(* by.  Codes sent from elsewhere use the other slots of visit.            *)
(***************************************************************************)
EXTENDS Naturals, FiniteSets

CONSTANTS
  Passcodes,        \* the six-digit codes that are tried
  ShareMaxAttempts, \* wrong codes until the link is locked
  Visits,           \* requests with a code handled at the same time
  Tab,              \* the one among them that the browser sends
  MaxVisits,        \* bounds: codes sent,
  MaxLoads,         \* pages loaded,
  MaxUpsets,        \* resets by the admin, failed requests, and locks and
                    \* sessions that run out, together
  None

ASSUME ShareAssumption ==
  /\ ShareMaxAttempts \in Nat \ {0}
  /\ {MaxVisits, MaxLoads, MaxUpsets} \subseteq Nat
  /\ IsFiniteSet(Visits) /\ Tab \in Visits
  /\ Passcodes # {} /\ None \notin Passcodes

VARIABLES
  share,   \* the row: passcode, how it is hashed, attempts, lock
  visit,   \* visit[v]: the request in slot v
  tab,     \* page shown, mount effect due, the page's token, form submitting
  stored,  \* the token in localStorage: "none", "live" or "lapsed"
  status,  \* the ["share", slug, "status"] query
  view,    \* the ["share", slug, "view"] query
  chosen,  \* history: the passcode its holder set up since the last reset
  crossed, \* history: a set-up or a reset overlapped another request
  wrong,   \* history: wrong codes turned down since the count last began
  count    \* how much of the bounds is used

server == <<share, visit, chosen, crossed, wrong>>
browser == <<tab, stored, status, view>>
shareVars == <<server, browser, count>>

NoVisit == [step |-> "none", kind |-> "verify", code |-> None, read |-> None,
            legacy |-> FALSE]
NotAsked == [data |-> None, error |-> "none", sent |-> "none"]
Failed(q) == q.error # "none"

(* A link without a passcode yet or with one; which one makes no odds.     *)
ShareInit ==
  /\ \E p \in {None, CHOOSE c \in Passcodes : TRUE}, legacy \in BOOLEAN :
       /\ legacy => p # None
       /\ share = [exists |-> TRUE, passcode |-> p, legacy |-> legacy,
                   attempts |-> 0, locked |-> FALSE]
       /\ chosen = p
  /\ visit = [v \in Visits |-> NoVisit]
  /\ tab = [page |-> "away", entered |-> FALSE, token |-> "none", awaits |-> FALSE]
  /\ stored = "none"
  /\ status = NotAsked /\ view = NotAsked
  /\ crossed = FALSE
  /\ wrong = 0
  /\ count = [visits |-> 0, loads |-> 0, resets |-> 0, lost |-> 0]

Uses(what, bound) ==
  /\ count[what] < bound
  /\ count' = [count EXCEPT ![what] = @ + 1]
Upsets(what) == count.resets + count.lost < MaxUpsets /\ Uses(what, MaxUpsets)
Loses == Upsets("lost")

-----------------------------------------------------------------------------
(* The pages.                                                              *)

(* A query that a page begins to observe is fetched, with the page's token,*)
(* when nothing is cached or what is has aged.  Of an error that left no   *)
(* data nothing is kept then.                                              *)
Observe(q, token, aged) ==
  IF q.sent # "none" \/ (q.data # None /\ ~aged) THEN q
  ELSE [q EXCEPT !.sent = token, !.error = IF q.data = None THEN "none" ELSE @]

(* A page is entered with these caches.  KeyStatusPage takes its token from*)
(* storage, where one that has lapsed is dropped, and asks for the key, or *)
(* for the status without one.  The pages of the passcode ask for the      *)
(* status.                                                                 *)
Enter(page, kept, from, st, vw, aged) ==
  LET held == IF page = "keys-status" /\ kept = "lapsed" THEN "none" ELSE kept
      token == IF page = "keys-status" THEN held ELSE "none"
  IN
  /\ stored' = held
  /\ tab' = [from EXCEPT !.page = page, !.entered = page # "keys-status",
                         !.token = token]
  /\ view' = IF token = "live" THEN Observe(vw, token, aged) ELSE vw
  /\ status' = IF token = "live" THEN st ELSE Observe(st, "public", aged)

Goto(page, kept, aged) == Enter(page, kept, tab, status, view, aged)

(* A page is loaded anew, with empty caches; no answer reaches it that was *)
(* meant for the one before.                                               *)
LoadPage(page) ==
  /\ Uses("loads", MaxLoads)
  /\ Enter(page, stored, [tab EXCEPT !.awaits = FALSE], NotAsked, NotAsked, TRUE)
  /\ UNCHANGED server

(* Faulty variant: the token the server refused is kept in storage.        *)
DropRejectedTokenKeeping(aged) ==
  /\ tab.page = "keys-status" /\ tab.token # "none"
  /\ Failed(view)
  /\ tab' = [tab EXCEPT !.token = "none"]
  /\ status' = Observe(status, "public", aged)
  /\ UNCHANGED <<server, stored, view, count>>

(* Faulty variant: the page goes on with the token it has dropped.         *)
DropStoredTokenOnly(aged) ==
  /\ tab.page = "keys-status" /\ stored # "none"
  /\ Failed(view)
  /\ stored' = "none"
  /\ status' = Observe(status, "public", aged)
  /\ UNCHANGED <<server, tab, view, count>>

(* KeyStatusPage: any error of the view falls back to the passcode.        *)
DropRejectedToken(aged) ==
  /\ tab.page = "keys-status" /\ tab.token # "none"
  /\ Failed(view)
  /\ stored' = "none"
  /\ tab' = [tab EXCEPT !.token = "none"]
  /\ status' = Observe(status, "public", aged)
  /\ UNCHANGED <<server, view, count>>

(* KeyStatusPage without a token: to whichever step of the passcode is next*)
GoToPasscode(aged) ==
  /\ tab.page = "keys-status" /\ tab.token = "none"
  /\ status.data # None
  /\ Goto(IF status.data = "set" THEN "login" ELSE "setup", stored, aged)
  /\ UNCHANGED <<server, count>>

Misplaced ==
  \/ tab.page = "login" /\ status.data = "unset"
  \/ tab.page = "setup" /\ status.data = "set"

(* LoginPage and SetupPage, once when they are entered: who is signed in   *)
(* already goes to the key - but the effect that follows, which corrects   *)
(* the page, is the later of the two to navigate.                          *)
SkipSignedIn(aged) ==
  /\ tab.entered
  /\ IF stored = "live" /\ ~Misplaced
     THEN Goto("keys-status", stored, aged)
     ELSE /\ tab' = [tab EXCEPT !.entered = FALSE]
          /\ stored' = IF stored = "lapsed" THEN "none" ELSE stored
          /\ UNCHANGED <<status, view>>
  /\ UNCHANGED <<server, count>>

CorrectPage(aged) ==
  /\ ~tab.entered
  /\ Misplaced
  /\ Goto(IF tab.page = "login" THEN "setup" ELSE "login", stored, aged)
  /\ UNCHANGED <<server, count>>

(* The answers of the two queries.  Neither is retried.                    *)
AnswerStatus(lost) ==
  /\ status.sent # "none"
  /\ IF lost THEN Loses ELSE UNCHANGED count
  /\ status' =
       IF lost \/ ~share.exists
       THEN [status EXCEPT !.sent = "none", !.error = IF lost THEN "other" ELSE "notFound"]
       ELSE [data |-> IF share.passcode = None THEN "unset" ELSE "set",
             error |-> "none", sent |-> "none"]
  /\ UNCHANGED <<server, tab, stored, view>>

AnswerView(lost) ==
  /\ view.sent # "none"
  /\ IF lost THEN Loses ELSE UNCHANGED count
  /\ view' = IF lost \/ ~share.exists \/ view.sent = "lapsed"
             THEN [view EXCEPT !.sent = "none", !.error = "other"]
             ELSE [data |-> "key", error |-> "none", sent |-> "none"]
  /\ UNCHANGED <<server, tab, stored, status>>

(* The network comes back: what the page observes and has aged is fetched. *)
Reconnect ==
  /\ tab.page # "away"
  /\ Loses
  /\ IF tab.token # "none"
     THEN view' = Observe(view, tab.token, TRUE) /\ UNCHANGED status
     ELSE status' = Observe(status, "public", TRUE) /\ UNCHANGED view
  /\ UNCHANGED <<server, tab, stored>>

(* The session's time is up, for the server and for whoever looks at it.   *)
Lapse ==
  LET Lapsed(token) == IF token = "live" THEN "lapsed" ELSE token IN
  /\ stored = "live" \/ tab.token = "live"
  /\ Loses
  /\ stored' = Lapsed(stored)
  /\ tab' = [tab EXCEPT !.token = Lapsed(@)]
  /\ view' = [view EXCEPT !.sent = Lapsed(@)]
  /\ UNCHANGED <<server, status>>

-----------------------------------------------------------------------------
(* Codes.                                                                  *)

Busy(v) == visit[v].step # "none"

(* A request that begins beside a set-up, or a set-up beside a request.    *)
Send(v, kind, code) ==
  /\ ~Busy(v)
  /\ Uses("visits", MaxVisits)
  /\ visit' = [visit EXCEPT ![v] = [NoVisit EXCEPT !.step = "read", !.kind = kind,
                                                   !.code = code]]
  /\ crossed' = (crossed \/ \E u \in Visits : /\ Busy(u)
                                              /\ "setup" \in {kind, visit[u].kind})
  /\ UNCHANGED <<share, chosen, wrong>>

Card(page) ==
  /\ tab.page = page /\ ~tab.entered
  /\ status.data # None /\ ~Failed(status) /\ ~Misplaced

(* SetupCard and VerifyCard; the two codes of a set-up agree.              *)
Submit(kind, code) ==
  /\ Card(IF kind = "setup" THEN "setup" ELSE "login")
  /\ ~tab.awaits
  /\ Send(Tab, kind, code)
  /\ tab' = [tab EXCEPT !.awaits = TRUE]
  /\ UNCHANGED <<stored, status, view>>

SubmitElsewhere(v, kind, code) ==
  /\ v # Tab
  /\ Send(v, kind, code)
  /\ UNCHANGED browser

(* The request ends.  With a token the browser stores it and goes to the   *)
(* key, from whatever page it is on by then.                               *)
Ends(v, token) ==
  /\ visit' = [visit EXCEPT ![v] = NoVisit]
  /\ IF v # Tab \/ ~tab.awaits THEN UNCHANGED browser
     ELSE IF token
     THEN \E aged \in BOOLEAN :
            Enter("keys-status", "live", [tab EXCEPT !.awaits = FALSE], status, view, aged)
     ELSE tab' = [tab EXCEPT !.awaits = FALSE] /\ UNCHANGED <<stored, status, view>>

GoesOn(v, step) ==
  /\ visit' = [visit EXCEPT ![v].step = step]
  /\ UNCHANGED browser

(* Faulty variant: a link that has a passcode can be set up again.         *)
ReadShareUnchecked(v) ==
  LET q == visit[v] IN
  /\ q.step = "read"
  /\ IF \/ ~share.exists
        \/ q.kind = "verify" /\ (share.passcode = None \/ share.locked)
     THEN Ends(v, FALSE)
     ELSE /\ visit' = [visit EXCEPT ![v] = [q EXCEPT !.step = q.kind, !.read = share.passcode,
                                                     !.legacy = share.legacy]]
          /\ UNCHANGED browser
  /\ UNCHANGED <<share, chosen, crossed, wrong, count>>

(* GetShareBySlug, and what turns the request down at once.                *)
ReadShare(v) ==
  LET q == visit[v] IN
  /\ q.step = "read"
  /\ IF \/ ~share.exists
        \/ q.kind = "setup" /\ share.passcode # None
        \/ q.kind = "verify" /\ (share.passcode = None \/ share.locked)
     THEN Ends(v, FALSE)
     ELSE /\ visit' = [visit EXCEPT ![v] = [q EXCEPT !.step = q.kind, !.read = share.passcode,
                                                     !.legacy = share.legacy]]
          /\ UNCHANGED browser
  /\ UNCHANGED <<share, chosen, crossed, wrong, count>>

SetSharePasscode(v) ==
  /\ visit[v].step = "setup"
  /\ share' = IF ~share.exists THEN share
              ELSE [share EXCEPT !.passcode = visit[v].code, !.legacy = FALSE,
                                 !.attempts = 0, !.locked = FALSE]
  /\ chosen' = IF share.exists /\ chosen = None THEN visit[v].code ELSE chosen
  /\ wrong' = 0
  /\ Ends(v, TRUE)
  /\ UNCHANGED <<crossed, count>>

(* Faulty variant: the lock is set one wrong code late.                    *)
RecordShareFailureLate(v) ==
  /\ visit[v].step = "verify" /\ visit[v].code # visit[v].read
  /\ share' = IF ~share.exists THEN share
              ELSE [share EXCEPT !.attempts = @ + 1,
                                 !.locked = @ \/ share.attempts + 1 > ShareMaxAttempts]
  /\ wrong' = wrong + 1
  /\ Ends(v, FALSE)
  /\ UNCHANGED <<chosen, crossed, count>>

(* A wrong code, and its count in one statement.                           *)
RecordShareFailure(v) ==
  /\ visit[v].step = "verify" /\ visit[v].code # visit[v].read
  /\ share' = IF ~share.exists THEN share
              ELSE [share EXCEPT !.attempts = @ + 1,
                                 !.locked = @ \/ share.attempts + 1 >= ShareMaxAttempts]
  /\ wrong' = wrong + 1
  /\ Ends(v, FALSE)
  /\ UNCHANGED <<chosen, crossed, count>>

ResetShareFailures(v) ==
  /\ visit[v].step = "verify" /\ visit[v].code = visit[v].read
  /\ share' = [share EXCEPT !.attempts = 0, !.locked = FALSE]
  /\ wrong' = 0
  /\ IF visit[v].legacy THEN GoesOn(v, "rehash") ELSE Ends(v, TRUE)
  /\ UNCHANGED <<chosen, crossed, count>>

UpdateSharePasscodeHash(v) ==
  /\ visit[v].step = "rehash"
  /\ share' = IF ~share.exists THEN share
              ELSE [share EXCEPT !.passcode = visit[v].code, !.legacy = FALSE]
  /\ Ends(v, TRUE)
  /\ UNCHANGED <<chosen, crossed, wrong, count>>

(* A statement fails: the request with it, but for a count or a rehash,    *)
(* whose errors are only logged.  Then a wrong code is not counted.        *)
FailVisit(v) ==
  LET q == visit[v] IN
  /\ Busy(v)
  /\ Loses
  /\ wrong' = IF q.step = "verify" /\ q.code # q.read THEN wrong + 1 ELSE wrong
  /\ Ends(v, q.step = "rehash")
  /\ UNCHANGED <<share, chosen, crossed>>

(* The answer does not come; the server goes on.                           *)
LoseAnswer ==
  /\ tab.awaits
  /\ Loses
  /\ tab' = [tab EXCEPT !.awaits = FALSE]
  /\ UNCHANGED <<server, stored, status, view>>

(* The lock's time is up: one more wrong code locks again.                 *)
Unlock ==
  /\ share.locked
  /\ Loses
  /\ share' = [share EXCEPT !.locked = FALSE]
  /\ wrong' = ShareMaxAttempts - 1
  /\ UNCHANGED <<visit, chosen, crossed, browser>>

-----------------------------------------------------------------------------
(* The admin.                                                              *)

(* Faulty variant: only the lock goes.                                     *)
ResetSharePasscodeNot ==
  /\ share.exists
  /\ Upsets("resets")
  /\ share' = [share EXCEPT !.attempts = 0, !.locked = FALSE]
  /\ chosen' = None
  /\ wrong' = 0
  /\ crossed' = (crossed \/ \E v \in Visits : Busy(v))
  /\ UNCHANGED <<visit, browser>>

ResetSharePasscode ==
  /\ share.exists
  /\ Upsets("resets")
  /\ share' = [share EXCEPT !.passcode = None, !.legacy = FALSE, !.attempts = 0,
                            !.locked = FALSE]
  /\ chosen' = None
  /\ wrong' = 0
  /\ crossed' = (crossed \/ \E v \in Visits : Busy(v))
  /\ UNCHANGED <<visit, browser>>

(* The holder is removed, and the link with them.                          *)
RemoveHolder ==
  /\ share.exists
  /\ Upsets("resets")
  /\ share' = [share EXCEPT !.exists = FALSE]
  /\ UNCHANGED <<visit, chosen, crossed, wrong, browser>>

-----------------------------------------------------------------------------
Effect(aged) ==
  \/ DropRejectedToken(aged)
  \/ GoToPasscode(aged)
  \/ SkipSignedIn(aged)
  \/ CorrectPage(aged)

Page ==
  \/ \E page \in {"keys-status", "login", "setup"} : LoadPage(page)
  \/ \E aged \in BOOLEAN : Effect(aged)
  \/ \E lost \in BOOLEAN : AnswerStatus(lost) \/ AnswerView(lost)
  \/ Reconnect
  \/ Lapse
  \/ LoseAnswer

ShareNext ==
  \/ Page
  \/ \E kind \in {"setup", "verify"}, code \in Passcodes :
       \/ Submit(kind, code)
       \/ \E v \in Visits : SubmitElsewhere(v, kind, code)
  \/ \E v \in Visits :
       \/ ReadShare(v)
       \/ SetSharePasscode(v)
       \/ RecordShareFailure(v)
       \/ ResetShareFailures(v)
       \/ UpdateSharePasscodeHash(v)
       \/ FailVisit(v)
  \/ Unlock
  \/ ResetSharePasscode
  \/ RemoveHolder
=============================================================================

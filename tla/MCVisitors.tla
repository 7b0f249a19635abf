----------------------------- MODULE MCVisitors -----------------------------
(* The share link or the admin's codes, and what each promises. *)
EXTENDS ShareLink, AdminCodes

VARIABLE about  \* which of the two a behaviour is about

vars == <<about, shareVars, codesVars>>

Init ==
  /\ about \in {"share", "codes"}
  /\ ShareInit
  /\ CodesInit

OfShare(action) == about = "share" /\ action /\ UNCHANGED <<about, codesVars>>
OfCodes(action) == about = "codes" /\ action /\ UNCHANGED <<about, shareVars>>

Next == OfShare(ShareNext) \/ OfCodes(CodesNext)

(* React runs the effects of a page, and a query is answered or times out. *)
Spec ==
  /\ Init
  /\ [][Next]_vars
  /\ WF_vars(OfShare(\E aged \in BOOLEAN : Effect(aged)))
  /\ WF_vars(OfShare(AnswerStatus(FALSE)))
  /\ WF_vars(OfShare(AnswerView(FALSE)))

TypeOK ==
  /\ share.passcode \in Passcodes \cup {None}
  /\ share.attempts \in 0 .. MaxVisits
  /\ tab.page \in {"away", "keys-status", "login", "setup"}
  /\ {tab.token, stored} \subseteq {"none", "live", "lapsed"}
  /\ status.data \in {None, "set", "unset"} /\ view.data \in {None, "key"}
  /\ \A v \in Visits : visit[v].step \in {"none", "read", "setup", "verify", "rehash"}
  /\ \A i \in DOMAIN otps : otps[i].attempts <= guesses[i]
  /\ mailed \cup inbox \subseteq DOMAIN otps
  /\ tab.token = "live" => stored = "live"

(* "Locks out after cfg.ShareMaxAttempts wrong codes", and an emailed code *)
(* after OTPMaxAttempts: beyond that only what was being compared already  *)
(* and what could not be counted is tried.                                 *)
AttemptsAreBounded ==
  /\ wrong <= ShareMaxAttempts + Cardinality(Visits) - 1 + count.lost
  /\ \A i \in DOMAIN otps :
       guesses[i] <= OTPMaxAttempts + Cardinality(Logins) - 1 + failures

(* The passcode in force is the one its holder chose on the first visit    *)
(* after the link was made or reset ("Only reachable once per link"), as   *)
(* long as no set-up and no reset overlapped another request.              *)
PasscodeIsTheOneChosen == ~crossed => share.passcode = chosen

(* An emailed code that opened a session is never the one a new request is *)
(* compared with, whatever codes were made or used up since: all that can  *)
(* still open a session with it are the requests that hold it already, and *)
(* with those it never opens more than were handled at the same time.      *)
CodeSignsInOnce ==
  \A i \in DOMAIN otps :
    LET holding ==
          {l \in Logins : login[l].step \in {"compare", "admin"} /\ login[l].read = i} IN
    signedIn[i] > 0 => /\ i \notin LatestOTP
                       /\ signedIn[i] + Cardinality(holding) <= Cardinality(Logins)

ShowsKey ==
  tab.page = "keys-status" /\ tab.token # "none" /\ view.data # None /\ ~Failed(view)
ShowsError ==
  /\ Failed(status) /\ ~Misplaced /\ ~tab.entered
  /\ tab.page = "keys-status" => tab.token = "none" /\ status.data = None

(* The pages of a link come to rest - on the key, on the passcode, or on   *)
(* an error - whatever the session and the passcode became: "falls back to *)
(* the passcode screen rather than getting stuck".                         *)
PagesComeToRest ==
  []<>(tab.page = "away" \/ ShowsKey \/ ShowsError \/ Card(tab.page))
=============================================================================

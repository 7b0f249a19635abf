------------------------------ MODULE AdminCodes ------------------------------
(***************************************************************************)
(* The codes an admin signs in with: one is made and emailed on request,   *)
(* at most one per cooldown; the newest that is not consumed counts; it is *)
(* tried a few times, consumed by the try that matches, and expires.       *)
(* Requests overlap, emails are lost or arrive late, and the admin may be  *)
(* suspended in the middle.                                                *)
(***************************************************************************)
EXTENDS Naturals, Sequences, FiniteSets

CONSTANTS
  OTPMaxAttempts, \* wrong tries of one code
  Logins,         \* requests handled at the same time
  MaxCodes,       \* bounds: codes made,
  MaxTries,       \* codes typed in,
  MaxFailures     \* statements that fail

ASSUME CodesAssumption ==
  /\ OTPMaxAttempts \in Nat \ {0}
  /\ IsFiniteSet(Logins)
  /\ {MaxCodes, MaxTries, MaxFailures} \subseteq Nat

VARIABLES
  otps,      \* the codes, oldest first: attempts, consumed, expired
  cooling,   \* the newest code is younger than the cooldown
  mailed,    \* the codes on their way to the admin
  inbox,     \* the codes that have arrived
  login,     \* login[l]: the request in slot l
  suspended, \* the admin's status
  signedIn,  \* history: signedIn[i]: sessions that code i opened
  guesses,   \* history: guesses[i]: wrong codes that code i turned down
  tries, failures

codesVars == <<otps, cooling, mailed, inbox, login, suspended, signedIn, guesses,
               tries, failures>>

NoLogin == [step |-> "none", typed |-> 0, read |-> 0]
Working(l) == login[l].step # "none"
NewCode == [attempts |-> 0, consumed |-> FALSE, expired |-> FALSE]
Wrong == 0   \* typed, and no code that was ever made

CodesInit ==
  /\ otps = <<>>
  /\ cooling = FALSE
  /\ mailed = {} /\ inbox = {}
  /\ login = [l \in Logins |-> NoLogin]
  /\ suspended = FALSE
  /\ signedIn = [i \in 1 .. MaxCodes |-> 0]
  /\ guesses = [i \in 1 .. MaxCodes |-> 0]
  /\ tries = 0 /\ failures = 0

(* The newest code that is not consumed, if there is one.                  *)
LatestOTP ==
  LET open == {i \in DOMAIN otps : ~otps[i].consumed} IN
  {i \in open : \A j \in open : j <= i}

LoginEnds(l) == login' = [login EXCEPT ![l] = NoLogin]

-----------------------------------------------------------------------------
(* requestOTP: the admin and the cooldown are looked at, then a code is    *)
(* made.  A code that was consumed does not cool anything down, nor does   *)
(* one that cannot be read.                                                *)
RequestOTP(l) ==
  /\ ~Working(l)
  /\ ~suspended
  /\ Len(otps) < MaxCodes
  /\ \/ /\ Len(otps) \in LatestOTP => ~cooling
        /\ UNCHANGED failures
     \/ /\ failures < MaxFailures
        /\ failures' = failures + 1
  /\ login' = [login EXCEPT ![l].step = "create"]
  /\ UNCHANGED <<otps, cooling, mailed, inbox, suspended, signedIn, guesses, tries>>

CreateOTP(l) ==
  /\ login[l].step = "create"
  /\ Len(otps) < MaxCodes
  /\ otps' = Append(otps, NewCode)
  /\ cooling' = TRUE
  /\ mailed' = mailed \cup {Len(otps) + 1}
  /\ LoginEnds(l)
  /\ UNCHANGED <<inbox, suspended, signedIn, guesses, tries, failures>>

(* The emails arrive in any order, or never.                               *)
SendOTPEmail(i) ==
  /\ i \in mailed
  /\ mailed' = mailed \ {i}
  /\ inbox' = inbox \cup {i}
  /\ UNCHANGED <<otps, cooling, login, suspended, signedIn, guesses, tries, failures>>

-----------------------------------------------------------------------------
(* verifyOTP: what it reads, and what turns the try down at once.          *)
VerifyOTP(l, typed) ==
  /\ ~Working(l)
  /\ typed \in inbox \cup {Wrong}
  /\ tries < MaxTries
  /\ tries' = tries + 1
  /\ \E i \in LatestOTP :
       /\ ~otps[i].expired
       /\ otps[i].attempts < OTPMaxAttempts
       /\ login' = [login EXCEPT ![l] = [step |-> "compare", typed |-> typed, read |-> i]]
  /\ UNCHANGED <<otps, cooling, mailed, inbox, suspended, signedIn, guesses, failures>>

(* Faulty variant: the count that was read goes up, not the one stored.    *)
IncrementOTPAttemptsOnce(l) ==
  LET i == login[l].read IN
  /\ login[l].step = "compare" /\ login[l].typed # i
  /\ otps' = [otps EXCEPT ![i].attempts = IF @ = 0 THEN 1 ELSE @]
  /\ guesses' = [guesses EXCEPT ![i] = @ + 1]
  /\ LoginEnds(l)
  /\ UNCHANGED <<cooling, mailed, inbox, suspended, signedIn, tries, failures>>

IncrementOTPAttempts(l) ==
  LET i == login[l].read IN
  /\ login[l].step = "compare" /\ login[l].typed # i
  /\ otps' = [otps EXCEPT ![i].attempts = @ + 1]
  /\ guesses' = [guesses EXCEPT ![i] = @ + 1]
  /\ LoginEnds(l)
  /\ UNCHANGED <<cooling, mailed, inbox, suspended, signedIn, tries, failures>>

(* Faulty variant: the code stays open.                                    *)
ConsumeOTPNot(l) ==
  /\ login[l].step = "compare" /\ login[l].typed = login[l].read
  /\ login' = [login EXCEPT ![l].step = "admin"]
  /\ UNCHANGED <<otps, cooling, mailed, inbox, suspended, signedIn, guesses, tries, failures>>

ConsumeOTP(l) ==
  /\ login[l].step = "compare" /\ login[l].typed = login[l].read
  /\ otps' = [otps EXCEPT ![login[l].read].consumed = TRUE]
  /\ login' = [login EXCEPT ![l].step = "admin"]
  /\ UNCHANGED <<cooling, mailed, inbox, suspended, signedIn, guesses, tries, failures>>

(* GetAdminByEmail: a suspended admin is turned away, the code gone.       *)
GetAdminByEmail(l) ==
  LET i == login[l].read IN
  /\ login[l].step = "admin"
  /\ signedIn' = IF suspended THEN signedIn ELSE [signedIn EXCEPT ![i] = @ + 1]
  /\ LoginEnds(l)
  /\ UNCHANGED <<otps, cooling, mailed, inbox, suspended, guesses, tries, failures>>

(* A statement fails.  An attempt that cannot be counted is not.           *)
FailLogin(l) ==
  LET i == login[l].read IN
  /\ Working(l)
  /\ failures < MaxFailures
  /\ failures' = failures + 1
  /\ guesses' = IF login[l].step = "compare" /\ login[l].typed # i
                THEN [guesses EXCEPT ![i] = @ + 1] ELSE guesses
  /\ LoginEnds(l)
  /\ UNCHANGED <<otps, cooling, mailed, inbox, suspended, signedIn, tries>>

-----------------------------------------------------------------------------
CoolDown ==
  /\ cooling
  /\ cooling' = FALSE
  /\ UNCHANGED <<otps, mailed, inbox, login, suspended, signedIn, guesses, tries, failures>>

(* Older codes expire first.                                               *)
Expire(i) ==
  /\ i \in DOMAIN otps
  /\ ~otps[i].expired
  /\ \A j \in 1 .. i - 1 : otps[j].expired
  /\ otps' = [otps EXCEPT ![i].expired = TRUE]
  /\ UNCHANGED <<cooling, mailed, inbox, login, suspended, signedIn, guesses, tries, failures>>

Suspend ==
  /\ suspended' = ~suspended
  /\ UNCHANGED <<otps, cooling, mailed, inbox, login, signedIn, guesses, tries, failures>>

CodesNext ==
  \/ \E l \in Logins :
       \/ RequestOTP(l)
       \/ CreateOTP(l)
       \/ \E typed \in 0 .. MaxCodes : VerifyOTP(l, typed)
       \/ IncrementOTPAttempts(l)
       \/ ConsumeOTP(l)
       \/ GetAdminByEmail(l)
       \/ FailLogin(l)
  \/ \E i \in 1 .. MaxCodes : SendOTPEmail(i) \/ Expire(i)
  \/ CoolDown
  \/ Suspend
=============================================================================

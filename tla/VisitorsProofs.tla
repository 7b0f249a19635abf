---------------------------- MODULE VisitorsProofs ----------------------------
(***************************************************************************)
(* Proofs about MCVisitors: for any number of requests handled at the same *)
(* time and any number of failures, the tries of a passcode and of an      *)
(* admin's code are bounded, a code signs in once, and the passcode in     *)
(* force is the one that was chosen.                                       *)
(*                                                                         *)
(* What makes the bounds hold is that a request is let in only while there *)
(* are tries left, and that a request let in is one of a finite number of  *)
(* slots: both invariants count the slots that are still comparing.        *)
(***************************************************************************)
EXTENDS MCVisitors, FiniteSetTheorems, TLAPS

-----------------------------------------------------------------------------
(* Counting slots. *)

\* A set of slots has a size, and at most that of all of them.
LEMMA SlotsBounded ==
  ASSUME NEW S, IsFiniteSet(S), NEW T, T \subseteq S
  PROVE  /\ IsFiniteSet(T)
         /\ Cardinality(T) \in Nat /\ Cardinality(S) \in Nat
         /\ Cardinality(T) <= Cardinality(S)
<1>1. T \in SUBSET S OBVIOUS
<1> QED BY <1>1, FS_Subset, FS_CardinalityType

\* A slot that leaves makes the set smaller by one.
LEMMA SlotLeaves ==
  ASSUME NEW S, IsFiniteSet(S), NEW T, T \subseteq S, NEW x \in T
  PROVE  Cardinality(T \ {x}) = Cardinality(T) - 1
BY SlotsBounded, FS_RemoveElement

-----------------------------------------------------------------------------
(* The share link. *)

Requests == [step : {"none", "read", "setup", "verify", "rehash"},
             kind : {"setup", "verify"}, code : Passcodes \cup {None},
             read : Passcodes \cup {None}, legacy : BOOLEAN]
Counts == [{"visits", "loads", "resets", "lost"} -> Nat]
Links == [exists : BOOLEAN, passcode : Passcodes \cup {None}, legacy : BOOLEAN,
          attempts : Nat, locked : BOOLEAN]

ShareTyped ==
  /\ share \in Links
  /\ visit \in [Visits -> Requests]
  /\ count \in Counts
  /\ wrong \in Nat

\* The slots that will turn a code down.
Guessing == {v \in Visits : visit[v].step = "verify" /\ visit[v].code # visit[v].read}

\* Each wrong code was counted or is one of the losses; a link is locked for a
\* reason; one that lets requests in has tries left; and those that were let in
\* while it had are never more than there are slots.
TriesLeft ==
  /\ share.exists => wrong <= share.attempts + count["lost"]
  /\ share.locked => share.attempts >= ShareMaxAttempts
  /\ share.exists /\ ~share.locked => wrong <= ShareMaxAttempts - 1 + count["lost"]
  /\ wrong + Cardinality(Guessing)
       <= ShareMaxAttempts - 1 + count["lost"] + Cardinality(Visits)

ShareInv == ShareTyped /\ TriesLeft

LEMMA ShareInvInit == ShareInit => ShareInv
<1> SUFFICES ASSUME ShareInit PROVE ShareInv OBVIOUS
<1>1. ShareTyped
  <2>1. PICK p \in {None, CHOOSE c \in Passcodes : TRUE}, legacy \in BOOLEAN :
          /\ legacy => p # None
          /\ share = [exists |-> TRUE, passcode |-> p, legacy |-> legacy,
                      attempts |-> 0, locked |-> FALSE]
    BY DEF ShareInit
  <2>2. (CHOOSE c \in Passcodes : TRUE) \in Passcodes BY ShareAssumption
  <2>3. share \in Links BY <2>1, <2>2 DEF Links
  <2>4. NoVisit \in Requests BY DEF NoVisit, Requests
  <2>5. visit \in [Visits -> Requests] BY <2>4 DEF ShareInit
  <2>6. count \in Counts /\ wrong \in Nat BY DEF ShareInit, Counts
  <2> QED BY <2>3, <2>5, <2>6 DEF ShareTyped
<1>2. /\ count["lost"] = 0 /\ wrong = 0 /\ share.attempts = 0 /\ share.locked = FALSE
      /\ share.exists = TRUE
  BY DEF ShareInit
<1>3. Guessing = {} BY DEF ShareInit, Guessing, NoVisit
<1>4. Cardinality(Guessing) = 0 BY <1>3, FS_EmptySet
<1>5. Cardinality(Visits) \in Nat BY ShareAssumption, FS_CardinalityType
<1> QED BY <1>1, <1>2, <1>4, <1>5, ShareAssumption DEF ShareInv, TriesLeft

\* A request that the link's bounds allow uses one of them up.
LEMMA UsesCounts ==
  ASSUME count \in Counts, NEW what \in {"visits", "loads", "resets", "lost"}, NEW bound,
         Uses(what, bound)
  PROVE  /\ count' \in Counts
         /\ count'["lost"] >= count["lost"]
         /\ what = "lost" => count'["lost"] = count["lost"] + 1
BY DEF Uses, Counts

\* How many slots are guessing, and that there is one at least.
LEMMA GuessingCount ==
  ASSUME ShareTyped
  PROVE  /\ IsFiniteSet(Guessing)
         /\ Cardinality(Guessing) \in Nat /\ Cardinality(Visits) \in Nat
         /\ Cardinality(Guessing) <= Cardinality(Visits)
BY ShareAssumption, SlotsBounded DEF Guessing

\* A slot that goes on to anything but a comparison is not guessing any more.
LEMMA SlotMoves ==
  ASSUME ShareTyped, NEW v \in Visits, NEW q \in Requests, q.step # "verify",
         visit' = [visit EXCEPT ![v] = q]
  PROVE  /\ visit' \in [Visits -> Requests]
         /\ Guessing' = Guessing \ {v}
         /\ v \notin Guessing => Guessing' = Guessing
         /\ v \in Guessing => Cardinality(Guessing') = Cardinality(Guessing) - 1
         /\ Cardinality(Guessing') <= Cardinality(Guessing)
<1>1. visit' \in [Visits -> Requests] BY DEF ShareTyped
<1>2. Guessing' = Guessing \ {v} BY DEF ShareTyped, Guessing
<1>3. v \notin Guessing => Guessing' = Guessing BY <1>2
<1>4. Guessing \subseteq Visits BY DEF Guessing
<1>5. v \in Guessing => Cardinality(Guessing') = Cardinality(Guessing) - 1
  BY <1>2, <1>4, SlotLeaves, ShareAssumption
<1>6. Cardinality(Guessing) \in Nat BY GuessingCount
<1>7. Cardinality(Guessing') <= Cardinality(Guessing)
  <2>1. CASE v \in Guessing BY <1>5, <1>6, <2>1
  <2>2. CASE v \notin Guessing
    <3>1. Cardinality(Guessing') = Cardinality(Guessing) BY <1>3, <2>2
    <3> QED BY <1>6, <3>1
  <2> QED BY <2>1, <2>2
<1> QED BY <1>1, <1>2, <1>3, <1>5, <1>7

LEMMA Numbers ==
  ASSUME ShareInv
  PROVE  /\ count["lost"] \in Nat /\ wrong \in Nat /\ share.attempts \in Nat
         /\ Cardinality(Guessing) \in Nat /\ Cardinality(Visits) \in Nat
         /\ Cardinality(Guessing) <= Cardinality(Visits)
         /\ ShareMaxAttempts \in Nat /\ ShareMaxAttempts >= 1
         /\ share.exists \in BOOLEAN /\ share.locked \in BOOLEAN
<1>1. count["lost"] \in Nat /\ wrong \in Nat /\ share.attempts \in Nat
      /\ share.exists \in BOOLEAN /\ share.locked \in BOOLEAN
  BY DEF ShareInv, ShareTyped, Counts, Links
<1> QED BY <1>1, GuessingCount, ShareAssumption DEF ShareInv

\* Nothing happened on the server.
LEMMA ServerUntouched ==
  ASSUME ShareInv, UNCHANGED server, count' \in Counts, count'["lost"] >= count["lost"]
  PROVE  ShareInv'
<1>1. UNCHANGED <<share, visit, wrong>> BY DEF server
<1>2. Guessing' = Guessing BY <1>1 DEF Guessing
<1>3. ShareTyped' BY <1>1 DEF ShareInv, ShareTyped
<1>4. count'["lost"] \in Nat BY DEF Counts
<1>5. TriesLeft' BY <1>1, <1>2, <1>4, Numbers DEF ShareInv, TriesLeft
<1> QED BY <1>3, <1>5 DEF ShareInv

\* The pages only read and send.
LEMMA PageInv == ASSUME ShareInv, Page PROVE ShareInv'
<1>1. count \in Counts /\ count["lost"] \in Nat BY DEF ShareInv, ShareTyped, Counts
<1>2. UNCHANGED count => count' \in Counts /\ count'["lost"] >= count["lost"] BY <1>1
<1>3. Loses => count' \in Counts /\ count'["lost"] >= count["lost"]
  BY <1>1, UsesCounts DEF Loses, Upsets
<1>4. ASSUME NEW page, LoadPage(page) PROVE ShareInv'
  <2>1. Uses("loads", MaxLoads) /\ UNCHANGED server BY <1>4 DEF LoadPage
  <2> QED BY <1>1, <2>1, UsesCounts, ServerUntouched
<1>5. ASSUME NEW aged, Effect(aged) PROVE ShareInv'
  <2>1. UNCHANGED server /\ UNCHANGED count
    BY <1>5 DEF Effect, DropRejectedToken, GoToPasscode, SkipSignedIn, CorrectPage
  <2> QED BY <1>2, <2>1, ServerUntouched
<1>6. ASSUME NEW lost \in BOOLEAN, AnswerStatus(lost) \/ AnswerView(lost) PROVE ShareInv'
  <2>1. UNCHANGED server /\ (Loses \/ UNCHANGED count)
    BY <1>6 DEF AnswerStatus, AnswerView
  <2> QED BY <1>2, <1>3, <2>1, ServerUntouched
<1>7. ASSUME Reconnect \/ Lapse \/ LoseAnswer PROVE ShareInv'
  <2>1. UNCHANGED server /\ Loses BY <1>7 DEF Reconnect, Lapse, LoseAnswer
  <2> QED BY <1>3, <2>1, ServerUntouched
<1> QED BY <1>4, <1>5, <1>6, <1>7 DEF Page

\* A request that begins compares nothing yet.
LEMMA SendInv ==
  ASSUME ShareInv, NEW v \in Visits, NEW kind \in {"setup", "verify"},
         NEW code \in Passcodes, Send(v, kind, code)
  PROVE  ShareInv'
<1>1. UNCHANGED <<share, wrong>> BY DEF Send
<1> DEFINE q == [NoVisit EXCEPT !.step = "read", !.kind = kind, !.code = code]
<1>2. q \in Requests /\ q.step = "read" BY DEF NoVisit, Requests
<1>3. visit' = [visit EXCEPT ![v] = q] BY DEF Send
<1> HIDE DEF q
<1>4. visit' \in [Visits -> Requests] /\ Cardinality(Guessing') <= Cardinality(Guessing)
  BY <1>2, <1>3, SlotMoves DEF ShareInv
<1>5. count' \in Counts /\ count'["lost"] >= count["lost"]
  BY UsesCounts DEF Send, ShareInv, ShareTyped
<1>6. Cardinality(Guessing') \in Nat /\ count'["lost"] \in Nat
  BY <1>4, <1>5, SlotsBounded, ShareAssumption DEF Guessing, Counts
<1>7. ShareTyped' BY <1>1, <1>4, <1>5 DEF ShareInv, ShareTyped
<1>8. TriesLeft' BY <1>1, <1>4, <1>5, <1>6, Numbers DEF ShareInv, TriesLeft
<1> QED BY <1>7, <1>8 DEF ShareInv

\* A request ends in an empty slot.
LEMMA SlotEnds ==
  ASSUME ShareTyped, NEW v \in Visits, NEW token, Ends(v, token)
  PROVE  /\ visit' \in [Visits -> Requests]
         /\ v \notin Guessing => Guessing' = Guessing
         /\ v \in Guessing => Cardinality(Guessing') = Cardinality(Guessing) - 1
         /\ Cardinality(Guessing') <= Cardinality(Guessing)
         /\ Cardinality(Guessing') \in Nat
<1>1. NoVisit \in Requests /\ NoVisit.step # "verify" BY DEF NoVisit, Requests
<1>2. visit' = [visit EXCEPT ![v] = NoVisit] BY DEF Ends
<1>3. Cardinality(Guessing') \in Nat BY SlotsBounded, ShareAssumption DEF Guessing
<1> QED BY <1>1, <1>2, <1>3, SlotMoves

\* Letting a request in is where the tries left are looked at.
LEMMA ReadShareInv == ASSUME ShareInv, NEW v \in Visits, ReadShare(v) PROVE ShareInv'
<1> USE DEF ShareInv
<1> DEFINE q == visit[v]
           entered == [q EXCEPT !.step = q.kind, !.read = share.passcode,
                                !.legacy = share.legacy]
<1>1. UNCHANGED <<share, wrong, count>> BY DEF ReadShare
<1>2. ASSUME Ends(v, FALSE) PROVE ShareInv'
  <2>1. ShareTyped' BY <1>1, <1>2, SlotEnds DEF ShareTyped
  <2>2. Cardinality(Guessing') \in Nat /\ Cardinality(Guessing') <= Cardinality(Guessing)
    BY <1>2, SlotEnds
  <2>3. TriesLeft' BY <1>1, <2>2, Numbers DEF TriesLeft
  <2> QED BY <2>1, <2>3
<1>3. ASSUME visit' = [visit EXCEPT ![v] = entered], share.exists,
             q.kind = "verify" => ~share.locked
      PROVE  ShareInv'
  <2>1. q \in Requests /\ q.kind \in {"setup", "verify"} BY DEF ShareTyped, Requests
  <2>2. entered \in Requests /\ entered.step = q.kind
    BY <2>1 DEF ShareTyped, Requests, Links
  <2> HIDE DEF entered
  <2>3. visit' \in [Visits -> Requests] BY <1>3, <2>2 DEF ShareTyped
  <2>4. ShareTyped' BY <1>1, <2>3 DEF ShareTyped
  <2>5. CASE q.kind = "setup"
    <3>1. Cardinality(Guessing') <= Cardinality(Guessing)
      BY <1>3, <2>2, <2>5, SlotMoves
    <3>2. Cardinality(Guessing') \in Nat
      BY <2>3, SlotsBounded, ShareAssumption DEF Guessing
    <3>3. TriesLeft' BY <1>1, <3>1, <3>2, Numbers DEF TriesLeft
    <3> QED BY <2>4, <3>3
  <2>6. CASE q.kind = "verify"
    <3>1. wrong <= ShareMaxAttempts - 1 + count["lost"] BY <1>3, <2>6 DEF TriesLeft
    <3>2. Cardinality(Guessing') \in Nat /\ Cardinality(Guessing') <= Cardinality(Visits)
      BY <2>3, SlotsBounded, ShareAssumption DEF Guessing
    <3>3. TriesLeft' BY <1>1, <3>1, <3>2, Numbers DEF TriesLeft
    <3> QED BY <2>4, <3>3
  <2> QED BY <2>1, <2>5, <2>6
<1>4. \/ Ends(v, FALSE)
      \/ /\ visit' = [visit EXCEPT ![v] = entered] /\ share.exists
         /\ q.kind = "verify" => ~share.locked
  BY DEF ReadShare
<1> QED BY <1>2, <1>3, <1>4

\* A wrong code: one more is counted, one less is being compared.
LEMMA RecordShareFailureInv ==
  ASSUME ShareInv, NEW v \in Visits, RecordShareFailure(v) PROVE ShareInv'
<1> USE DEF ShareInv
<1>1. v \in Guessing BY DEF RecordShareFailure, Guessing
<1>2. /\ visit' \in [Visits -> Requests]
      /\ Cardinality(Guessing') = Cardinality(Guessing) - 1
      /\ Cardinality(Guessing') \in Nat
  BY <1>1, SlotEnds DEF RecordShareFailure
<1>3. wrong' = wrong + 1 /\ UNCHANGED count BY DEF RecordShareFailure
<1> DEFINE locks == share.locked \/ share.attempts + 1 >= ShareMaxAttempts
<1>4. /\ share' \in Links /\ share'.exists = share.exists
      /\ share.exists => /\ share'.attempts = share.attempts + 1
                         /\ share'.locked = locks
      /\ ~share.exists => share' = share
  <2>1. locks \in BOOLEAN BY Numbers
  <2>2. share' = IF ~share.exists THEN share
                 ELSE [share EXCEPT !.attempts = share.attempts + 1, !.locked = locks]
    BY DEF RecordShareFailure, ShareTyped, Links
  <2> HIDE DEF locks
  <2>3. share \in Links /\ share.attempts + 1 \in Nat BY Numbers DEF ShareTyped
  <2>4. CASE ~share.exists BY <2>2, <2>3, <2>4
  <2>5. CASE share.exists
    <3>1. share' = [share EXCEPT !.attempts = share.attempts + 1, !.locked = locks]
      BY <2>2, <2>5
    <3>2. share' \in Links BY <2>1, <2>3, <3>1 DEF Links
    <3>3. /\ share'.exists = share.exists /\ share'.attempts = share.attempts + 1
          /\ share'.locked = locks
      BY <2>3, <3>1 DEF Links
    <3> QED BY <2>5, <3>2, <3>3
  <2> QED BY <2>4, <2>5
<1>5. ShareTyped' BY <1>2, <1>3, <1>4, Numbers DEF ShareTyped
<1>6. TriesLeft' BY <1>2, <1>3, <1>4, Numbers DEF TriesLeft
<1> QED BY <1>5, <1>6

\* Where the count begins again, nothing is left of it.
LEMMA BeginsAgain ==
  ASSUME ShareInv, share' \in Links, ~share'.locked \/ share' = share,
         visit' \in [Visits -> Requests], Cardinality(Guessing') <= Cardinality(Guessing),
         wrong' = 0, count' \in Counts, count'["lost"] >= count["lost"]
  PROVE  ShareInv'
<1> USE DEF ShareInv
<1>1. Cardinality(Guessing') \in Nat BY SlotsBounded, ShareAssumption DEF Guessing
<1>2. share'.attempts \in Nat /\ count'["lost"] \in Nat BY DEF Links, Counts
<1>3. ShareTyped' BY DEF ShareTyped
<1>4. TriesLeft' BY <1>1, <1>2, Numbers DEF TriesLeft
<1> QED BY <1>3, <1>4

LEMMA SetSharePasscodeInv ==
  ASSUME ShareInv, NEW v \in Visits, SetSharePasscode(v) PROVE ShareInv'
<1>1. visit[v].code \in Passcodes \cup {None} BY DEF ShareInv, ShareTyped, Requests
<1>2. share' \in Links /\ (~share'.locked \/ share' = share)
  BY <1>1 DEF SetSharePasscode, ShareInv, ShareTyped, Links
<1>3. visit' \in [Visits -> Requests] /\ Cardinality(Guessing') <= Cardinality(Guessing)
  BY SlotEnds DEF SetSharePasscode, ShareInv
<1>4. wrong' = 0 /\ UNCHANGED count BY DEF SetSharePasscode
<1>5. count' \in Counts /\ count'["lost"] >= count["lost"]
  BY <1>4, Numbers DEF ShareInv, ShareTyped
<1> QED BY <1>2, <1>3, <1>4, <1>5, BeginsAgain

LEMMA ResetShareFailuresInv ==
  ASSUME ShareInv, NEW v \in Visits, ResetShareFailures(v) PROVE ShareInv'
<1>1. share' \in Links /\ ~share'.locked
  BY DEF ResetShareFailures, ShareInv, ShareTyped, Links
<1>2. ASSUME GoesOn(v, "rehash")
      PROVE  /\ visit' \in [Visits -> Requests]
             /\ Cardinality(Guessing') <= Cardinality(Guessing)
  <2> DEFINE q == [visit[v] EXCEPT !.step = "rehash"]
  <2>1. q \in Requests /\ q.step # "verify" BY DEF ShareInv, ShareTyped, Requests
  <2>2. visit' = [visit EXCEPT ![v] = q] BY <1>2 DEF GoesOn, ShareInv, ShareTyped
  <2> HIDE DEF q
  <2> QED BY <2>1, <2>2, SlotMoves DEF ShareInv
<1>3. visit' \in [Visits -> Requests] /\ Cardinality(Guessing') <= Cardinality(Guessing)
  BY <1>2, SlotEnds DEF ResetShareFailures, ShareInv
<1>4. wrong' = 0 /\ UNCHANGED count BY DEF ResetShareFailures
<1>5. count' \in Counts /\ count'["lost"] >= count["lost"]
  BY <1>4, Numbers DEF ShareInv, ShareTyped
<1> QED BY <1>1, <1>3, <1>4, <1>5, BeginsAgain

LEMMA UpdateSharePasscodeHashInv ==
  ASSUME ShareInv, NEW v \in Visits, UpdateSharePasscodeHash(v) PROVE ShareInv'
<1> USE DEF ShareInv
<1>1. visit[v].code \in Passcodes \cup {None} BY DEF ShareTyped, Requests
<1>2. /\ share' \in Links /\ share'.exists = share.exists /\ share'.locked = share.locked
      /\ share'.attempts = share.attempts
  BY <1>1 DEF UpdateSharePasscodeHash, ShareTyped, Links
<1>3. /\ visit' \in [Visits -> Requests] /\ Cardinality(Guessing') <= Cardinality(Guessing)
      /\ Cardinality(Guessing') \in Nat
  BY SlotEnds DEF UpdateSharePasscodeHash
<1>4. UNCHANGED <<wrong, count>> BY DEF UpdateSharePasscodeHash
<1>5. ShareTyped' BY <1>2, <1>3, <1>4 DEF ShareTyped
<1>6. TriesLeft' BY <1>2, <1>3, <1>4, Numbers DEF TriesLeft
<1> QED BY <1>5, <1>6

\* A wrong code whose count failed is one of the losses.
LEMMA FailVisitInv == ASSUME ShareInv, NEW v \in Visits, FailVisit(v) PROVE ShareInv'
<1> USE DEF ShareInv
<1>1. count' \in Counts /\ count'["lost"] = count["lost"] + 1
  BY UsesCounts DEF FailVisit, Loses, Upsets, ShareTyped
<1>2. UNCHANGED share BY DEF FailVisit
<1>3. PICK token : Ends(v, token) BY DEF FailVisit
<1>4. visit' \in [Visits -> Requests] /\ Cardinality(Guessing') \in Nat BY <1>3, SlotEnds
<1>5. CASE v \in Guessing
  <2>1. wrong' = wrong + 1 BY <1>5 DEF FailVisit, Guessing
  <2>2. Cardinality(Guessing') = Cardinality(Guessing) - 1 BY <1>3, <1>5, SlotEnds
  <2>3. ShareTyped' BY <1>1, <1>2, <1>4, <2>1, Numbers DEF ShareTyped
  <2>4. TriesLeft' BY <1>1, <1>2, <1>4, <2>1, <2>2, Numbers DEF TriesLeft
  <2> QED BY <2>3, <2>4
<1>6. CASE v \notin Guessing
  <2>1. wrong' = wrong BY <1>6 DEF FailVisit, Guessing
  <2>2. Cardinality(Guessing') <= Cardinality(Guessing) BY <1>3, SlotEnds
  <2>3. ShareTyped' BY <1>1, <1>2, <1>4, <2>1 DEF ShareTyped
  <2>4. TriesLeft' BY <1>1, <1>2, <1>4, <2>1, <2>2, Numbers DEF TriesLeft
  <2> QED BY <2>3, <2>4
<1> QED BY <1>5, <1>6

\* Unlocking leaves one try.
LEMMA UnlockInv == ASSUME ShareInv, Unlock PROVE ShareInv'
<1> USE DEF ShareInv
<1>1. count' \in Counts /\ count'["lost"] = count["lost"] + 1
  BY UsesCounts DEF Unlock, Loses, Upsets, ShareTyped
<1>2. UNCHANGED visit BY DEF Unlock
<1>3. Guessing' = Guessing BY <1>2 DEF Guessing
<1>4. /\ share' \in Links /\ ~share'.locked /\ share'.attempts = share.attempts
      /\ share.attempts >= ShareMaxAttempts
  BY DEF Unlock, ShareTyped, Links, TriesLeft
<1>5. wrong' = ShareMaxAttempts - 1 BY DEF Unlock
<1>6. ShareTyped' BY <1>1, <1>2, <1>4, <1>5, Numbers DEF ShareTyped
<1>7. TriesLeft' BY <1>1, <1>3, <1>4, <1>5, Numbers DEF TriesLeft
<1> QED BY <1>6, <1>7

LEMMA AdminInv == ASSUME ShareInv, ResetSharePasscode \/ RemoveHolder PROVE ShareInv'
<1> USE DEF ShareInv
<1>1. UNCHANGED visit BY DEF ResetSharePasscode, RemoveHolder, browser
<1>2. Guessing' = Guessing BY <1>1 DEF Guessing
<1>3. count' \in Counts /\ count'["lost"] >= count["lost"]
  BY UsesCounts DEF ResetSharePasscode, RemoveHolder, Upsets, ShareTyped
<1>4. visit' \in [Visits -> Requests] /\ Cardinality(Guessing') <= Cardinality(Guessing)
  BY <1>1, <1>2, Numbers DEF ShareTyped
<1>5. CASE ResetSharePasscode
  <2>1. share' \in Links /\ ~share'.locked /\ wrong' = 0
    BY <1>5 DEF ResetSharePasscode, ShareTyped, Links
  <2> QED BY <1>3, <1>4, <2>1, BeginsAgain
<1>6. CASE RemoveHolder
  <2>1. /\ share' \in Links /\ ~share'.exists /\ share'.locked = share.locked
        /\ share'.attempts = share.attempts /\ UNCHANGED wrong
    BY <1>6 DEF RemoveHolder, ShareTyped, Links
  <2>2. count'["lost"] \in Nat BY <1>3 DEF Counts
  <2>3. ShareTyped' BY <1>3, <1>4, <2>1 DEF ShareTyped
  <2>4. TriesLeft' BY <1>2, <1>3, <2>1, <2>2, Numbers DEF TriesLeft
  <2> QED BY <2>3, <2>4
<1> QED BY <1>5, <1>6

LEMMA ShareInvNext == ASSUME ShareInv, ShareNext PROVE ShareInv'
<1>1. CASE Page BY <1>1, PageInv
<1>2. ASSUME NEW kind \in {"setup", "verify"}, NEW code \in Passcodes,
             \/ Submit(kind, code)
             \/ \E v \in Visits : SubmitElsewhere(v, kind, code)
      PROVE  ShareInv'
  <2>1. \E v \in Visits : Send(v, kind, code)
    BY <1>2, ShareAssumption DEF Submit, SubmitElsewhere
  <2> QED BY <2>1, SendInv
<1>3. ASSUME NEW v \in Visits,
             \/ ReadShare(v) \/ SetSharePasscode(v) \/ RecordShareFailure(v)
             \/ ResetShareFailures(v) \/ UpdateSharePasscodeHash(v) \/ FailVisit(v)
      PROVE  ShareInv'
  BY <1>3, ReadShareInv, SetSharePasscodeInv, RecordShareFailureInv,
     ResetShareFailuresInv, UpdateSharePasscodeHashInv, FailVisitInv
<1>4. CASE Unlock BY <1>4, UnlockInv
<1>5. CASE ResetSharePasscode \/ RemoveHolder BY <1>5, AdminInv
<1> QED BY <1>1, <1>2, <1>3, <1>4, <1>5 DEF ShareNext

-----------------------------------------------------------------------------
(* The admin's codes. *)

Codes == [attempts : Nat, consumed : BOOLEAN, expired : BOOLEAN]
LoginStates == [step : {"none", "create", "compare", "admin"}, typed : Nat, read : Nat]

CodesTyped ==
  /\ otps \in Seq(Codes)
  /\ Len(otps) <= MaxCodes
  /\ mailed \subseteq Nat /\ inbox \subseteq Nat
  /\ login \in [Logins -> LoginStates]
  /\ \A l \in Logins : login[l].step \in {"compare", "admin"} => login[l].read \in DOMAIN otps
  /\ signedIn \in [1 .. MaxCodes -> Nat]
  /\ guesses \in [1 .. MaxCodes -> Nat]
  /\ failures \in Nat

\* The requests that will turn down a try of code i, and those that hold it.
Typing(i) ==
  {l \in Logins : login[l].step = "compare" /\ login[l].read = i /\ login[l].typed # i}
Holding(i) == {l \in Logins : login[l].step \in {"compare", "admin"} /\ login[l].read = i}

\* A code that was never made has no history.
Fresh == \A i \in 1 .. MaxCodes : i \notin DOMAIN otps => guesses[i] = 0 /\ signedIn[i] = 0

\* Each wrong try was counted or failed, and those let in while tries were
\* left are never more than there are slots.
TriesCounted(i) ==
  /\ guesses[i] <= otps[i].attempts + failures
  /\ otps[i].attempts + Cardinality(Typing(i)) <= OTPMaxAttempts - 1 + Cardinality(Logins)

\* A session is opened with a consumed code only, and then nobody new gets
\* hold of it: those who hold it are all who can still sign in with it.
UsedUp(i) ==
  /\ ~otps[i].consumed => /\ signedIn[i] = 0
                          /\ \A l \in Logins : login[l].step = "admin" => login[l].read # i
  /\ otps[i].consumed => signedIn[i] + Cardinality(Holding(i)) <= Cardinality(Logins)

CodesInv ==
  /\ CodesTyped
  /\ Fresh
  /\ \A i \in DOMAIN otps : TriesCounted(i) /\ UsedUp(i)

\* The numbers in it.
LEMMA CodeNumbers ==
  ASSUME CodesInv, NEW i \in DOMAIN otps
  PROVE  /\ i \in 1 .. MaxCodes /\ i \in Nat \ {0} /\ otps[i] \in Codes
         /\ otps[i].attempts \in Nat /\ otps[i].consumed \in BOOLEAN
         /\ guesses[i] \in Nat /\ signedIn[i] \in Nat /\ failures \in Nat
         /\ Cardinality(Logins) \in Nat /\ OTPMaxAttempts \in Nat /\ OTPMaxAttempts >= 1
<1>1. Len(otps) \in Nat /\ MaxCodes \in Nat /\ Len(otps) <= MaxCodes
      /\ DOMAIN otps = 1 .. Len(otps)
  BY CodesAssumption DEF CodesInv, CodesTyped
<1>2. i \in 1 .. MaxCodes /\ i \in Nat \ {0} BY <1>1
<1>3. otps[i] \in Codes BY <1>1 DEF CodesInv, CodesTyped
<1>4. otps[i].attempts \in Nat /\ otps[i].consumed \in BOOLEAN BY <1>3 DEF Codes
<1>5. guesses[i] \in Nat /\ signedIn[i] \in Nat /\ failures \in Nat
  BY <1>2 DEF CodesInv, CodesTyped
<1> QED BY <1>2, <1>3, <1>4, <1>5, CodesAssumption, FS_CardinalityType

\* Slots are counted, before and after a step.
LEMMA SlotCounts ==
  ASSUME NEW i
  PROVE  /\ Typing(i) \subseteq Logins /\ Typing(i)' \subseteq Logins
         /\ Holding(i) \subseteq Logins /\ Holding(i)' \subseteq Logins
         /\ Cardinality(Typing(i)) \in Nat /\ Cardinality(Typing(i)') \in Nat
         /\ Cardinality(Holding(i)) \in Nat /\ Cardinality(Holding(i)') \in Nat
         /\ Cardinality(Typing(i)') <= Cardinality(Logins)
         /\ Cardinality(Holding(i)') <= Cardinality(Logins)
         /\ Typing(i)' \subseteq Typing(i) => Cardinality(Typing(i)') <= Cardinality(Typing(i))
         /\ Holding(i)' \subseteq Holding(i) => Cardinality(Holding(i)') <= Cardinality(Holding(i))
<1>1. /\ Typing(i) \subseteq Logins /\ Typing(i)' \subseteq Logins
      /\ Holding(i) \subseteq Logins /\ Holding(i)' \subseteq Logins
  BY DEF Typing, Holding
<1>2. IsFiniteSet(Logins) BY CodesAssumption
<1> QED BY <1>1, <1>2, SlotsBounded

LEMMA CodesInvInit == CodesInit => CodesInv
<1> SUFFICES ASSUME CodesInit PROVE CodesInv OBVIOUS
<1>1. otps = <<>> /\ DOMAIN otps = {} /\ Len(otps) = 0 BY DEF CodesInit
<1>2. NoLogin \in LoginStates /\ NoLogin.step = "none" BY DEF NoLogin, LoginStates
<1>3. login \in [Logins -> LoginStates] /\ \A l \in Logins : login[l].step = "none"
  BY <1>2 DEF CodesInit
<1>4. CodesTyped BY <1>1, <1>3, CodesAssumption DEF CodesInit, CodesTyped
<1>5. Fresh BY DEF CodesInit, Fresh
<1> QED BY <1>1, <1>4, <1>5 DEF CodesInv

\* A request takes a step that is not a comparison of a code.
LEMMA LoginMoves ==
  ASSUME CodesInv, NEW l \in Logins, NEW q \in LoginStates, q.step \in {"none", "create"},
         login' = [login EXCEPT ![l] = q]
  PROVE  /\ login' \in [Logins -> LoginStates]
         /\ \A k \in Logins : login'[k].step \in {"compare", "admin"} =>
              k # l /\ login'[k] = login[k]
         /\ \A i : /\ Typing(i)' = Typing(i) \ {l}
                   /\ Holding(i)' = Holding(i) \ {l}
<1>1. login \in [Logins -> LoginStates] BY DEF CodesInv, CodesTyped
<1>2. login' \in [Logins -> LoginStates] BY <1>1
<1>3. \A k \in Logins : login'[k] = IF k = l THEN q ELSE login[k] BY <1>1
<1>4. \A k \in Logins : login'[k].step \in {"compare", "admin"} =>
        k # l /\ login'[k] = login[k]
  BY <1>3
<1>5. \A i : Typing(i)' = Typing(i) \ {l} BY <1>3 DEF Typing
<1>6. \A i : Holding(i)' = Holding(i) \ {l} BY <1>3 DEF Holding
<1> QED BY <1>2, <1>4, <1>5, <1>6

\* A step that leaves the codes and their history alone, and in which nobody
\* gets hold of a code.
LEMMA CodesUntouched ==
  ASSUME CodesInv, UNCHANGED <<otps, signedIn, guesses>>,
         mailed' \subseteq Nat, inbox' \subseteq Nat,
         failures' \in Nat, failures' >= failures,
         login' \in [Logins -> LoginStates],
         \A k \in Logins : login'[k].step \in {"compare", "admin"} => login'[k] = login[k]
  PROVE  CodesInv'
<1> USE DEF CodesInv
<1>1. CodesTyped' BY DEF CodesTyped
<1>2. Fresh' BY DEF Fresh
<1>3. ASSUME NEW i \in DOMAIN otps PROVE TriesCounted(i)' /\ UsedUp(i)'
  <2>1. Typing(i)' \subseteq Typing(i) /\ Holding(i)' \subseteq Holding(i)
    BY DEF Typing, Holding
  <2>2. /\ Cardinality(Typing(i)') <= Cardinality(Typing(i))
        /\ Cardinality(Holding(i)') <= Cardinality(Holding(i))
    BY <2>1, SlotCounts
  <2>3. TriesCounted(i)'
    BY <1>3, <2>2, CodeNumbers, SlotCounts DEF TriesCounted
  <2>4. ASSUME otps[i].consumed
        PROVE  signedIn[i] + Cardinality(Holding(i)') <= Cardinality(Logins)
    BY <1>3, <2>2, <2>4, CodeNumbers, SlotCounts DEF UsedUp
  <2>5. UsedUp(i)' BY <1>3, <2>4 DEF UsedUp
  <2> QED BY <2>3, <2>5
<1>4. DOMAIN otps' = DOMAIN otps OBVIOUS
<1> QED BY <1>1, <1>2, <1>3, <1>4

\* A request that ends, or asks for a code, leaves the codes alone.
LEMMA LoginEndsInv ==
  ASSUME CodesInv, NEW l \in Logins, NEW q \in LoginStates, q.step \in {"none", "create"},
         login' = [login EXCEPT ![l] = q], UNCHANGED <<otps, signedIn, guesses>>,
         mailed' = mailed, inbox' = inbox, failures' \in Nat, failures' >= failures
  PROVE  CodesInv'
<1>1. /\ login' \in [Logins -> LoginStates]
      /\ \A k \in Logins : login'[k].step \in {"compare", "admin"} => login'[k] = login[k]
  BY LoginMoves
<1>2. mailed' \subseteq Nat /\ inbox' \subseteq Nat BY DEF CodesInv, CodesTyped
<1> QED BY <1>1, <1>2, CodesUntouched

LEMMA NoLoginType == NoLogin \in LoginStates /\ NoLogin.step = "none"
BY DEF NoLogin, LoginStates

LEMMA RequestOTPInv == ASSUME CodesInv, NEW l \in Logins, RequestOTP(l) PROVE CodesInv'
<1> DEFINE q == [login[l] EXCEPT !.step = "create"]
<1>1. q \in LoginStates /\ q.step = "create" BY DEF CodesInv, CodesTyped, LoginStates
<1>2. login' = [login EXCEPT ![l] = q] BY DEF RequestOTP, CodesInv, CodesTyped
<1> HIDE DEF q
<1>3. /\ UNCHANGED <<otps, signedIn, guesses>> /\ mailed' = mailed /\ inbox' = inbox
      /\ failures' = failures \/ failures' = failures + 1
  BY DEF RequestOTP
<1>4. failures' \in Nat /\ failures' >= failures BY <1>3 DEF CodesInv, CodesTyped
<1> QED BY <1>1, <1>2, <1>3, <1>4, LoginEndsInv

\* Mail, time and the admin's status.
LEMMA AroundInv ==
  ASSUME CodesInv, CoolDown \/ Suspend \/ \E i \in 1 .. MaxCodes : SendOTPEmail(i)
  PROVE  CodesInv'
<1>1. UNCHANGED <<otps, signedIn, guesses>> /\ failures' = failures /\ login' = login
  BY DEF CoolDown, Suspend, SendOTPEmail
<1>2. mailed' \subseteq Nat /\ inbox' \subseteq Nat
  BY DEF CodesInv, CodesTyped, CoolDown, Suspend, SendOTPEmail
<1>3. failures' \in Nat /\ failures' >= failures /\ login' \in [Logins -> LoginStates]
  BY <1>1 DEF CodesInv, CodesTyped
<1> QED BY <1>1, <1>2, <1>3, CodesUntouched

\* A new code, which nobody has tried.
LEMMA CreateOTPInv == ASSUME CodesInv, NEW l \in Logins, CreateOTP(l) PROVE CodesInv'
<1> USE DEF CodesInv
<1>0. PICK n : n = Len(otps) + 1 OBVIOUS
<1>1. /\ otps' = Append(otps, NewCode) /\ login' = [login EXCEPT ![l] = NoLogin]
      /\ Len(otps) < MaxCodes /\ mailed' = mailed \cup {n}
      /\ UNCHANGED <<inbox, signedIn, guesses, failures>>
  BY <1>0 DEF CreateOTP, LoginEnds
<1>2. /\ otps \in Seq(Codes) /\ Len(otps) \in Nat /\ MaxCodes \in Nat
      /\ n \in Nat /\ n = Len(otps) + 1
  BY <1>0, CodesAssumption DEF CodesTyped
<1>3. NewCode \in Codes /\ NewCode.attempts = 0 /\ NewCode.consumed = FALSE
  BY DEF NewCode, Codes
<1>4. /\ otps' \in Seq(Codes) /\ Len(otps') = n
      /\ DOMAIN otps = 1 .. Len(otps) /\ DOMAIN otps' = 1 .. n
      /\ \A i \in DOMAIN otps : otps'[i] = otps[i]
      /\ otps'[n] = NewCode
  BY <1>1, <1>2, <1>3
<1>5. /\ login' \in [Logins -> LoginStates]
      /\ \A k \in Logins : login'[k].step \in {"compare", "admin"} =>
           k # l /\ login'[k] = login[k]
      /\ \A i : Typing(i)' = Typing(i) \ {l} /\ Holding(i)' = Holding(i) \ {l}
  BY <1>1, NoLoginType, LoginMoves
<1>6. \A k \in Logins : login[k].step \in {"compare", "admin"} => login[k].read # n
  BY <1>2, <1>4 DEF CodesTyped
<1>7. CodesTyped'
  <2>1. \A k \in Logins : login'[k].step \in {"compare", "admin"} =>
          login'[k].read \in DOMAIN otps'
    BY <1>2, <1>4, <1>5 DEF CodesTyped
  <2>2. mailed' \subseteq Nat BY <1>1, <1>2 DEF CodesTyped
  <2>3. Len(otps') <= MaxCodes BY <1>1, <1>2, <1>4
  <2> QED BY <1>1, <1>4, <1>5, <2>1, <2>2, <2>3 DEF CodesTyped
<1>8. Fresh' BY <1>1, <1>2, <1>4 DEF Fresh
<1>9. ASSUME NEW i \in DOMAIN otps PROVE TriesCounted(i)' /\ UsedUp(i)'
  <2>1. Typing(i)' \subseteq Typing(i) /\ Holding(i)' \subseteq Holding(i) BY <1>5
  <2>2. /\ Cardinality(Typing(i)') <= Cardinality(Typing(i))
        /\ Cardinality(Holding(i)') <= Cardinality(Holding(i))
    BY <2>1, SlotCounts
  <2>3. otps'[i] = otps[i] /\ guesses' = guesses /\ signedIn' = signedIn /\ failures' = failures
    BY <1>1, <1>4, <1>9
  <2>4. TriesCounted(i)' BY <1>9, <2>2, <2>3, CodeNumbers, SlotCounts DEF TriesCounted
  <2>5. ASSUME otps[i].consumed
        PROVE  signedIn[i] + Cardinality(Holding(i)') <= Cardinality(Logins)
    BY <1>9, <2>2, <2>5, CodeNumbers, SlotCounts DEF UsedUp
  <2>6. UsedUp(i)' BY <1>5, <1>9, <2>3, <2>5 DEF UsedUp
  <2> QED BY <2>4, <2>6
<1>10. TriesCounted(n)' /\ UsedUp(n)'
  <2>1. n \in 1 .. MaxCodes /\ n \notin DOMAIN otps BY <1>1, <1>2, <1>4
  <2>2. guesses[n] = 0 /\ signedIn[n] = 0 BY <2>1 DEF Fresh
  <2>3. Typing(n)' = {} BY <1>5, <1>6 DEF Typing
  <2>4. Cardinality(Typing(n)') = 0 BY <2>3, FS_EmptySet
  <2>5. /\ failures \in Nat /\ Cardinality(Logins) \in Nat
        /\ OTPMaxAttempts \in Nat /\ OTPMaxAttempts >= 1
    BY CodesAssumption, FS_CardinalityType DEF CodesTyped
  <2>6. TriesCounted(n)' BY <1>1, <1>3, <1>4, <2>2, <2>4, <2>5 DEF TriesCounted
  <2>7. UsedUp(n)' BY <1>1, <1>3, <1>4, <1>5, <1>6, <2>2 DEF UsedUp
  <2> QED BY <2>6, <2>7
<1>11. ASSUME NEW i \in DOMAIN otps' PROVE i \in DOMAIN otps \/ i = n
  BY <1>2, <1>4
<1> QED BY <1>7, <1>8, <1>9, <1>10, <1>11

\* A try is let in: the code is open and has tries left.
LEMMA VerifyOTPInv ==
  ASSUME CodesInv, NEW l \in Logins, NEW typed \in 0 .. MaxCodes, VerifyOTP(l, typed)
  PROVE  CodesInv'
<1> USE DEF CodesInv
<1>1. PICK j \in LatestOTP :
        /\ otps[j].attempts < OTPMaxAttempts
        /\ login' = [login EXCEPT ![l] = [step |-> "compare", typed |-> typed, read |-> j]]
  BY DEF VerifyOTP
<1>2. UNCHANGED <<otps, mailed, inbox, signedIn, guesses, failures>> BY DEF VerifyOTP
<1>3. j \in DOMAIN otps /\ ~otps[j].consumed BY DEF LatestOTP
<1>4. j \in Nat /\ typed \in Nat BY <1>3, CodeNumbers
<1> DEFINE q == [step |-> "compare", typed |-> typed, read |-> j]
<1>5. q \in LoginStates /\ q.step = "compare" /\ q.read = j BY <1>4 DEF LoginStates
<1>6. \A k \in Logins : login'[k] = IF k = l THEN q ELSE login[k]
  BY <1>1 DEF CodesTyped
<1>7. login' \in [Logins -> LoginStates] BY <1>1, <1>5 DEF CodesTyped
<1> HIDE DEF q
<1>8. CodesTyped' BY <1>2, <1>3, <1>5, <1>6, <1>7 DEF CodesTyped
<1>9. Fresh' BY <1>2 DEF Fresh
<1>10. ASSUME NEW i \in DOMAIN otps PROVE TriesCounted(i)' /\ UsedUp(i)'
  <2>1. CASE i = j
    <3>1. TriesCounted(i)'
      BY <1>1, <1>2, <1>10, <2>1, CodeNumbers, SlotCounts DEF TriesCounted
    <3>2. UsedUp(i)' BY <1>2, <1>3, <1>5, <1>6, <1>10, <2>1 DEF UsedUp
    <3> QED BY <3>1, <3>2
  <2>2. CASE i # j
    <3>1. Typing(i)' \subseteq Typing(i) /\ Holding(i)' \subseteq Holding(i)
      BY <1>5, <1>6, <2>2 DEF Typing, Holding
    <3>2. /\ Cardinality(Typing(i)') <= Cardinality(Typing(i))
          /\ Cardinality(Holding(i)') <= Cardinality(Holding(i))
      BY <3>1, SlotCounts
    <3>3. TriesCounted(i)' BY <1>2, <1>10, <3>2, CodeNumbers, SlotCounts DEF TriesCounted
    <3>4. ASSUME otps[i].consumed
          PROVE  signedIn[i] + Cardinality(Holding(i)') <= Cardinality(Logins)
      BY <1>10, <3>2, <3>4, CodeNumbers, SlotCounts DEF UsedUp
    <3>5. UsedUp(i)' BY <1>2, <1>5, <1>6, <1>10, <3>4 DEF UsedUp
    <3> QED BY <3>3, <3>5
  <2> QED BY <2>1, <2>2
<1> QED BY <1>2, <1>8, <1>9, <1>10

\* A wrong try: one more is counted, one less is being compared.
LEMMA IncrementOTPAttemptsInv ==
  ASSUME CodesInv, NEW l \in Logins, IncrementOTPAttempts(l) PROVE CodesInv'
<1> USE DEF CodesInv
<1>0. PICK j : j = login[l].read OBVIOUS
<1>1. login[l].step = "compare" /\ login[l].typed # j BY <1>0 DEF IncrementOTPAttempts
<1>2. j \in DOMAIN otps BY <1>0, <1>1 DEF CodesTyped
<1>3. /\ otps' = [otps EXCEPT ![j].attempts = @ + 1]
      /\ guesses' = [guesses EXCEPT ![j] = @ + 1]
      /\ login' = [login EXCEPT ![l] = NoLogin]
      /\ UNCHANGED <<mailed, inbox, signedIn, failures>>
  BY <1>0 DEF IncrementOTPAttempts, LoginEnds
<1>4. l \in Typing(j) BY <1>0, <1>1 DEF Typing
<1>5. /\ login' \in [Logins -> LoginStates]
      /\ \A k \in Logins : login'[k].step \in {"compare", "admin"} =>
           k # l /\ login'[k] = login[k]
      /\ \A i : Typing(i)' = Typing(i) \ {l} /\ Holding(i)' = Holding(i) \ {l}
  BY <1>3, NoLoginType, LoginMoves
<1>6. /\ DOMAIN otps' = DOMAIN otps /\ Len(otps') = Len(otps) /\ otps' \in Seq(Codes)
      /\ \A i \in DOMAIN otps : i # j => otps'[i] = otps[i]
      /\ otps'[j].attempts = otps[j].attempts + 1 /\ otps'[j].consumed = otps[j].consumed
  <2>1. otps \in Seq(Codes) /\ otps[j] \in Codes /\ otps[j].attempts \in Nat
    BY <1>2, CodeNumbers DEF CodesTyped
  <2> DEFINE c == [otps[j] EXCEPT !.attempts = otps[j].attempts + 1]
  <2>2. c \in Codes /\ c.attempts = otps[j].attempts + 1 /\ c.consumed = otps[j].consumed
    BY <2>1 DEF Codes
  <2>3. otps' = [otps EXCEPT ![j] = c] BY <1>3
  <2> HIDE DEF c
  <2> QED BY <1>2, <2>1, <2>2, <2>3
<1>7. /\ guesses' \in [1 .. MaxCodes -> Nat] /\ guesses'[j] = guesses[j] + 1
      /\ \A i \in 1 .. MaxCodes : i # j => guesses'[i] = guesses[i]
  BY <1>2, <1>3, CodeNumbers DEF CodesTyped
<1>8. CodesTyped' BY <1>3, <1>5, <1>6, <1>7 DEF CodesTyped
<1>9. Fresh' BY <1>2, <1>3, <1>6, <1>7 DEF Fresh
<1>10. ASSUME NEW i \in DOMAIN otps PROVE TriesCounted(i)' /\ UsedUp(i)'
  <2>1. /\ Cardinality(Typing(i)') <= Cardinality(Typing(i))
        /\ Cardinality(Holding(i)') <= Cardinality(Holding(i))
    BY <1>5, SlotCounts
  <2>2. TriesCounted(i)'
    <3> DEFINE before == Cardinality(Typing(i))
               after == Cardinality(Typing(i)')
    <3>0. /\ otps[i].attempts \in Nat /\ guesses[i] \in Nat /\ failures \in Nat
          /\ Cardinality(Logins) \in Nat /\ OTPMaxAttempts \in Nat
          /\ before \in Nat /\ after \in Nat /\ after <= before
          /\ guesses[i] <= otps[i].attempts + failures
          /\ otps[i].attempts + before <= OTPMaxAttempts - 1 + Cardinality(Logins)
          /\ failures' = failures
      BY <1>3, <1>10, <2>1, CodeNumbers, SlotCounts DEF TriesCounted
    <3> SUFFICES /\ guesses'[i] <= otps'[i].attempts + failures'
                 /\ otps'[i].attempts + after <= OTPMaxAttempts - 1 + Cardinality(Logins)
      BY DEF TriesCounted
    <3>1. CASE i = j
      <4>1. Typing(i) \subseteq Logins /\ l \in Typing(i) /\ Typing(i)' = Typing(i) \ {l}
        BY <1>4, <1>5, <3>1, SlotCounts
      <4>2. after = before - 1 BY <4>1, SlotLeaves, CodesAssumption
      <4>3. otps'[i].attempts = otps[i].attempts + 1 /\ guesses'[i] = guesses[i] + 1
        BY <1>6, <1>7, <3>1
      <4> HIDE DEF before, after
      <4> QED BY <3>0, <4>2, <4>3
    <3>2. CASE i # j
      <4>1. otps'[i] = otps[i] /\ guesses'[i] = guesses[i]
        BY <1>6, <1>7, <1>10, <3>2, CodeNumbers
      <4> HIDE DEF before, after
      <4> QED BY <3>0, <4>1
    <3> QED BY <3>1, <3>2
  <2>3. otps'[i].consumed = otps[i].consumed BY <1>6, <1>10
  <2>4. ASSUME otps[i].consumed
        PROVE  signedIn[i] + Cardinality(Holding(i)') <= Cardinality(Logins)
    BY <1>10, <2>1, <2>4, CodeNumbers, SlotCounts DEF UsedUp
  <2>5. UsedUp(i)' BY <1>3, <1>5, <1>10, <2>3, <2>4 DEF UsedUp
  <2> QED BY <2>2, <2>5
<1> QED BY <1>6, <1>8, <1>9, <1>10

\* A try that matches: whoever held the code before still holds it, and the
\* code is consumed.
LEMMA ConsumeOTPInv == ASSUME CodesInv, NEW l \in Logins, ConsumeOTP(l) PROVE CodesInv'
<1> USE DEF CodesInv
<1>0. PICK j : j = login[l].read OBVIOUS
<1>1. login[l].step = "compare" /\ login[l].typed = j BY <1>0 DEF ConsumeOTP
<1>2. j \in DOMAIN otps BY <1>0, <1>1 DEF CodesTyped
<1>3. /\ otps' = [otps EXCEPT ![j].consumed = TRUE]
      /\ login' = [login EXCEPT ![l].step = "admin"]
      /\ UNCHANGED <<mailed, inbox, signedIn, guesses, failures>>
  BY <1>0 DEF ConsumeOTP
<1>4. /\ DOMAIN otps' = DOMAIN otps /\ Len(otps') = Len(otps) /\ otps' \in Seq(Codes)
      /\ \A i \in DOMAIN otps : i # j => otps'[i] = otps[i]
      /\ otps'[j].attempts = otps[j].attempts /\ otps'[j].consumed = TRUE
  <2>1. otps \in Seq(Codes) /\ otps[j] \in Codes BY <1>2, CodeNumbers DEF CodesTyped
  <2> DEFINE c == [otps[j] EXCEPT !.consumed = TRUE]
  <2>2. c \in Codes /\ c.attempts = otps[j].attempts /\ c.consumed = TRUE
    BY <2>1 DEF Codes
  <2>3. otps' = [otps EXCEPT ![j] = c] BY <1>3
  <2> HIDE DEF c
  <2> QED BY <1>2, <2>1, <2>2, <2>3
<1>5. /\ login' \in [Logins -> LoginStates]
      /\ \A k \in Logins : k # l => login'[k] = login[k]
      /\ login'[l].step = "admin" /\ login'[l].read = j
  <2>1. login \in [Logins -> LoginStates] /\ login[l] \in LoginStates BY DEF CodesTyped
  <2> DEFINE q == [login[l] EXCEPT !.step = "admin"]
  <2>2. q \in LoginStates /\ q.step = "admin" /\ q.read = j
    BY <1>0, <2>1 DEF LoginStates
  <2>3. login' = [login EXCEPT ![l] = q] BY <1>3
  <2> HIDE DEF q
  <2> QED BY <2>1, <2>2, <2>3
<1>6. CodesTyped' BY <1>2, <1>3, <1>4, <1>5 DEF CodesTyped
<1>7. Fresh' BY <1>3, <1>4 DEF Fresh
<1>8. ASSUME NEW i \in DOMAIN otps PROVE TriesCounted(i)' /\ UsedUp(i)'
  <2>1. Typing(i)' \subseteq Typing(i) BY <1>5 DEF Typing
  <2>2. Holding(i)' \subseteq Holding(i) BY <1>0, <1>1, <1>5 DEF Holding
  <2>3. /\ Cardinality(Typing(i)') <= Cardinality(Typing(i))
        /\ Cardinality(Holding(i)') <= Cardinality(Holding(i))
    BY <2>1, <2>2, SlotCounts
  <2>4. otps'[i].attempts = otps[i].attempts /\ guesses' = guesses /\ failures' = failures
        /\ signedIn' = signedIn
    BY <1>3, <1>4, <1>8
  <2>5. TriesCounted(i)' BY <1>8, <2>3, <2>4, CodeNumbers, SlotCounts DEF TriesCounted
  <2>6. ASSUME otps'[i].consumed
        PROVE  signedIn[i] + Cardinality(Holding(i)') <= Cardinality(Logins)
    <3>1. CASE otps[i].consumed
      BY <1>8, <2>3, <3>1, CodeNumbers, SlotCounts DEF UsedUp
    <3>2. CASE ~otps[i].consumed
      BY <1>8, <3>2, CodeNumbers, SlotCounts DEF UsedUp
    <3> QED BY <3>1, <3>2
  <2>7. ASSUME ~otps'[i].consumed
        PROVE  /\ signedIn[i] = 0
               /\ \A k \in Logins : login'[k].step = "admin" => login'[k].read # i
    <3>1. i # j /\ ~otps[i].consumed BY <1>4, <1>8, <2>7
    <3> QED BY <1>5, <1>8, <3>1 DEF UsedUp
  <2>8. UsedUp(i)' BY <2>4, <2>6, <2>7 DEF UsedUp
  <2> QED BY <2>5, <2>8
<1> QED BY <1>4, <1>6, <1>7, <1>8

\* Signing in: one session more, one holder of the code less.
LEMMA GetAdminByEmailInv ==
  ASSUME CodesInv, NEW l \in Logins, GetAdminByEmail(l) PROVE CodesInv'
<1> USE DEF CodesInv
<1>0. PICK j : j = login[l].read OBVIOUS
<1>1. login[l].step = "admin" BY DEF GetAdminByEmail
<1>2. j \in DOMAIN otps BY <1>0, <1>1 DEF CodesTyped
<1>3. /\ signedIn' = IF suspended THEN signedIn ELSE [signedIn EXCEPT ![j] = @ + 1]
      /\ login' = [login EXCEPT ![l] = NoLogin]
      /\ UNCHANGED <<otps, mailed, inbox, guesses, failures>>
  BY <1>0 DEF GetAdminByEmail, LoginEnds
<1>4. otps[j].consumed BY <1>0, <1>1, <1>2 DEF UsedUp
<1>5. l \in Holding(j) BY <1>0, <1>1 DEF Holding
<1>6. /\ login' \in [Logins -> LoginStates]
      /\ \A k \in Logins : login'[k].step \in {"compare", "admin"} =>
           k # l /\ login'[k] = login[k]
      /\ \A i : Typing(i)' = Typing(i) \ {l} /\ Holding(i)' = Holding(i) \ {l}
  BY <1>3, NoLoginType, LoginMoves
<1>7. /\ signedIn' \in [1 .. MaxCodes -> Nat] /\ signedIn'[j] <= signedIn[j] + 1
      /\ \A i \in 1 .. MaxCodes : i # j => signedIn'[i] = signedIn[i]
  BY <1>2, <1>3, CodeNumbers DEF CodesTyped
<1>8. CodesTyped' BY <1>3, <1>6, <1>7 DEF CodesTyped
<1>9. Fresh' BY <1>2, <1>3, <1>7 DEF Fresh
<1>10. ASSUME NEW i \in DOMAIN otps PROVE TriesCounted(i)' /\ UsedUp(i)'
  <2> DEFINE before == Cardinality(Holding(i))
             after == Cardinality(Holding(i)')
  <2>1. Cardinality(Typing(i)') <= Cardinality(Typing(i)) /\ after <= before
    BY <1>6, SlotCounts
  <2>2. TriesCounted(i)' BY <1>3, <1>10, <2>1, CodeNumbers, SlotCounts DEF TriesCounted
  <2>3. /\ before \in Nat /\ after \in Nat /\ signedIn[i] \in Nat
        /\ signedIn'[i] \in Nat /\ Cardinality(Logins) \in Nat
    BY <1>7, <1>10, CodeNumbers, SlotCounts
  <2>4. otps' = otps BY <1>3
  <2>5. CASE i = j
    <3>1. Holding(i) \subseteq Logins /\ l \in Holding(i) /\ Holding(i)' = Holding(i) \ {l}
      BY <1>5, <1>6, <2>5, SlotCounts
    <3>2. after = before - 1 BY <3>1, SlotLeaves, CodesAssumption
    <3>3. signedIn[i] + before <= Cardinality(Logins) BY <1>4, <1>10, <2>5 DEF UsedUp
    <3>4. signedIn'[i] <= signedIn[i] + 1 BY <1>7, <2>5
    <3> HIDE DEF before, after
    <3>5. signedIn'[i] + after <= Cardinality(Logins) BY <2>3, <3>2, <3>3, <3>4
    <3>6. otps'[i].consumed BY <1>4, <2>4, <2>5
    <3> QED BY <2>2, <3>5, <3>6 DEF UsedUp, after
  <2>6. CASE i # j
    <3>1. signedIn'[i] = signedIn[i] BY <1>7, <1>10, <2>6, CodeNumbers
    <3>2. ASSUME otps[i].consumed PROVE signedIn'[i] + after <= Cardinality(Logins)
      <4>1. signedIn[i] + before <= Cardinality(Logins) BY <1>10, <3>2 DEF UsedUp
      <4> HIDE DEF before, after
      <4> QED BY <2>1, <2>3, <3>1, <4>1
    <3>3. UsedUp(i)' BY <1>6, <1>10, <2>4, <3>1, <3>2 DEF UsedUp
    <3> QED BY <2>2, <3>3
  <2> QED BY <2>5, <2>6
<1> QED BY <1>3, <1>8, <1>9, <1>10

\* A statement fails; a wrong try that could not be counted is one of them.
LEMMA FailLoginInv == ASSUME CodesInv, NEW l \in Logins, FailLogin(l) PROVE CodesInv'
<1> USE DEF CodesInv
<1>0. PICK j : j = login[l].read OBVIOUS
<1> DEFINE lost == login[l].step = "compare" /\ login[l].typed # j
<1>1. /\ guesses' = IF lost THEN [guesses EXCEPT ![j] = @ + 1] ELSE guesses
      /\ failures' = failures + 1
      /\ login' = [login EXCEPT ![l] = NoLogin]
      /\ UNCHANGED <<otps, mailed, inbox, signedIn>>
  BY <1>0 DEF FailLogin, LoginEnds
<1>2. failures \in Nat /\ failures' \in Nat /\ failures' >= failures
  BY <1>1 DEF CodesTyped
<1>3. CASE ~lost BY <1>1, <1>2, <1>3, NoLoginType, LoginEndsInv
<1>4. CASE lost
  <2>1. j \in DOMAIN otps /\ j \in 1 .. MaxCodes
    BY <1>0, <1>4, CodeNumbers DEF CodesTyped
  <2>2. /\ login' \in [Logins -> LoginStates]
        /\ \A k \in Logins : login'[k].step \in {"compare", "admin"} =>
             k # l /\ login'[k] = login[k]
        /\ \A i : Typing(i)' = Typing(i) \ {l} /\ Holding(i)' = Holding(i) \ {l}
    BY <1>1, NoLoginType, LoginMoves
  <2>3. /\ guesses' \in [1 .. MaxCodes -> Nat]
        /\ \A i \in 1 .. MaxCodes : guesses'[i] <= guesses[i] + 1
        /\ \A i \in 1 .. MaxCodes : i # j => guesses'[i] = guesses[i]
    BY <1>1, <1>4, <2>1 DEF CodesTyped
  <2>4. CodesTyped' BY <1>1, <1>2, <2>2, <2>3 DEF CodesTyped
  <2>5. Fresh' BY <1>1, <2>1, <2>3 DEF Fresh
  <2>6. ASSUME NEW i \in DOMAIN otps PROVE TriesCounted(i)' /\ UsedUp(i)'
    <3>1. /\ Cardinality(Typing(i)') <= Cardinality(Typing(i))
          /\ Cardinality(Holding(i)') <= Cardinality(Holding(i))
      BY <2>2, SlotCounts
    <3>2. guesses'[i] \in Nat /\ guesses'[i] <= guesses[i] + 1
      BY <2>3, <2>6, CodeNumbers
    <3>3. failures' = failures + 1 /\ otps' = otps /\ signedIn' = signedIn BY <1>1
    <3>4. TriesCounted(i)'
      BY <2>6, <3>1, <3>2, <3>3, CodeNumbers, SlotCounts DEF TriesCounted
    <3>5. ASSUME otps[i].consumed
          PROVE  signedIn[i] + Cardinality(Holding(i)') <= Cardinality(Logins)
      BY <2>6, <3>1, <3>5, CodeNumbers, SlotCounts DEF UsedUp
    <3>6. UsedUp(i)' BY <2>2, <2>6, <3>3, <3>5 DEF UsedUp
    <3> QED BY <3>4, <3>6
  <2> QED BY <1>1, <2>4, <2>5, <2>6
<1> QED BY <1>3, <1>4

\* That a code is too old changes nothing about it that is counted.
LEMMA ExpireInv == ASSUME CodesInv, NEW j, Expire(j) PROVE CodesInv'
<1> USE DEF CodesInv
<1>1. /\ j \in DOMAIN otps /\ otps' = [otps EXCEPT ![j].expired = TRUE]
      /\ UNCHANGED <<mailed, inbox, login, signedIn, guesses, failures>>
  BY DEF Expire
<1>2. /\ DOMAIN otps' = DOMAIN otps /\ Len(otps') = Len(otps) /\ otps' \in Seq(Codes)
      /\ \A i \in DOMAIN otps : /\ otps'[i].attempts = otps[i].attempts
                                /\ otps'[i].consumed = otps[i].consumed
  <2>1. otps \in Seq(Codes) /\ otps[j] \in Codes BY <1>1, CodeNumbers DEF CodesTyped
  <2> DEFINE c == [otps[j] EXCEPT !.expired = TRUE]
  <2>2. c \in Codes /\ c.attempts = otps[j].attempts /\ c.consumed = otps[j].consumed
    BY <2>1 DEF Codes
  <2>3. otps' = [otps EXCEPT ![j] = c] BY <1>1
  <2> HIDE DEF c
  <2>4. DOMAIN otps' = DOMAIN otps /\ Len(otps') = Len(otps) /\ otps' \in Seq(Codes)
    <3>1. j \in DOMAIN otps BY <1>1
    <3> QED BY <2>1, <2>2, <2>3, <3>1
  <2>5. \A i \in DOMAIN otps : otps'[i] = IF i = j THEN c ELSE otps[i]
    BY <2>1, <2>3
  <2> QED BY <2>2, <2>4, <2>5
<1>3. CodesTyped' BY <1>1, <1>2 DEF CodesTyped
<1>4. Fresh' BY <1>1, <1>2 DEF Fresh
<1>5. ASSUME NEW i \in DOMAIN otps PROVE TriesCounted(i)' /\ UsedUp(i)'
  <2>1. Typing(i)' = Typing(i) /\ Holding(i)' = Holding(i) BY <1>1 DEF Typing, Holding
  <2>2. TriesCounted(i)' BY <1>1, <1>2, <1>5, <2>1 DEF TriesCounted
  <2>3. UsedUp(i)' BY <1>1, <1>2, <1>5, <2>1 DEF UsedUp
  <2> QED BY <2>2, <2>3
<1> QED BY <1>2, <1>3, <1>4, <1>5

LEMMA CodesInvNext == ASSUME CodesInv, CodesNext PROVE CodesInv'
<1>1. ASSUME NEW l \in Logins,
             \/ RequestOTP(l) \/ CreateOTP(l) \/ IncrementOTPAttempts(l)
             \/ ConsumeOTP(l) \/ GetAdminByEmail(l) \/ FailLogin(l)
      PROVE  CodesInv'
  BY <1>1, RequestOTPInv, CreateOTPInv, IncrementOTPAttemptsInv, ConsumeOTPInv,
     GetAdminByEmailInv, FailLoginInv
<1>2. ASSUME NEW l \in Logins, NEW typed \in 0 .. MaxCodes, VerifyOTP(l, typed)
      PROVE  CodesInv'
  BY <1>2, VerifyOTPInv
<1>3. ASSUME NEW i \in 1 .. MaxCodes, SendOTPEmail(i) \/ Expire(i) PROVE CodesInv'
  BY <1>3, AroundInv, ExpireInv
<1>4. CASE CoolDown \/ Suspend BY <1>4, AroundInv
<1> QED BY <1>1, <1>2, <1>3, <1>4 DEF CodesNext

-----------------------------------------------------------------------------
(* Both. *)

VisitorsInv == ShareInv /\ CodesInv

\* The link's state is left alone while the codes move, and the other way round.
LEMMA ShareInvStutter == ASSUME ShareInv, UNCHANGED shareVars PROVE ShareInv'
<1>1. UNCHANGED server /\ UNCHANGED count BY DEF shareVars
<1>2. count' \in Counts /\ count'["lost"] >= count["lost"]
  BY <1>1, Numbers DEF ShareInv, ShareTyped
<1> QED BY <1>1, <1>2, ServerUntouched

LEMMA CodesInvStutter == ASSUME CodesInv, UNCHANGED codesVars PROVE CodesInv'
<1>1. /\ UNCHANGED <<otps, signedIn, guesses>> /\ failures' = failures
      /\ login' = login /\ mailed' = mailed /\ inbox' = inbox
  BY DEF codesVars
<1>2. /\ mailed' \subseteq Nat /\ inbox' \subseteq Nat /\ login' \in [Logins -> LoginStates]
      /\ failures' \in Nat /\ failures' >= failures
  BY <1>1 DEF CodesInv, CodesTyped
<1> QED BY <1>1, <1>2, CodesUntouched

LEMMA VisitorsInvHolds == Spec => []VisitorsInv
<1>1. Init => VisitorsInv BY ShareInvInit, CodesInvInit DEF Init, VisitorsInv
<1>2. VisitorsInv /\ [Next]_vars => VisitorsInv'
  <2> SUFFICES ASSUME VisitorsInv, [Next]_vars PROVE VisitorsInv' OBVIOUS
  <2>1. CASE OfShare(ShareNext)
    BY <2>1, ShareInvNext, CodesInvStutter DEF OfShare, VisitorsInv
  <2>2. CASE OfCodes(CodesNext)
    BY <2>2, CodesInvNext, ShareInvStutter DEF OfCodes, VisitorsInv
  <2>3. CASE UNCHANGED vars
    BY <2>3, ShareInvStutter, CodesInvStutter DEF vars, VisitorsInv
  <2> QED BY <2>1, <2>2, <2>3 DEF Next
<1> QED BY <1>1, <1>2, PTL DEF Spec

\* However many requests are handled side by side and whatever fails, the wrong
\* codes that are tried are bounded by the configured number of attempts, the
\* slots less one, and the counts that were lost.
THEOREM AttemptsAlwaysBounded == Spec => []AttemptsAreBounded
<1>1. VisitorsInv => AttemptsAreBounded
  <2> SUFFICES ASSUME VisitorsInv PROVE AttemptsAreBounded OBVIOUS
  <2>1. wrong <= ShareMaxAttempts + Cardinality(Visits) - 1 + count.lost
    BY Numbers DEF VisitorsInv, ShareInv, TriesLeft
  <2>2. ASSUME NEW i \in DOMAIN otps
        PROVE  guesses[i] <= OTPMaxAttempts + Cardinality(Logins) - 1 + failures
    BY <2>2, CodeNumbers, SlotCounts DEF VisitorsInv, CodesInv, TriesCounted
  <2> QED BY <2>1, <2>2 DEF AttemptsAreBounded
<1> QED BY <1>1, VisitorsInvHolds, PTL

\* A code that opened a session is compared with no request that comes later, and
\* with those that hold it it opens no more sessions than there are slots.
THEOREM CodesSignInOnce == Spec => []CodeSignsInOnce
<1>1. VisitorsInv => CodeSignsInOnce
  <2> DEFINE holding(i) ==
               {l \in Logins : login[l].step \in {"compare", "admin"} /\ login[l].read = i}
  <2> SUFFICES ASSUME VisitorsInv, NEW i \in DOMAIN otps, signedIn[i] > 0
               PROVE  /\ i \notin LatestOTP
                      /\ signedIn[i] + Cardinality(holding(i)) <= Cardinality(Logins)
    BY DEF CodeSignsInOnce
  <2>1. otps[i].consumed BY CodeNumbers DEF VisitorsInv, CodesInv, UsedUp
  <2>2. i \notin LatestOTP BY <2>1 DEF LatestOTP
  <2>3. holding(i) = Holding(i)
    BY DEF Holding
  <2>4. signedIn[i] + Cardinality(Holding(i)) <= Cardinality(Logins)
    BY <2>1 DEF VisitorsInv, CodesInv, UsedUp
  <2> QED BY <2>2, <2>3, <2>4
<1> QED BY <1>1, VisitorsInvHolds, PTL

-----------------------------------------------------------------------------
(* The passcode in force. *)

\* Slots that are still handled.
Handled == {v \in Visits : Busy(v)}

\* A request does what it was sent for.
StepOfItsKind ==
  \A v \in Visits : /\ visit[v].step = "setup" => visit[v].kind = "setup"
                    /\ visit[v].step \in {"verify", "rehash"} => visit[v].kind = "verify"

\* As long as nothing overlapped a set-up or a reset, who sets up is alone and
\* finds no passcode, and who verifies has read the one in force; a rehash
\* stores the very passcode it compared.
NothingOverlapped ==
  /\ share.passcode = chosen
  /\ \A v \in Handled : visit[v].kind = "setup" => Handled = {v}
  /\ \A v \in Visits : /\ visit[v].step = "setup" => share.passcode = None
                       /\ visit[v].step \in {"verify", "rehash"} =>
                            visit[v].read = share.passcode
                       /\ visit[v].step = "rehash" => visit[v].code = visit[v].read

ChosenInv == StepOfItsKind /\ (~crossed => NothingOverlapped)

LEMMA ChosenInvInit == ShareInit => ChosenInv
<1> SUFFICES ASSUME ShareInit PROVE ChosenInv OBVIOUS
<1>1. \A v \in Visits : visit[v] = NoVisit BY DEF ShareInit
<1>2. NoVisit.step = "none" BY DEF NoVisit
<1>3. share.passcode = chosen BY DEF ShareInit
<1> QED BY <1>1, <1>2, <1>3
    DEF ChosenInv, StepOfItsKind, NothingOverlapped, Handled, Busy

\* Nothing it is about moves.
LEMMA ChosenUntouched ==
  ASSUME ChosenInv, UNCHANGED <<visit, chosen, crossed>>, share'.passcode = share.passcode
  PROVE  ChosenInv'
BY DEF ChosenInv, StepOfItsKind, NothingOverlapped, Handled, Busy

\* A request ends and the passcode stays.
LEMMA ChosenAfterEnd ==
  ASSUME ShareTyped, ChosenInv, NEW v \in Visits, NEW token, Ends(v, token),
         share'.passcode = share.passcode, UNCHANGED <<chosen, crossed>>
  PROVE  ChosenInv'
<1>1. visit' = [visit EXCEPT ![v] = NoVisit] BY DEF Ends
<1>2. \A u \in Visits : visit'[u] = IF u = v THEN NoVisit ELSE visit[u]
  BY <1>1 DEF ShareTyped
<1>3. NoVisit.step = "none" BY DEF NoVisit
<1>4. Handled' = Handled \ {v} BY <1>2, <1>3 DEF Handled, Busy
<1>5. StepOfItsKind' BY <1>2, <1>3 DEF ChosenInv, StepOfItsKind
<1>6. ASSUME ~crossed' PROVE NothingOverlapped'
  <2>1. NothingOverlapped BY <1>6 DEF ChosenInv
  <2>2. ASSUME NEW u \in Handled', visit'[u].kind = "setup" PROVE Handled' = {u}
    <3>1. u \in Visits /\ u # v /\ u \in Handled /\ visit'[u] = visit[u]
      BY <1>2, <1>4, <2>2 DEF Handled
    <3> QED BY <1>4, <2>1, <2>2, <3>1 DEF NothingOverlapped
  <2>3. \A u \in Visits : /\ visit'[u].step = "setup" => share'.passcode = None
                          /\ visit'[u].step \in {"verify", "rehash"} =>
                               visit'[u].read = share'.passcode
                          /\ visit'[u].step = "rehash" => visit'[u].code = visit'[u].read
    BY <1>2, <1>3, <2>1 DEF NothingOverlapped
  <2> QED BY <2>1, <2>2, <2>3 DEF NothingOverlapped
<1> QED BY <1>5, <1>6 DEF ChosenInv

\* A request goes on to another step and the passcode stays.
LEMMA ChosenGoesOn ==
  ASSUME ShareTyped, ChosenInv, NEW v \in Handled, NEW q \in Requests,
         visit' = [visit EXCEPT ![v] = q], q.kind = visit[v].kind, q.step # "none",
         q.step = "setup" => q.kind = "setup" /\ share.passcode = None,
         q.step \in {"verify", "rehash"} => q.kind = "verify",
         ~crossed /\ q.step \in {"verify", "rehash"} => q.read = share.passcode,
         q.step = "rehash" => q.code = q.read,
         share'.passcode = share.passcode, UNCHANGED <<chosen, crossed>>
  PROVE  ChosenInv'
<1>1. v \in Visits /\ \A u \in Visits : visit'[u] = IF u = v THEN q ELSE visit[u]
  BY DEF ShareTyped, Handled
<1>2. Handled' = Handled BY <1>1 DEF Handled, Busy
<1>3. StepOfItsKind' BY <1>1 DEF ChosenInv, StepOfItsKind
<1>4. \A u \in Handled : visit'[u].kind = visit[u].kind BY <1>1 DEF Handled
<1>5. ASSUME ~crossed' PROVE NothingOverlapped'
  BY <1>1, <1>2, <1>4, <1>5 DEF ChosenInv, NothingOverlapped
<1> QED BY <1>3, <1>5 DEF ChosenInv

\* A request begins: beside a set-up, or as one beside others, it overlaps.
LEMMA ChosenAfterSend ==
  ASSUME ShareTyped, ChosenInv, NEW v \in Visits, NEW kind \in {"setup", "verify"},
         NEW code \in Passcodes, Send(v, kind, code)
  PROVE  ChosenInv'
<1> DEFINE q == [NoVisit EXCEPT !.step = "read", !.kind = kind, !.code = code]
<1>1. q.step = "read" /\ q.kind = kind BY DEF NoVisit
<1>2. \A u \in Visits : visit'[u] = IF u = v THEN q ELSE visit[u] BY DEF Send, ShareTyped
<1> HIDE DEF q
<1>3. StepOfItsKind' BY <1>1, <1>2 DEF ChosenInv, StepOfItsKind
<1>4. UNCHANGED <<share, chosen>> /\ v \notin Handled BY DEF Send, Handled
<1>5. Handled' = Handled \cup {v} BY <1>1, <1>2 DEF Handled, Busy
<1>6. ASSUME ~crossed' PROVE NothingOverlapped'
  <2>1. ~crossed /\ \A u \in Handled : kind # "setup" /\ visit[u].kind # "setup"
    BY <1>6 DEF Send, Handled
  <2>2. NothingOverlapped BY <2>1 DEF ChosenInv
  <2>3. ASSUME NEW u \in Handled', visit'[u].kind = "setup" PROVE Handled' = {u}
    <3>1. u = v
      <4>1. ASSUME u # v PROVE FALSE
        <5>1. u \in Handled /\ visit'[u] = visit[u] BY <1>2, <1>5, <4>1 DEF Handled
        <5> QED BY <2>1, <2>3, <5>1
      <4> QED BY <4>1
    <3>2. kind = "setup" BY <1>1, <1>2, <2>3, <3>1
    <3>3. Handled = {} BY <2>1, <3>2
    <3> QED BY <1>5, <3>1, <3>3
  <2>4. \A u \in Visits : /\ visit'[u].step = "setup" => share'.passcode = None
                          /\ visit'[u].step \in {"verify", "rehash"} =>
                               visit'[u].read = share'.passcode
                          /\ visit'[u].step = "rehash" => visit'[u].code = visit'[u].read
    BY <1>1, <1>2, <1>4, <2>2 DEF NothingOverlapped
  <2> QED BY <1>4, <2>2, <2>3, <2>4 DEF NothingOverlapped
<1> QED BY <1>3, <1>6 DEF ChosenInv

LEMMA ChosenAfterRead ==
  ASSUME ShareTyped, ChosenInv, NEW v \in Visits, ReadShare(v) PROVE ChosenInv'
<1> DEFINE q == [visit[v] EXCEPT !.step = visit[v].kind, !.read = share.passcode,
                                 !.legacy = share.legacy]
<1>1. UNCHANGED <<share, chosen, crossed>> BY DEF ReadShare
<1>2. CASE Ends(v, FALSE) BY <1>1, <1>2, ChosenAfterEnd
<1>3. CASE /\ visit' = [visit EXCEPT ![v] = q]
           /\ visit[v].kind = "setup" => share.passcode = None
  <2>1. v \in Handled BY DEF ReadShare, Handled, Busy
  <2>2. /\ q \in Requests /\ q.step = visit[v].kind /\ q.kind = visit[v].kind
        /\ q.kind \in {"setup", "verify"} /\ q.read = share.passcode
    BY DEF ShareTyped, Requests, Links
  <2> HIDE DEF q
  <2> QED BY <1>1, <1>3, <2>1, <2>2, ChosenGoesOn
<1> QED BY <1>2, <1>3 DEF ReadShare

\* The first visit: it is alone, finds nothing chosen, and what it stores is
\* what is chosen from then on.
LEMMA ChosenAfterSetUp ==
  ASSUME ShareTyped, ChosenInv, NEW v \in Visits, SetSharePasscode(v) PROVE ChosenInv'
<1>1. /\ visit[v].step = "setup" /\ UNCHANGED crossed
      /\ visit' = [visit EXCEPT ![v] = NoVisit]
  BY DEF SetSharePasscode, Ends
<1>2. CASE ~share.exists
  <2>1. share' = share /\ chosen' = chosen BY <1>2 DEF SetSharePasscode
  <2> QED BY <1>1, <2>1, ChosenAfterEnd DEF SetSharePasscode
<1>3. CASE share.exists
  <2>1. \A u \in Visits : visit'[u] = IF u = v THEN NoVisit ELSE visit[u]
    BY <1>1 DEF ShareTyped
  <2>2. NoVisit.step = "none" BY DEF NoVisit
  <2>3. StepOfItsKind' BY <2>1, <2>2 DEF ChosenInv, StepOfItsKind
  <2>4. ASSUME ~crossed' PROVE NothingOverlapped'
    <3>1. NothingOverlapped /\ visit[v].kind = "setup"
      BY <1>1, <2>4 DEF ChosenInv, StepOfItsKind
    <3>2. Handled = {v} BY <1>1, <3>1 DEF NothingOverlapped, Handled, Busy
    <3>3. \A u \in Visits : visit'[u].step = "none"
      BY <2>1, <2>2, <3>2 DEF Handled, Busy
    <3>4. chosen = None BY <1>1, <3>1 DEF NothingOverlapped
    <3>5. share'.passcode = visit[v].code /\ chosen' = visit[v].code
      BY <1>3, <3>4 DEF SetSharePasscode, ShareTyped, Links
    <3> QED BY <3>3, <3>5 DEF NothingOverlapped, Handled, Busy
  <2> QED BY <2>3, <2>4 DEF ChosenInv
<1> QED BY <1>2, <1>3 DEF ShareTyped, Links

LEMMA ChosenAfterMatch ==
  ASSUME ShareTyped, ChosenInv, NEW v \in Visits, ResetShareFailures(v) PROVE ChosenInv'
<1>1. share'.passcode = share.passcode /\ UNCHANGED <<chosen, crossed>>
  BY DEF ResetShareFailures, ShareTyped, Links
<1>2. CASE Ends(v, TRUE) BY <1>1, <1>2, ChosenAfterEnd
<1>3. CASE GoesOn(v, "rehash")
  <2> DEFINE q == [visit[v] EXCEPT !.step = "rehash"]
  <2>1. visit[v].step = "verify" /\ visit[v].code = visit[v].read
    BY DEF ResetShareFailures
  <2>2. v \in Handled BY <2>1 DEF Handled, Busy
  <2>3. /\ q \in Requests /\ q.step = "rehash" /\ q.kind = visit[v].kind
        /\ q.read = visit[v].read /\ q.code = visit[v].code
    BY DEF ShareTyped, Requests
  <2>4. visit' = [visit EXCEPT ![v] = q] BY <1>3 DEF GoesOn, ShareTyped
  <2> HIDE DEF q
  <2>5. q.kind = "verify" /\ (~crossed => q.read = share.passcode)
    BY <2>1, <2>3 DEF ChosenInv, StepOfItsKind, NothingOverlapped
  <2> QED BY <1>1, <2>1, <2>2, <2>3, <2>4, <2>5, ChosenGoesOn
<1> QED BY <1>2, <1>3 DEF ResetShareFailures

\* A rehash stores what was in force all along, unless it was overlapped.
LEMMA ChosenAfterRehash ==
  ASSUME ShareTyped, ChosenInv, NEW v \in Visits, UpdateSharePasscodeHash(v) PROVE ChosenInv'
<1>1. UNCHANGED <<chosen, crossed>> /\ Ends(v, TRUE) /\ visit[v].step = "rehash"
  BY DEF UpdateSharePasscodeHash
<1>2. CASE ~crossed
  <2>1. visit[v].code = share.passcode BY <1>1, <1>2 DEF ChosenInv, NothingOverlapped
  <2>2. share'.passcode = share.passcode
    BY <2>1 DEF UpdateSharePasscodeHash, ShareTyped, Links
  <2> QED BY <1>1, <2>2, ChosenAfterEnd
<1>3. CASE crossed
  <2>1. \A u \in Visits : visit'[u] = IF u = v THEN NoVisit ELSE visit[u]
    BY <1>1 DEF Ends, ShareTyped
  <2>2. NoVisit.step = "none" BY DEF NoVisit
  <2> QED BY <1>1, <1>3, <2>1, <2>2 DEF ChosenInv, StepOfItsKind
<1> QED BY <1>2, <1>3

\* With nothing under way a reset forgets passcode and choice alike.
LEMMA ChosenAfterReset ==
  ASSUME ShareTyped, ChosenInv, ResetSharePasscode PROVE ChosenInv'
<1>1. UNCHANGED visit /\ chosen' = None /\ share'.passcode = None
  BY DEF ResetSharePasscode, ShareTyped, Links
<1>2. StepOfItsKind' BY <1>1 DEF ChosenInv, StepOfItsKind
<1>3. ASSUME ~crossed' PROVE NothingOverlapped'
  <2>1. \A v \in Visits : visit[v].step = "none" BY <1>3 DEF ResetSharePasscode, Busy
  <2> QED BY <1>1, <2>1 DEF NothingOverlapped, Handled, Busy
<1> QED BY <1>2, <1>3 DEF ChosenInv

LEMMA ChosenInvNext == ASSUME ShareTyped, ChosenInv, ShareNext PROVE ChosenInv'
<1>1. CASE Page
  <2>1. UNCHANGED server
    BY <1>1 DEF Page, LoadPage, Effect, DropRejectedToken, GoToPasscode, SkipSignedIn,
                CorrectPage, AnswerStatus, AnswerView, Reconnect, Lapse, LoseAnswer
  <2> QED BY <2>1, ChosenUntouched DEF server
<1>2. ASSUME NEW kind \in {"setup", "verify"}, NEW code \in Passcodes,
             \/ Submit(kind, code)
             \/ \E v \in Visits : SubmitElsewhere(v, kind, code)
      PROVE  ChosenInv'
  <2>1. \E v \in Visits : Send(v, kind, code)
    BY <1>2, ShareAssumption DEF Submit, SubmitElsewhere
  <2> QED BY <2>1, ChosenAfterSend
<1>3. ASSUME NEW v \in Visits, RecordShareFailure(v) PROVE ChosenInv'
  <2>1. share'.passcode = share.passcode
    BY <1>3 DEF RecordShareFailure, ShareTyped, Links
  <2> QED BY <1>3, <2>1, ChosenAfterEnd DEF RecordShareFailure
<1>4. ASSUME NEW v \in Visits, FailVisit(v) PROVE ChosenInv'
  BY <1>4, ChosenAfterEnd DEF FailVisit
<1>5. ASSUME NEW v \in Visits,
             \/ ReadShare(v) \/ SetSharePasscode(v) \/ ResetShareFailures(v)
             \/ UpdateSharePasscodeHash(v)
      PROVE  ChosenInv'
  BY <1>5, ChosenAfterRead, ChosenAfterSetUp, ChosenAfterMatch, ChosenAfterRehash
<1>6. CASE Unlock \/ RemoveHolder
  <2>1. UNCHANGED <<visit, chosen, crossed>> /\ share'.passcode = share.passcode
    BY <1>6 DEF Unlock, RemoveHolder, ShareTyped, Links
  <2> QED BY <2>1, ChosenUntouched
<1>7. CASE ResetSharePasscode BY <1>7, ChosenAfterReset
<1> QED BY <1>1, <1>2, <1>3, <1>4, <1>5, <1>6, <1>7 DEF ShareNext

\* Without an overlap with a set-up or a reset, wrong codes, failures, legacy
\* rehashes, locks and removals in any order leave the passcode that the holder
\* chose in force.
THEOREM PasscodeStaysChosen == Spec => []PasscodeIsTheOneChosen
<1>1. Init => ChosenInv BY ChosenInvInit DEF Init
<1>2. VisitorsInv /\ ChosenInv /\ [Next]_vars => ChosenInv'
  <2> SUFFICES ASSUME VisitorsInv, ChosenInv, [Next]_vars PROVE ChosenInv' OBVIOUS
  <2>1. CASE OfShare(ShareNext)
    BY <2>1, ChosenInvNext DEF OfShare, VisitorsInv, ShareInv
  <2>2. CASE UNCHANGED shareVars BY <2>2, ChosenUntouched DEF shareVars, server
  <2> QED BY <2>1, <2>2 DEF Next, OfCodes, vars
<1>3. ChosenInv => PasscodeIsTheOneChosen
  BY DEF ChosenInv, NothingOverlapped, PasscodeIsTheOneChosen
<1> QED BY <1>1, <1>2, <1>3, VisitorsInvHolds, PTL DEF Spec

-----------------------------------------------------------------------------
(* What the browser holds, and the tries a link can have counted. *)

Tokens == {"none", "live", "lapsed"}
Tabs == [page : {"away", "keys-status", "login", "setup"}, entered : BOOLEAN,
         token : Tokens, awaits : BOOLEAN]
Queries(answers) == [data : answers \cup {None}, error : {"none", "notFound", "other"},
                     sent : {"none", "public", "live", "lapsed"}]

\* The page never holds a session that storage does not.
BrowserInv ==
  /\ tab \in Tabs /\ stored \in Tokens
  /\ status \in Queries({"set", "unset"}) /\ view \in Queries({"key"})
  /\ tab.token = "live" => stored = "live"

LEMMA BrowserInvInit == ShareInit => BrowserInv
BY DEF ShareInit, NotAsked, BrowserInv, Tabs, Tokens, Queries

LEMMA ObserveTyped ==
  ASSUME NEW answers, NEW q \in Queries(answers), NEW token \in {"public", "live", "lapsed"},
         NEW aged \in BOOLEAN
  PROVE  Observe(q, token, aged) \in Queries(answers)
BY DEF Observe, Queries

\* Entering a page keeps it, whatever token and caches it is entered with.
LEMMA EnterKeeps ==
  ASSUME NEW page \in {"keys-status", "login", "setup"}, NEW kept \in Tokens,
         NEW from \in Tabs, NEW st \in Queries({"set", "unset"}),
         NEW vw \in Queries({"key"}), NEW aged \in BOOLEAN,
         Enter(page, kept, from, st, vw, aged)
  PROVE  BrowserInv'
<1> DEFINE held == IF page = "keys-status" /\ kept = "lapsed" THEN "none" ELSE kept
           token == IF page = "keys-status" THEN held ELSE "none"
<1>1. held \in Tokens /\ token \in Tokens /\ (token = "live" => held = "live")
  BY DEF Tokens
<1>2. /\ stored' = held
      /\ tab' = [from EXCEPT !.page = page, !.entered = page # "keys-status",
                             !.token = token]
      /\ view' = IF token = "live" THEN Observe(vw, token, aged) ELSE vw
      /\ status' = IF token = "live" THEN st ELSE Observe(st, "public", aged)
  BY DEF Enter
<1> HIDE DEF held, token
<1>3. tab' \in Tabs /\ tab'.token = token BY <1>1, <1>2 DEF Tabs
<1>4. view' \in Queries({"key"}) /\ status' \in Queries({"set", "unset"})
  BY <1>2, ObserveTyped
<1> QED BY <1>1, <1>2, <1>3, <1>4 DEF BrowserInv

LEMMA PageKeepsBrowser == ASSUME BrowserInv, Page PROVE BrowserInv'
<1> USE DEF BrowserInv
<1>1. ASSUME NEW page \in {"keys-status", "login", "setup"}, LoadPage(page)
      PROVE  BrowserInv'
  <2>1. [tab EXCEPT !.awaits = FALSE] \in Tabs BY DEF Tabs
  <2>2. NotAsked \in Queries({"set", "unset"}) /\ NotAsked \in Queries({"key"})
    BY DEF NotAsked, Queries
  <2>3. Enter(page, stored, [tab EXCEPT !.awaits = FALSE], NotAsked, NotAsked, TRUE)
    BY <1>1 DEF LoadPage
  <2> HIDE DEF BrowserInv
  <2> QED BY <2>1, <2>2, <2>3, EnterKeeps DEF BrowserInv
<1>2. ASSUME NEW page \in {"keys-status", "login", "setup"}, NEW aged \in BOOLEAN,
             Goto(page, stored, aged)
      PROVE  BrowserInv'
  BY <1>2, EnterKeeps DEF Goto
<1>3. ASSUME NEW aged \in BOOLEAN, Effect(aged) PROVE BrowserInv'
  <2>1. CASE DropRejectedToken(aged)
    <3>1. status' \in Queries({"set", "unset"})
      BY <1>3, <2>1, ObserveTyped DEF DropRejectedToken
    <3> QED BY <2>1, <3>1 DEF DropRejectedToken, Tabs, Tokens
  <2>2. CASE GoToPasscode(aged) BY <1>2, <1>3, <2>2 DEF GoToPasscode
  <2>3. CASE SkipSignedIn(aged)
    <3>1. CASE Goto("keys-status", stored, aged) BY <1>2, <1>3, <3>1
    <3>2. CASE /\ tab' = [tab EXCEPT !.entered = FALSE]
               /\ stored' = IF stored = "lapsed" THEN "none" ELSE stored
               /\ UNCHANGED <<status, view>>
      BY <3>2 DEF Tabs, Tokens
    <3> QED BY <2>3, <3>1, <3>2 DEF SkipSignedIn
  <2>4. CASE CorrectPage(aged) BY <1>2, <1>3, <2>4 DEF CorrectPage
  <2> QED BY <1>3, <2>1, <2>2, <2>3, <2>4 DEF Effect
<1>4. ASSUME NEW lost \in BOOLEAN, AnswerStatus(lost) PROVE BrowserInv'
  BY <1>4 DEF AnswerStatus, Queries
<1>5. ASSUME NEW lost \in BOOLEAN, AnswerView(lost) PROVE BrowserInv'
  BY <1>5 DEF AnswerView, Queries
<1>6. CASE Reconnect
  <2>1. /\ view' = view \/ view' = Observe(view, tab.token, TRUE)
        /\ tab.token # "none" \/ view' = view
        /\ status' = status \/ status' = Observe(status, "public", TRUE)
        /\ UNCHANGED <<tab, stored>>
    BY <1>6 DEF Reconnect
  <2>2. tab.token # "none" => tab.token \in {"public", "live", "lapsed"} BY DEF Tabs, Tokens
  <2> QED BY <2>1, <2>2, ObserveTyped
<1>7. CASE Lapse BY <1>7 DEF Lapse, Tabs, Tokens, Queries
<1>8. CASE LoseAnswer BY <1>8 DEF LoseAnswer, Tabs
<1> QED BY <1>1, <1>3, <1>4, <1>5, <1>6, <1>7, <1>8 DEF Page

LEMMA EndKeepsBrowser ==
  ASSUME BrowserInv, NEW v \in Visits, NEW token, Ends(v, token) PROVE BrowserInv'
<1> USE DEF BrowserInv
<1>1. [tab EXCEPT !.awaits = FALSE] \in Tabs BY DEF Tabs
<1>2. ASSUME NEW aged \in BOOLEAN,
             Enter("keys-status", "live", [tab EXCEPT !.awaits = FALSE], status, view, aged)
      PROVE  BrowserInv'
  <2>1. "live" \in Tokens BY DEF Tokens
  <2> QED BY <1>1, <1>2, <2>1, EnterKeeps
<1>3. CASE tab' = [tab EXCEPT !.awaits = FALSE] /\ UNCHANGED <<stored, status, view>>
  BY <1>1, <1>3 DEF Tabs
<1>4. CASE UNCHANGED browser BY <1>4 DEF browser
<1> QED BY <1>2, <1>3, <1>4 DEF Ends

LEMMA BrowserInvNext == ASSUME BrowserInv, ShareNext PROVE BrowserInv'
<1>1. CASE Page BY <1>1, PageKeepsBrowser
<1>2. CASE UNCHANGED browser BY <1>2 DEF browser, BrowserInv
<1>3. ASSUME NEW kind, NEW code, Submit(kind, code) PROVE BrowserInv'
  BY <1>3 DEF Submit, BrowserInv, Tabs
<1>4. ASSUME NEW v \in Visits,
             \/ ReadShare(v) \/ SetSharePasscode(v) \/ RecordShareFailure(v)
             \/ ResetShareFailures(v) \/ UpdateSharePasscodeHash(v) \/ FailVisit(v)
      PROVE  BrowserInv'
  <2>1. UNCHANGED browser \/ \E token \in BOOLEAN : Ends(v, token)
    BY <1>4 DEF ReadShare, SetSharePasscode, RecordShareFailure, ResetShareFailures,
                UpdateSharePasscodeHash, FailVisit, GoesOn
  <2> QED BY <1>2, <2>1, EndKeepsBrowser
<1>5. CASE Unlock \/ ResetSharePasscode \/ RemoveHolder
  BY <1>2, <1>5 DEF Unlock, ResetSharePasscode, RemoveHolder
<1>6. ASSUME NEW kind, NEW code, NEW v, SubmitElsewhere(v, kind, code)
      PROVE  BrowserInv'
  BY <1>2, <1>6 DEF SubmitElsewhere
<1> QED BY <1>1, <1>3, <1>4, <1>5, <1>6 DEF ShareNext

-----------------------------------------------------------------------------
\* Each request counts one try at most, and not before it ends.
VisitsCounted ==
  /\ share.attempts + Cardinality(Handled) <= count["visits"]
  /\ count["visits"] <= MaxVisits

LEMMA HandledCount ==
  ASSUME ShareTyped
  PROVE  /\ IsFiniteSet(Visits) /\ Handled \subseteq Visits
         /\ Cardinality(Handled) \in Nat /\ share.attempts \in Nat
         /\ count["visits"] \in Nat /\ MaxVisits \in Nat
<1>1. Handled \subseteq Visits BY DEF Handled
<1> QED BY <1>1, ShareAssumption, SlotsBounded DEF ShareTyped, Links, Counts

LEMMA VisitsCountedInit == ShareInit => VisitsCounted
<1> SUFFICES ASSUME ShareInit PROVE VisitsCounted OBVIOUS
<1>1. Handled = {} BY DEF ShareInit, Handled, Busy, NoVisit
<1>2. Cardinality(Handled) = 0 BY <1>1, FS_EmptySet
<1>3. share.attempts = 0 /\ count["visits"] = 0 BY DEF ShareInit
<1> QED BY <1>2, <1>3, ShareAssumption DEF VisitsCounted

\* Slots and counted tries stay, or become fewer.
LEMMA VisitsUncounted ==
  ASSUME ShareTyped, ShareTyped', VisitsCounted, count'["visits"] = count["visits"],
         Handled' \subseteq Handled, share'.attempts <= share.attempts
  PROVE  VisitsCounted'
<1>1. /\ Cardinality(Handled) \in Nat /\ Cardinality(Handled') \in Nat
      /\ share.attempts \in Nat /\ share'.attempts \in Nat
      /\ count["visits"] \in Nat /\ MaxVisits \in Nat
      /\ Handled \subseteq Visits /\ Handled' \subseteq Visits /\ IsFiniteSet(Visits)
  BY HandledCount, ShareAssumption, SlotsBounded DEF Handled, ShareTyped, Links
<1>2. Cardinality(Handled') <= Cardinality(Handled)
  BY <1>1, SlotsBounded, FS_Subset
<1> QED BY <1>1, <1>2 DEF VisitsCounted

LEMMA SlotIsFreed ==
  ASSUME ShareTyped, NEW v \in Visits, NEW token, Ends(v, token)
  PROVE  Handled' = Handled \ {v}
<1>1. \A u \in Visits : visit'[u] = IF u = v THEN NoVisit ELSE visit[u]
  BY DEF Ends, ShareTyped
<1> QED BY <1>1 DEF Handled, Busy, NoVisit

LEMMA VisitsCountedNext ==
  ASSUME ShareTyped, ShareTyped', VisitsCounted, ShareNext PROVE VisitsCounted'
<1> USE DEF VisitsCounted
<1>1. ASSUME UNCHANGED visit, share'.attempts <= share.attempts,
             count'["visits"] = count["visits"]
      PROVE  VisitsCounted'
  <2>1. Handled' = Handled BY <1>1 DEF Handled, Busy
  <2> QED BY <1>1, <2>1, VisitsUncounted
<1>2. ASSUME NEW what \in {"loads", "resets", "lost"}, NEW bound, Uses(what, bound)
      PROVE  count'["visits"] = count["visits"]
  BY <1>2 DEF Uses, ShareTyped, Counts
<1>3. Loses => count'["visits"] = count["visits"] BY <1>2 DEF Loses, Upsets
<1>4. CASE Page
  <2>1. UNCHANGED server
    BY <1>4 DEF Page, LoadPage, Effect, DropRejectedToken, GoToPasscode, SkipSignedIn,
                CorrectPage, AnswerStatus, AnswerView, Reconnect, Lapse, LoseAnswer
  <2>2. Uses("loads", MaxLoads) \/ Loses \/ UNCHANGED count
    BY <1>4 DEF Page, LoadPage, Effect, DropRejectedToken, GoToPasscode, SkipSignedIn,
                CorrectPage, AnswerStatus, AnswerView, Reconnect, Lapse, LoseAnswer
  <2>3. share' = share /\ visit' = visit BY <2>1 DEF server
  <2>4. share'.attempts <= share.attempts BY <2>3, HandledCount
  <2> QED BY <1>1, <1>2, <1>3, <2>2, <2>3, <2>4
<1>5. ASSUME NEW kind \in {"setup", "verify"}, NEW code \in Passcodes,
             NEW v \in Visits, Send(v, kind, code)
      PROVE  VisitsCounted'
  <2>1. Uses("visits", MaxVisits) /\ share' = share /\ v \notin Handled
    BY <1>5 DEF Send, Handled
  <2>2. count["visits"] < MaxVisits /\ count'["visits"] = count["visits"] + 1
    BY <2>1 DEF Uses, ShareTyped, Counts
  <2>3. Handled' = Handled \cup {v}
    BY <1>5 DEF Send, Handled, Busy, NoVisit, ShareTyped
  <2>4. Cardinality(Handled') = Cardinality(Handled) + 1
    BY <2>1, <2>3, HandledCount, SlotsBounded, FS_AddElement
  <2> QED BY <2>1, <2>2, <2>4, HandledCount
<1>6. ASSUME NEW v \in Visits, NEW token, Ends(v, token), UNCHANGED count \/ Loses,
             share'.attempts <= share.attempts
      PROVE  VisitsCounted'
  BY <1>3, <1>6, SlotIsFreed, VisitsUncounted
<1>7. ASSUME NEW v \in Visits, RecordShareFailure(v) PROVE VisitsCounted'
  <2>1. v \in Handled BY <1>7 DEF RecordShareFailure, Handled, Busy
  <2>2. Handled' = Handled \ {v} BY <1>7, SlotIsFreed DEF RecordShareFailure
  <2>3. Cardinality(Handled') = Cardinality(Handled) - 1
    BY <2>1, <2>2, HandledCount, SlotLeaves
  <2>4. share'.attempts <= share.attempts + 1 /\ share'.attempts \in Nat
    BY <1>7, HandledCount DEF RecordShareFailure, ShareTyped, Links
  <2>5. UNCHANGED count BY <1>7 DEF RecordShareFailure
  <2> QED BY <2>3, <2>4, <2>5, HandledCount
<1>8. ASSUME NEW v \in Visits,
             \/ ReadShare(v) \/ SetSharePasscode(v) \/ ResetShareFailures(v)
             \/ UpdateSharePasscodeHash(v) \/ FailVisit(v)
      PROVE  VisitsCounted'
  <2>0. share \in Links /\ share.attempts \in Nat BY HandledCount DEF ShareTyped
  <2>1. share'.attempts <= share.attempts
    <3>1. CASE ReadShare(v) \/ FailVisit(v)
      <4>1. share' = share BY <3>1 DEF ReadShare, FailVisit
      <4> QED BY <2>0, <4>1
    <3>2. CASE SetSharePasscode(v)
      <4>1. PICK code \in Passcodes \cup {None} : code = visit[v].code
        BY DEF ShareTyped, Requests
      <4>2. \/ share' = share
            \/ share' = [share EXCEPT !.passcode = code, !.legacy = FALSE,
                                      !.attempts = 0, !.locked = FALSE]
        BY <3>2, <4>1 DEF SetSharePasscode
      <4>3. share'.attempts = share.attempts \/ share'.attempts = 0
        BY <2>0, <4>2 DEF Links
      <4> QED BY <2>0, <4>3
    <3>3. CASE ResetShareFailures(v) BY <2>0, <3>3 DEF ResetShareFailures, Links
    <3>4. CASE UpdateSharePasscodeHash(v)
      <4>1. PICK code \in Passcodes \cup {None} : code = visit[v].code
        BY DEF ShareTyped, Requests
      <4>2. share' = share \/ share' = [share EXCEPT !.passcode = code, !.legacy = FALSE]
        BY <3>4, <4>1 DEF UpdateSharePasscodeHash
      <4>3. share'.attempts = share.attempts BY <2>0, <4>2 DEF Links
      <4> QED BY <2>0, <4>3
    <3> QED BY <1>8, <3>1, <3>2, <3>3, <3>4
  <2>2. UNCHANGED count \/ Loses
    BY <1>8 DEF ReadShare, SetSharePasscode, ResetShareFailures, UpdateSharePasscodeHash,
                FailVisit
  <2>3. CASE \E token \in BOOLEAN : Ends(v, token) BY <1>6, <2>1, <2>2, <2>3
  <2>4. CASE \E q \in Requests : visit' = [visit EXCEPT ![v] = q] /\ v \in Handled
    <3>1. Handled' \subseteq Handled BY <2>4 DEF Handled, Busy, ShareTyped
    <3> QED BY <1>3, <2>1, <2>2, <3>1, VisitsUncounted
  <2>5. \/ \E token \in BOOLEAN : Ends(v, token)
        \/ visit' = [visit EXCEPT ![v] = [visit[v] EXCEPT !.step = visit[v].kind,
                                       !.read = share.passcode, !.legacy = share.legacy]]
        \/ visit' = [visit EXCEPT ![v].step = "rehash"]
    BY <1>8 DEF ReadShare, SetSharePasscode, ResetShareFailures, UpdateSharePasscodeHash,
                FailVisit, GoesOn
  <2>6. v \in Handled
    BY <1>8 DEF ReadShare, SetSharePasscode, ResetShareFailures, UpdateSharePasscodeHash,
                FailVisit, Handled, Busy
  <2>7. /\ [visit[v] EXCEPT !.step = visit[v].kind, !.read = share.passcode,
                            !.legacy = share.legacy] \in Requests
        /\ [visit[v] EXCEPT !.step = "rehash"] \in Requests
    BY DEF ShareTyped, Requests, Links
  <2> QED BY <2>3, <2>4, <2>5, <2>6, <2>7
<1>9. CASE Unlock \/ ResetSharePasscode \/ RemoveHolder
  <2>0. share \in Links /\ share.attempts \in Nat BY HandledCount DEF ShareTyped
  <2>1. UNCHANGED visit /\ share'.attempts <= share.attempts
    <3>1. CASE Unlock BY <2>0, <3>1 DEF Unlock, Links
    <3>2. CASE ResetSharePasscode BY <2>0, <3>2 DEF ResetSharePasscode, Links
    <3>3. CASE RemoveHolder BY <2>0, <3>3 DEF RemoveHolder, Links
    <3> QED BY <1>9, <3>1, <3>2, <3>3
  <2>2. count'["visits"] = count["visits"]
    BY <1>2, <1>3, <1>9 DEF Unlock, ResetSharePasscode, RemoveHolder, Upsets
  <2> QED BY <1>1, <2>1, <2>2
<1>10. ASSUME NEW kind \in {"setup", "verify"}, NEW code \in Passcodes,
              \/ Submit(kind, code)
              \/ \E v \in Visits : SubmitElsewhere(v, kind, code)
       PROVE  VisitsCounted'
  BY <1>5, <1>10, ShareAssumption DEF Submit, SubmitElsewhere
<1> QED BY <1>4, <1>7, <1>8, <1>9, <1>10 DEF ShareNext

-----------------------------------------------------------------------------
\* A try that a code has counted is one that was turned down, and only codes
\* that were made are mailed.
CodesKept ==
  /\ \A i \in DOMAIN otps : otps[i].attempts <= guesses[i]
  /\ mailed \cup inbox \subseteq DOMAIN otps

LEMMA CodesKeptNext == ASSUME CodesInv, CodesKept, CodesNext PROVE CodesKept'
<1>1. ASSUME UNCHANGED <<otps, guesses>>, mailed' \cup inbox' \subseteq mailed \cup inbox
      PROVE  CodesKept'
  BY <1>1 DEF CodesKept
<1>2. ASSUME NEW l \in Logins, CreateOTP(l) PROVE CodesKept'
  <2>1. /\ otps \in Seq(Codes) /\ Len(otps) \in Nat /\ Len(otps) < MaxCodes
        /\ MaxCodes \in Nat /\ NewCode \in Codes /\ NewCode.attempts = 0
        /\ otps' = Append(otps, NewCode)
        /\ guesses' = guesses /\ guesses \in [1 .. MaxCodes -> Nat]
        /\ mailed' = mailed \cup {Len(otps) + 1} /\ inbox' = inbox
    BY <1>2, CodesAssumption DEF CreateOTP, CodesInv, CodesTyped, NewCode, Codes
  <2>2. /\ DOMAIN otps' = DOMAIN otps \cup {Len(otps) + 1}
        /\ \A i \in DOMAIN otps : otps'[i] = otps[i]
        /\ otps'[Len(otps) + 1] = NewCode
    BY <2>1
  <2>3. 0 <= guesses[Len(otps) + 1] BY <2>1
  <2> QED BY <2>1, <2>2, <2>3 DEF CodesKept
<1>3. ASSUME NEW l \in Logins, IncrementOTPAttempts(l) PROVE CodesKept'
  <2>0. PICK j : j = login[l].read OBVIOUS
  <2>1. /\ j \in DOMAIN otps /\ otps' = [otps EXCEPT ![j].attempts = @ + 1]
        /\ guesses' = [guesses EXCEPT ![j] = @ + 1] /\ UNCHANGED <<mailed, inbox>>
    BY <1>3, <2>0 DEF IncrementOTPAttempts, CodesInv, CodesTyped
  <2>2. ASSUME NEW i \in DOMAIN otps PROVE otps'[i].attempts <= guesses'[i]
    <3>1. /\ otps[i] \in Codes /\ otps[i].attempts \in Nat /\ guesses[i] \in Nat
          /\ i \in 1 .. MaxCodes /\ guesses \in [1 .. MaxCodes -> Nat]
          /\ otps[i].attempts <= guesses[i]
      BY <2>2, CodeNumbers DEF CodesKept, CodesInv, CodesTyped
    <3>2. otps'[i] = IF i = j THEN [otps[i] EXCEPT !.attempts = otps[i].attempts + 1]
                     ELSE otps[i]
      BY <2>1, <2>2
    <3>3. guesses'[i] = IF i = j THEN guesses[i] + 1 ELSE guesses[i] BY <2>1, <3>1
    <3>4. otps'[i].attempts = IF i = j THEN otps[i].attempts + 1 ELSE otps[i].attempts
      BY <3>1, <3>2 DEF Codes
    <3> QED BY <3>1, <3>3, <3>4
  <2>3. DOMAIN otps' = DOMAIN otps BY <2>1
  <2> QED BY <2>1, <2>2, <2>3 DEF CodesKept
<1>4. ASSUME NEW l \in Logins, FailLogin(l) PROVE CodesKept'
  <2>1. /\ UNCHANGED <<otps, mailed, inbox>>
        /\ guesses' = guesses \/ guesses' = [guesses EXCEPT ![login[l].read] = @ + 1]
    BY <1>4 DEF FailLogin
  <2>2. ASSUME NEW i \in DOMAIN otps PROVE otps[i].attempts <= guesses'[i]
    <3>1. /\ otps[i].attempts \in Nat /\ guesses[i] \in Nat
          /\ i \in 1 .. MaxCodes /\ guesses \in [1 .. MaxCodes -> Nat]
          /\ otps[i].attempts <= guesses[i]
      BY <2>2, CodeNumbers DEF CodesKept, CodesInv, CodesTyped
    <3>2. guesses'[i] = guesses[i] \/ guesses'[i] = guesses[i] + 1 BY <2>1, <3>1
    <3> QED BY <3>1, <3>2
  <2> QED BY <2>1, <2>2 DEF CodesKept
<1>5. ASSUME NEW j, otps' = [otps EXCEPT ![j].consumed = TRUE]
                    \/ otps' = [otps EXCEPT ![j].expired = TRUE],
             UNCHANGED <<guesses, mailed, inbox>>
      PROVE  CodesKept'
  <2>1. DOMAIN otps' = DOMAIN otps BY <1>5
  <2>2. ASSUME NEW i \in DOMAIN otps PROVE otps'[i].attempts = otps[i].attempts
    <3>1. otps[i] \in Codes BY <2>2, CodeNumbers
    <3>2. \/ otps'[i] = otps[i] \/ otps'[i] = [otps[i] EXCEPT !.consumed = TRUE]
          \/ otps'[i] = [otps[i] EXCEPT !.expired = TRUE]
      BY <1>5, <2>2
    <3> QED BY <3>1, <3>2 DEF Codes
  <2> QED BY <1>5, <2>1, <2>2 DEF CodesKept
<1>6. ASSUME NEW l \in Logins, ConsumeOTP(l) PROVE CodesKept'
  BY <1>5, <1>6 DEF ConsumeOTP
<1>7. ASSUME NEW i, SendOTPEmail(i) \/ Expire(i) PROVE CodesKept'
  BY <1>1, <1>5, <1>7 DEF SendOTPEmail, Expire
<1>8. ASSUME NEW l \in Logins,
             \/ RequestOTP(l) \/ \E typed \in 0 .. MaxCodes : VerifyOTP(l, typed)
             \/ GetAdminByEmail(l) \/ CoolDown \/ Suspend
      PROVE  CodesKept'
  BY <1>1, <1>8 DEF RequestOTP, VerifyOTP, GetAdminByEmail, CoolDown, Suspend
<1>9. CASE CoolDown \/ Suspend BY <1>1, <1>9 DEF CoolDown, Suspend
<1> QED BY <1>2, <1>3, <1>4, <1>6, <1>7, <1>8, <1>9 DEF CodesNext

VisitorsTyped == BrowserInv /\ VisitsCounted /\ CodesKept

\* No link counts more tries than codes can be sent, no code more than it turned
\* down; nothing is mailed that was not made; and the page never holds a live
\* session that storage does not.
THEOREM VisitorsTypeCorrect == Spec => []TypeOK
<1>1. Init => VisitorsTyped
  <2> SUFFICES ASSUME Init PROVE VisitorsTyped OBVIOUS
  <2>1. CodesKept BY DEF Init, CodesInit, CodesKept
  <2> QED BY <2>1, BrowserInvInit, VisitsCountedInit DEF Init, VisitorsTyped
<1>2. VisitorsInv /\ VisitorsInv' /\ VisitorsTyped /\ [Next]_vars => VisitorsTyped'
  <2> SUFFICES ASSUME VisitorsInv, VisitorsInv', VisitorsTyped, [Next]_vars
               PROVE  VisitorsTyped'
    OBVIOUS
  <2>1. ShareTyped /\ ShareTyped' /\ CodesInv BY DEF VisitorsInv, ShareInv
  <2>2. UNCHANGED shareVars => (BrowserInv /\ VisitsCounted)'
    BY DEF VisitorsTyped, BrowserInv, VisitsCounted, Handled, Busy, shareVars, server, browser
  <2>3. UNCHANGED codesVars => CodesKept' BY DEF VisitorsTyped, CodesKept, codesVars
  <2>4. CASE OfShare(ShareNext)
    BY <2>1, <2>3, <2>4, BrowserInvNext, VisitsCountedNext DEF OfShare, VisitorsTyped
  <2>5. CASE OfCodes(CodesNext)
    BY <2>1, <2>2, <2>5, CodesKeptNext DEF OfCodes, VisitorsTyped
  <2>6. CASE UNCHANGED vars BY <2>2, <2>3, <2>6 DEF vars, VisitorsTyped
  <2> QED BY <2>4, <2>5, <2>6 DEF Next
<1>3. VisitorsInv /\ VisitorsTyped => TypeOK
  <2> SUFFICES ASSUME VisitorsInv, VisitorsTyped PROVE TypeOK OBVIOUS
  <2>1. ShareTyped BY DEF VisitorsInv, ShareInv
  <2>2. share.attempts \in 0 .. MaxVisits
    BY <2>1, HandledCount DEF VisitorsTyped, VisitsCounted
  <2>3. /\ tab.page \in {"away", "keys-status", "login", "setup"}
        /\ {tab.token, stored} \subseteq {"none", "live", "lapsed"}
        /\ status.data \in {None, "set", "unset"} /\ view.data \in {None, "key"}
    BY DEF VisitorsTyped, BrowserInv, Tabs, Tokens, Queries
  <2>4. /\ share.passcode \in Passcodes \cup {None}
        /\ \A v \in Visits : visit[v].step \in {"none", "read", "setup", "verify", "rehash"}
    BY <2>1 DEF ShareTyped, Links, Requests
  <2> QED BY <2>2, <2>3, <2>4 DEF TypeOK, VisitorsTyped, BrowserInv, CodesKept
<1> QED BY <1>1, <1>2, <1>3, VisitorsInvHolds, PTL DEF Spec
=============================================================================

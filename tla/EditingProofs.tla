---------------------------- MODULE EditingProofs ----------------------------
(***************************************************************************)
(* Proofs about Editing, for any number of openings, edits, saves and      *)
(* changes made by others: what an open form shows and sends, and how many *)
(* renewals it can have been granted.                                      *)
(***************************************************************************)
EXTENDS Editing, TLAPS

-----------------------------------------------------------------------------
(* The forms. *)

\* A form sends whole only fields it has, and only a key's forms have a plan.
LEMMA FormFields ==
  ASSUME NEW k \in DOMAIN Forms
  PROVE  /\ Forms[k].whole \subseteq Forms[k].fields
         /\ k \in PlanForms => PlanFields \subseteq Forms[k].fields
<1>1. CASE k = "keyOfPage"
  BY <1>1 DEF Forms, EditKeyDialogOfPage, EditKeyFields, With, PlanFields
<1>2. CASE k = "keyOfTable"
  BY <1>2 DEF Forms, EditKeyDialogOfPage, EditKeyDialogOfTable, EditKeyFields, With, PlanFields
<1>3. CASE k = "server" BY <1>3 DEF Forms, EditServerDialog, With, PlanForms
<1>4. CASE k = "user" BY <1>4 DEF Forms, EditUserDialog, With, PlanForms
<1>5. CASE k = "overallLimit" BY <1>5 DEF Forms, OverallLimitDialog, With, PlanForms
<1>6. CASE k = "settings" BY <1>6 DEF Forms, SettingsPage, With, PlanForms
<1> QED BY <1>1, <1>2, <1>3, <1>4, <1>5, <1>6 DEF Forms

\* Every form has a first row.
LEMMA FirstRow == ASSUME NEW k \in DOMAIN Forms PROVE "a" \in Forms[k].rows
<1>1. CASE k = "keyOfPage" BY <1>1 DEF Forms, EditKeyDialogOfPage, With
<1>2. CASE k = "keyOfTable"
  BY <1>2 DEF Forms, EditKeyDialogOfPage, EditKeyDialogOfTable, With
<1>3. CASE k = "server" BY <1>3 DEF Forms, EditServerDialog, With
<1>4. CASE k = "user" BY <1>4 DEF Forms, EditUserDialog, With
<1>5. CASE k = "overallLimit" BY <1>5 DEF Forms, OverallLimitDialog, With
<1>6. CASE k = "settings" BY <1>6 DEF Forms, SettingsPage, With
<1> QED BY <1>1, <1>2, <1>3, <1>4, <1>5, <1>6 DEF Forms

-----------------------------------------------------------------------------
(* The inductive invariant. *)

FormStates == [value : [Form.fields -> Values], typed : SUBSET Form.fields,
               mode : Modes, enough : BOOLEAN]

\* What a save sends: values of some of the form's fields.
Patches == UNION {[S -> Values] : S \in SUBSET Form.fields}

Requests == [at : {"patch", "renew"}, done : BOOLEAN, row : Form.rows, patch : Patches,
             extend : BOOLEAN, typed : SUBSET Form.fields, whole : SUBSET Form.fields]

\* A request is none, or one that sends what was typed or is sent whole, and
\* renews only from a form that has a plan.
WellSent(r) ==
  \/ r = NoRequest
  \/ /\ r \in Requests
     /\ r.at = "renew" \/ r.extend => kind \in PlanForms
     /\ DOMAIN r.patch \subseteq r.typed \cup r.whole

\* Types, and that only a form with a plan leaves the mode "keep".
Typed ==
  /\ kind \in DOMAIN Forms
  /\ server \in Rows /\ cache \in Rows
  /\ open \in Form.rows \cup {"none"}
  /\ row \in [Form.fields -> Values]
  /\ form \in FormStates
  /\ form.mode # "keep" => kind \in PlanForms

Sent == WellSent(pending) /\ WellSent(stray)

One(condition) == IF condition THEN 1 ELSE 0

\* A renewal that was given up on before it was done is owed: it is counted
\* as reported failed already.
Counted ==
  /\ granted \in Nat /\ toldDone \in Nat /\ toldFailed \in Nat
  /\ granted + One(stray.at = "renew")
       <= toldDone + toldFailed + One(pending.at = "renew" /\ pending.done)

EditingInv == Typed /\ Sent /\ UntypedShowsRow /\ Counted

\* The invariant implies what the runs check.
LEMMA EditingInvSuffices ==
  EditingInv => TypeOK /\ NothingUntypedIsSent /\ EveryRenewalIsAccountedFor
<1> SUFFICES ASSUME EditingInv PROVE TypeOK /\ NothingUntypedIsSent /\ EveryRenewalIsAccountedFor
  OBVIOUS
<1>1. pending.at \in {"none", "patch", "renew"} /\ stray.at \in {"none", "patch", "renew"}
  BY DEF EditingInv, Sent, WellSent, Requests, NoRequest
<1>2. TypeOK BY <1>1 DEF EditingInv, Typed, TypeOK, FormStates
<1>3. NothingUntypedIsSent
  BY DEF EditingInv, Sent, WellSent, NoRequest, NothingUntypedIsSent
<1>4. EveryRenewalIsAccountedFor
  BY <1>1 DEF EditingInv, Counted, One, EveryRenewalIsAccountedFor, Busy
<1> QED BY <1>2, <1>3, <1>4

-----------------------------------------------------------------------------
(* The parts of a step. *)

\* A seeded form shows the row it was seeded from and has nothing typed in it.
LEMMA SeedFromShows ==
  ASSUME NEW r \in [Form.fields -> Values], SeedFrom(r)
  PROVE  /\ form' \in FormStates
         /\ form'.value = r /\ form'.typed = {}
         /\ form'.mode # "keep" => kind \in PlanForms
<1>1. PICK mode \in IF kind \in PlanForms THEN {"keep", "extend"} ELSE {"keep"} :
        form' = [value |-> r, typed |-> {}, mode |-> mode, enough |-> TRUE]
  BY DEF SeedFrom
<1>2. mode \in Modes /\ (mode # "keep" => kind \in PlanForms) BY <1>1 DEF Modes
<1> QED BY <1>1, <1>2 DEF FormStates

\* Values of fields of the form are a patch, and nothing else is.
LEMMA PatchIntro ==
  ASSUME NEW S \in SUBSET Form.fields, NEW p \in [S -> Values]
  PROVE  p \in Patches
BY DEF Patches

LEMMA PatchElim ==
  ASSUME NEW p \in Patches
  PROVE  /\ DOMAIN p \subseteq Form.fields
         /\ \A f \in DOMAIN p : p[f] \in Values
BY DEF Patches

\* The server's rows stay rows whatever request it carries out.
LEMMA ApplyKeepsRows ==
  ASSUME Typed, NEW r \in Requests, r.at = "renew" => kind \in PlanForms, Apply(r)
  PROVE  server' \in Rows
<1> DEFINE new == IF r.at = "patch" THEN r.patch ELSE [f \in PlanFields |-> "renewed"]
<1>1. r.row \in Form.rows /\ r.patch \in Patches /\ r.at \in {"patch", "renew"}
  BY DEF Requests
<1>2. \A f \in DOMAIN new : new[f] \in Values
  BY <1>1, PatchElim DEF Values
<1> HIDE DEF new
<1>3. server \in [Form.rows -> [Form.fields -> Values]] BY DEF Typed, Rows
<1>4. Replace(server[r.row], new) \in [Form.fields -> Values]
  BY <1>1, <1>2, <1>3 DEF Replace
<1>5. server' = [server EXCEPT ![r.row] = Replace(server[r.row], new)] BY DEF Apply, new
<1>6. server' \in [Form.rows -> [Form.fields -> Values]] BY <1>1, <1>3, <1>4, <1>5
<1> QED BY <1>6 DEF Rows

\* The form a behaviour is about stays the same.
LEMMA SameForm ==
  ASSUME kind' = kind
  PROVE  /\ Form' = Form /\ Rows' = Rows /\ FormStates' = FormStates
         /\ Patches' = Patches /\ Requests' = Requests
BY DEF Form, Rows, FormStates, Patches, Requests

\* A request that nobody touches stays well sent.
LEMMA SentKept ==
  ASSUME kind' = kind, pending' = pending, stray' = stray, Sent
  PROVE  Sent'
BY SameForm DEF Sent, WellSent

\* What Changed lists was typed; it and what goes whole are fields of the form.
LEMMA SentFieldsOK ==
  ASSUME Typed, UntypedShowsRow, open # "none"
  PROVE  /\ SentFields \subseteq Form.fields
         /\ Whole \subseteq Form.fields
         /\ SentFields \subseteq form.typed \cup Whole
<1>1. Whole \subseteq Form.fields
  BY FormFields DEF Typed, Whole, Form
<1>2. Changed \subseteq form.typed /\ Changed \subseteq Form.fields
  BY DEF UntypedShowsRow, Changed, Editable
<1> QED BY <1>1, <1>2 DEF SentFields

LEMMA InitInv == Init => EditingInv
<1> SUFFICES ASSUME Init PROVE EditingInv OBVIOUS
<1>1. kind \in DOMAIN Forms /\ "a" \in Form.rows BY FirstRow DEF Init, Form
<1>2. [f \in Form.fields |-> "found"] \in [Form.fields -> Values] BY DEF Values
<1>3. server \in Rows /\ cache \in Rows /\ row \in [Form.fields -> Values]
  BY <1>1, <1>2 DEF Init, Rows
<1>4. form \in FormStates /\ form.mode = "keep" BY <1>3 DEF Init, FormStates, Modes
<1>5. Typed BY <1>1, <1>3, <1>4 DEF Typed, Init
<1>6. Sent BY DEF Sent, WellSent, Init
<1>7. UntypedShowsRow BY DEF UntypedShowsRow, Init
<1>8. Counted BY DEF Counted, One, Init, NoRequest
<1> QED BY <1>5, <1>6, <1>7, <1>8 DEF EditingInv

-----------------------------------------------------------------------------
(* The form's own actions leave the requests alone. *)

LEMMA OpenInv == ASSUME EditingInv, NEW id \in Form.rows, Open(id) PROVE EditingInv'
<1> USE DEF EditingInv
<1>1. kind' = kind /\ pending' = pending /\ stray' = stray BY DEF Open
<1>2. cache[id] \in [Form.fields -> Values] BY DEF Typed, Rows
<1>3. /\ form' \in FormStates /\ form'.value = cache[id] /\ form'.typed = {}
      /\ form'.mode # "keep" => kind \in PlanForms
  BY <1>2, SeedFromShows DEF Open
<1>4. Typed' BY <1>1, <1>2, <1>3, SameForm DEF Typed, Open
<1>5. UntypedShowsRow' BY <1>1, <1>3, SameForm DEF UntypedShowsRow, Open
<1>6. Sent' BY <1>1, SentKept
<1>7. Counted' BY <1>1 DEF Counted, Open, renewals
<1> QED BY <1>4, <1>5, <1>6, <1>7

LEMMA CloseInv == ASSUME EditingInv, Close PROVE EditingInv'
<1> USE DEF EditingInv
<1>1. kind' = kind /\ pending' = pending /\ stray' = stray BY DEF Close
<1>2. Typed' BY <1>1, SameForm DEF Typed, Close
<1>3. UntypedShowsRow' BY DEF UntypedShowsRow, Close
<1>4. Sent' BY <1>1, SentKept
<1>5. Counted' BY <1>1 DEF Counted, Close, renewals
<1> QED BY <1>2, <1>3, <1>4, <1>5

LEMMA TypeInv ==
  ASSUME EditingInv, NEW f \in Form.fields, NEW v \in Values, Type(f, v)
  PROVE  EditingInv'
<1> USE DEF EditingInv
<1>1. kind' = kind /\ pending' = pending /\ stray' = stray BY DEF Type
<1>2. form \in FormStates /\ form' = [form EXCEPT !.value[f] = v, !.typed = @ \cup {f}]
  BY DEF Typed, Type
<1>3. /\ form' \in FormStates /\ form'.mode = form.mode
      /\ form'.typed = form.typed \cup {f}
      /\ \A g \in Form.fields : g # f => form'.value[g] = form.value[g]
  BY <1>2 DEF FormStates
<1>4. Typed' BY <1>1, <1>3, SameForm DEF Typed, Type
<1>5. UntypedShowsRow' BY <1>1, <1>3, SameForm DEF UntypedShowsRow, Type
<1>6. Sent' BY <1>1, SentKept
<1>7. Counted' BY <1>1 DEF Counted, Type, renewals
<1> QED BY <1>4, <1>5, <1>6, <1>7

LEMMA PickInv ==
  ASSUME EditingInv,
         (\E mode \in Modes : PickMode(mode)) \/ (\E enough \in BOOLEAN : TypeAllowance(enough))
  PROVE  EditingInv'
<1> USE DEF EditingInv
<1>1. /\ UNCHANGED <<kind, server, cache, open, row, pending, stray, granted, toldDone, toldFailed>>
  BY DEF PickMode, TypeAllowance, renewals
<1>2. /\ form' \in FormStates /\ form'.value = form.value /\ form'.typed = form.typed
      /\ form'.mode # "keep" => kind \in PlanForms
  BY DEF PickMode, TypeAllowance, Typed, FormStates
<1>3. Typed' BY <1>1, <1>2, SameForm DEF Typed
<1>4. UntypedShowsRow' BY <1>1, <1>2, SameForm DEF UntypedShowsRow
<1>5. Sent' BY <1>1, SentKept
<1>6. Counted' BY <1>1 DEF Counted
<1> QED BY <1>3, <1>4, <1>5, <1>6

-----------------------------------------------------------------------------
(* Saving leaves the form alone, and Succeed seeds it at most. *)

LEMMA SubmitInv == ASSUME EditingInv, Submit PROVE EditingInv'
<1> USE DEF EditingInv
<1>1. /\ UNCHANGED <<kind, server, cache, open, row, form, stray, granted, toldDone, toldFailed>>
      /\ open # "none" /\ pending.at = "none"
  BY DEF Submit, renewals, Busy
<1> DEFINE patch == [f \in SentFields |-> form.value[f]]
<1>2. /\ SentFields \subseteq Form.fields /\ Whole \subseteq Form.fields
      /\ SentFields \subseteq form.typed \cup Whole
  BY <1>1, SentFieldsOK
<1>3. form \in FormStates BY DEF Typed
<1>4. patch \in Patches
  <2>1. patch \in [SentFields -> Values] BY <1>2, <1>3 DEF FormStates
  <2> QED BY <1>2, <2>1, PatchIntro
<1>5. DOMAIN patch \subseteq form.typed \cup Whole BY <1>2
<1> HIDE DEF patch
<1>6. pending' = [at |-> IF SentFields # {} THEN "patch" ELSE "renew", done |-> FALSE,
                  row |-> open, patch |-> patch, extend |-> form.mode = "extend",
                  typed |-> form.typed, whole |-> Whole]
  BY DEF Submit, patch
<1>7. /\ pending' \in Requests /\ pending'.done = FALSE
      /\ DOMAIN pending'.patch \subseteq pending'.typed \cup pending'.whole
  <2>1. open \in Form.rows /\ form.typed \in SUBSET Form.fields
    BY <1>1, <1>3 DEF Typed, FormStates
  <2> QED BY <1>2, <1>4, <1>5, <1>6, <2>1 DEF Requests
<1>8. pending'.at = "renew" \/ pending'.extend => kind \in PlanForms
  <2>1. SentFields # {} \/ form.mode = "extend" BY DEF Submit, NothingToDo
  <2>2. form.mode = "extend" => kind \in PlanForms BY DEF Typed
  <2>3. pending'.at = "renew" => SentFields = {} BY <1>6
  <2>4. pending'.extend => form.mode = "extend"
    <3>1. pending'.extend = (form.mode = "extend") BY <1>6
    <3> QED BY <3>1
  <2> QED BY <2>1, <2>2, <2>3, <2>4
<1>9. Typed' BY <1>1, SameForm DEF Typed
<1>10. Sent' BY <1>1, <1>7, <1>8, SameForm DEF Sent, WellSent
<1>11. UntypedShowsRow' BY <1>1, SameForm DEF UntypedShowsRow
<1>12. Counted' BY <1>1, <1>7 DEF Counted, One
<1> QED BY <1>9, <1>10, <1>11, <1>12

\* A request in flight is one that was sent.
LEMMA InFlight ==
  ASSUME Sent, Busy
  PROVE  /\ pending \in Requests
         /\ pending.at = "renew" \/ pending.extend => kind \in PlanForms
         /\ DOMAIN pending.patch \subseteq pending.typed \cup pending.whole
BY DEF Sent, WellSent, Busy, NoRequest

LEMMA ServerDoesInv == ASSUME EditingInv, ServerDoes PROVE EditingInv'
<1> USE DEF EditingInv
<1>1. /\ UNCHANGED <<kind, cache, open, row, form, stray, toldDone, toldFailed>>
      /\ Busy /\ Apply(pending) /\ ~pending.done
      /\ pending' = [pending EXCEPT !.done = TRUE]
  BY DEF ServerDoes
<1>2. server' \in Rows BY <1>1, InFlight, ApplyKeepsRows
<1>3. /\ pending' \in Requests /\ pending'.at = pending.at /\ pending'.done = TRUE
      /\ pending'.extend = pending.extend /\ pending'.patch = pending.patch
      /\ pending'.typed = pending.typed /\ pending'.whole = pending.whole
  BY <1>1, InFlight DEF Requests
<1>4. Typed' BY <1>1, <1>2, SameForm DEF Typed
<1>5. Sent' BY <1>1, <1>3, InFlight, SameForm DEF Sent, WellSent
<1>6. UntypedShowsRow' BY <1>1, SameForm DEF UntypedShowsRow
<1>7. Counted'
  <2>1. pending.at \in {"patch", "renew"} BY <1>1, InFlight DEF Requests
  <2>2. granted' = IF pending.at = "patch" THEN granted ELSE granted + 1 BY <1>1 DEF Apply
  <2> QED BY <1>1, <1>3, <2>1, <2>2 DEF Counted, One
<1> QED BY <1>4, <1>5, <1>6, <1>7

LEMMA ProceedInv == ASSUME EditingInv, Proceed PROVE EditingInv'
<1> USE DEF EditingInv
<1>1. /\ UNCHANGED <<kind, server, cache, open, row, form, stray, granted, toldDone, toldFailed>>
      /\ Busy /\ pending.at = "patch" /\ pending.extend
      /\ pending' = [pending EXCEPT !.at = "renew", !.done = FALSE]
  BY DEF Proceed, renewals
<1>2. /\ pending' \in Requests /\ pending'.done = FALSE /\ pending'.patch = pending.patch
      /\ pending'.typed = pending.typed /\ pending'.whole = pending.whole
  BY <1>1, InFlight DEF Requests
<1>3. Typed' BY <1>1, SameForm DEF Typed
<1>4. Sent' BY <1>1, <1>2, InFlight, SameForm DEF Sent, WellSent
<1>5. UntypedShowsRow' BY <1>1, SameForm DEF UntypedShowsRow
<1>6. Counted' BY <1>1, <1>2 DEF Counted, One
<1> QED BY <1>3, <1>4, <1>5, <1>6

LEMMA SucceedInv == ASSUME EditingInv, Succeed PROVE EditingInv'
<1> USE DEF EditingInv
<1>1. /\ UNCHANGED <<kind, server, stray, granted, toldFailed>>
      /\ pending.done /\ pending' = NoRequest
      /\ toldDone' = IF pending.at = "renew" THEN toldDone + 1 ELSE toldDone
  BY DEF Succeed
<1>2. Sent' BY <1>1, SameForm DEF Sent, WellSent
<1>3. Counted' BY <1>1 DEF Counted, One, NoRequest
<1>4. CASE Form.closes
  <2>1. open' = "none" /\ UNCHANGED <<cache, row, form>> BY <1>4 DEF Succeed
  <2>2. Typed' BY <1>1, <2>1, SameForm DEF Typed
  <2> QED BY <1>2, <1>3, <2>1, <2>2 DEF UntypedShowsRow
<1>5. CASE ~Form.closes /\ open # "none" /\ server[open] # row
  <2>1. cache' = server /\ open' = open /\ row' = server[open] /\ SeedFrom(server[open])
    BY <1>5 DEF Succeed
  <2>2. server[open] \in [Form.fields -> Values] BY <1>5 DEF Typed, Rows
  <2>3. /\ form' \in FormStates /\ form'.value = server[open] /\ form'.typed = {}
        /\ form'.mode # "keep" => kind \in PlanForms
    BY <2>1, <2>2, SeedFromShows
  <2>4. Typed' BY <1>1, <2>1, <2>2, <2>3, SameForm DEF Typed
  <2>5. UntypedShowsRow' BY <1>1, <2>1, <2>3, SameForm DEF UntypedShowsRow
  <2> QED BY <1>2, <1>3, <2>4, <2>5
<1>6. CASE ~Form.closes /\ ~(open # "none" /\ server[open] # row)
  <2>1. cache' = server /\ UNCHANGED <<open, row, form>> BY <1>6 DEF Succeed
  <2>2. Typed' BY <1>1, <2>1, SameForm DEF Typed
  <2>3. UntypedShowsRow' BY <1>1, <1>6, <2>1, SameForm DEF UntypedShowsRow
  <2> QED BY <1>2, <1>3, <2>2, <2>3
<1> QED BY <1>4, <1>5, <1>6

LEMMA RefuseInv == ASSUME EditingInv, Refuse PROVE EditingInv'
<1> USE DEF EditingInv
<1>1. /\ UNCHANGED <<kind, server, cache, open, row, form, stray, granted, toldDone>>
      /\ pending' = NoRequest
      /\ toldFailed' = IF pending.at = "renew" THEN toldFailed + 1 ELSE toldFailed
  BY DEF Refuse
<1>2. Typed' BY <1>1, SameForm DEF Typed
<1>3. Sent' BY <1>1, SameForm DEF Sent, WellSent
<1>4. UntypedShowsRow' BY <1>1, SameForm DEF UntypedShowsRow
<1>5. Counted' BY <1>1 DEF Counted, One, NoRequest
<1> QED BY <1>2, <1>3, <1>4, <1>5

LEMMA TimeOutInv == ASSUME EditingInv, TimeOut PROVE EditingInv'
<1> USE DEF EditingInv
<1>1. /\ UNCHANGED <<kind, server, cache, open, row, form, granted, toldDone>>
      /\ Busy /\ pending' = NoRequest
      /\ stray' = IF pending.done THEN stray ELSE pending
      /\ toldFailed' = IF pending.at = "renew" THEN toldFailed + 1 ELSE toldFailed
  BY DEF TimeOut
<1>2. Typed' BY <1>1, SameForm DEF Typed
<1>3. Sent' BY <1>1, SameForm DEF Sent, WellSent
<1>4. UntypedShowsRow' BY <1>1, SameForm DEF UntypedShowsRow
<1>5. Counted'
  <2>1. pending'.at = "none" BY <1>1 DEF NoRequest
  <2>2. CASE pending.done BY <1>1, <2>1, <2>2 DEF Counted, One
  <2>3. CASE ~pending.done BY <1>1, <2>1, <2>3 DEF Counted, One
  <2> QED BY <2>2, <2>3
<1> QED BY <1>2, <1>3, <1>4, <1>5

LEMMA StrayDoneInv == ASSUME EditingInv, StrayDone PROVE EditingInv'
<1> USE DEF EditingInv
<1>1. /\ UNCHANGED <<kind, cache, open, row, form, pending, toldDone, toldFailed>>
      /\ stray.at # "none" /\ Apply(stray) /\ stray' = NoRequest
  BY DEF StrayDone
<1>2. stray \in Requests /\ (stray.at = "renew" => kind \in PlanForms)
  BY <1>1 DEF Sent, WellSent, NoRequest
<1>3. server' \in Rows BY <1>1, <1>2, ApplyKeepsRows
<1>4. Typed' BY <1>1, <1>3, SameForm DEF Typed
<1>5. Sent' BY <1>1, SameForm DEF Sent, WellSent
<1>6. UntypedShowsRow' BY <1>1, SameForm DEF UntypedShowsRow
<1>7. Counted'
  <2>1. stray.at \in {"patch", "renew"} /\ stray'.at = "none"
    BY <1>1, <1>2 DEF Requests, NoRequest
  <2>2. granted' = IF stray.at = "patch" THEN granted ELSE granted + 1 BY <1>1 DEF Apply
  <2> QED BY <1>1, <2>1, <2>2 DEF Counted, One
<1> QED BY <1>4, <1>5, <1>6, <1>7

-----------------------------------------------------------------------------
(* Meanwhile. *)

LEMMA OthersChangeInv ==
  ASSUME EditingInv, NEW id \in Form.rows, NEW f \in Form.fields, OthersChange(id, f)
  PROVE  EditingInv'
<1> USE DEF EditingInv
<1>1. /\ UNCHANGED <<kind, cache, open, row, form, pending, stray, granted, toldDone, toldFailed>>
      /\ server' = [server EXCEPT ![id][f] = "theirs"]
  BY DEF OthersChange, renewals
<1>2. server' \in Rows BY <1>1 DEF Typed, Rows, Values
<1>3. Typed' BY <1>1, <1>2, SameForm DEF Typed
<1>4. Sent' BY <1>1, SentKept
<1>5. UntypedShowsRow' BY <1>1, SameForm DEF UntypedShowsRow
<1>6. Counted' BY <1>1 DEF Counted
<1> QED BY <1>3, <1>4, <1>5, <1>6

LEMMA RefetchInv ==
  ASSUME EditingInv, NEW moved \in BOOLEAN, Refetch(moved)
  PROVE  EditingInv'
<1> USE DEF EditingInv
<1> DEFINE current == IF Form.follows /\ open # "none" THEN server[open] ELSE row
           seeds == open # "none" /\ (current # row \/ (moved /\ Form.reseeds))
<1>1. UNCHANGED <<kind, server, open, pending, stray, granted, toldDone, toldFailed>>
  BY DEF Refetch, renewals
<1>2. Sent' BY <1>1, SentKept
<1>3. Counted' BY <1>1 DEF Counted
<1>4. cache' = server BY DEF Refetch
<1>5. current \in [Form.fields -> Values] BY DEF Typed, Rows
<1>6. CASE seeds
  <2>1. row' = current /\ SeedFrom(current) BY <1>6 DEF Refetch
  <2>2. Form.follows => row' = server[open] BY <1>6, <2>1
  <2> HIDE DEF current
  <2>3. /\ form' \in FormStates /\ form'.value = current /\ form'.typed = {}
        /\ form'.mode # "keep" => kind \in PlanForms
    BY <1>5, <2>1, SeedFromShows
  <2>4. Typed' BY <1>1, <1>4, <1>5, <2>1, <2>3, SameForm DEF Typed
  <2>5. UntypedShowsRow' BY <1>1, <1>4, <2>1, <2>2, <2>3, SameForm DEF UntypedShowsRow
  <2> QED BY <1>2, <1>3, <2>4, <2>5
<1>7. CASE ~seeds
  <2>1. UNCHANGED <<row, form>> BY <1>7 DEF Refetch
  <2>2. Typed' BY <1>1, <1>4, <2>1, SameForm DEF Typed
  <2>3. UntypedShowsRow' BY <1>1, <1>4, <1>7, <2>1, SameForm DEF UntypedShowsRow
  <2> QED BY <1>2, <1>3, <2>2, <2>3
<1> QED BY <1>6, <1>7

-----------------------------------------------------------------------------
(* The theorems. *)

LEMMA NextInv == EditingInv /\ [Next]_vars => EditingInv'
<1> SUFFICES ASSUME EditingInv, [Next]_vars PROVE EditingInv' OBVIOUS
<1>1. CASE \E id \in Form.rows : Open(id) BY <1>1, OpenInv
<1>2. CASE Close BY <1>2, CloseInv
<1>3. CASE \E f \in Form.fields, v \in {"typed", "bad", "found"} : Type(f, v)
  BY <1>3, TypeInv DEF Values
<1>4. CASE \/ \E mode \in Modes : PickMode(mode)
           \/ \E enough \in BOOLEAN : TypeAllowance(enough)
  BY <1>4, PickInv
<1>5. CASE Submit BY <1>5, SubmitInv
<1>6. CASE ServerDoes BY <1>6, ServerDoesInv
<1>7. CASE Proceed BY <1>7, ProceedInv
<1>8. CASE Succeed BY <1>8, SucceedInv
<1>9. CASE Refuse BY <1>9, RefuseInv
<1>10. CASE TimeOut BY <1>10, TimeOutInv
<1>11. CASE StrayDone BY <1>11, StrayDoneInv
<1>12. CASE \E id \in Form.rows, f \in Form.fields : OthersChange(id, f)
  BY <1>12, OthersChangeInv
<1>13. CASE \E moved \in BOOLEAN : Refetch(moved) BY <1>13, RefetchInv
<1>14. CASE UNCHANGED vars
  <2>1. UNCHANGED <<kind, server, cache, open, row, form, pending, stray,
                    granted, toldDone, toldFailed>>
    BY <1>14 DEF vars
  <2> USE DEF EditingInv
  <2>2. Typed' BY <2>1, SameForm DEF Typed
  <2>3. Sent' BY <2>1, SentKept
  <2>4. UntypedShowsRow' BY <2>1, SameForm DEF UntypedShowsRow
  <2>5. Counted' BY <2>1 DEF Counted
  <2> QED BY <2>2, <2>3, <2>4, <2>5
<1> QED
  BY <1>1, <1>2, <1>3, <1>4, <1>5, <1>6, <1>7, <1>8, <1>9, <1>10, <1>11, <1>12,
     <1>13, <1>14 DEF Next

\* The strengthened invariant, from which the theorems below follow.
LEMMA EditingInvariant == Spec => []EditingInv
<1>1. Init => EditingInv BY InitInv
<1>2. EditingInv /\ [Next]_vars => EditingInv' BY NextInv
<1> QED BY <1>1, <1>2, PTL DEF Spec

\* Every variable keeps its type.
THEOREM EditingTypeCorrect == Spec => []TypeOK
BY EditingInvariant, EditingInvSuffices, PTL

\* Whatever is fetched under an open form, it shows its row in every field the
\* admin has not typed into (the useEffect that seeds each dialog).
THEOREM FormsShowTheirRow == Spec => []UntypedShowsRow
<1>1. EditingInv => UntypedShowsRow BY DEF EditingInv
<1> QED BY <1>1, EditingInvariant, PTL

\* However changes, fetches and saves interleave, no save sends a field that was
\* neither typed into nor is sent whole (the mutationFn of each dialog).
THEOREM SavesNameWhatWasTyped == Spec => []NothingUntypedIsSent
BY EditingInvariant, EditingInvSuffices, PTL

\* For any number of saves, errors, time-outs and late answers, a renewal is
\* granted only if the admin was told of it, was told it had failed (though it
\* had not: the 502 of renewKey, or no answer), or is waiting for it.
THEOREM RenewalsAreAccountedFor == Spec => []EveryRenewalIsAccountedFor
BY EditingInvariant, EditingInvSuffices, PTL
=============================================================================

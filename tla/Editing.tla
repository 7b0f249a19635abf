------------------------------- MODULE Editing -------------------------------
(***************************************************************************)
(* The edit forms of the console.  Each is local state seeded from a row   *)
(* the page holds, edited field by field, and saved by sending the fields  *)
(* that differ from that row; meanwhile another admin or the server's own  *)
(* sync changes the data, the page fetches it again under the open form,   *)
(* and requests fail or are answered too late.                             *)
(*                                                                         *)
(* A behaviour is about one form, chosen in Init.                          *)
(***************************************************************************)
EXTENDS Naturals

CONSTANTS MaxActs,    \* openings, fields typed into and saves submitted
          MaxChanges  \* changes made by others

ASSUME BoundsAssumption ==
  /\ MaxActs \in Nat
  /\ MaxChanges \in Nat

(***************************************************************************)
(* The forms.  "fields" are those of the row, "whole" the ones sent even   *)
(* if they were not touched, "follows" whether the row of an open form is  *)
(* the page's current one or the one it was opened on, "reseeds" whether   *)
(* what is not a field seeds the form again when it changes,               *)
(* and "closes" whether success closes it.                                 *)
(***************************************************************************)
With(fields) ==
  [fields |-> fields, whole |-> {}, follows |-> TRUE, reseeds |-> TRUE,
   closes |-> TRUE, rows |-> {"a"}]

EditKeyFields == {"name", "priceMmk", "autoRenew", "limitGb", "endDate"}
EditKeyDialogOfPage == With(EditKeyFields)
EditKeyDialogOfTable ==
  [EditKeyDialogOfPage EXCEPT !.follows = FALSE, !.rows = {"a", "b"}]
EditServerDialog ==
  With({"name", "costUsd", "maxKeys", "defaultPriceMmk", "bandwidthLimitGb"})
EditUserDialog == With({"name", "note", "status"})
OverallLimitDialog ==
  [With({"limitGb"}) EXCEPT !.whole = {"limitGb"}, !.reseeds = FALSE]
SettingsPage ==
  [With({"mmkPerUsd", "paymentPhone", "paymentWallets"}) EXCEPT
     !.whole = {"mmkPerUsd", "paymentPhone", "paymentWallets"},
     !.reseeds = FALSE, !.closes = FALSE]

Forms == [keyOfPage |-> EditKeyDialogOfPage, keyOfTable |-> EditKeyDialogOfTable,
          server |-> EditServerDialog, user |-> EditUserDialog,
          overallLimit |-> OverallLimitDialog, settings |-> SettingsPage]

(* The fields a form refuses some figures in: an empty name, a negative    *)
(* price, a limit of nothing, a ceiling below the number of keys.          *)
Refusable == {"name", "priceMmk", "limitGb", "maxKeys"}

(* What a field can hold: the value first found, one typed here, one it    *)
(* refuses, one put there by somebody else, or the outcome of a renewal.   *)
(* A limit is shown and sent to the nearest tenth of a gigabyte, and the   *)
(* values stand for what the form can tell apart.                          *)
Values == {"found", "typed", "bad", "theirs", "renewed"}

(* The plan of a key is left alone, extended, or set to what is typed.     *)
Modes == {"keep", "extend", "set"}
PlanForms == {"keyOfPage", "keyOfTable"}
PlanFields == {"limitGb", "endDate"}

VARIABLES
  kind,     \* the form
  server,   \* the rows in the database
  cache,    \* the rows as the page last fetched them
  open,     \* the row the form is open on, or "none"
  row,      \* that row as the form's prop has it
  form,     \* the values in its fields, those typed, the mode, the allowance
  pending,  \* the save in flight
  stray,    \* a request given up on, which the server may still carry out
  granted, toldDone, toldFailed,  \* renewals: done, reported done, reported failed
  acts, changes

vars == <<kind, server, cache, open, row, form, pending, stray, granted, toldDone,
          toldFailed, acts, changes>>
renewals == <<granted, toldDone, toldFailed>>
counters == <<acts, changes>>

Form == Forms[kind]
NoRequest == [at |-> "none"]
Busy == pending.at # "none"

Init ==
  /\ kind \in DOMAIN Forms
  /\ server = [id \in Form.rows |-> [f \in Form.fields |-> "found"]]
  /\ cache = server
  /\ open = "none"
  /\ row = cache["a"]
  /\ form = [value |-> row, typed |-> {}, mode |-> "keep", enough |-> TRUE]
  /\ pending = NoRequest
  /\ stray = NoRequest
  /\ granted = 0 /\ toldDone = 0 /\ toldFailed = 0
  /\ acts = 0 /\ changes = 0

(***************************************************************************)
(* The form.                                                               *)
(***************************************************************************)

(* Faulty variant: the mode starts on the key's status.                    *)
SeedFromStatus(r) ==
  form' = [value |-> r, typed |-> {}, mode |-> "limit_exceeded", enough |-> TRUE]

(* The effect that seeds the fields; the form of a key that has run out    *)
(* starts on its extension.                                                *)
SeedFrom(r) ==
  \E mode \in IF kind \in PlanForms THEN {"keep", "extend"} ELSE {"keep"} :
    form' = [value |-> r, typed |-> {}, mode |-> mode, enough |-> TRUE]

Open(id) ==
  /\ open = "none"
  /\ acts < MaxActs
  /\ acts' = acts + 1
  /\ open' = id
  /\ row' = cache[id]
  /\ SeedFrom(cache[id])
  /\ UNCHANGED <<kind, server, cache, pending, stray, renewals, changes>>

(* Cancel waits for a save in flight, Escape and a click outside do not.   *)
Close ==
  /\ open # "none"
  /\ open' = "none"
  /\ UNCHANGED <<kind, server, cache, row, form, pending, stray, renewals, counters>>

Editable == Form.fields \ (IF kind \in PlanForms /\ form.mode # "set"
                           THEN PlanFields ELSE {})

Type(f, v) ==
  /\ open # "none"
  /\ f \in Editable
  /\ v = "bad" => f \in Refusable
  /\ acts < MaxActs
  /\ acts' = acts + 1
  /\ form' = [form EXCEPT !.value[f] = v, !.typed = @ \cup {f}]
  /\ UNCHANGED <<kind, server, cache, open, row, pending, stray, renewals, changes>>

PickMode(mode) ==
  /\ open # "none"
  /\ kind \in PlanForms
  /\ mode # form.mode
  /\ acts < MaxActs
  /\ acts' = acts + 1
  /\ form' = [form EXCEPT !.mode = mode]
  /\ UNCHANGED <<kind, server, cache, open, row, pending, stray, renewals, changes>>

(* "Add data" and "Days from today": at or above the plan floor, or below. *)
TypeAllowance(enough) ==
  /\ open # "none"
  /\ form.mode = "extend"
  /\ enough # form.enough
  /\ acts < MaxActs
  /\ acts' = acts + 1
  /\ form' = [form EXCEPT !.enough = enough]
  /\ UNCHANGED <<kind, server, cache, open, row, pending, stray, renewals, changes>>

(***************************************************************************)
(* Saving.                                                                 *)
(***************************************************************************)
Changed == {f \in Editable : form.value[f] # row[f]}
Whole == IF form.mode = "set" THEN PlanFields ELSE Form.whole
SentFields == Changed \cup Whole
NothingToDo == SentFields = {} /\ form.mode # "extend"
Refused ==
  \/ \E f \in Editable : form.value[f] = "bad"
  \/ form.mode = "extend" /\ ~form.enough

(* Faulty variant: the button works while a save is in flight.             *)
SubmitAgain ==
  /\ open # "none"
  /\ ~NothingToDo
  /\ ~Refused
  /\ acts < MaxActs
  /\ acts' = acts + 1
  /\ pending' = [at |-> IF SentFields # {} THEN "patch" ELSE "renew",
                 done |-> FALSE,
                 row |-> open,
                 patch |-> [f \in SentFields |-> form.value[f]],
                 extend |-> form.mode = "extend",
                 typed |-> form.typed,
                 whole |-> Whole]
  /\ UNCHANGED <<kind, server, cache, open, row, form, stray, renewals, changes>>

(* Pressing Save.  An extension is a request of its own, sent once the     *)
(* request with the other fields, if there is one, has been answered.      *)
Submit ==
  /\ open # "none"
  /\ ~Busy
  /\ ~NothingToDo
  /\ ~Refused
  /\ acts < MaxActs
  /\ acts' = acts + 1
  /\ pending' = [at |-> IF SentFields # {} THEN "patch" ELSE "renew",
                 done |-> FALSE,
                 row |-> open,
                 patch |-> [f \in SentFields |-> form.value[f]],
                 extend |-> form.mode = "extend",
                 typed |-> form.typed,
                 whole |-> Whole]
  /\ UNCHANGED <<kind, server, cache, open, row, form, stray, renewals, changes>>

(* What the server makes of request r: a renewal replaces the plan.        *)
Replace(old, new) ==
  [f \in Form.fields |-> IF f \in DOMAIN new THEN new[f] ELSE old[f]]
Apply(r) ==
  LET new == IF r.at = "patch" THEN r.patch ELSE [f \in PlanFields |-> "renewed"] IN
  /\ server' = [server EXCEPT ![r.row] = Replace(@, new)]
  /\ granted' = IF r.at = "patch" THEN granted ELSE granted + 1

ServerDoes ==
  /\ Busy
  /\ ~pending.done
  /\ Apply(pending)
  /\ pending' = [pending EXCEPT !.done = TRUE]
  /\ UNCHANGED <<kind, cache, open, row, form, stray, toldDone, toldFailed, counters>>

(* The first of two requests is answered, and the extension is sent.       *)
Proceed ==
  /\ Busy
  /\ pending.done /\ pending.at = "patch" /\ pending.extend
  /\ pending' = [pending EXCEPT !.at = "renew", !.done = FALSE]
  /\ UNCHANGED <<kind, server, cache, open, row, form, stray, renewals, counters>>

(* The last request is answered.  Whatever dialog is open by now closes;   *)
(* the settings page stays, and takes the answer for its row.              *)
Succeed ==
  /\ Busy
  /\ pending.done /\ (pending.at = "renew" \/ ~pending.extend)
  /\ toldDone' = IF pending.at = "renew" THEN toldDone + 1 ELSE toldDone
  /\ pending' = NoRequest
  /\ IF Form.closes
     THEN open' = "none" /\ UNCHANGED <<cache, row, form>>
     ELSE /\ cache' = server
          /\ UNCHANGED open
          /\ IF open # "none" /\ server[open] # row
             THEN row' = server[open] /\ SeedFrom(server[open])
             ELSE UNCHANGED <<row, form>>
  /\ UNCHANGED <<kind, server, stray, granted, toldFailed, counters>>

(* The server answers with an error: the form shows it and keeps its       *)
(* fields.  It may have refused the request, or have carried it out and    *)
(* failed at what comes after, as when Outline cannot be told of a plan    *)
(* that is already saved.                                                  *)
Refuse ==
  /\ Busy
  /\ pending' = NoRequest
  /\ toldFailed' = IF pending.at = "renew" THEN toldFailed + 1 ELSE toldFailed
  /\ UNCHANGED <<kind, server, cache, open, row, form, stray, granted, toldDone, counters>>

(* No answer within the client's 30 seconds: the form is told of an error, *)
(* whatever became of the request.                                         *)
TimeOut ==
  /\ Busy
  /\ pending' = NoRequest
  /\ stray' = IF pending.done THEN stray ELSE pending
  /\ toldFailed' = IF pending.at = "renew" THEN toldFailed + 1 ELSE toldFailed
  /\ UNCHANGED <<kind, server, cache, open, row, form, granted, toldDone, counters>>

StrayDone ==
  /\ stray.at # "none"
  /\ Apply(stray)
  /\ stray' = NoRequest
  /\ UNCHANGED <<kind, cache, open, row, form, pending, toldDone, toldFailed, counters>>

(***************************************************************************)
(* Meanwhile.                                                              *)
(***************************************************************************)
OthersChange(id, f) ==
  /\ changes < MaxChanges
  /\ changes' = changes + 1
  /\ server' = [server EXCEPT ![id][f] = "theirs"]
  /\ UNCHANGED <<kind, cache, open, row, form, pending, stray, renewals, acts>>

(* Faulty variant: the fields are seeded on opening only.                  *)
RefetchUnseeded(moved) ==
  /\ cache' = server
  /\ row' = IF open # "none" /\ Form.follows THEN server[open] ELSE row
  /\ UNCHANGED <<kind, server, open, form, pending, stray, renewals, counters>>

(* A poll, a visit or a save marked the page's data out of date.  An open  *)
(* form that follows the page has a new row, which seeds it again if a     *)
(* field of it changed.  For most forms, so does anything else that the    *)
(* seeding depends on (moved): the rest of the row and, for a key's form,  *)
(* the server's default limit, even if the row itself is an old one.       *)
Refetch(moved) ==
  LET current == IF Form.follows /\ open # "none" THEN server[open] ELSE row
  IN  /\ cache' = server
      /\ IF open # "none" /\ (current # row \/ (moved /\ Form.reseeds))
         THEN row' = current /\ SeedFrom(current)
         ELSE UNCHANGED <<row, form>>
      /\ UNCHANGED <<kind, server, open, pending, stray, renewals, counters>>

Next ==
  \/ \E id \in Form.rows : Open(id)
  \/ Close
  \/ \E f \in Form.fields, v \in {"typed", "bad", "found"} : Type(f, v)
  \/ \E mode \in Modes : PickMode(mode)
  \/ \E enough \in BOOLEAN : TypeAllowance(enough)
  \/ Submit
  \/ ServerDoes
  \/ Proceed
  \/ Succeed
  \/ Refuse
  \/ TimeOut
  \/ StrayDone
  \/ \E id \in Form.rows, f \in Form.fields : OthersChange(id, f)
  \/ \E moved \in BOOLEAN : Refetch(moved)

Spec == Init /\ [][Next]_vars

-----------------------------------------------------------------------------
(* Properties *)

Rows == [Form.rows -> [Form.fields -> Values]]

TypeOK ==
  /\ kind \in DOMAIN Forms
  /\ server \in Rows /\ cache \in Rows
  /\ open \in Form.rows \cup {"none"}
  /\ row \in [Form.fields -> Values]
  /\ form \in [value : [Form.fields -> Values], typed : SUBSET Form.fields,
               mode : Modes, enough : BOOLEAN]
  /\ pending.at \in {"none", "patch", "renew"}
  /\ stray.at \in {"none", "patch", "renew"}

(* An open form shows its row in every field the admin has not typed into: *)
(* neither what was typed for another row, nor what the row held before    *)
(* the page fetched it again, is left behind ("Reopening on another key    *)
(* must not carry the previous key's edits over").                         *)
UntypedShowsRow ==
  open # "none" =>
    /\ \A f \in Form.fields \ form.typed : form.value[f] = row[f]
    /\ Form.follows => row = cache[open]

(* No save writes a field the admin did not type into, but for the forms   *)
(* that send all they show: so that a save does not put back what somebody *)
(* else changed in another field meanwhile.                                *)
NothingUntypedIsSent ==
  \A r \in {pending, stray} :
    r.at = "patch" => DOMAIN r.patch \subseteq r.typed \cup r.whole

(* Every renewal the holder is granted is one the admin was told of, was   *)
(* told had failed, by an error or for want of an answer, or is waiting    *)
(* for: a period is sold twice only by saving again after a failure that   *)
(* was none, never by one press of Save or by two presses in a row.        *)
EveryRenewalIsAccountedFor ==
  granted <= toldDone + toldFailed
             + (IF Busy /\ pending.at = "renew" /\ pending.done THEN 1 ELSE 0)
=============================================================================

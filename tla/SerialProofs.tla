---------------------------- MODULE SerialProofs ----------------------------
(***************************************************************************)
(* What holds when operations do not overlap.  A run, a sync or a request  *)
(* keeps in its local variables what it has read, for as long as it goes   *)
(* on; undisturbed, it may rely on it, and that is what the invariant      *)
(* says: the row and the flag that a process is about to push from are     *)
(* those of the database, and a key that is out of step with Outline is    *)
(* one that a process has still to deal with, or was given up on.          *)
(***************************************************************************)
EXTENDS EnforcementProofs

-----------------------------------------------------------------------------
(* What a process that is not disturbed may rely on *)

\* The steps that each operation goes through.
ReconcileSteps == {"reload", "flag", "push", "mark"}
RenewalSteps == {"save", "price", "raise", "log"} \cup ReconcileSteps

StepsOf(op) ==
  CASE op = "idle"      -> {"idle"}
    [] op = "sync"      -> {"metrics", "upsert", "usage", "push", "mark"}
    [] op = "cutoff"    -> {"cap", "measure", "trip", "keys", "push", "mark"}
    [] op = "autorenew" -> {"scan", "default", "grant"} \cup RenewalSteps
    [] op = "renew"     -> RenewalSteps
    [] op = "edit"      -> {"save", "log", "local", "auto"} \cup ReconcileSteps
    [] op = "reenable"  -> {"clear", "refetch", "keys", "push", "mark"}
    [] op = "default"   -> {"setDefault", "apply"} \cup ReconcileSteps
    [] OTHER            -> {}

\* A process is at a step of its operation; at a step that is not about a key it
\* has none in hand and none to visit; a loop does not come back to its key.
Shape(t) ==
  /\ t.step \in StepsOf(t.op)
  /\ t.op = "idle" => t = IdleTask
  /\ t.step \notin KeySteps => t.key = None /\ t.todo = {}
  /\ t.key \notin t.todo

\* The row and the flag about to be pushed from are as they were read.
FreshRow(t) == t.step \in {"usage", "flag", "push"} => t.seen[t.key] = keys[t.key]

FreshFlag(t) == t.op = "sync" \/ t.step \in {"keys", "push", "mark"} => t.down = server.disabled

\* So are the rows of a loop that read them all at once.
FreshRest(t) ==
  t.op \in {"cutoff", "reenable"} => \A k \in t.todo : t.seen[k] = keys[k]

\* What Outline was told fits the enabled column about to be written.
Limited(k, enabled) ==
  outline[k].limit = IF enabled /\ ~server.disabled THEN keys[k].limit ELSE 0

FreshMark(t) == t.step = "mark" => Limited(t.key, t.enabled)

Undisturbed(t) ==
  /\ Shape(t) /\ FreshRow(t) /\ FreshFlag(t) /\ FreshRest(t) /\ FreshMark(t)

-----------------------------------------------------------------------------
(* The invariant *)

\* All processes but p are idle.
Alone(p) == \A q \in Procs \ {p} : task[q] = IdleTask

InStep(k) == Limited(k, keys[k].enabled)

\* A key that is out of step with Outline is lagging, or among those in hand.
OutOfStepOnly(inHand) == \A k \in Keys : InStep(k) \/ k \in lagging \cup inHand

SerialInv ==
  /\ TypeInv
  /\ \A p \in Procs : task[p] = IdleTask \/ Alone(p)
  /\ \A p \in Procs : Undisturbed(task[p])
  /\ OutOfStepOnly(UNION {Unfinished(task[p]) : p \in Procs})

-----------------------------------------------------------------------------
(* From one task to the next *)

LEMMA IdleTaskFields ==
  /\ IdleTask.op = "idle" /\ IdleTask.step = "idle"
  /\ IdleTask.key = None /\ IdleTask.todo = {}
BY DEF IdleTask

LEMMA IdleTaskUnfinished == Unfinished(IdleTask) = {}
BY IdleTaskFields DEF Unfinished

LEMMA IdleTaskUndisturbed == Undisturbed(IdleTask) /\ Undisturbed(IdleTask)'
<1>1. Shape(IdleTask) BY IdleTaskFields DEF Shape, StepsOf, KeySteps
<1> QED BY <1>1, IdleTaskFields
        DEF Undisturbed, FreshRow, FreshFlag, FreshRest, FreshMark

\* A task at a step that is not about a key, with none in hand: only the flag
\* matters to it.
LEMMA FreeUndisturbed ==
  ASSUME NEW n \in Task, n.op # "idle", n.step \in StepsOf(n.op) \ KeySteps,
         n.key = None, n.todo = {}, FreshFlag(n)'
  PROVE  Undisturbed(n)'
<1>1. n.step \notin {"upsert", "usage", "flag", "push", "mark", "save", "price", "raise"}
  BY DEF KeySteps
<1>2. Shape(n)' BY DEF Shape
<1> QED BY <1>1, <1>2
        DEF Undisturbed, FreshRow, FreshRest, FreshMark

\* A loop hands the next key to its body, with what was read about the rest.
LEMMA FollowingFields ==
  ASSUME NEW p, NEW t \in Task, t.key \notin t.todo, NEW n \in Following(p, t)
  PROVE  \/ /\ n.key \in t.todo /\ n.todo = t.todo \ {n.key}
            /\ n.op = t.op /\ n.step = LoopBody(t.op) /\ n.down = t.down
            /\ \A k \in t.todo : n.seen[k] = t.seen[k]
         \/ /\ t.todo = {}
            /\ \/ n = IdleTask
               \/ n = [IdleTask EXCEPT !.op = "cutoff", !.step = "cap"]
               \/ n = [IdleTask EXCEPT !.op = "autorenew", !.step = "scan"]
<1> DEFINE done == [t EXCEPT !.seen[t.key] = AdoptedKey, !.meter[t.key] = 0,
                             !.limit = None, !.end = None, !.enabled = TRUE, !.status = "active"]
           base == IF t.key = None THEN t ELSE done
<1>1. /\ done.op = t.op /\ done.down = t.down /\ DOMAIN done = DOMAIN t
      /\ \A k \in t.todo : done.seen[k] = t.seen[k]
  BY DEF Task
<1>2. /\ base.op = t.op /\ base.down = t.down /\ DOMAIN base = DOMAIN t
      /\ \A k \in t.todo : base.seen[k] = t.seen[k]
  BY <1>1
<1> HIDE DEF base
<1>3. ASSUME NEW k \in t.todo,
             n = [base EXCEPT !.key = k, !.todo = t.todo \ {k}, !.step = LoopBody(t.op)]
      PROVE  /\ n.key = k /\ n.todo = t.todo \ {k}
             /\ n.op = t.op /\ n.step = LoopBody(t.op) /\ n.down = t.down
             /\ n.seen = base.seen
  BY <1>2, <1>3 DEF Task
<1>4. ASSUME NEW k \in t.todo,
             n = [base EXCEPT !.key = k, !.todo = t.todo \ {k}, !.step = LoopBody(t.op)]
      PROVE  /\ n.key \in t.todo /\ n.todo = t.todo \ {n.key}
             /\ n.op = t.op /\ n.step = LoopBody(t.op) /\ n.down = t.down
             /\ \A j \in t.todo : n.seen[j] = t.seen[j]
  BY <1>2, <1>3, <1>4
<1>5. CASE t.todo # {} BY <1>4, <1>5 DEF Following, base
<1>6. CASE t.todo = {} BY <1>6 DEF Following
<1> QED BY <1>5, <1>6

\* What a process relies on when it turns to the next key.
Ready(t) ==
  /\ t.key \notin t.todo
  /\ t.todo # {} => t.op \notin {"idle", "archive"}
  /\ t.op = "sync" /\ t.todo # {} => t.down = server.disabled
  /\ t.op \in {"cutoff", "reenable"} /\ t.todo # {} => t.down = server.disabled
  /\ FreshRest(t)

LEMMA LoopBodyInItsOperation ==
  ASSUME NEW op \in Ops \ {"idle", "archive"}
  PROVE  /\ LoopBody(op) \in StepsOf(op)
         /\ LoopBody(op) \in {"upsert", "push", "default", "reload"}
         /\ LoopBody(op) = "upsert" => op = "sync"
         /\ LoopBody(op) = "push" => op \in {"cutoff", "reenable"}
BY DEF Ops, AllHandlers, LoopBody, StepsOf, RenewalSteps, ReconcileSteps

LEMMA FollowingUndisturbed ==
  ASSUME NEW p, NEW t \in Task, Ready(t)', NEW n \in Following(p, t)
  PROVE  Undisturbed(n)'
<1>1. t.key \notin t.todo BY DEF Ready
<1>2. CASE n = IdleTask BY <1>2, IdleTaskUndisturbed
<1>3. ASSUME NEW op \in {"cutoff", "autorenew"}, NEW step \in {"cap", "scan"},
             step \in StepsOf(op), n = [IdleTask EXCEPT !.op = op, !.step = step]
      PROVE  Undisturbed(n)'
  <2>1. n \in Task /\ n.op = op /\ n.step = step /\ n.key = None /\ n.todo = {}
    BY <1>3, IdleTaskWellFormed, IdleTaskFields DEF WellFormed, Task, Ops, Steps
  <2>2. FreshFlag(n)' BY <2>1 DEF FreshFlag
  <2> QED BY <1>3, <2>1, <2>2, FreeUndisturbed DEF KeySteps
<1>4. "cap" \in StepsOf("cutoff") /\ "scan" \in StepsOf("autorenew") BY DEF StepsOf
<1>5. CASE /\ n.key \in t.todo /\ n.todo = t.todo \ {n.key}
           /\ n.op = t.op /\ n.step = LoopBody(t.op) /\ n.down = t.down
           /\ \A k \in t.todo : n.seen[k] = t.seen[k]
  <2>1. t.op \in Ops \ {"idle", "archive"} BY <1>5 DEF Ready, Task
  <2>2. /\ n.step \in StepsOf(n.op)
        /\ n.step \in {"upsert", "push", "default", "reload"}
        /\ n.step = "upsert" => n.op = "sync"
        /\ n.step = "push" => n.op \in {"cutoff", "reenable"}
    BY <1>5, <2>1, LoopBodyInItsOperation
  <2>3. Shape(n)' BY <1>5, <2>1, <2>2 DEF Shape, KeySteps
  <2>4. FreshRow(n)' /\ FreshRest(n)' BY <1>5, <2>2 DEF Ready, FreshRow, FreshRest
  <2>5. FreshFlag(n)' BY <1>5, <2>2 DEF Ready, FreshFlag
  <2>6. FreshMark(n)' BY <2>2 DEF FreshMark
  <2> QED BY <2>3, <2>4, <2>5, <2>6 DEF Undisturbed
<1> QED BY <1>1, <1>2, <1>3, <1>4, <1>5, FollowingFields

\* The rows that a loop of pushes read at once stay in hand.
LEMMA FollowingUnfinished ==
  ASSUME NEW p, NEW t \in Task, t.key \notin t.todo, NEW n \in Following(p, t),
         t.op \in {"cutoff", "reenable"}
  PROVE  t.todo \subseteq Unfinished(n)
<1>1. LoopBody(t.op) = "push" BY DEF LoopBody
<1>2. CASE n.key \in t.todo /\ n.todo = t.todo \ {n.key} /\ n.op = t.op /\ n.step = "push"
  BY <1>2 DEF Unfinished
<1>3. CASE t.todo = {} BY <1>3
<1> QED BY <1>1, <1>2, <1>3, FollowingFields

-----------------------------------------------------------------------------
(* A process acts while the others are idle *)

LEMMA Busy ==
  ASSUME SerialInv, NEW p \in Procs, task[p].step # "idle"
  PROVE  /\ task[p] \in WellFormed /\ task[p] \in Task
         /\ Alone(p) /\ Undisturbed(task[p])
BY IdleTaskFields DEF SerialInv, TypeInv, TasksOK, WellFormed

LEMMA Starting ==
  ASSUME SerialInv, Overlap = FALSE, NEW p \in Procs, MayStart(p)
  PROVE  task[p] = IdleTask /\ Alone(p)
BY DEF MayStart, AllIdle, Idle, Alone, SerialInv, Undisturbed, Shape

\* What is out of step is in the hands of the one that acts.
LEMMA InHand ==
  ASSUME SerialInv, NEW p \in Procs, Alone(p)
  PROVE  OutOfStepOnly(Unfinished(task[p]))
<1>1. \A q \in Procs \ {p} : Unfinished(task[q]) = {} BY IdleTaskUnfinished DEF Alone
<1> QED BY <1>1 DEF SerialInv, OutOfStepOnly

LEMMA Acts ==
  ASSUME SerialInv, TypeInv', NEW p \in Procs, Alone(p), NEW n, Become(p, n),
         Undisturbed(n)', OutOfStepOnly(Unfinished(n))'
  PROVE  SerialInv'
<1>1. task'[p] = n /\ \A q \in Procs \ {p} : task'[q] = IdleTask
  BY DEF Become, Alone, SerialInv, TypeInv, TasksOK
<1>2. \A q \in Procs : task'[q] = IdleTask \/ Alone(q)' BY <1>1 DEF Alone
<1>3. \A q \in Procs : Undisturbed(task[q])'
  <2>1. ASSUME NEW q \in Procs, NEW u, u = task'[q], Undisturbed(u)' PROVE Undisturbed(task[q])'
    BY <2>1 DEF Undisturbed, Shape, FreshRow, FreshFlag, FreshRest, FreshMark
  <2> QED BY <1>1, <2>1, IdleTaskUndisturbed
<1>4. OutOfStepOnly(UNION {Unfinished(task[q]) : q \in Procs})'
  <2>1. Unfinished(n) \subseteq UNION {Unfinished(task'[q]) : q \in Procs} BY <1>1
  <2> QED BY <2>1 DEF OutOfStepOnly
<1> QED BY <1>2, <1>3, <1>4 DEF SerialInv

\* Nothing changes but the task, and what is let go of is lagging.
LEMMA ActsOnItself ==
  ASSUME SerialInv, TypeInv', NEW p \in Procs, Alone(p), NEW n, Become(p, n),
         UNCHANGED <<now, keys, server, outline>>, lagging \subseteq lagging',
         Unfinished(task[p]) \subseteq lagging' \cup Unfinished(n), Undisturbed(n)'
  PROVE  SerialInv'
<1>1. OutOfStepOnly(Unfinished(task[p])) BY InHand
<1>2. \A k \in Keys : InStep(k)' <=> InStep(k) BY DEF InStep, Limited
<1>3. OutOfStepOnly(Unfinished(n))' BY <1>1, <1>2 DEF OutOfStepOnly
<1> QED BY <1>3, Acts

\* A process turns to its next key, or gives up on this one.
LEMMA Continues ==
  ASSUME SerialInv, TypeInv', NEW p \in Procs, Alone(p), NEW t \in Task, Continue(p, t),
         UNCHANGED <<now, keys, server, outline>>, lagging \subseteq lagging', Ready(t)',
         \A n \in Following(p, t) : Unfinished(task[p]) \subseteq lagging' \cup Unfinished(n)
  PROVE  SerialInv'
BY FollowingUndisturbed, ActsOnItself DEF Continue

LEMMA GivesUp ==
  ASSUME SerialInv, TypeInv', NEW p \in Procs, Alone(p), NEW t \in Task, t = task[p],
         GiveUp(p), Ready(t)', UNCHANGED <<now, keys, server, outline>>
  PROVE  SerialInv'
<1>1. Continue(p, t) BY DEF GiveUp
<1>2. lagging \subseteq lagging' /\ Unfinished(task[p]) \subseteq lagging' BY DEF GiveUp
<1> QED BY <1>1, <1>2, Continues

\* What every busy process may rely on is enough to turn to the next key.
LEMMA UndisturbedReady ==
  ASSUME NEW t \in Task, Undisturbed(t)
  PROVE  Ready(t)
<1>1. t.op \in {"idle", "archive"} => t.todo = {}
  BY IdleTaskFields DEF Undisturbed, Shape, StepsOf
<1>2. t.op \in {"cutoff", "reenable"} /\ t.todo # {} => t.step \in {"push", "mark"}
  BY DEF Undisturbed, Shape, StepsOf, KeySteps
<1> QED BY <1>1, <1>2 DEF Undisturbed, Shape, Ready, FreshFlag, FreshRest

-----------------------------------------------------------------------------
(* The steps *)

\* The operation a step belongs to.
LEMMA OperationAt ==
  ASSUME NEW t \in Task, Undisturbed(t)
  PROVE  /\ t.step \in {"reload", "flag"} => t.op \in {"autorenew", "renew", "edit", "default"}
         /\ t.step \in {"save", "log"} => t.op \in {"autorenew", "renew", "edit"}
         /\ t.step \in {"price", "raise"} => t.op \in {"autorenew", "renew"}
         /\ t.step \in {"scan", "default", "grant"} => t.op = "autorenew"
         /\ t.step \in {"local", "auto"} => t.op = "edit"
         /\ t.step \in {"metrics", "upsert", "usage"} => t.op = "sync"
         /\ t.step \in {"cap", "measure", "trip"} => t.op = "cutoff"
         /\ t.step \in {"clear", "refetch"} => t.op = "reenable"
         /\ t.step = "keys" => t.op \in {"cutoff", "reenable"}
         /\ t.step \in {"setDefault", "apply"} => t.op = "default"
BY DEF Undisturbed, Shape, StepsOf, RenewalSteps, ReconcileSteps, Task, Ops, AllHandlers

\* A renewal, an edit or the reconciliation of a new default, at its key.
LEMMA PlanUndisturbed ==
  ASSUME NEW n, n.op \in {"autorenew", "renew", "edit", "default"},
         n.step \in StepsOf(n.op), n.step \in KeySteps, n.key \notin n.todo,
         FreshRow(n)', FreshFlag(n)', FreshMark(n)'
  PROVE  Undisturbed(n)'
<1>1. n.step \notin {"upsert", "usage", "measure", "trip"}
  BY DEF StepsOf, KeySteps, RenewalSteps, ReconcileSteps
<1>2. Shape(n)' BY DEF Shape
<1> QED BY <1>1, <1>2 DEF Undisturbed, FreshRest

\* The columns that only the console shows.
LEMMA LocalColumnsUndisturbed ==
  ASSUME NEW t \in Task, t.op = "edit", t.key \notin t.todo
  PROVE  Undisturbed(LocalColumns(t))' /\ Unfinished(LocalColumns(t)) = {}
<1>1. ASSUME NEW n, NEW step \in {"local", "auto"}, n = [t EXCEPT !.step = step]
      PROVE  Undisturbed(n)' /\ Unfinished(n) = {}
  <2>1. n.step = step /\ n.op = "edit" /\ n.key = t.key /\ n.todo = t.todo BY <1>1 DEF Task
  <2>2. n.step \in StepsOf(n.op) /\ n.step \in KeySteps BY <2>1 DEF StepsOf, KeySteps
  <2>3. FreshRow(n)' /\ FreshFlag(n)' /\ FreshMark(n)' /\ Unfinished(n) = {}
    BY <2>1 DEF FreshRow, FreshFlag, FreshMark, Unfinished
  <2> QED BY <2>1, <2>2, <2>3, PlanUndisturbed
<1>2. PICK n : n = LocalColumns(t) OBVIOUS
<1>3. CASE n = IdleTask BY <1>2, <1>3, IdleTaskUndisturbed, IdleTaskUnfinished
<1>4. CASE n # IdleTask BY <1>1, <1>2, <1>4 DEF LocalColumns
<1> QED BY <1>3, <1>4

-----------------------------------------------------------------------------
(* The steps *)

\* A key has been reconciled: it is in step, and the process turns to the next.
LEMMA Reconciled ==
  ASSUME SerialInv, TypeInv', NEW p \in Procs, Alone(p), NEW t \in Task, t = task[p],
         Undisturbed(t), t.step \in {"push", "mark"}, AfterReconcile(p, t),
         UNCHANGED <<now, server>>, lagging' = lagging \ {t.key}, InStep(t.key)',
         \A k \in Keys \ {t.key} : keys'[k] = keys[k] /\ outline'[k] = outline[k]
  PROVE  SerialInv'
<1>1. t.key \notin t.todo BY DEF Undisturbed, Shape
<1>3. ASSUME NEW n, t.op \in {"cutoff", "reenable"} => t.todo \subseteq Unfinished(n)
      PROVE  OutOfStepOnly(Unfinished(n))'
  <2>1. Unfinished(t) \subseteq {t.key} \cup Unfinished(n) BY <1>3 DEF Unfinished
  <2>2. \A k \in Keys \ {t.key} : InStep(k)' <=> InStep(k) BY DEF InStep, Limited
  <2>3. OutOfStepOnly(Unfinished(t)) BY InHand
  <2> QED BY <2>1, <2>2, <2>3 DEF OutOfStepOnly
<1>4. CASE t.op = "edit"
  <2>1. PICK n : n = LocalColumns(t) OBVIOUS
  <2>2. Become(p, n) BY <1>4, <2>1 DEF AfterReconcile
  <2>3. Undisturbed(n)' BY <1>1, <1>4, <2>1, LocalColumnsUndisturbed
  <2> QED BY <1>3, <1>4, <2>2, <2>3, Acts
<1>5. CASE t.op # "edit"
  <2>1. PICK n \in Following(p, t) : Become(p, n) BY <1>5 DEF AfterReconcile, Continue
  <2>2. \A k \in t.todo : keys'[k] = keys[k] BY <1>1 DEF Task
  <2>4. Ready(t) BY UndisturbedReady
  <2>5. Ready(t)' BY <2>2, <2>4 DEF Ready, FreshRest
  <2>6. Undisturbed(n)' BY <2>1, <2>5, FollowingUndisturbed
  <2>7. t.op \in {"cutoff", "reenable"} => t.todo \subseteq Unfinished(n)
    BY <1>1, <2>1, FollowingUnfinished
  <2> QED BY <1>3, <2>1, <2>6, <2>7, Acts
<1> QED BY <1>4, <1>5

LEMMA ReconcileSerial ==
  ASSUME SerialInv, NEW p \in Procs, ReconcileStep(p)
  PROVE  SerialInv'
<1> DEFINE T == task[p]
<1>0. TypeInv' BY ReconcileTypeInv DEF SerialInv
<1>1. T.step # "idle"
  BY DEF ReconcileStep, Reload, ReadFlag, Push, SetKeyEnabledStatus, ListKeys, At
<1>2. T \in WellFormed /\ T \in Task /\ Alone(p) /\ Undisturbed(T) BY <1>1, Busy
<1>3. PICK t \in Task : t = T BY <1>2
<1>4. t \in WellFormed /\ Undisturbed(t) /\ t.key \notin t.todo BY <1>2, <1>3 DEF Undisturbed, Shape
<1>5. now \in Nat /\ keys \in [Keys -> KeyRow] BY DEF SerialInv, TypeInv, DataOK
<1> HIDE DEF T
<1>6. CASE Reload(p)
  <2>1. t.step = "reload" BY <1>3, <1>6 DEF Reload, At, T
  <2>2. t.key \in Keys BY <1>4, <2>1 DEF WellFormed, KeySteps
  <2>3. PICK n : n = [t EXCEPT !.step = "flag", !.seen[t.key] = keys[t.key]] OBVIOUS
  <2>4. /\ n.step = "flag" /\ n.op = t.op /\ n.key = t.key /\ n.todo = t.todo
        /\ n.seen[n.key] = keys[n.key]
    BY <2>2, <2>3 DEF Task
  <2>5. UNCHANGED <<now, keys, server, outline, lagging>> /\ Become(p, n)
    BY <1>3, <1>6, <2>3 DEF Reload, T, db, ghosts
  <2>6. n.op \in {"autorenew", "renew", "edit", "default"} BY <1>4, <2>1, <2>4, OperationAt
  <2>7. n.step \in StepsOf(n.op) /\ n.step \in KeySteps
    BY <2>4, <2>6 DEF StepsOf, KeySteps, RenewalSteps, ReconcileSteps
  <2>8. Undisturbed(n)' BY <1>4, <2>4, <2>5, <2>6, <2>7, PlanUndisturbed
    DEF FreshRow, FreshFlag, FreshMark
  <2>9. Unfinished(t) \subseteq Unfinished(n) BY <2>1, <2>4, <2>6 DEF Unfinished
  <2> QED BY <1>0, <1>2, <1>3, <2>5, <2>8, <2>9, ActsOnItself DEF T
<1>7. CASE ReadFlag(p)
  <2>1. t.step = "flag" BY <1>3, <1>7 DEF ReadFlag, At, T
  <2>2. PICK n : n = [t EXCEPT !.step = "push", !.down = server.disabled] OBVIOUS
  <2>3. /\ n.step = "push" /\ n.op = t.op /\ n.key = t.key /\ n.todo = t.todo
        /\ n.seen = t.seen /\ n.down = server.disabled
    BY <2>2 DEF Task
  <2>4. UNCHANGED <<now, keys, server, outline, lagging>> /\ Become(p, n)
    BY <1>3, <1>7, <2>2 DEF ReadFlag, T, db, ghosts
  <2>5. n.op \in {"autorenew", "renew", "edit", "default"} BY <1>4, <2>1, <2>3, OperationAt
  <2>6. n.step \in StepsOf(n.op) /\ n.step \in KeySteps
    BY <2>3, <2>5 DEF StepsOf, KeySteps, RenewalSteps, ReconcileSteps
  <2>7. FreshRow(n)' BY <1>4, <2>1, <2>3, <2>4 DEF Undisturbed, FreshRow
  <2>8. Undisturbed(n)' BY <1>4, <2>3, <2>4, <2>5, <2>6, <2>7, PlanUndisturbed
    DEF FreshFlag, FreshMark
  <2>9. Unfinished(t) \subseteq Unfinished(n) BY <2>1, <2>3, <2>5 DEF Unfinished
  <2> QED BY <1>0, <1>2, <1>3, <2>4, <2>8, <2>9, ActsOnItself DEF T
<1>8. CASE ListKeys(p)
  <2>1. t.step = "keys" BY <1>3, <1>8 DEF ListKeys, At, T
  <2>2. t.key = None /\ t.down = server.disabled /\ t.op \in {"cutoff", "reenable"}
    BY <1>4, <2>1, OperationAt DEF Undisturbed, Shape, FreshFlag, KeySteps
  <2>3. PICK u : u = [t EXCEPT !.todo = Keys, !.seen = keys] OBVIOUS
  <2>4. u \in Task BY <1>5, <2>3 DEF Task
  <2>5. /\ u.key = None /\ u.todo = Keys /\ u.seen = keys /\ u.down = server.disabled
        /\ u.op \in {"cutoff", "reenable"}
    BY <2>2, <2>3 DEF Task
  <2>6. UNCHANGED <<now, keys, server, outline, lagging>> /\ Continue(p, u)
    BY <1>3, <1>8, <2>3 DEF ListKeys, T, db, ghosts
  <2>7. u.key \notin u.todo BY <2>5, EnforcementAssumption
  <2>8. Ready(u)' BY <2>5, <2>6, <2>7 DEF Ready, FreshRest
  <2>9. \A n \in Following(p, u) : Keys \subseteq Unfinished(n)
    BY <2>4, <2>5, <2>7, FollowingUnfinished
  <2>10. Unfinished(T) \subseteq Keys BY <1>2, UnfinishedKeys
  <2> QED BY <1>0, <1>2, <2>4, <2>6, <2>8, <2>9, <2>10, Continues DEF T
<1>9. CASE SetKeyEnabledStatus(p)
  <2>1. t.step = "mark" BY <1>3, <1>9 DEF SetKeyEnabledStatus, At, T
  <2>2. t.key \in Keys BY <1>4, <2>1 DEF WellFormed, KeySteps
  <2>3. /\ keys' = [keys EXCEPT ![t.key].enabled = t.enabled, ![t.key].status = t.status]
        /\ UNCHANGED <<now, server, outline>> /\ lagging' = lagging \ {t.key}
        /\ AfterReconcile(p, t)
    BY <1>3, <1>9 DEF SetKeyEnabledStatus, T
  <2>4. /\ \A k \in Keys \ {t.key} : keys'[k] = keys[k]
        /\ keys'[t.key].enabled = t.enabled /\ keys'[t.key].limit = keys[t.key].limit
    BY <1>5, <2>2, <2>3 DEF KeyRow
  <2>5. InStep(t.key)'
    BY <1>4, <2>1, <2>3, <2>4 DEF Undisturbed, FreshMark, InStep, Limited
  <2> QED BY <1>0, <1>2, <1>3, <1>4, <2>1, <2>3, <2>4, <2>5, Reconciled DEF T
<1>10. CASE Push(p)
  <2> DEFINE row == t.seen[t.key]
             d   == DeriveKeyStatus(now, row.end, row.limit, row.used, row.enabled)
  <2>1. t.step = "push" BY <1>3, <1>10 DEF Push, At, T
  <2>2. t.key \in Keys BY <1>4, <2>1 DEF WellFormed, KeySteps
  <2>3. row = keys[t.key] /\ t.down = server.disabled
    BY <1>4, <2>1 DEF Undisturbed, FreshRow, FreshFlag
  <2>4. outline \in [Keys -> [limit: NatOrNone, used: Nat]] BY DEF SerialInv, TypeInv, DataOK
  <2>5. outline' = [outline EXCEPT ![t.key].limit = PushedLimit(row, t.down)]
    BY <1>3, <1>10 DEF Push, T
  <2>6. UNCHANGED <<now, keys, server>> BY <1>10 DEF Push, db
  <2>7. PICK on : /\ on = ShouldBeEnabled(now, row.end, row.limit, row.used)
                   /\ on = d.shouldBeEnabled
    BY DEF DeriveKeyStatus
  <2>8. \/ /\ Become(p, [t EXCEPT !.step = "mark", !.enabled = d.shouldBeEnabled,
                                  !.status = d.status])
           /\ lagging' = lagging
        \/ /\ on = row.enabled /\ AfterReconcile(p, t) /\ lagging' = lagging \ {t.key}
    BY <1>3, <1>10, <2>7 DEF Push, T
  <2>9. /\ \A k \in Keys \ {t.key} : keys'[k] = keys[k] /\ outline'[k] = outline[k]
        /\ outline'[t.key].limit = PushedLimit(row, t.down)
    BY <2>2, <2>4, <2>5, <2>6
  <2>10. Limited(t.key, on)' BY <2>3, <2>6, <2>7, <2>9 DEF Limited, PushedLimit
  <2> HIDE DEF row, d
  <2>11. ASSUME NEW n, n = [t EXCEPT !.step = "mark", !.enabled = d.shouldBeEnabled,
                                     !.status = d.status],
                Become(p, n), lagging' = lagging
         PROVE  SerialInv'
    <3>1. /\ n.step = "mark" /\ n.op = t.op /\ n.key = t.key /\ n.todo = t.todo
          /\ n.seen = t.seen /\ n.down = t.down /\ n.enabled = on
      BY <2>7, <2>11 DEF Task
    <3>2. Shape(n)' BY <1>4, <2>1, <3>1
      DEF Undisturbed, Shape, StepsOf, KeySteps, RenewalSteps, ReconcileSteps
    <3>4. FreshRest(n)' BY <1>4, <2>6, <3>1 DEF Undisturbed, FreshRest
    <3>5. FreshFlag(n)' /\ FreshMark(n)' BY <2>3, <2>6, <2>10, <3>1 DEF FreshFlag, FreshMark
    <3>6. Undisturbed(n)' BY <3>1, <3>2, <3>4, <3>5
      DEF Undisturbed, FreshRow
    <3>7. Unfinished(n) = Unfinished(t) /\ t.key \in Unfinished(t) BY <2>1, <3>1 DEF Unfinished
    <3>8. \A k \in Keys \ {t.key} : InStep(k)' <=> InStep(k) BY <2>6, <2>9 DEF InStep, Limited
    <3>9. OutOfStepOnly(Unfinished(t)) BY <1>2, <1>3, InHand DEF T
    <3>10. OutOfStepOnly(Unfinished(n))' BY <2>11, <3>7, <3>8, <3>9 DEF OutOfStepOnly
    <3> QED BY <1>0, <1>2, <2>11, <3>6, <3>10, Acts
  <2>12. ASSUME on = row.enabled, AfterReconcile(p, t), lagging' = lagging \ {t.key}
         PROVE  SerialInv'
    <3>1. InStep(t.key)' BY <2>3, <2>6, <2>10, <2>12 DEF InStep, Limited
    <3> QED BY <1>0, <1>2, <1>3, <1>4, <2>1, <2>6, <2>9, <2>12, <3>1, Reconciled DEF T
  <2> QED BY <2>8, <2>11, <2>12
<1> QED BY <1>6, <1>7, <1>8, <1>9, <1>10 DEF ReconcileStep

\* One row changes, and stays in hand if its plan or its access does.
LEMMA ActsOnKey ==
  ASSUME SerialInv, TypeInv', NEW p \in Procs, Alone(p), NEW t \in Task, t = task[p],
         NEW n, Become(p, n), Undisturbed(n)', t.key \in Keys, UNCHANGED <<now, server, outline>>,
         lagging \subseteq lagging', Unfinished(t) \subseteq Unfinished(n),
         \A k \in Keys \ {t.key} : keys'[k] = keys[k],
         \/ t.key \in Unfinished(n)
         \/ keys'[t.key].limit = keys[t.key].limit /\ keys'[t.key].enabled = keys[t.key].enabled
  PROVE  SerialInv'
<1>2. OutOfStepOnly(Unfinished(t)) BY InHand
<1>3. \A k \in Keys : k \in Unfinished(n) \/ (InStep(k)' <=> InStep(k)) BY DEF InStep, Limited
<1>4. OutOfStepOnly(Unfinished(n))' BY <1>2, <1>3 DEF OutOfStepOnly
<1> QED BY <1>4, Acts

LEMMA SyncSerial ==
  ASSUME SerialInv, NEW p \in Procs, SyncStep(p)
  PROVE  SerialInv'
<1> DEFINE T == task[p]
<1>0. TypeInv' BY SyncTypeInv DEF SerialInv
<1>1. T.step # "idle" BY DEF SyncStep, ReadMetrics, UpsertKey, UpdateKeyUsage, At
<1>2. T \in WellFormed /\ T \in Task /\ Alone(p) /\ Undisturbed(T) BY <1>1, Busy
<1>3. PICK t \in Task : t = T BY <1>2
<1>4. t \in WellFormed /\ Undisturbed(t) /\ t.key \notin t.todo BY <1>2, <1>3 DEF Undisturbed, Shape
<1>5. /\ keys \in [Keys -> KeyRow] /\ outline \in [Keys -> [limit: NatOrNone, used: Nat]]
  BY DEF SerialInv, TypeInv, DataOK
<1> HIDE DEF T
<1>6. t.op = "sync" /\ t.down = server.disabled
  BY <1>3, <1>4, OperationAt DEF SyncStep, ReadMetrics, UpsertKey, UpdateKeyUsage, At, T,
                                 Undisturbed, FreshFlag
<1>7. CASE ReadMetrics(p)
  <2>1. t.step = "metrics" BY <1>3, <1>7 DEF ReadMetrics, At, T
  <2>2. t.key = None BY <1>4, <2>1 DEF Undisturbed, Shape, KeySteps
  <2>3. PICK meter \in [Keys -> Nat] : meter = [k \in Keys |-> outline[k].used] BY <1>5
  <2>4. PICK u : u = [t EXCEPT !.todo = Keys, !.meter = meter] OBVIOUS
  <2>5. /\ u \in Task /\ u.op = "sync" /\ u.key = None /\ u.todo = Keys
        /\ u.down = server.disabled
    BY <1>6, <2>2, <2>4 DEF Task
  <2>6. UNCHANGED <<now, keys, server, outline, lagging>> /\ Continue(p, u)
    BY <1>3, <1>7, <2>3, <2>4 DEF ReadMetrics, T, db, ghosts
  <2>9. u.key \notin u.todo BY <2>5, EnforcementAssumption
  <2>10. Ready(u)' BY <2>5, <2>6, <2>9 DEF Ready, FreshRest
  <2>11. Unfinished(T) = {} BY <1>3, <1>6, <2>1 DEF Unfinished
  <2> QED BY <1>0, <1>2, <2>5, <2>6, <2>10, <2>11, Continues DEF T
<1>8. CASE UpsertKey(p)
  <2>1. t.step = "upsert" BY <1>3, <1>8 DEF UpsertKey, At, T
  <2>2. t.key \in Keys BY <1>4, <2>1 DEF WellFormed, KeySteps
  <2>3. PICK n : n = [t EXCEPT !.step = "usage", !.seen[t.key] = keys[t.key]] OBVIOUS
  <2>4. /\ n.step = "usage" /\ n.op = "sync" /\ n.key = t.key /\ n.todo = t.todo
        /\ n.seen[n.key] = keys[n.key] /\ n.down = server.disabled
    BY <1>6, <2>2, <2>3 DEF Task
  <2>5. UNCHANGED <<now, keys, server, outline, lagging>> /\ Become(p, n)
    BY <1>3, <1>8, <2>3 DEF UpsertKey, T, db, ghosts
  <2>6. Shape(n)' BY <1>4, <2>4 DEF Shape, StepsOf, KeySteps
  <2>8. Undisturbed(n)' BY <2>4, <2>5, <2>6
    DEF Undisturbed, FreshRow, FreshFlag, FreshRest, FreshMark
  <2>9. Unfinished(T) = {} BY <1>3, <1>6, <2>1 DEF Unfinished
  <2> QED BY <1>0, <1>2, <2>5, <2>8, <2>9, ActsOnItself DEF T
<1>9. CASE UpdateKeyUsage(p)
  <2>1. t.step = "usage" BY <1>3, <1>9 DEF UpdateKeyUsage, At, T
  <2>2. t.key \in Keys BY <1>4, <2>1 DEF WellFormed, KeySteps
  <2>3. PICK used : used = t.meter[t.key] OBVIOUS
  <2>4. PICK n : n = [t EXCEPT !.step = "push", !.seen[t.key].used = used] OBVIOUS
  <2>5. /\ keys' = [keys EXCEPT ![t.key].used = used] /\ Become(p, n)
        /\ UNCHANGED <<now, server, outline, lagging>>
    BY <1>3, <1>9, <2>3, <2>4 DEF UpdateKeyUsage, T, ghosts
  <2>6. t.seen[t.key] = keys[t.key] BY <1>4, <2>1 DEF Undisturbed, FreshRow
  <2>7. /\ n.step = "push" /\ n.op = "sync" /\ n.key = t.key /\ n.todo = t.todo
        /\ n.seen[n.key] = [keys[t.key] EXCEPT !.used = used]
        /\ n.down = server.disabled
    BY <1>6, <2>2, <2>4, <2>6 DEF Task
  <2>8. /\ keys'[t.key] = [keys[t.key] EXCEPT !.used = used]
        /\ \A k \in Keys \ {t.key} : keys'[k] = keys[k]
    BY <1>5, <2>2, <2>5
  <2>9. /\ keys'[t.key].limit = keys[t.key].limit
        /\ keys'[t.key].enabled = keys[t.key].enabled
    BY <1>5, <2>2, <2>8 DEF KeyRow
  <2>10. Shape(n)' BY <1>4, <2>7 DEF Shape, StepsOf, KeySteps
  <2>13. Undisturbed(n)' BY <2>5, <2>7, <2>8, <2>10
    DEF Undisturbed, FreshRow, FreshFlag, FreshRest, FreshMark
  <2>14. Unfinished(t) = {} BY <1>6, <2>1 DEF Unfinished
  <2> QED BY <1>0, <1>2, <1>3, <2>2, <2>5, <2>8, <2>9, <2>13, <2>14, ActsOnKey DEF T
<1> QED BY <1>7, <1>8, <1>9 DEF SyncStep

LEMMA RenewSerial ==
  ASSUME SerialInv, NEW p \in Procs, RenewStep(p)
  PROVE  SerialInv'
<1> DEFINE T == task[p]
<1>0. TypeInv' BY RenewTypeInv DEF SerialInv
<1>1. T.step # "idle"
  BY DEF RenewStep, SetKeyLimitAndEndDate, ReadServerPrice, SetRaisedPrice, InsertRenewalLog, At
<1>2. T \in WellFormed /\ T \in Task /\ Alone(p) /\ Undisturbed(T) BY <1>1, Busy
<1>3. PICK t \in Task : t = T BY <1>2
<1>4. t \in WellFormed /\ Undisturbed(t) /\ t.key \notin t.todo BY <1>2, <1>3 DEF Undisturbed, Shape
<1>5. keys \in [Keys -> KeyRow] BY DEF SerialInv, TypeInv, DataOK
<1> HIDE DEF T
<1>6. t.op \in {"autorenew", "renew", "edit"}
  BY <1>3, <1>4, OperationAt
     DEF RenewStep, SetKeyLimitAndEndDate, ReadServerPrice, SetRaisedPrice, InsertRenewalLog, At, T
<1>7. t.key \in Keys
  BY <1>3, <1>4 DEF RenewStep, SetKeyLimitAndEndDate, ReadServerPrice, SetRaisedPrice,
                    InsertRenewalLog, At, T, WellFormed, KeySteps
<1>8. CASE SetKeyLimitAndEndDate(p)
  <2>1. t.step = "save" BY <1>3, <1>8 DEF SetKeyLimitAndEndDate, At, T
  <2>2. PICK n : n = [t EXCEPT !.step = IF Renews(t) THEN "price" ELSE "log"] OBVIOUS
  <2>3. /\ keys' = [keys EXCEPT ![t.key].limit = t.limit, ![t.key].end = t.end]
        /\ Become(p, n) /\ UNCHANGED <<now, server, outline, lagging>>
    BY <1>3, <1>8, <2>2 DEF SetKeyLimitAndEndDate, Goto, T
  <2>4. /\ n.step = IF Renews(t) THEN "price" ELSE "log"
        /\ n.op = t.op /\ n.key = t.key /\ n.todo = t.todo
    BY <2>2 DEF Task
  <2>5. \A k \in Keys \ {t.key} : keys'[k] = keys[k] BY <1>5, <1>7, <2>3
  <2>6. n.step \in StepsOf(n.op) /\ n.step \in KeySteps
    BY <1>6, <2>4 DEF Renews, StepsOf, KeySteps, RenewalSteps
  <2>8. Undisturbed(n)' BY <1>4, <1>6, <2>4, <2>6, PlanUndisturbed
    DEF FreshRow, FreshFlag, FreshMark
  <2>9. Unfinished(t) = {} /\ t.key \in Unfinished(n) BY <1>6, <2>1, <2>4 DEF Unfinished
  <2> QED BY <1>0, <1>2, <1>3, <1>7, <2>3, <2>5, <2>8, <2>9, ActsOnKey DEF T
<1>9. CASE ReadServerPrice(p)
  <2>1. t.step = "price" BY <1>3, <1>9 DEF ReadServerPrice, At, T
  <2>3. PICK n : /\ Become(p, n)
                 /\ \/ n = [t EXCEPT !.step = "raise", !.newPrice = {DefaultPrice}]
                    \/ n = [t EXCEPT !.step = "log", !.newPrice = {}]
    BY <1>3, <1>9 DEF ReadServerPrice, T
  <2>4. n.op = t.op /\ n.key = t.key /\ n.todo = t.todo /\ n.step \in {"log", "raise"}
    BY <2>3 DEF Task
  <2>5. UNCHANGED <<now, keys, server, outline, lagging>> BY <1>9 DEF ReadServerPrice, db, ghosts
  <2>6. t.op \in {"autorenew", "renew"} BY <1>4, <2>1, OperationAt
  <2>7. n.step \in StepsOf(n.op) /\ n.step \in KeySteps
    BY <2>4, <2>6 DEF StepsOf, KeySteps, RenewalSteps
  <2>9. Undisturbed(n)' BY <1>4, <1>6, <2>4, <2>7, PlanUndisturbed
    DEF FreshRow, FreshFlag, FreshMark
  <2>10. Unfinished(t) \subseteq Unfinished(n) BY <1>6, <2>1, <2>4 DEF Unfinished
  <2> QED BY <1>0, <1>2, <1>3, <2>3, <2>5, <2>9, <2>10, ActsOnItself DEF T
<1>10. CASE SetRaisedPrice(p)
  <2>1. t.step = "raise" BY <1>3, <1>10 DEF SetRaisedPrice, At, T
  <2>2. PICK n : n = [t EXCEPT !.step = "log", !.newPrice = {}] OBVIOUS
  <2>3. /\ keys' = [keys EXCEPT ![t.key].price = DefaultPrice]
        /\ Become(p, n) /\ UNCHANGED <<now, server, outline, lagging>>
    BY <1>3, <1>10, <2>2 DEF SetRaisedPrice, T, ghosts
  <2>4. n.step = "log" /\ n.op = t.op /\ n.key = t.key /\ n.todo = t.todo BY <2>2 DEF Task
  <2>5. \A k \in Keys \ {t.key} : keys'[k] = keys[k] BY <1>5, <1>7, <2>3
  <2>6. n.step \in StepsOf(n.op) /\ n.step \in KeySteps
    BY <1>6, <2>4 DEF StepsOf, KeySteps, RenewalSteps
  <2>7. Undisturbed(n)' BY <1>4, <1>6, <2>4, <2>6, PlanUndisturbed
    DEF FreshRow, FreshFlag, FreshMark
  <2>8. Unfinished(t) \subseteq Unfinished(n) /\ t.key \in Unfinished(n)
    BY <1>6, <2>1, <2>4 DEF Unfinished
  <2> QED BY <1>0, <1>2, <1>3, <1>7, <2>3, <2>5, <2>7, <2>8, ActsOnKey DEF T
<1>11. CASE InsertRenewalLog(p)
  <2>1. t.step = "log" BY <1>3, <1>11 DEF InsertRenewalLog, At, T
  <2>2. PICK n : n = [t EXCEPT !.step = "reload"] OBVIOUS
  <2>3. UNCHANGED <<now, keys, server, outline, lagging>> /\ Become(p, n)
    BY <1>3, <1>11, <2>2 DEF InsertRenewalLog, Goto, T, db
  <2>4. n.step = "reload" /\ n.op = t.op /\ n.key = t.key /\ n.todo = t.todo BY <2>2 DEF Task
  <2>5. n.step \in StepsOf(n.op) /\ n.step \in KeySteps
    BY <1>6, <2>4 DEF StepsOf, KeySteps, RenewalSteps, ReconcileSteps
  <2>6. Undisturbed(n)' BY <1>4, <1>6, <2>4, <2>5, PlanUndisturbed
    DEF FreshRow, FreshFlag, FreshMark
  <2>7. Unfinished(t) \subseteq Unfinished(n) BY <1>6, <2>1, <2>4 DEF Unfinished
  <2> QED BY <1>0, <1>2, <1>3, <2>3, <2>6, <2>7, ActsOnItself DEF T
<1> QED BY <1>8, <1>9, <1>10, <1>11 DEF RenewStep

\* A renewal has worked out the plan to save.
LEMMA GrantedUndisturbed ==
  ASSUME NEW t \in Task, NEW k \in Keys, NEW add, t.op \in {"autorenew", "renew"}, k \notin t.todo,
         NEW n, n = Granted(t, k, add)
  PROVE  Undisturbed(n)' /\ n.op = t.op
<1>1. n.step = "save" /\ n.op = t.op /\ n.key = k /\ n.todo = t.todo
  BY DEF Granted, Task
<1>2. n.step \in StepsOf(n.op) /\ n.step \in KeySteps BY <1>1 DEF StepsOf, KeySteps, RenewalSteps
<1>3. FreshRow(n)' /\ FreshFlag(n)' /\ FreshMark(n)' BY <1>1 DEF FreshRow, FreshFlag, FreshMark
<1> QED BY <1>1, <1>2, <1>3, PlanUndisturbed

\* An auto-renewal has found out what to grant.
LEMMA Allowed ==
  ASSUME SerialInv, TypeInv', NEW c \in Procs, NEW t \in Task, t = task[c], t.step = "default",
         Alone(c), Undisturbed(t), NEW n, Become(c, n),
         n.step = "grant", n.op = t.op, n.key = t.key, n.todo = t.todo,
         UNCHANGED <<now, keys, server, outline, lagging>>
  PROVE  SerialInv'
<1>1. t.op = "autorenew" /\ t.key \notin t.todo BY OperationAt DEF Undisturbed, Shape
<1>2. n.step \in StepsOf(n.op) /\ n.step \in KeySteps BY <1>1 DEF StepsOf, KeySteps
<1>3. FreshRow(n)' /\ FreshFlag(n)' /\ FreshMark(n)' BY <1>1 DEF FreshRow, FreshFlag, FreshMark
<1>4. Undisturbed(n)' BY <1>1, <1>2, <1>3, PlanUndisturbed
<1>5. Unfinished(t) = {} BY <1>1 DEF Unfinished
<1> QED BY <1>4, <1>5, ActsOnItself

LEMMA CronSerial ==
  ASSUME SerialInv, Overlap = FALSE, NEW c \in Procs, CronStep(c)
  PROVE  SerialInv'
<1> DEFINE T == task[c]
<1>0. TypeInv' BY CronTypeInv DEF SerialInv
<1>1. T.step # "idle" => T \in WellFormed /\ T \in Task /\ Alone(c) /\ Undisturbed(T) BY Busy
<1>2. PICK t : t = T OBVIOUS
<1>3. t.step # "idle" => t \in Task /\ t \in WellFormed /\ Alone(c) /\ Undisturbed(t)
  BY <1>1, <1>2
<1>4. IdleTask \in Task BY IdleTaskWellFormed DEF WellFormed
<1> HIDE DEF T
<1>5. CASE StartRun(c)
  <2>1. task[c] = IdleTask /\ Alone(c) BY <1>5, Starting DEF StartRun
  <2>2. Unfinished(task[c]) = {} BY <2>1, IdleTaskUnfinished
  <2>3. UNCHANGED <<now, keys, server, outline, lagging>> BY <1>5 DEF StartRun, db, ghosts
  <2>4. ASSUME NEW u, u = [IdleTask EXCEPT !.op = "sync"], Continue(c, u) PROVE SerialInv'
    <3>1. u \in Task /\ u.op = "sync" /\ u.key = None /\ u.todo = {}
      BY <1>4, <2>4, IdleTaskFields DEF Task, Ops
    <3>2. Ready(u)' BY <3>1 DEF Ready, FreshRest
    <3> QED BY <1>0, <2>1, <2>2, <2>3, <2>4, <3>1, <3>2, Continues
  <2>5. ASSUME NEW n, n = [IdleTask EXCEPT !.op = "sync", !.step = "metrics",
                                           !.down = server.disabled],
               Become(c, n)
        PROVE  SerialInv'
    <3>1. server.disabled \in BOOLEAN BY DEF SerialInv, TypeInv, DataOK, ServerRow
    <3>2. /\ n \in Task /\ n.op = "sync" /\ n.step = "metrics" /\ n.key = None /\ n.todo = {}
          /\ n.down = server.disabled
      BY <1>4, <2>5, <3>1, IdleTaskFields DEF Task, Ops, Steps
    <3>3. n.step \in StepsOf(n.op) \ KeySteps BY <3>2 DEF StepsOf, KeySteps
    <3>4. FreshFlag(n)' BY <2>3, <3>2 DEF FreshFlag
    <3>5. Undisturbed(n)' BY <3>2, <3>3, <3>4, FreeUndisturbed
    <3> QED BY <1>0, <2>1, <2>2, <2>3, <2>5, <3>5, ActsOnItself
  <2> QED BY <1>5, <2>4, <2>5 DEF StartRun, BeginSync
<1>6. ASSUME CheckCap(c) \/ MeasureUsage(c) PROVE SerialInv'
  <2>1. t.step \in {"cap", "measure"} BY <1>2, <1>6 DEF CheckCap, MeasureUsage, At, T
  <2>2. t \in Task /\ Alone(c) /\ Undisturbed(t) BY <1>3, <2>1
  <2>3. t.op = "cutoff" /\ t.key = None /\ t.todo = {}
    BY <2>1, <2>2, OperationAt DEF Undisturbed, Shape, KeySteps
  <2>4. UNCHANGED <<now, keys, server, outline, lagging>>
    BY <1>6 DEF CheckCap, MeasureUsage, db, ghosts
  <2>5. Unfinished(t) = {} BY <2>1, <2>3 DEF Unfinished
  <2>6. CASE Continue(c, t)
    <3>1. Ready(t)' BY <2>3 DEF Ready, FreshRest
    <3> QED BY <1>0, <1>2, <2>2, <2>4, <2>5, <2>6, <3>1, Continues DEF T
  <2>7. ASSUME NEW n, NEW step \in {"measure", "trip"}, n = [t EXCEPT !.step = step],
               Become(c, n)
        PROVE  SerialInv'
    <3>1. /\ n \in Task /\ n.op = "cutoff" /\ n.step = step /\ n.key = None /\ n.todo = {}
      BY <2>2, <2>3, <2>7 DEF Task, Steps
    <3>2. n.step \in StepsOf(n.op) \ KeySteps BY <3>1 DEF StepsOf, KeySteps
    <3>3. FreshFlag(n)' BY <2>4, <2>7, <3>1 DEF FreshFlag
    <3>4. Undisturbed(n)' BY <3>1, <3>2, <3>3, FreeUndisturbed
    <3> QED BY <1>0, <1>2, <2>2, <2>4, <2>5, <2>7, <3>4, ActsOnItself DEF T
  <2>8. CASE CheckCap(c) BY <1>2, <2>6, <2>7, <2>8 DEF CheckCap, Goto, T
  <2>9. CASE MeasureUsage(c) BY <1>2, <2>6, <2>7, <2>9 DEF MeasureUsage, Goto, T
  <2> QED BY <1>6, <2>8, <2>9
<1>7. CASE SetServerBandwidthDisabled(c)
  <2>1. t.step = "trip" BY <1>2, <1>7 DEF SetServerBandwidthDisabled, At, T
  <2>2. t \in Task /\ Alone(c) /\ Undisturbed(t) BY <1>3, <2>1
  <2>3. t.op = "cutoff" /\ t.key = None /\ t.todo = {}
    BY <2>1, <2>2, OperationAt DEF Undisturbed, Shape, KeySteps
  <2>4. PICK n : n = [t EXCEPT !.step = "keys", !.down = TRUE] OBVIOUS
  <2>5. /\ UNCHANGED <<now, keys, outline, lagging>> /\ Become(c, n)
        /\ server' = [server EXCEPT !.disabled = TRUE]
    BY <1>2, <1>7, <2>4 DEF SetServerBandwidthDisabled, T, ghosts
  <2>6. server'.disabled = TRUE BY <2>5 DEF SerialInv, TypeInv, DataOK, ServerRow
  <2>7. /\ n \in Task /\ n.op = "cutoff" /\ n.step = "keys" /\ n.key = None /\ n.todo = {}
        /\ n.down = TRUE
    BY <2>2, <2>3, <2>4 DEF Task, Steps
  <2>8. n.step \in StepsOf(n.op) \ KeySteps BY <2>7 DEF StepsOf, KeySteps
  <2>9. FreshFlag(n)' BY <2>6, <2>7 DEF FreshFlag
  <2>10. Undisturbed(n)' BY <2>7, <2>8, <2>9, FreeUndisturbed
  <2>11. OutOfStepOnly(Unfinished(n))' BY <2>7 DEF Unfinished, OutOfStepOnly
  <2> QED BY <1>0, <2>2, <2>5, <2>10, <2>11, Acts
<1>8. CASE ScanAutoRenew(c)
  <2>1. t.step = "scan" BY <1>2, <1>8 DEF ScanAutoRenew, At, T
  <2>2. t \in Task /\ Alone(c) /\ Undisturbed(t) BY <1>3, <2>1
  <2>3. t.op = "autorenew" /\ t.key = None
    BY <2>1, <2>2, OperationAt DEF Undisturbed, Shape, KeySteps
  <2>4. PICK due : due = {k \in Keys : AutoRenewable(k)} OBVIOUS
  <2>5. PICK u : u = [t EXCEPT !.todo = due] OBVIOUS
  <2>6. u \in Task /\ u.op = "autorenew" /\ u.key = None /\ u.todo = due
    BY <2>2, <2>3, <2>4, <2>5 DEF Task
  <2>7. UNCHANGED <<now, keys, server, outline, lagging>> /\ Continue(c, u)
    BY <1>2, <1>8, <2>4, <2>5 DEF ScanAutoRenew, T, db, ghosts
  <2>8. u.key \notin u.todo BY <2>4, <2>6, EnforcementAssumption
  <2>9. Ready(u)' BY <2>6, <2>8 DEF Ready, FreshRest
  <2>10. Unfinished(t) = {} BY <2>1, <2>3 DEF Unfinished
  <2> QED BY <1>0, <1>2, <2>2, <2>6, <2>7, <2>9, <2>10, Continues DEF T
<1>9. CASE LookUpDefault(c)
  <2>1. t.step = "default" BY <1>2, <1>9 DEF LookUpDefault, At, T
  <2>2. PICK n : n = [t EXCEPT !.step = "grant", !.add = AutoRenewAllowance(t)] OBVIOUS
  <2>3. UNCHANGED <<now, keys, server, outline, lagging>> /\ Become(c, n)
    BY <1>2, <1>9, <2>2 DEF LookUpDefault, T, db, ghosts
  <2>4. n.step = "grant" /\ n.op = t.op /\ n.key = t.key /\ n.todo = t.todo
    BY <1>3, <2>1, <2>2 DEF Task
  <2> QED BY <1>0, <1>2, <1>3, <2>1, <2>3, <2>4, Allowed DEF T
<1>10. CASE GrantAutoRenewal(c)
  <2>1. t.step = "grant" BY <1>2, <1>10 DEF GrantAutoRenewal, At, T
  <2>2. t \in Task /\ Alone(c) /\ Undisturbed(t) /\ t.key \in Keys
    BY <1>3, <2>1 DEF WellFormed, KeySteps
  <2>3. t.op = "autorenew" /\ t.key \notin t.todo
    BY <2>1, <2>2, OperationAt DEF Undisturbed, Shape
  <2>4. PICK n : n = Granted(t, t.key, t.add) OBVIOUS
  <2>5. UNCHANGED <<now, keys, server, outline, lagging>> /\ Become(c, n)
    BY <1>2, <1>10, <2>4 DEF GrantAutoRenewal, T, db, ghosts
  <2>6. Undisturbed(n)' BY <2>2, <2>3, <2>4, <2>5, GrantedUndisturbed
  <2>7. Unfinished(t) = {} BY <2>1, <2>3 DEF Unfinished
  <2> QED BY <1>0, <1>2, <2>2, <2>5, <2>6, <2>7, ActsOnItself DEF T
<1> QED BY <1>5, <1>6, <1>7, <1>8, <1>9, <1>10 DEF CronStep

LEMMA HandlerSerial ==
  ASSUME SerialInv, NEW r \in Procs, HandlerStep(r)
  PROVE  SerialInv'
<1> DEFINE T == task[r]
<1>0. TypeInv' BY HandlerTypeInv DEF SerialInv
<1>1. T.step # "idle"
  BY DEF HandlerStep, SetKeyPrice, SetKeyAutoRenew, ClearServerBandwidthDisabled, RefetchServer,
         SetServerDefaultLimit, ApplyDefaultLimitToUnlimitedKeys, At
<1>2. T \in WellFormed /\ T \in Task /\ Alone(r) /\ Undisturbed(T) BY <1>1, Busy
<1>3. PICK t \in Task : t = T BY <1>2
<1>4. t \in WellFormed /\ Undisturbed(t) /\ t.key \notin t.todo BY <1>2, <1>3 DEF Undisturbed, Shape
<1>5. /\ now \in Nat /\ keys \in [Keys -> KeyRow] /\ server \in ServerRow
      /\ outline \in [Keys -> [limit: NatOrNone, used: Nat]]
  BY DEF SerialInv, TypeInv, DataOK
<1> HIDE DEF T
<1>6. ASSUME SetKeyPrice(r) \/ SetKeyAutoRenew(r) PROVE SerialInv'
  <2>1. t.step \in {"local", "auto"} BY <1>3, <1>6 DEF SetKeyPrice, SetKeyAutoRenew, At, T
  <2>2. t.op = "edit" /\ t.key \in Keys BY <1>4, <2>1, OperationAt DEF WellFormed, KeySteps
  <2>3. UNCHANGED <<now, server, outline, lagging>>
    BY <1>6 DEF SetKeyPrice, SetKeyAutoRenew, ghosts
  <2>4. /\ \A k \in Keys \ {t.key} : keys'[k] = keys[k]
        /\ keys'[t.key].limit = keys[t.key].limit
        /\ keys'[t.key].enabled = keys[t.key].enabled
    <3>1. ASSUME NEW price, keys' = [keys EXCEPT ![t.key].price = price]
          PROVE  /\ \A k \in Keys \ {t.key} : keys'[k] = keys[k]
                 /\ keys'[t.key].limit = keys[t.key].limit
                 /\ keys'[t.key].enabled = keys[t.key].enabled
      BY <1>5, <2>2, <3>1 DEF KeyRow
    <3>2. ASSUME NEW auto, keys' = [keys EXCEPT ![t.key].autoRenew = auto]
          PROVE  /\ \A k \in Keys \ {t.key} : keys'[k] = keys[k]
                 /\ keys'[t.key].limit = keys[t.key].limit
                 /\ keys'[t.key].enabled = keys[t.key].enabled
      BY <1>5, <2>2, <3>2 DEF KeyRow
    <3> QED BY <1>3, <1>6, <3>1, <3>2 DEF SetKeyPrice, SetKeyAutoRenew, T
  <2>5. PICK n : Become(r, n) /\ Undisturbed(n)'
    <3>1. PICK u : u = [t EXCEPT !.newPrice = {}] OBVIOUS
    <3>2. u \in Task /\ u.op = "edit" /\ u.key \notin u.todo BY <1>4, <2>2, <3>1 DEF Task
    <3>3. Undisturbed(LocalColumns(u))' BY <3>2, LocalColumnsUndisturbed
    <3>4. PICK n : n = LocalColumns(u) OBVIOUS
    <3>5. Undisturbed(n)' BY <3>2, <3>4, LocalColumnsUndisturbed
    <3> QED BY <1>3, <1>6, <3>1, <3>4, <3>5, IdleTaskUndisturbed DEF SetKeyPrice, SetKeyAutoRenew, T
  <2>6. Unfinished(t) = {} BY <2>1, <2>2 DEF Unfinished
  <2> QED BY <1>0, <1>2, <1>3, <2>2, <2>3, <2>4, <2>5, <2>6, ActsOnKey DEF T
<1>7. CASE ClearServerBandwidthDisabled(r)
  <2>1. t.step = "clear" BY <1>3, <1>7 DEF ClearServerBandwidthDisabled, At, T
  <2>2. t.op = "reenable" /\ t.key = None /\ t.todo = {}
    BY <1>4, <2>1, OperationAt DEF Undisturbed, Shape, KeySteps
  <2>3. PICK n : n = [t EXCEPT !.step = "refetch"] OBVIOUS
  <2>4. /\ UNCHANGED <<now, keys, outline, lagging>> /\ Become(r, n)
        /\ server' = [server EXCEPT !.disabled = FALSE, !.reenabled = Month(now)]
    BY <1>3, <1>7, <2>3 DEF ClearServerBandwidthDisabled, Goto, T, ghosts
  <2>5. n \in Task /\ n.op = "reenable" /\ n.step = "refetch" /\ n.key = None /\ n.todo = {}
    BY <2>2, <2>3 DEF Task, Steps
  <2>6. n.step \in StepsOf(n.op) \ KeySteps BY <2>5 DEF StepsOf, KeySteps
  <2>7. FreshFlag(n)' BY <2>5 DEF FreshFlag
  <2>8. Undisturbed(n)' BY <2>5, <2>6, <2>7, FreeUndisturbed
  <2>9. OutOfStepOnly(Unfinished(n))' BY <2>5 DEF Unfinished, OutOfStepOnly
  <2> QED BY <1>0, <1>2, <2>4, <2>8, <2>9, Acts DEF T
<1>8. CASE RefetchServer(r)
  <2>1. t.step = "refetch" BY <1>3, <1>8 DEF RefetchServer, At, T
  <2>2. t.op = "reenable" /\ t.key = None /\ t.todo = {}
    BY <1>4, <2>1, OperationAt DEF Undisturbed, Shape, KeySteps
  <2>3. PICK n : n = [t EXCEPT !.step = "keys", !.down = server.disabled] OBVIOUS
  <2>4. UNCHANGED <<now, keys, server, outline, lagging>> /\ Become(r, n)
    BY <1>3, <1>8, <2>3 DEF RefetchServer, T, db, ghosts
  <2>5. /\ n \in Task /\ n.op = "reenable" /\ n.step = "keys" /\ n.key = None /\ n.todo = {}
        /\ n.down = server.disabled
    BY <1>5, <2>2, <2>3 DEF Task, Steps, ServerRow
  <2>6. n.step \in StepsOf(n.op) \ KeySteps BY <2>5 DEF StepsOf, KeySteps
  <2>7. FreshFlag(n)' BY <2>4, <2>5 DEF FreshFlag
  <2>8. Undisturbed(n)' BY <2>5, <2>6, <2>7, FreeUndisturbed
  <2>9. Unfinished(t) \subseteq Unfinished(n) BY <2>1, <2>5 DEF Unfinished
  <2> QED BY <1>0, <1>2, <1>3, <2>4, <2>8, <2>9, ActsOnItself DEF T
<1>9. CASE SetServerDefaultLimit(r)
  <2>1. t.step = "setDefault" BY <1>3, <1>9 DEF SetServerDefaultLimit, At, T
  <2>2. t.op = "default" /\ t.key = None /\ t.todo = {}
    BY <1>4, <2>1, OperationAt DEF Undisturbed, Shape, KeySteps
  <2>3. /\ UNCHANGED <<now, keys, outline, lagging>>
        /\ server' = [server EXCEPT !.default = t.limit]
    BY <1>3, <1>9 DEF SetServerDefaultLimit, T, ghosts
  <2>4. server'.disabled = server.disabled BY <1>5, <2>3 DEF ServerRow
  <2>5. PICK n : Become(r, n) /\ (n = IdleTask \/ n = [t EXCEPT !.step = "apply"])
    BY <1>3, <1>9 DEF SetServerDefaultLimit, Goto, T
  <2>6. Undisturbed(n)'
    <3>1. CASE n = IdleTask BY <3>1, IdleTaskUndisturbed
    <3>2. CASE n = [t EXCEPT !.step = "apply"]
      <4>1. n \in Task /\ n.op = "default" /\ n.step = "apply" /\ n.key = None /\ n.todo = {}
        BY <2>2, <3>2 DEF Task, Steps
      <4>2. n.step \in StepsOf(n.op) \ KeySteps BY <4>1 DEF StepsOf, KeySteps
      <4>3. FreshFlag(n)' BY <4>1 DEF FreshFlag
      <4> QED BY <4>1, <4>2, <4>3, FreeUndisturbed
    <3> QED BY <2>5, <3>1, <3>2
  <2>7. Unfinished(t) = {} BY <2>1, <2>2 DEF Unfinished
  <2>8. \A k \in Keys : InStep(k)' <=> InStep(k) BY <2>3, <2>4 DEF InStep, Limited
  <2>9. OutOfStepOnly(Unfinished(n))'
    BY <1>2, <1>3, <2>3, <2>7, <2>8, InHand DEF OutOfStepOnly, T
  <2> QED BY <1>0, <1>2, <2>5, <2>6, <2>9, Acts
<1>10. CASE ApplyDefaultLimitToUnlimitedKeys(r)
  <2>1. t.step = "apply" BY <1>3, <1>10 DEF ApplyDefaultLimitToUnlimitedKeys, At, T
  <2>2. t.op = "default" /\ t.key = None
    BY <1>4, <2>1, OperationAt DEF Undisturbed, Shape, KeySteps
  <2>3. PICK some \in SUBSET Keys : some = UnlimitedKeys BY DEF UnlimitedKeys
  <2>4. PICK u : u = [t EXCEPT !.todo = some] OBVIOUS
  <2>5. /\ u \in Task /\ u.op = "default" /\ u.key = None /\ u.todo = some
    BY <2>2, <2>4 DEF Task
  <2>6. /\ UNCHANGED <<now, server, outline>> /\ lagging' = lagging \cup some
        /\ Continue(r, u)
        /\ keys' = [k \in Keys |-> IF k \in some THEN [keys[k] EXCEPT !.limit = t.limit]
                                   ELSE keys[k]]
    BY <1>3, <1>10, <2>3, <2>4 DEF ApplyDefaultLimitToUnlimitedKeys, OnDefaultLimit, T
  <2>7. \A k \in Keys \ some : keys'[k] = keys[k] BY <1>5, <2>6
  <2>8. u.key \notin u.todo BY <2>5, EnforcementAssumption
  <2>9. Ready(u)' BY <2>5, <2>8 DEF Ready, FreshRest
  <2>10. PICK n \in Following(r, u) : Become(r, n) BY <2>6 DEF Continue
  <2>11. Undisturbed(n)' BY <2>5, <2>9, FollowingUndisturbed
  <2>12. Unfinished(t) = {} BY <2>1, <2>2 DEF Unfinished
  <2>13. \A k \in Keys \ some : InStep(k)' <=> InStep(k) BY <2>6, <2>7 DEF InStep, Limited
  <2>14. OutOfStepOnly(Unfinished(n))'
    BY <1>2, <1>3, <2>6, <2>12, <2>13, InHand DEF OutOfStepOnly, T
  <2> QED BY <1>0, <1>2, <2>10, <2>11, <2>14, Acts
<1> QED BY <1>6, <1>7, <1>8, <1>9, <1>10 DEF HandlerStep

LEMMA GiveUpSerial ==
  ASSUME SerialInv, TypeInv', NEW p \in Procs, task[p].step # "idle", GiveUp(p),
         UNCHANGED <<now, keys, server, outline>>
  PROVE  SerialInv'
<1>1. task[p] \in Task /\ Alone(p) /\ Undisturbed(task[p]) BY Busy
<1>2. PICK t \in Task : t = task[p] BY <1>1
<1>3. Undisturbed(t) BY <1>1, <1>2
<1>4. Ready(t) BY <1>3, UndisturbedReady
<1>5. Ready(t)' BY <1>4 DEF Ready, FreshRest
<1> QED BY <1>1, <1>2, <1>5, GivesUp

LEMMA StepSerial ==
  ASSUME SerialInv, Overlap = FALSE, NEW p \in Procs, Step(p)
  PROVE  SerialInv'
<1>1. ASSUME NEW step \in {"flag", "price", "refetch"}, At(p, step), ServerGone(p) PROVE SerialInv'
  <2>1. TypeInv' BY <1>1, ServerGoneTypeInv DEF SerialInv
  <2>2. task[p].step # "idle" BY <1>1 DEF At
  <2> QED BY <1>1, <2>1, <2>2, GiveUpSerial DEF ServerGone, db
<1> QED BY <1>1, ReconcileSerial, SyncSerial, RenewSerial, CronSerial, HandlerSerial DEF Step

\* A request comes in while all is quiet.
LEMMA Arrives ==
  ASSUME SerialInv, TypeInv', Overlap = FALSE, NEW r \in Procs, NEW handler, NEW n,
         Receive(r, handler, n), UNCHANGED <<now, keys, server, outline, lagging>>, Undisturbed(n)'
  PROVE  SerialInv'
<1>1. task[r] = IdleTask /\ Alone(r) /\ Become(r, n) BY Starting DEF Receive
<1> QED BY <1>1, IdleTaskUnfinished, ActsOnItself

LEMMA ArrivalSerial ==
  ASSUME SerialInv, Overlap = FALSE, NEW r \in Procs, Arrival(r)
  PROVE  SerialInv'
<1>1. TypeInv' BY ArrivalTypeInv DEF SerialInv
<1>2. IdleTask \in Task BY IdleTaskWellFormed DEF WellFormed
<1>3. ASSUME NEW handler, NEW n \in Task, Receive(r, handler, n),
             UNCHANGED <<now, keys, server, outline, lagging>>,
             n.op # "idle", n.step \in StepsOf(n.op) \ KeySteps, n.key = None, n.todo = {},
             n.op = "sync" => n.down = server.disabled,
             n.step # "keys"
      PROVE  SerialInv'
  <2>1. FreshFlag(n)' BY <1>3 DEF FreshFlag, KeySteps
  <2>2. Undisturbed(n)' BY <1>3, <2>1, FreeUndisturbed
  <2> QED BY <1>1, <1>3, <2>2, Arrives
<1>4. ASSUME NEW k \in Keys, NEW add \in Allowances, ReceiveRenew(r, k, add) PROVE SerialInv'
  <2>1. PICK t : t = [IdleTask EXCEPT !.op = "renew"] OBVIOUS
  <2>2. t \in Task /\ t.op = "renew" /\ k \notin t.todo
    BY <1>2, <2>1, IdleTaskFields DEF Task, Ops, AllHandlers
  <2>3. PICK n : n = Granted(t, k, add) OBVIOUS
  <2>4. UNCHANGED <<now, keys, server, outline, lagging>> /\ Receive(r, "renew", n)
    BY <1>4, <2>1, <2>3 DEF ReceiveRenew, db, ghosts
  <2>5. Undisturbed(n)' BY <2>2, <2>3, <2>4, GrantedUndisturbed
  <2> QED BY <1>1, <2>4, <2>5, Arrives
<1>5. ASSUME NEW k \in Keys, NEW limit \in Optional(Limits), NEW days \in Optional(Terms),
             NEW price \in Optional(Prices), NEW auto \in Optional(Toggles),
             ReceiveEdit(r, k, limit, days, price, auto)
      PROVE  SerialInv'
  <2>1. PICK plan : plan = EditedPlan(keys[k], limit, days) OBVIOUS
  <2>2. PICK asked : asked = (IF limit = {} THEN {} ELSE {"limit"})
                               \cup (IF days = {} THEN {} ELSE {"end"})
    OBVIOUS
  <2>3. keys[k] \in KeyRow BY DEF SerialInv, TypeInv, DataOK
  <2>4. plan.limit \in NatOrNone /\ plan.end \in NatOrNone
    BY <2>1, <2>3, EditedPlanType DEF SerialInv
  <2>5. asked \in SUBSET {"limit", "end"} BY <2>2
  <2>6. price \in SUBSET NatOrNone /\ auto \in SUBSET BOOLEAN
    BY EnforcementAssumption DEF Optional
  <2>7. PICK t : t = [IdleTask EXCEPT !.op = "edit", !.step = "save", !.key = k,
                                      !.limit = plan.limit, !.end = plan.end, !.asked = asked,
                                      !.newPrice = price, !.newAuto = auto]
    OBVIOUS
  <2>8. /\ t \in Task /\ t.op = "edit" /\ t.step = "save" /\ t.key = k /\ t.todo = {}
        /\ t.limit = plan.limit /\ t.end = plan.end /\ t.asked = asked
    BY <1>2, <2>4, <2>5, <2>6, <2>7, IdleTaskFields DEF Task, Ops, Steps, AllHandlers
  <2>9. UNCHANGED <<now, keys, server, outline, lagging>> BY <1>5 DEF ReceiveEdit, db, ghosts
  <2>11. t.step \in StepsOf(t.op) /\ t.step \in KeySteps BY <2>8 DEF StepsOf, KeySteps
  <2>12. Undisturbed(t)' BY <2>8, <2>11, PlanUndisturbed DEF FreshRow, FreshFlag, FreshMark
  <2>13. PICK n : n = LocalColumns(t) OBVIOUS
  <2>14. Undisturbed(n)' BY <2>8, <2>13, LocalColumnsUndisturbed
  <2>15. Receive(r, "edit", t) \/ Receive(r, "edit", n)
    BY <1>5, <2>1, <2>2, <2>7, <2>13 DEF ReceiveEdit
  <2> QED BY <1>1, <2>9, <2>12, <2>14, <2>15, Arrives
<1>6. CASE ReceiveSync(r)
  <2>1. PICK n : n = [IdleTask EXCEPT !.op = "sync", !.step = "metrics", !.down = server.disabled]
    OBVIOUS
  <2>2. server.disabled \in BOOLEAN BY DEF SerialInv, TypeInv, DataOK, ServerRow
  <2>3. /\ n \in Task /\ n.op = "sync" /\ n.step = "metrics" /\ n.key = None /\ n.todo = {}
        /\ n.down = server.disabled
    BY <1>2, <2>1, <2>2, IdleTaskFields DEF Task, Ops, Steps
  <2>4. n.step \in StepsOf(n.op) \ KeySteps BY <2>3 DEF StepsOf, KeySteps
  <2>5. UNCHANGED <<now, keys, server, outline, lagging>> /\ Receive(r, "sync", n)
    BY <1>6, <2>1 DEF ReceiveSync, db, ghosts
  <2> QED BY <1>3, <2>3, <2>4, <2>5
<1>7. CASE ReceiveReenable(r)
  <2>1. PICK n : n = [IdleTask EXCEPT !.op = "reenable", !.step = "clear"] OBVIOUS
  <2>2. n \in Task /\ n.op = "reenable" /\ n.step = "clear" /\ n.key = None /\ n.todo = {}
    BY <1>2, <2>1, IdleTaskFields DEF Task, Ops, Steps, AllHandlers
  <2>3. n.step \in StepsOf(n.op) \ KeySteps BY <2>2 DEF StepsOf, KeySteps
  <2>4. UNCHANGED <<now, keys, server, outline, lagging>> /\ Receive(r, "reenable", n)
    BY <1>7, <2>1 DEF ReceiveReenable, db, ghosts
  <2> QED BY <1>3, <2>2, <2>3, <2>4
<1>8. ASSUME NEW limit \in Limits \cup {None}, NEW apply \in BOOLEAN,
             ReceiveDefault(r, limit, apply)
      PROVE  SerialInv'
  <2>1. PICK asked \in SUBSET {"limit", "end"} : asked = IF apply THEN {"limit"} ELSE {} OBVIOUS
  <2>2. PICK n : n = [IdleTask EXCEPT !.op = "default", !.step = "setDefault", !.limit = limit,
                                      !.asked = asked]
    OBVIOUS
  <2>3. limit \in NatOrNone BY EnforcementAssumption DEF NatOrNone
  <2>4. n \in Task /\ n.op = "default" /\ n.step = "setDefault" /\ n.key = None /\ n.todo = {}
    <3>1. "default" \in Ops /\ "setDefault" \in Steps BY OpNames, FreeSteps
    <3>2. n \in Task BY <1>2, <2>1, <2>2, <2>3, <3>1 DEF Task
    <3>3. n.op = "default" /\ n.step = "setDefault" /\ n.key = None /\ n.todo = {}
      BY <1>2, <2>2, IdleTaskFields DEF Task
    <3> QED BY <3>2, <3>3
  <2>5. n.step \in StepsOf(n.op) \ KeySteps BY <2>4 DEF StepsOf, KeySteps
  <2>6. UNCHANGED <<now, keys, server, outline, lagging>> /\ Receive(r, "default", n)
    BY <1>8, <2>1, <2>2 DEF ReceiveDefault, db, ghosts
  <2> QED BY <1>3, <2>4, <2>5, <2>6
<1> QED BY <1>4, <1>5, <1>6, <1>7, <1>8 DEF Arrival

\* A call that was carried out although it failed has disturbed no more keys than
\* those that are now given up on; it is the process's own, and no other runs.
LEMMA CarriedOutDisturbs ==
  ASSUME SerialInv, NEW p \in Procs, NEW t \in Task, t = task[p], t \in WellFormed,
         Undisturbed(t), CarriedOut(p)
  PROVE  /\ server'.disabled = server.disabled \/ t.todo = {}
         /\ \A k \in t.todo : keys'[k] = keys[k] /\ k # t.key
         /\ \A k \in Keys \ (Unfinished(t) \cup Touched(t)) : InStep(k)' <=> InStep(k)
<1> DEFINE Given == Unfinished(t) \cup Touched(t)
<1>1. /\ keys \in [Keys -> KeyRow] /\ server \in ServerRow
      /\ outline \in [Keys -> [limit: NatOrNone, used: Nat]]
  BY DEF SerialInv, TypeInv, DataOK
<1>2. t.key \notin t.todo /\ t.todo \subseteq Keys BY DEF Undisturbed, Shape, Task
<1>3. t.step \in KeySteps => t.key \in Keys BY DEF WellFormed
<1>4. t.step \notin KeySteps => t.todo = {} BY DEF Undisturbed, Shape
<1>5. t.step \in {"push", "mark"} => t.key \in Given BY DEF Unfinished
<1>6. /\ t.step = "save" => t.key \in Given
      /\ t.step = "apply" => UnlimitedKeys \subseteq Given
      /\ t.step \in {"trip", "clear"} => Keys \subseteq Given
  BY DEF Touched
<1> HIDE DEF Given
<1>7. ASSUME UNCHANGED <<server, outline>>, t.key \in Keys,
             \A k \in Keys \ {t.key} : keys'[k] = keys[k],
             \/ t.key \in Given
             \/ keys'[t.key].limit = keys[t.key].limit /\ keys'[t.key].enabled = keys[t.key].enabled
      PROVE  /\ server'.disabled = server.disabled \/ t.todo = {}
             /\ \A k \in t.todo : keys'[k] = keys[k]
             /\ \A k \in Keys \ Given : InStep(k)' <=> InStep(k)
  BY <1>2, <1>7 DEF InStep, Limited
<1>8. CASE t.step = "push" /\ UNCHANGED <<keys, server>>
           /\ outline' = [outline EXCEPT ![t.key].limit = PushedLimit(t.seen[t.key], t.down)]
  <2>1. t.key \in Keys /\ t.key \in Given BY <1>3, <1>5, <1>8 DEF KeySteps
  <2>2. \A k \in Keys \ {t.key} : outline'[k] = outline[k] BY <1>1, <1>8, <2>1
  <2> QED BY <1>2, <1>8, <2>1, <2>2 DEF InStep, Limited, Given
<1>9. CASE /\ UNCHANGED <<server, outline>>
           /\ \/ t.step = "usage" /\ keys' = [keys EXCEPT ![t.key].used = t.meter[t.key]]
              \/ t.step = "raise" /\ keys' = [keys EXCEPT ![t.key].price = DefaultPrice]
              \/ /\ t.step = "local"
                 /\ \E price \in t.newPrice : keys' = [keys EXCEPT ![t.key].price = price]
              \/ /\ t.step = "auto"
                 /\ \E auto \in t.newAuto : keys' = [keys EXCEPT ![t.key].autoRenew = auto]
  <2>1. t.key \in Keys BY <1>3, <1>9 DEF KeySteps
  <2>2. \A k \in Keys \ {t.key} : keys'[k] = keys[k] BY <1>1, <1>9, <2>1
  <2>3. keys'[t.key].limit = keys[t.key].limit /\ keys'[t.key].enabled = keys[t.key].enabled
    <3>1. ASSUME NEW used, keys' = [keys EXCEPT ![t.key].used = used]
          PROVE  keys'[t.key].limit = keys[t.key].limit /\ keys'[t.key].enabled = keys[t.key].enabled
      BY <1>1, <2>1, <3>1 DEF KeyRow
    <3>2. ASSUME NEW price, keys' = [keys EXCEPT ![t.key].price = price]
          PROVE  keys'[t.key].limit = keys[t.key].limit /\ keys'[t.key].enabled = keys[t.key].enabled
      BY <1>1, <2>1, <3>2 DEF KeyRow
    <3>3. ASSUME NEW auto, keys' = [keys EXCEPT ![t.key].autoRenew = auto]
          PROVE  keys'[t.key].limit = keys[t.key].limit /\ keys'[t.key].enabled = keys[t.key].enabled
      BY <1>1, <2>1, <3>3 DEF KeyRow
    <3> QED BY <1>9, <3>1, <3>2, <3>3
  <2> QED BY <1>2, <1>7, <1>9, <2>1, <2>2, <2>3 DEF Given
<1>10. CASE /\ UNCHANGED <<server, outline>>
            /\ \/ /\ t.step = "mark"
                  /\ keys' = [keys EXCEPT ![t.key].enabled = t.enabled, ![t.key].status = t.status]
               \/ /\ t.step = "save"
                  /\ keys' = [keys EXCEPT ![t.key].limit = t.limit, ![t.key].end = t.end]
  <2>1. t.key \in Keys /\ t.key \in Given BY <1>3, <1>5, <1>6, <1>10 DEF KeySteps
  <2>2. \A k \in Keys \ {t.key} : keys'[k] = keys[k] BY <1>1, <1>10, <2>1
  <2> QED BY <1>2, <1>7, <1>10, <2>1, <2>2 DEF Given
<1>11. CASE t.step = "apply" /\ keys' = OnDefaultLimit(t.limit) /\ UNCHANGED <<server, outline>>
  <2>1. t.todo = {} BY <1>4, <1>11 DEF KeySteps
  <2>2. \A k \in Keys \ Given : keys'[k] = keys[k] BY <1>1, <1>6, <1>11 DEF OnDefaultLimit
  <2> QED BY <1>11, <2>1, <2>2 DEF InStep, Limited, Given
<1>12. CASE UNCHANGED <<keys, server, outline>> BY <1>2, <1>12 DEF InStep, Limited
<1>13. CASE t.step \in {"trip", "clear"} /\ UNCHANGED <<keys, outline>>
  <2>1. t.todo = {} /\ Keys \subseteq Given BY <1>4, <1>6, <1>13 DEF KeySteps
  <2> QED BY <1>13, <2>1 DEF Given
<1>14. CASE /\ t.step = "setDefault" /\ UNCHANGED <<keys, outline>>
            /\ server' = [server EXCEPT !.default = t.limit]
  <2>1. server'.disabled = server.disabled BY <1>1, <1>14 DEF ServerRow
  <2> QED BY <1>2, <1>14, <2>1 DEF InStep, Limited
<1> QED BY <1>8, <1>9, <1>10, <1>11, <1>12, <1>13, <1>14 DEF CarriedOut, At, db

\* A call fails, carried out or not, and what it leaves undone is lagging.
LEMMA FailSerial ==
  ASSUME SerialInv, TypeInv', NEW p \in Procs, Fail(p)
  PROVE  SerialInv'
<1>1. task[p].step # "idle"
  BY DEF Fail, Idle, SerialInv, Undisturbed, Shape, StepsOf, RenewalSteps, ReconcileSteps
<1>2. task[p] \in Task /\ task[p] \in WellFormed /\ Alone(p) /\ Undisturbed(task[p]) BY <1>1, Busy
<1>3. PICK t \in Task : t = task[p] BY <1>2
<1>4. Undisturbed(t) /\ t \in WellFormed BY <1>2, <1>3
<1>5. Ready(t) BY <1>4, UndisturbedReady
<1>6. PICK n \in Following(p, t) : Become(p, n) BY <1>3 DEF Fail, Continue
<1>7. OutOfStepOnly(Unfinished(t)) BY <1>2, <1>3, InHand
<1>8. ASSUME NEW given, Unfinished(t) \subseteq given, lagging' = lagging \cup given,
             server'.disabled = server.disabled \/ t.todo = {},
             \A k \in t.todo : keys'[k] = keys[k],
             \A k \in Keys \ given : InStep(k)' <=> InStep(k)
      PROVE  SerialInv'
  <2>1. Ready(t)' BY <1>5, <1>8 DEF Ready, FreshRest
  <2>2. Undisturbed(n)' BY <1>6, <2>1, FollowingUndisturbed
  <2>3. OutOfStepOnly(Unfinished(n))' BY <1>7, <1>8 DEF OutOfStepOnly
  <2> QED BY <1>2, <1>6, <2>2, <2>3, Acts
<1>9. CASE UNCHANGED <<db, outline>> /\ lagging' = lagging \cup Unfinished(t)
  BY <1>8, <1>9 DEF db, InStep, Limited
<1>10. CASE CarriedOut(p) /\ lagging' = lagging \cup Unfinished(t) \cup Touched(t)
  <2>1. PICK given : given = Unfinished(t) \cup Touched(t) OBVIOUS
  <2> QED BY <1>3, <1>4, <1>8, <1>10, <2>1, CarriedOutDisturbs
<1> QED BY <1>3, <1>9, <1>10 DEF Fail

LEMMA FailureSerial ==
  ASSUME SerialInv, (\E p \in Procs : Fail(p)) \/ (\E c \in CronRuns : FailLookUp(c)) \/ Crash
  PROVE  SerialInv'
<1>1. TypeInv' BY FailureTypeInv DEF SerialInv
<1>2. ASSUME NEW c \in CronRuns, FailLookUp(c) PROVE SerialInv'
  <2>1. c \in Procs BY DEF Procs
  <2>2. task[c].step = "default" BY <1>2 DEF FailLookUp, At
  <2>3. task[c] \in Task /\ Alone(c) /\ Undisturbed(task[c]) BY <2>1, <2>2, Busy
  <2>4. PICK t \in Task : t = task[c] BY <2>3
  <2>5. PICK n : n = [t EXCEPT !.step = "grant",
                               !.add = IF t.add = None THEN MinPlanData ELSE t.add]
    OBVIOUS
  <2>6. UNCHANGED <<now, keys, server, outline, lagging>> /\ Become(c, n)
    BY <1>2, <2>4, <2>5 DEF FailLookUp, db, ghosts
  <2>7. n.step = "grant" /\ n.op = t.op /\ n.key = t.key /\ n.todo = t.todo BY <2>5 DEF Task
  <2>8. Undisturbed(t) BY <2>3, <2>4
  <2> QED BY <1>1, <2>1, <2>2, <2>3, <2>4, <2>6, <2>7, <2>8, Allowed
<1>3. CASE Crash
  <2>1. \A p \in Procs : task'[p] = IdleTask BY <1>3 DEF Crash
  <2>2. \A p \in Procs : Undisturbed(task[p])'
    <3>1. ASSUME NEW p \in Procs, NEW n, n = task'[p], Undisturbed(n)'
          PROVE  Undisturbed(task[p])'
      BY <3>1 DEF Undisturbed, Shape, FreshRow, FreshFlag, FreshRest, FreshMark
    <3> QED BY <2>1, <3>1, IdleTaskUndisturbed
  <2>3. /\ UNCHANGED <<now, keys, server, outline>>
        /\ lagging' = lagging \cup UNION {Unfinished(task[p]) : p \in Procs}
    BY <1>3 DEF Crash, db
  <2>4. \A k \in Keys : InStep(k)' <=> InStep(k) BY <2>3 DEF InStep, Limited
  <2>5. OutOfStepOnly(UNION {Unfinished(task[p]) : p \in Procs})'
    BY <2>3, <2>4 DEF SerialInv, OutOfStepOnly
  <2> QED BY <1>1, <2>1, <2>2, <2>5 DEF SerialInv
<1> QED BY <1>1, <1>2, <1>3, FailSerial

\* The world moves on: the clock, the traffic, the archiving of the server.
LEMMA WorldSerial ==
  ASSUME SerialInv, TypeInv', UNCHANGED <<keys, task, lagging>>,
         server'.disabled = server.disabled,
         \A k \in Keys : outline'[k].limit = outline[k].limit
  PROVE  SerialInv'
<1>1. ASSUME NEW p \in Procs PROVE Undisturbed(task[p])'
  <2>1. task[p] \in WellFormed /\ Undisturbed(task[p]) BY DEF SerialInv, TypeInv, TasksOK
  <2>2. PICK t \in WellFormed : t = task[p] BY <2>1
  <2>3. Undisturbed(t) BY <2>1, <2>2
  <2>4. t.step = "mark" => t.key \in Keys BY DEF WellFormed, KeySteps
  <2>5. FreshMark(t)' BY <2>3, <2>4 DEF Undisturbed, FreshMark, Limited
  <2>6. Shape(t)' /\ FreshRow(t)' /\ FreshFlag(t)' /\ FreshRest(t)'
    BY <2>3 DEF Undisturbed, Shape, FreshRow, FreshFlag, FreshRest
  <2>7. Undisturbed(t)' BY <2>5, <2>6 DEF Undisturbed
  <2>8. t = task'[p] BY <2>2
  <2> QED BY <2>7, <2>8 DEF Undisturbed, Shape, FreshRow, FreshFlag, FreshRest, FreshMark
<1>2. \A k \in Keys : InStep(k)' <=> InStep(k) BY DEF InStep, Limited
<1>3. OutOfStepOnly(UNION {Unfinished(task[p]) : p \in Procs})'
  BY <1>2 DEF SerialInv, OutOfStepOnly
<1>4. \A p \in Procs : task'[p] = IdleTask \/ Alone(p)' BY DEF SerialInv, Alone
<1> QED BY <1>1, <1>3, <1>4 DEF SerialInv

LEMMA InitSerial == Init => SerialInv
<1> SUFFICES ASSUME Init PROVE SerialInv OBVIOUS
<1>1. TypeInv BY InitTypeInv
<1>2. \A p \in Procs : task[p] = IdleTask BY DEF Init
<1>3. \A p \in Procs : Undisturbed(task[p]) BY <1>2, IdleTaskUndisturbed
<1>4. \A k \in Keys : keys[k].enabled /\ outline[k].limit = keys[k].limit
  <2>1. ASSUME NEW k \in Keys PROVE keys[k] \in InitialKeys BY DEF Init
  <2> QED BY <2>1, EnforcementAssumption DEF Init
<1>6. \A k \in Keys : InStep(k) BY <1>4 DEF Init, InStep, Limited
<1> QED BY <1>1, <1>2, <1>3, <1>6 DEF SerialInv, OutOfStepOnly, Alone

LEMMA NextSerial == Overlap = FALSE /\ SerialInv /\ [Next]_vars => SerialInv'
<1> SUFFICES ASSUME Overlap = FALSE, SerialInv, [Next]_vars PROVE SerialInv' OBVIOUS
<1>1. TypeInv' BY NextTypeInv DEF SerialInv
<1>2. /\ now \in Nat /\ server \in ServerRow /\ outline \in [Keys -> [limit: NatOrNone, used: Nat]]
  BY DEF SerialInv, TypeInv, DataOK
<1>3. ASSUME NEW p \in Procs, Step(p) PROVE SerialInv' BY <1>3, StepSerial
<1>4. ASSUME NEW r \in Requests, Arrival(r) PROVE SerialInv' BY <1>4, ArrivalSerial DEF Procs
<1>5. CASE (\E p \in Procs : Fail(p)) \/ (\E c \in CronRuns : FailLookUp(c)) \/ Crash
  BY <1>5, FailureSerial
<1>6. CASE ArchiveServer
  BY <1>1, <1>2, <1>6, WorldSerial DEF ArchiveServer, ServerRow, ghosts
<1>7. ASSUME NEW k \in Keys, Traffic(k) PROVE SerialInv'
  BY <1>1, <1>2, <1>7, WorldSerial DEF Traffic, db, ghosts
<1>8. CASE Tick BY <1>1, <1>2, <1>8, WorldSerial DEF Tick, ghosts
<1>9. CASE UNCHANGED vars BY <1>1, <1>2, <1>9, WorldSerial DEF vars, db, ghosts
<1> QED BY <1>3, <1>4, <1>5, <1>6, <1>7, <1>8, <1>9 DEF Next

\* Operations one at a time: what Outline enforces at rest is what the rows and
\* the kill switch say, for every key but those whose reconciliation was cut
\* short, whatever fails or crashes and however usage and the clock move
\* (reconcileKey pushes the limit every time; the handlers reconcile last).
THEOREM EnforcedWhenSerial ==
  ASSUME Overlap = FALSE
  PROVE  Spec => []EnforcedAtRest
<1>1. SerialInv /\ [Next]_vars => SerialInv' BY NextSerial
<1>2. SerialInv => EnforcedAtRest
  <2> SUFFICES ASSUME SerialInv, AllIdle, NEW k \in Keys \ lagging
               PROVE  outline[k].limit = IF keys[k].enabled /\ ~server.disabled
                                         THEN keys[k].limit ELSE 0
    BY DEF EnforcedAtRest
  <2>1. \A p \in Procs : task[p] = IdleTask
    BY DEF SerialInv, AllIdle, Idle, Undisturbed, Shape
  <2>2. UNION {Unfinished(task[p]) : p \in Procs} = {} BY <2>1, IdleTaskUnfinished
  <2> QED BY <2>2 DEF SerialInv, OutOfStepOnly, InStep, Limited
<1> QED BY <1>1, <1>2, InitSerial, PTL DEF Spec
=============================================================================

------------------------- MODULE AreaSupply_proofs -------------------------
(***************************************************************************)
(* What TLAPS proves of AreaSupply, for any tasks, items, sheets and       *)
(* number of requests in flight.                                           *)
(***************************************************************************)
EXTENDS AreaSupply, SumTheorems, SequenceTheorems

-----------------------------------------------------------------------------
(* Facts about sheets.                                                      *)

LEMMA SheetFacts ==
  ASSUME NEW s \in Sheet
  PROVE  /\ s.lines \in Seq(Line) /\ Len(s.lines) \in Nat
         /\ DOMAIN s.lines = 1..Len(s.lines)
         /\ \A k \in DOMAIN s.lines :
              /\ s.lines[k] \in Line
              /\ s.lines[k].item \in Items \cup {NoItem}
              /\ s.lines[k].qty \in Int /\ s.lines[k].qty > 0
<1>1. s.lines \in Seq(Line)
  BY DEF Sheet
<1>2. /\ Len(s.lines) \in Nat /\ DOMAIN s.lines = 1..Len(s.lines)
      /\ \A k \in DOMAIN s.lines : s.lines[k] \in Line
  BY <1>1
<1>3. \A l \in Line : l.item \in Items \cup {NoItem} /\ l.qty \in Int /\ l.qty > 0
  BY DEF Line
<1> QED  BY <1>1, <1>2, <1>3

LEMMA NoSheetFacts == NoSheet \in Sheet /\ DOMAIN NoSheet.lines = {}
BY DEF NoSheet, Sheet

LEMMA ConstantFacts ==
  /\ NoItem \notin Items /\ NoTask \notin Tasks
  /\ Items \subseteq Int /\ Tasks \subseteq Int
  /\ NoPlan \in [Tasks -> Sheet] /\ Named(NoPlan) = {}
  /\ NoJob \in Jobs /\ NoJob.plan = NoPlan /\ NoJob.task = NoTask
<1>1. NoPlan \in [Tasks -> Sheet]
  BY NoSheetFacts DEF NoPlan
<1>2. Named(NoPlan) = {}
  BY DEF NoPlan, Named
<1> QED  BY <1>1, <1>2, IdAssumption DEF NoItem, NoTask, NoJob, Jobs, Statuses

(* Losing an item leaves the lines in their places with their quantities.   *)
LEMMA UnlinkedFacts ==
  ASSUME NEW s \in Sheet, NEW i \in Items
  PROVE  /\ Unlinked(s, i) \in Sheet
         /\ DOMAIN Unlinked(s, i).lines = DOMAIN s.lines
         /\ \A k \in DOMAIN s.lines : Unlinked(s, i).lines[k].qty = s.lines[k].qty
<1> DEFINE f == [k \in DOMAIN s.lines |->
                  IF s.lines[k].item = i THEN [s.lines[k] EXCEPT !.item = NoItem]
                                         ELSE s.lines[k]]
<1>1. ASSUME NEW k \in DOMAIN s.lines PROVE f[k] \in Line /\ f[k].qty = s.lines[k].qty
  <2>1. s.lines[k] \in Line
    BY SheetFacts
  <2> QED  BY <2>1 DEF Line
<1>2. f \in [1..Len(s.lines) -> Line]
  BY <1>1, SheetFacts
<1>3. f \in Seq(Line)
  <2> HIDE DEF f
  <2> QED  BY <1>2, SheetFacts, SeqDef
<1>4. Unlinked(s, i) = [s EXCEPT !.lines = f]
  BY DEF Unlinked
<1> HIDE DEF f
<1> QED
  <2>1. Unlinked(s, i).lines = f /\ DOMAIN f = DOMAIN s.lines
    BY <1>4, <1>2, SheetFacts DEF Sheet
  <2>2. Unlinked(s, i) \in Sheet
    BY <1>3, <1>4 DEF Sheet
  <2> QED  BY <1>1, <2>1, <2>2

(* The lines a transaction lists are lines of the task's sheet that are     *)
(* tied to an item.                                                         *)
LEMMA ListedFacts ==
  ASSUME NEW t \in Tasks, NEW finishing \in BOOLEAN, sheet \in [Tasks -> Sheet],
         DOMAIN sheet[t].lines \subseteq Slots,
         NEW l \in ListedLines(t, finishing)
  PROVE  /\ l \in [item : Items, slot : Slots]
         /\ l.slot \in DOMAIN sheet[t].lines
<1>1. PICK k \in DOMAIN sheet[t].lines :
        sheet[t].lines[k].item # NoItem /\ l = [item |-> sheet[t].lines[k].item, slot |-> k]
  BY DEF ListedLines
<1>2. sheet[t].lines[k].item \in Items \cup {NoItem}
  BY SheetFacts
<1> QED  BY <1>1, <1>2

LEMMA ToMoveFacts ==
  ASSUME NEW t \in Tasks, NEW from, NEW to, sheet \in [Tasks -> Sheet],
         DOMAIN sheet[t].lines \subseteq Slots,
         NEW l \in LinesToMove(t, from, to)
  PROVE  /\ l \in [item : Items, slot : Slots]
         /\ l.slot \in DOMAIN sheet[t].lines
BY ListedFacts DEF LinesToMove

-----------------------------------------------------------------------------
(* The end of a transaction.                                                *)

(* Nothing of request v changes.                                            *)
Untouched(v) ==
  /\ pc'[v] = pc[v] /\ job'[v] = job[v] /\ locked'[v] = locked[v]
  /\ held'[v] = held[v] /\ shared'[v] = shared[v] /\ view'[v] = view[v]
  /\ drawn'[v] = drawn[v] /\ todo'[v] = todo[v] /\ moved'[v] = moved[v]
  /\ inserts'[v] = inserts[v]

(* Request v holds nothing and has nothing to do.                           *)
Idle(v) ==
  /\ pc[v] = "libre" /\ job[v] = NoJob /\ locked[v] = {} /\ held[v] = {}
  /\ shared[v] = {} /\ view[v] = Zero /\ drawn[v] = Zero /\ todo[v] = {}
  /\ moved[v] = {} /\ inserts[v] = {}

LEMMA ZeroType == Zero \in [Items -> Int]
BY DEF Zero

LEMMA ReleaseFacts ==
  ASSUME RequestType, NEW w \in Workers, Release(w)
  PROVE  /\ RequestType' /\ Idle(w)'
         /\ \A v \in Workers \ {w} : Untouched(v)
<1>1. NoJob \in Jobs
  BY ConstantFacts
<1>2. RequestType'
  BY <1>1, ZeroType DEF Release, RequestType
<1>3. Idle(w)'
  BY DEF Idle, Release, RequestType, Zero
<1>4. \A v \in Workers \ {w} : Untouched(v)
  BY DEF Untouched, Release, RequestType
<1> QED  BY <1>2, <1>3, <1>4

-----------------------------------------------------------------------------
(* Who holds which task.                                                    *)

SheetsFit == \A t \in Tasks : DOMAIN sheet[t].lines \subseteq Slots

(* The lines of a form fit, those a mover still has to reach are lines of   *)
(* the task it locked, those a saver still has to insert are tied lines of  *)
(* its form, and the tasks of its form are locked and not finished.         *)
PlanFits(w) == \A t \in Tasks : DOMAIN job[w].plan[t].lines \subseteq Slots

MoverHasTask(w) ==
  pc[w] = "moviendo" =>
    /\ job[w].task \in locked[w]
    /\ \A l \in todo[w] : l.slot \in DOMAIN sheet[job[w].task].lines

SaverHasTasks(w) ==
  pc[w] = "insertando" =>
    /\ \A t \in Named(job[w].plan) : t \in locked[w] /\ status[t] # "terminado"
    /\ \A l \in inserts[w] :
         /\ l.slot \in DOMAIN job[w].plan[l.task].lines
         /\ InsertItem(w, l) # NoItem

ReaderHasTask(w) == pc[w] = "leido" => job[w].task \in Tasks

RequestOK(w) == PlanFits(w) /\ ReaderHasTask(w) /\ MoverHasTask(w) /\ SaverHasTasks(w)

TasksExclusive ==
  \A v, w \in Workers : v # w => locked[v] \cap locked[w] = {}

RowsOK == RowType /\ RequestType

Shape == RowsOK /\ SheetsFit /\ TasksExclusive /\ \A w \in Workers : RequestOK(w)

(* A step leaves of task t what its owner relies on.                        *)
Kept(t) ==
  /\ DOMAIN sheet'[t].lines = DOMAIN sheet[t].lines
  /\ status'[t] = "terminado" => status[t] = "terminado"

LEMMA FrameOK ==
  ASSUME Shape, NEW v \in Workers, Untouched(v), \A t \in locked[v] : Kept(t)
  PROVE  RequestOK(v)'
<1>1. job[v] \in Jobs /\ locked[v] \subseteq Tasks
  BY DEF Shape, RowsOK, RequestType
<1>2. PlanFits(v)'
  BY DEF Shape, RequestOK, PlanFits, Untouched
<1>5. ReaderHasTask(v)'
  BY DEF Shape, RequestOK, ReaderHasTask, Untouched
<1>3. MoverHasTask(v)'
  BY DEF Shape, RequestOK, MoverHasTask, Untouched, Kept
<1>4. SaverHasTasks(v)'
  BY DEF Shape, RequestOK, SaverHasTasks, Untouched, Kept, InsertItem
<1> QED  BY <1>2, <1>3, <1>4, <1>5 DEF RequestOK

LEMMA IdleOK ==
  ASSUME NEW w \in Workers, Idle(w)' PROVE RequestOK(w)'
<1>1. job'[w].plan = NoPlan /\ pc'[w] = "libre"
  BY DEF Idle, NoJob
<1>2. \A t \in Tasks : DOMAIN NoPlan[t].lines = {}
  BY NoSheetFacts DEF NoPlan
<1> QED  BY <1>1, <1>2 DEF RequestOK, PlanFits, ReaderHasTask, MoverHasTask, SaverHasTasks

(* A step of one request that only touches tasks it holds.                  *)
LEMMA OneRequest ==
  ASSUME Shape, RowsOK', SheetsFit', NEW w \in Workers, RequestOK(w)',
         \A v \in Workers \ {w} : Untouched(v) /\ locked[v] \cap locked'[w] = {},
         \A t \in Tasks \ locked[w] : Kept(t)
  PROVE  Shape'
<1>1. ASSUME NEW v \in Workers, v # w PROVE RequestOK(v)'
  <2>1. \A t \in locked[v] : Kept(t)
    BY <1>1 DEF Shape, TasksExclusive, RowsOK, RequestType
  <2> QED  BY <1>1, <2>1, FrameOK
<1>2. TasksExclusive'
  BY DEF Shape, TasksExclusive, Untouched
<1> QED  BY <1>1, <1>2 DEF Shape

(* A step of the database that no request is in the way of.                 *)
LEMMA NoRequest ==
  ASSUME Shape, RowType', SheetsFit', UNCHANGED request,
         \A v \in Workers : \A t \in locked[v] : Kept(t)
  PROVE  Shape'
<1>1. \A v \in Workers : Untouched(v)
  BY DEF request, Untouched
<1>2. RowsOK'
  BY DEF Shape, RowsOK, RequestType, request
<1>3. TasksExclusive'
  BY DEF Shape, TasksExclusive, request
<1> QED  BY <1>1, <1>2, <1>3, FrameOK DEF Shape

(* A request that is over leaves everything else in order.                  *)
LEMMA ReleaseShape ==
  ASSUME Shape, NEW w \in Workers, Release(w), RowType', SheetsFit',
         \A t \in Tasks \ locked[w] : Kept(t)
  PROVE  Shape'
<1>1. RequestType' /\ Idle(w)' /\ \A v \in Workers \ {w} : Untouched(v)
  BY ReleaseFacts DEF Shape, RowsOK
<1>2. locked'[w] = {}
  BY <1>1 DEF Idle
<1> QED  BY <1>1, <1>2, IdleOK, OneRequest DEF RowsOK

LEMMA RollbackShape ==
  ASSUME Shape, NEW w \in Workers, Rollback(w) PROVE Shape'
<1>1. Release(w) /\ UNCHANGED db
  BY DEF Rollback
<1>2. RowType' /\ SheetsFit' /\ \A t \in Tasks : Kept(t)
  BY <1>1 DEF Shape, RowsOK, RowType, SheetsFit, Kept, db
<1> QED  BY <1>1, <1>2, ReleaseShape

LEMMA StartShape ==
  ASSUME Shape, NEW w \in Workers, NEW what \in Jobs, Start(w, what),
         \A t \in Tasks : DOMAIN what.plan[t].lines \subseteq Slots,
         NEW p \in {"leido", "hoja"}, pc' = [pc EXCEPT ![w] = p],
         p = "leido" => what.task \in Tasks
  PROVE  Shape'
<1>1. RowType' /\ SheetsFit' /\ \A t \in Tasks : Kept(t)
  BY DEF Start, Shape, RowsOK, RowType, SheetsFit, Kept, db
<1>2. RequestType'
  BY DEF Start, Shape, RowsOK, RequestType
<1>3. \A v \in Workers \ {w} : Untouched(v)
  BY DEF Start, Shape, RowsOK, RequestType, Untouched
<1>4. pc'[w] = p /\ job'[w] = what /\ locked' = locked
  BY DEF Start, Shape, RowsOK, RequestType
<1>5. RequestOK(w)'
  BY <1>4 DEF RequestOK, PlanFits, ReaderHasTask, MoverHasTask, SaverHasTasks
<1>6. \A v \in Workers \ {w} : locked[v] \cap locked'[w] = {}
  BY <1>4 DEF Shape, TasksExclusive
<1> QED  BY <1>1, <1>2, <1>3, <1>5, <1>6, OneRequest DEF RowsOK

-----------------------------------------------------------------------------
(* Each action keeps the shape.                                             *)

LEMMA ShapeInit == Init => Shape
<1> SUFFICES ASSUME Init PROVE Shape
  OBVIOUS
<1>1. RowType
  BY NoSheetFacts, ZeroType DEF Init, RowType, Zero
<1>2. RequestType
  BY ConstantFacts, ZeroType DEF Init, RequestType
<1>3. SheetsFit
  BY NoSheetFacts DEF Init, SheetsFit
<1>4. ASSUME NEW w \in Workers PROVE RequestOK(w)
  <2>1. job[w].plan = NoPlan /\ pc[w] = "libre"
    BY ConstantFacts DEF Init
  <2>2. \A t \in Tasks : DOMAIN NoPlan[t].lines = {}
    BY NoSheetFacts DEF NoPlan
  <2> QED  BY <2>1, <2>2 DEF RequestOK, PlanFits, ReaderHasTask, MoverHasTask, SaverHasTasks
<1>5. TasksExclusive
  BY DEF Init, TasksExclusive
<1> QED  BY <1>1, <1>2, <1>3, <1>4, <1>5 DEF Shape, RowsOK

LEMMA NoPlanFits == \A t \in Tasks : DOMAIN NoPlan[t].lines \subseteq Slots
BY NoSheetFacts DEF NoPlan

LEMMA ShapeReadForStatus ==
  ASSUME Shape, NEW w \in Workers, NEW t \in Tasks, NEW to \in Statuses,
         ReadForStatus(w, t, to)
  PROVE  Shape'
<1> DEFINE what == [op |-> "estado", task |-> t, seen |-> status[t], target |-> to,
                    plan |-> NoPlan]
<1>1. what \in Jobs
  BY ConstantFacts DEF ReadForStatus, Shape, RowsOK, RowType, Jobs
<1>2. Start(w, what) /\ pc' = [pc EXCEPT ![w] = "leido"] /\ what.plan = NoPlan /\ what.task = t
  BY DEF ReadForStatus
<1> HIDE DEF what
<1> QED  BY <1>1, <1>2, NoPlanFits, StartShape

LEMMA ShapeReadForDiscount ==
  ASSUME Shape, NEW w \in Workers, NEW t \in Tasks, ReadForDiscount(w, t)
  PROVE  Shape'
<1> DEFINE what == [op |-> "descuento", task |-> t, seen |-> "terminado",
                    target |-> "terminado", plan |-> NoPlan]
<1>1. what \in Jobs
  BY ConstantFacts DEF Jobs, Statuses
<1>2. Start(w, what) /\ pc' = [pc EXCEPT ![w] = "leido"] /\ what.plan = NoPlan /\ what.task = t
  BY DEF ReadForDiscount
<1> HIDE DEF what
<1> QED  BY <1>1, <1>2, NoPlanFits, StartShape

LEMMA ShapeSubmitSheets ==
  ASSUME Shape, NEW w \in Workers, NEW plan \in Plans, SubmitSheets(w, plan)
  PROVE  Shape'
<1> DEFINE what == [op |-> "hoja", task |-> NoTask, seen |-> "pendiente",
                    target |-> "pendiente", plan |-> plan]
<1>1. what \in Jobs
  BY PlanAssumption DEF Jobs, Statuses
<1>2. Start(w, what) /\ pc' = [pc EXCEPT ![w] = "hoja"] /\ what.plan = plan
  BY DEF SubmitSheets
<1>3. \A t \in Tasks : DOMAIN plan[t].lines \subseteq Slots
  <2>1. SUFFICES ASSUME NEW t \in Tasks PROVE DOMAIN plan[t].lines \subseteq Slots
    OBVIOUS
  <2>2. CASE plan[t] = NoSheet
    BY <2>2, NoSheetFacts
  <2>3. CASE plan[t] # NoSheet
    <3>1. plan[t] \in Sheet /\ Len(plan[t].lines) <= MaxLines
      BY <2>3, PlanAssumption DEF Named, ValidSheet
    <3> QED  BY <3>1, SheetFacts, BoundAssumption DEF Slots
  <2> QED  BY <2>2, <2>3
<1> HIDE DEF what
<1> QED  BY <1>1, <1>2, <1>3, StartShape

LEMMA ShapeLockTask ==
  ASSUME Shape, NEW w \in Workers, LockTask(w) PROVE Shape'
<1> DEFINE t == job[w].task
<1>1. CASE Refused(w)
  BY <1>1, RollbackShape DEF LockTask
<1>2. CASE ~Refused(w)
  <2> DEFINE lines == IF job[w].op = "descuento" THEN ListedLines(t, TRUE)
                      ELSE LinesToMove(t, status[t], job[w].target)
  <2>1. /\ TaskRowFree(w, t) /\ pc' = [pc EXCEPT ![w] = "moviendo"]
        /\ locked' = [locked EXCEPT ![w] = {t}] /\ todo' = [todo EXCEPT ![w] = lines]
        /\ UNCHANGED << db, job, held, shared, view, drawn, moved, inserts >>
    BY <1>2 DEF LockTask
  <2>2. job[w] \in Jobs
    BY DEF Shape, RowsOK, RequestType
  <2>3. t \in Tasks
    BY <1>2 DEF LockTask, Shape, RequestOK, ReaderHasTask
  <2>4. \A l \in lines : l \in [item : Items, slot : Slots] /\ l.slot \in DOMAIN sheet[t].lines
    BY <2>3, ListedFacts, ToMoveFacts DEF Shape, SheetsFit, RowsOK, RowType
  <2> HIDE DEF lines
  <2>5. RowType' /\ SheetsFit' /\ \A u \in Tasks : Kept(u)
    BY <2>1 DEF Shape, RowsOK, RowType, SheetsFit, Kept, db
  <2>6. RequestType'
    BY <2>1, <2>3, <2>4 DEF Shape, RowsOK, RequestType
  <2>7. \A v \in Workers \ {w} : Untouched(v) /\ locked[v] \cap locked'[w] = {}
    BY <2>1 DEF Shape, RowsOK, RequestType, Untouched, TaskRowFree
  <2>8. RequestOK(w)'
    BY <2>1, <2>4
    DEF Shape, RowsOK, RequestType, RequestOK, PlanFits, ReaderHasTask, MoverHasTask,
        SaverHasTasks, db
  <2> QED  BY <2>5, <2>6, <2>7, <2>8, OneRequest DEF RowsOK
<1> QED  BY <1>1, <1>2

LEMMA BalanceType ==
  ASSUME RowsOK, NEW w \in Workers, NEW i \in Items PROVE Balance(w, i) \in Int
BY DEF Balance, RowsOK, RowType, RequestType

(* What a line moves is its quantity, one way or the other, or nothing, and *)
(* never more than there is.                                                *)
LEMMA DeltaFacts ==
  ASSUME Shape, NEW w \in Workers, pc[w] = "moviendo", NEW l \in todo[w]
  PROVE  /\ l.item \in Items /\ l.slot \in Slots
         /\ Delta(w, l) \in Int
         /\ Balance(w, l.item) \in Int
         /\ Balance(w, l.item) >= 0 => Balance(w, l.item) + Delta(w, l) >= 0
<1> DEFINE t == job[w].task
           qty == sheet[t].lines[l.slot].qty
<1>1. t \in Tasks /\ l.slot \in DOMAIN sheet[t].lines
  BY DEF Shape, RequestOK, MoverHasTask, RowsOK, RequestType
<1>2. qty \in Int /\ qty > 0
  BY <1>1, SheetFacts DEF Shape, RowsOK, RowType
<1>3. l.item \in Items /\ l.slot \in Slots
  BY DEF Shape, RowsOK, RequestType
<1>4. Balance(w, l.item) \in Int
  BY <1>3, BalanceType DEF Shape
<1>5. Delta(w, l) = IF ~Claimable(w, l.slot) \/ (Finishing(w) /\ ~Fits(w, l.item, qty)) THEN 0
                    ELSE IF Finishing(w) THEN -qty ELSE qty
  BY DEF Delta
<1> HIDE DEF qty
<1> QED  BY <1>2, <1>3, <1>4, <1>5 DEF Fits

LEMMA ShapeMoveLine ==
  ASSUME Shape, NEW w \in Workers, MoveLine(w) PROVE Shape'
<1>1. PICK l \in todo[w] : IF itemRow[l.item] = "activo" THEN Turn(w, l) ELSE Rollback(w)
  BY DEF MoveLine
<1>2. CASE itemRow[l.item] = "activo"
  <2>1. Turn(w, l)
    BY <1>1, <1>2
  <2>2. l.item \in Items /\ l.slot \in Slots /\ Delta(w, l) \in Int /\ Balance(w, l.item) \in Int
    BY DeltaFacts DEF MoveLine
  <2>3. drawn' \in [Workers -> [Items -> Int]]
    <3> DEFINE row == [drawn[w] EXCEPT ![l.item] = drawn[w][l.item] + Delta(w, l)]
    <3>1. drawn' = [drawn EXCEPT ![w] = row]
      BY <2>1 DEF Turn
    <3>2. drawn \in [Workers -> [Items -> Int]]
      BY DEF Shape, RowsOK, RequestType
    <3>3. row \in [Items -> Int]
      BY <2>2, <3>2
    <3> HIDE DEF row
    <3> QED  BY <3>1, <3>2, <3>3
  <2>7. RowType' /\ SheetsFit' /\ \A u \in Tasks : Kept(u)
    BY <2>1 DEF Turn, Shape, RowsOK, RowType, SheetsFit, Kept, db
  <2>4. RequestType'
    <3> USE <2>1, <2>2 DEF Turn, Shape, RowsOK, RequestType
    <3>1. view' \in [Workers -> [Items -> Int]]
      <4>1. [view[w] EXCEPT ![l.item] = Balance(w, l.item) + Delta(w, l)] \in [Items -> Int]
        OBVIOUS
      <4> QED  BY <4>1
    <3>3. drawn' \in [Workers -> [Items -> Int]]
      BY <2>3
    <3>2. /\ held' \in [Workers -> SUBSET Items] /\ moved' \in [Workers -> SUBSET Slots]
          /\ todo' \in [Workers -> SUBSET [item : Items, slot : Slots]]
      OBVIOUS
    <3> QED  BY <3>1, <3>2, <3>3
  <2>5. \A v \in Workers \ {w} : Untouched(v) /\ locked[v] \cap locked'[w] = {}
    BY <2>1 DEF Turn, Shape, RowsOK, RequestType, TasksExclusive, Untouched
  <2>6. RequestOK(w)'
    BY <2>1
    DEF Turn, MoveLine, Shape, RowsOK, RequestType, RequestOK, PlanFits, ReaderHasTask,
        MoverHasTask, SaverHasTasks, InsertItem, db
  <2> QED  BY <2>4, <2>5, <2>6, <2>7, OneRequest DEF RowsOK
<1>3. CASE itemRow[l.item] # "activo"
  BY <1>1, <1>3, RollbackShape
<1> QED  BY <1>2, <1>3

LEMMA ShapeCommit ==
  ASSUME Shape, NEW w \in Workers, Commit(w) PROVE Shape'
<1> DEFINE t == job[w].task
<1>1. t \in Tasks /\ t \in locked[w] /\ job[w].target \in Statuses
  BY DEF Commit, Shape, RowsOK, RequestType, RequestOK, MoverHasTask, Jobs
<1>2. /\ status' = [status EXCEPT ![t] = IF job[w].op = "estado" THEN job[w].target ELSE @]
      /\ done' = [done EXCEPT ![t] = Claimed(w)]
      /\ stock' = [i \in Items |-> Balance(w, i)]
      /\ orden' = [i \in Items |-> orden[i] + drawn[w][i]]
      /\ Release(w) /\ UNCHANGED << sheet, itemRow, manual, retired >>
  BY DEF Commit
<1>3. Claimed(w) \subseteq Slots
  BY <1>1 DEF Claimed, Shape, RowsOK, RowType, RequestType
<1>4. RowType'
  <2>1. stock' \in [Items -> Int]
    BY <1>2, BalanceType DEF Shape
  <2>2. orden' \in [Items -> Int]
    BY <1>2 DEF Shape, RowsOK, RowType, RequestType
  <2>3. status' \in [Tasks -> Statuses \cup {"sin_tarea"}] /\ done' \in [Tasks -> SUBSET Slots]
    BY <1>1, <1>2, <1>3 DEF Shape, RowsOK, RowType
  <2> QED  BY <1>2, <2>1, <2>2, <2>3 DEF Shape, RowsOK, RowType
<1>5. SheetsFit' /\ \A u \in Tasks \ locked[w] : Kept(u)
  BY <1>1, <1>2 DEF SheetsFit, Shape, Kept, RowsOK, RowType
<1> QED  BY <1>2, <1>4, <1>5, ReleaseShape

LEMMA ShapeLockSheetRow ==
  ASSUME Shape, NEW w \in Workers, LockSheetRow(w) PROVE Shape'
<1>1. PICK t \in RowsToLock(w) :
        TaskRowFree(w, t) /\ locked' = [locked EXCEPT ![w] = @ \cup {t}]
  BY DEF LockSheetRow
<1>2. UNCHANGED << db, pc, job, held, shared, view, drawn, todo, moved, inserts >> /\ pc[w] = "hoja"
  BY DEF LockSheetRow
<1>3. t \in Tasks
  BY DEF RowsToLock, Named
<1>4. RowType' /\ SheetsFit' /\ \A u \in Tasks : Kept(u)
  BY <1>2 DEF Shape, RowsOK, RowType, SheetsFit, Kept, db
<1>5. RequestType'
  BY <1>1, <1>2, <1>3 DEF Shape, RowsOK, RequestType
<1>6. \A v \in Workers \ {w} : Untouched(v) /\ locked[v] \cap locked'[w] = {}
  BY <1>1, <1>2 DEF Shape, RowsOK, RequestType, TasksExclusive, Untouched, TaskRowFree
<1>7. RequestOK(w)'
  BY <1>2 DEF Shape, RequestOK, PlanFits, ReaderHasTask, MoverHasTask, SaverHasTasks
<1> QED  BY <1>4, <1>5, <1>6, <1>7, OneRequest DEF RowsOK

LEMMA ShapeCheckSheets ==
  ASSUME Shape, NEW w \in Workers, CheckSheets(w) PROVE Shape'
<1> DEFINE plan == job[w].plan
           new == [t \in Tasks |-> IF t \in Rewritten(w) THEN plan[t] ELSE NoSheet]
<1>1. CASE \E t \in Named(plan) : SheetRefused(t, plan[t])
  BY <1>1, RollbackShape DEF CheckSheets
<1>2. CASE ~\E t \in Named(plan) : SheetRefused(t, plan[t])
  <2>1. /\ pc' = [pc EXCEPT ![w] = "insertando"]
        /\ inserts' = [inserts EXCEPT ![w] = ItemLines(plan, Rewritten(w))]
        /\ job' = [job EXCEPT ![w].plan = new]
        /\ UNCHANGED << db, locked, held, shared, view, drawn, todo, moved >>
        /\ RowsToLock(w) = {}
    BY <1>2 DEF CheckSheets
  <2>2. job[w] \in Jobs /\ plan \in [Tasks -> Sheet] /\ PlanFits(w)
    BY DEF Shape, RowsOK, RequestType, Jobs, RequestOK
  <2>3. new \in [Tasks -> Sheet]
    BY <2>2, NoSheetFacts
  <2>4. Named(new) \subseteq Rewritten(w) /\ Rewritten(w) \subseteq Named(plan)
    BY DEF Named, Rewritten
  <2>5. \A t \in Named(plan) : t \in locked[w]
    BY <1>2, <2>1 DEF RowsToLock, SheetRefused
  <2>6. \A l \in ItemLines(plan, Rewritten(w)) :
          /\ l \in [task : Tasks, slot : Slots] /\ l.task \in Rewritten(w)
          /\ l.slot \in DOMAIN plan[l.task].lines /\ plan[l.task].lines[l.slot].item # NoItem
    BY DEF ItemLines, Rewritten, Named
  <2>7. \A t \in Tasks : DOMAIN new[t].lines \subseteq Slots
    BY <2>2, NoSheetFacts DEF PlanFits
  <2>8. \A t \in Rewritten(w) : new[t] = plan[t] /\ status[t] # "terminado"
    BY DEF Rewritten, Named
  <2>9. job'[w].plan = new /\ job' \in [Workers -> Jobs]
    <3> HIDE DEF new
    <3> QED  BY <2>1, <2>3 DEF Shape, RowsOK, RequestType, Jobs
  <2> HIDE DEF new, plan
  <2>10. RowType' /\ SheetsFit' /\ \A u \in Tasks : Kept(u)
    BY <2>1 DEF Shape, RowsOK, RowType, SheetsFit, Kept, db
  <2>11. RequestType'
    BY <2>1, <2>6, <2>9 DEF Shape, RowsOK, RequestType
  <2>12. \A v \in Workers \ {w} : Untouched(v) /\ locked[v] \cap locked'[w] = {}
    BY <2>1 DEF Shape, RowsOK, RequestType, TasksExclusive, Untouched
  <2>13. RequestOK(w)'
    <3>1. pc'[w] = "insertando" /\ inserts'[w] = ItemLines(plan, Rewritten(w))
          /\ UNCHANGED << status, locked >>
      BY <2>1 DEF Shape, RowsOK, RequestType, db
    <3>2. SaverHasTasks(w)'
      <4>1. \A t \in Named(new) : t \in locked[w] /\ status[t] # "terminado"
        BY <2>4, <2>5, <2>8
      <4>2. \A l \in ItemLines(plan, Rewritten(w)) :
              l.slot \in DOMAIN new[l.task].lines /\ new[l.task].lines[l.slot].item # NoItem
        BY <2>6, <2>8
      <4> QED  BY <2>9, <3>1, <4>1, <4>2 DEF SaverHasTasks, InsertItem
    <3> QED  BY <2>7, <2>9, <3>1, <3>2 DEF RequestOK, PlanFits, ReaderHasTask, MoverHasTask
  <2> QED  BY <2>10, <2>11, <2>12, <2>13, OneRequest DEF RowsOK
<1> QED  BY <1>1, <1>2

LEMMA ShapeInsertLine ==
  ASSUME Shape, NEW w \in Workers, InsertLine(w) PROVE Shape'
<1>1. PICK l \in inserts[w] :
        IF itemRow[InsertItem(w, l)] # "activo"
        THEN Rollback(w)
        ELSE /\ shared' = [shared EXCEPT ![w] = @ \cup {InsertItem(w, l)}]
             /\ inserts' = [inserts EXCEPT ![w] = @ \ {l}]
             /\ UNCHANGED << db, pc, job, locked, held, view, drawn, todo, moved >>
  BY DEF InsertLine
<1>2. CASE itemRow[InsertItem(w, l)] # "activo"
  BY <1>1, <1>2, RollbackShape
<1>3. CASE itemRow[InsertItem(w, l)] = "activo"
  <2>1. /\ shared' = [shared EXCEPT ![w] = @ \cup {InsertItem(w, l)}]
        /\ inserts' = [inserts EXCEPT ![w] = @ \ {l}]
        /\ UNCHANGED << db, pc, job, locked, held, view, drawn, todo, moved >>
    BY <1>1, <1>3
  <2>2. InsertItem(w, l) \in Items
    <3>1. /\ l.slot \in DOMAIN job[w].plan[l.task].lines /\ InsertItem(w, l) # NoItem
          /\ l.task \in Tasks /\ job[w].plan \in [Tasks -> Sheet]
      BY DEF InsertLine, Shape, RequestOK, SaverHasTasks, RowsOK, RequestType, Jobs
    <3> QED  BY <3>1, SheetFacts DEF InsertItem
  <2>3. RowType' /\ SheetsFit' /\ \A u \in Tasks : Kept(u)
    BY <2>1 DEF Shape, RowsOK, RowType, SheetsFit, Kept, db
  <2>4. RequestType'
    BY <2>1, <2>2 DEF Shape, RowsOK, RequestType
  <2>5. \A v \in Workers \ {w} : Untouched(v) /\ locked[v] \cap locked'[w] = {}
    BY <2>1 DEF Shape, RowsOK, RequestType, TasksExclusive, Untouched
  <2>6. RequestOK(w)'
    BY <2>1
    DEF InsertLine, Shape, RowsOK, RequestType, RequestOK, PlanFits, ReaderHasTask,
        MoverHasTask, SaverHasTasks, InsertItem, db
  <2> QED  BY <2>3, <2>4, <2>5, <2>6, OneRequest DEF RowsOK
<1> QED  BY <1>2, <1>3

LEMMA ShapeCommitSheets ==
  ASSUME Shape, NEW w \in Workers, CommitSheets(w) PROVE Shape'
<1> DEFINE plan == job[w].plan
<1>1. plan \in [Tasks -> Sheet] /\ PlanFits(w) /\ Named(plan) \subseteq locked[w]
  BY DEF CommitSheets, Shape, RequestOK, SaverHasTasks, RowsOK, RequestType, Jobs
<1>2. /\ sheet' = [t \in Tasks |-> IF t \in Named(plan) THEN plan[t] ELSE sheet[t]]
      /\ done' = [t \in Tasks |-> IF t \in Named(plan) THEN {} ELSE done[t]]
      /\ Release(w) /\ UNCHANGED << status, itemRow, stock, manual, orden, retired >>
  BY DEF CommitSheets
<1>3. \A t \in Tasks : DOMAIN plan[t].lines \subseteq Slots
  BY <1>1 DEF PlanFits
<1> HIDE DEF plan
<1>4. RowType' /\ SheetsFit'
  BY <1>1, <1>2, <1>3 DEF Shape, RowsOK, RowType, SheetsFit
<1>5. \A t \in Tasks \ locked[w] : Kept(t)
  BY <1>1, <1>2 DEF Kept
<1> QED  BY <1>2, <1>4, <1>5, ReleaseShape

LEMMA MovementFacts ==
  ASSUME RowType, NEW i \in Items, NEW type \in MovementTypes, NEW n \in Amounts
  PROVE  /\ MovementDelta(i, type, n) \in Int
         /\ MovementAccepted(i, type, n) /\ stock[i] >= 0
              => stock[i] + MovementDelta(i, type, n) >= 0
BY BoundAssumption DEF RowType, MovementTypes, MovementDelta, MovementAccepted

(* Items change nothing a request relies on, unless one is deleted.         *)
LEMMA ShapeRegisterMovement ==
  ASSUME Shape, NEW i \in Items, NEW type \in MovementTypes, NEW n \in Amounts,
         RegisterMovement(i, type, n)
  PROVE  Shape'
<1>1. MovementDelta(i, type, n) \in Int
  BY MovementFacts DEF Shape, RowsOK
<1>2. RowType' /\ SheetsFit' /\ \A u \in Tasks : Kept(u)
  BY <1>1 DEF RegisterMovement, Shape, RowsOK, RowType, SheetsFit, Kept
<1> QED  BY <1>2, NoRequest DEF RegisterMovement, Shape, RowsOK, RequestType

LEMMA ShapeCreateItem ==
  ASSUME Shape, NEW i \in Items, NEW n \in Amounts, CreateItem(i, n) PROVE Shape'
<1>1. RowType' /\ SheetsFit' /\ \A u \in Tasks : Kept(u)
  BY BoundAssumption DEF CreateItem, Shape, RowsOK, RowType, SheetsFit, Kept
<1> QED  BY <1>1, NoRequest DEF CreateItem, Shape, RowsOK, RequestType

LEMMA ShapeRemoveItem ==
  ASSUME Shape, NEW i \in Items, RemoveItem(i) PROVE Shape'
<1>1. sheet' = [t \in Tasks |-> Unlinked(sheet[t], i)] /\ status' = status
  BY DEF RemoveItem
<1>2. \A t \in Tasks : sheet'[t] \in Sheet /\ DOMAIN sheet'[t].lines = DOMAIN sheet[t].lines
  BY <1>1, UnlinkedFacts DEF Shape, RowsOK, RowType
<1>3. RowType'
  BY <1>1, <1>2 DEF RemoveItem, Shape, RowsOK, RowType
<1>4. SheetsFit' /\ \A u \in Tasks : Kept(u)
  BY <1>1, <1>2 DEF Shape, SheetsFit, Kept
<1> QED  BY <1>3, <1>4, NoRequest DEF RemoveItem, Shape, RowsOK, RequestType

LEMMA ShapeCreateTask ==
  ASSUME Shape, NEW t \in Tasks, CreateTask(t) PROVE Shape'
<1>1. RowType' /\ SheetsFit' /\ \A u \in Tasks : Kept(u)
  BY DEF CreateTask, Shape, RowsOK, RowType, SheetsFit, Kept, Statuses
<1> QED  BY <1>1, NoRequest DEF CreateTask, Shape, RowsOK, RequestType

LEMMA ShapeRemoveTask ==
  ASSUME Shape, NEW t \in Tasks, RemoveTask(t) PROVE Shape'
<1>1. RowType' /\ SheetsFit'
  BY NoSheetFacts DEF RemoveTask, Shape, RowsOK, RowType, SheetsFit
<1>2. \A u \in Tasks \ {t} : Kept(u)
  BY DEF RemoveTask, Shape, RowsOK, RowType, Kept
<1>3. \A v \in Workers : \A u \in locked[v] : Kept(u)
  BY <1>2 DEF RemoveTask, TaskRowUnlocked, Shape, RowsOK, RequestType
<1> QED  BY <1>1, <1>3, NoRequest DEF RemoveTask

LEMMA ShapeStep == Shape /\ [Next]_vars => Shape'
<1> SUFFICES ASSUME Shape, [Next]_vars PROVE Shape'
  OBVIOUS
<1>1. ASSUME NEW w \in Workers, RequestStep(w) PROVE Shape'
  BY <1>1, ShapeReadForStatus, ShapeReadForDiscount, ShapeSubmitSheets, ShapeLockTask,
     ShapeMoveLine, ShapeCommit, ShapeLockSheetRow, ShapeCheckSheets, ShapeInsertLine,
     ShapeCommitSheets, RollbackShape
  DEF RequestStep, Interrupt
<1>2. ASSUME RowStep PROVE Shape'
  BY <1>2, IdAssumption, ShapeRegisterMovement, ShapeCreateItem, ShapeRemoveItem,
     ShapeCreateTask, ShapeRemoveTask
  DEF RowStep
<1>3. CASE UNCHANGED vars
  <2>1. RowType' /\ SheetsFit' /\ \A u \in Tasks : Kept(u)
    BY <1>3 DEF vars, db, Shape, RowsOK, RowType, SheetsFit, Kept
  <2> QED  BY <1>3, <2>1, NoRequest DEF vars, Shape, RowsOK, RequestType
<1> QED  BY <1>1, <1>2, <1>3 DEF Next

LEMMA ShapeAlways == Spec => []Shape
<1> QED  BY ShapeInit, ShapeStep, PTL DEF Spec

-----------------------------------------------------------------------------
(* The books: what a request holds is its own, exists, and adds up with     *)
(* what it has drawn and not yet committed.                                 *)

ItemsExclusive ==
  \A v, w \in Workers : v # w => held[v] \cap held[w] = {}

Accounts(w) ==
  \A i \in Items :
    IF i \in held[w]
    THEN /\ itemRow[i] = "activo"
         /\ view[w][i] = stock[i] + drawn[w][i]
         /\ view[w][i] >= 0
    ELSE drawn[w][i] = 0

(* An id that was never given to an item has no movement of an order.       *)
UnusedIds == \A i \in Items : itemRow[i] = "sin_alta" => orden[i] = 0

Books ==
  /\ Shape /\ ItemsExclusive /\ UnusedIds
  /\ StockNeverNegative /\ KardexAddsUp
  /\ \A w \in Workers : Accounts(w)

inventory == << itemRow, stock, manual, orden >>

LEMMA BooksInit == Init => Books
<1> SUFFICES ASSUME Init PROVE Books
  OBVIOUS
<1>1. Shape
  BY ShapeInit
<1>2. ItemsExclusive /\ \A w \in Workers : Accounts(w)
  BY DEF Init, ItemsExclusive, Accounts, Zero
<1>3. UnusedIds /\ StockNeverNegative /\ KardexAddsUp
  BY DEF Init, UnusedIds, StockNeverNegative, KardexAddsUp, Zero
<1> QED  BY <1>1, <1>2, <1>3 DEF Books

LEMMA AccountsFrame ==
  ASSUME NEW v \in Workers, Accounts(v), Untouched(v),
         \A i \in held[v] : stock'[i] = stock[i] /\ itemRow'[i] = itemRow[i]
  PROVE  Accounts(v)'
BY DEF Accounts, Untouched

LEMMA IdleAccounts ==
  ASSUME NEW w \in Workers, Idle(w)' PROVE Accounts(w)'
BY DEF Idle, Accounts, Zero

(* Most steps touch neither the inventory nor what a request knows of it.   *)
LEMMA BooksUntouched ==
  ASSUME Books, Shape', UNCHANGED << inventory, held, view, drawn >>
  PROVE  Books'
BY DEF Books, ItemsExclusive, Accounts, UnusedIds, StockNeverNegative, KardexAddsUp, inventory

LEMMA BooksRelease ==
  ASSUME Books, Shape', NEW w \in Workers, Release(w), UNCHANGED inventory
  PROVE  Books'
<1>1. Idle(w)' /\ \A v \in Workers \ {w} : Untouched(v)
  BY ReleaseFacts DEF Books, Shape, RowsOK
<1>2. \A v \in Workers : Accounts(v)'
  BY <1>1, AccountsFrame, IdleAccounts DEF Books, inventory
<1>3. ItemsExclusive'
  BY <1>1 DEF Books, ItemsExclusive, Untouched, Idle
<1> QED
  BY <1>2, <1>3 DEF Books, UnusedIds, StockNeverNegative, KardexAddsUp, inventory

LEMMA BooksRollback ==
  ASSUME Books, NEW w \in Workers, Rollback(w) PROVE Books'
<1>1. Shape'
  BY RollbackShape DEF Books
<1> QED  BY <1>1, BooksRelease DEF Rollback, db, inventory

LEMMA BooksMoveLine ==
  ASSUME Books, NEW w \in Workers, MoveLine(w) PROVE Books'
<1>1. PICK l \in todo[w] :
        /\ ItemRowFree(w, l.item)
        /\ IF itemRow[l.item] = "activo" THEN Turn(w, l) ELSE Rollback(w)
  BY DEF MoveLine
<1>2. CASE itemRow[l.item] = "activo"
  <2> DEFINE i == l.item
             b == Balance(w, i)
             d == Delta(w, l)
  <2>1. /\ held' = [held EXCEPT ![w] = @ \cup {i}]
        /\ view' = [view EXCEPT ![w][i] = b + d]
        /\ drawn' = [drawn EXCEPT ![w][i] = @ + d]
        /\ UNCHANGED << db, pc, job, locked, shared, inserts >>
    BY <1>1, <1>2 DEF Turn
  <2>2. i \in Items /\ d \in Int /\ b \in Int /\ (b >= 0 => b + d >= 0)
    BY DeltaFacts DEF MoveLine, Books
  <2>3. b = stock[i] + drawn[w][i] /\ b >= 0
    BY <2>2 DEF Books, Accounts, StockNeverNegative, Balance, Shape, RowsOK, RowType, RequestType
  <2>4. UNCHANGED inventory /\ Shape'
    BY <2>1, ShapeMoveLine DEF db, inventory, Books
  <2>5. /\ held \in [Workers -> SUBSET Items]
        /\ view \in [Workers -> [Items -> Int]] /\ drawn \in [Workers -> [Items -> Int]]
        /\ stock \in [Items -> Int]
    BY DEF Books, Shape, RowsOK, RowType, RequestType
  <2> HIDE DEF i, b, d
  <2>6. Accounts(w)'
    <3>1. SUFFICES ASSUME NEW j \in Items
                   PROVE  IF j \in held'[w]
                          THEN /\ itemRow'[j] = "activo"
                               /\ view'[w][j] = stock'[j] + drawn'[w][j]
                               /\ view'[w][j] >= 0
                          ELSE drawn'[w][j] = 0
      BY DEF Accounts
    <3>2. UNCHANGED << stock, itemRow >>
      BY <2>4 DEF inventory
    <3>3. CASE j = i
      <4>1. j \in held'[w] /\ view'[w][j] = b + d /\ drawn'[w][j] = drawn[w][j] + d
        BY <2>1, <2>2, <2>5, <3>3
      <4>2. itemRow[j] = "activo"
        BY <1>2, <3>3 DEF i
      <4> QED  BY <2>2, <2>3, <2>5, <3>2, <3>3, <4>1, <4>2
    <3>4. CASE j # i
      <4>1. (j \in held'[w] <=> j \in held[w]) /\ view'[w][j] = view[w][j]
            /\ drawn'[w][j] = drawn[w][j]
        BY <2>1, <2>2, <2>5, <3>4
      <4> QED  BY <3>2, <4>1 DEF Books, Accounts
    <3> QED  BY <3>3, <3>4
  <2>7. ASSUME NEW v \in Workers, v # w PROVE Accounts(v)'
    <3>1. held'[v] = held[v] /\ view'[v] = view[v] /\ drawn'[v] = drawn[v]
      BY <2>1, <2>5, <2>7
    <3> QED  BY <2>4, <3>1 DEF Books, Accounts, inventory
  <2>8. ItemsExclusive'
    BY <1>1, <2>1, <2>5 DEF Books, ItemsExclusive, ItemRowFree, i
  <2> QED
    BY <2>4, <2>6, <2>7, <2>8
    DEF Books, UnusedIds, StockNeverNegative, KardexAddsUp, inventory
<1>3. CASE itemRow[l.item] # "activo"
  BY <1>1, <1>3, BooksRollback
<1> QED  BY <1>2, <1>3

(* The commit publishes what was drawn, in the stock and in the kardex.     *)
LEMMA BooksCommit ==
  ASSUME Books, NEW w \in Workers, Commit(w) PROVE Books'
<1>1. /\ stock' = [i \in Items |-> Balance(w, i)]
      /\ orden' = [i \in Items |-> orden[i] + drawn[w][i]]
      /\ UNCHANGED << itemRow, manual >> /\ Release(w)
  BY DEF Commit
<1>2. Shape'
  BY ShapeCommit DEF Books
<1>3. Idle(w)' /\ \A v \in Workers \ {w} : Untouched(v)
  BY <1>1, ReleaseFacts DEF Books, Shape, RowsOK
<1>4. \A i \in Items : /\ stock[i] \in Int /\ orden[i] \in Int /\ manual[i] \in Int
                       /\ drawn[w][i] \in Int
  BY DEF Books, Shape, RowsOK, RowType, RequestType
<1>5. \A i \in Items : stock'[i] = stock[i] + drawn[w][i] /\ stock'[i] >= 0
  BY <1>1, <1>4 DEF Balance, Books, Accounts, StockNeverNegative
<1>6. \A i \in Items \ held[w] : stock'[i] = stock[i]
  BY <1>4, <1>5 DEF Books, Accounts
<1>7. \A v \in Workers : Accounts(v)'
  <2>1. ASSUME NEW v \in Workers, v # w PROVE Accounts(v)'
    <3>1. \A i \in held[v] : stock'[i] = stock[i] /\ itemRow'[i] = itemRow[i]
      BY <1>1, <1>6, <2>1 DEF Books, ItemsExclusive, Shape, RowsOK, RequestType
    <3> QED  BY <1>3, <2>1, <3>1, AccountsFrame DEF Books
  <2> QED  BY <1>3, <2>1, IdleAccounts
<1>8. ItemsExclusive'
  BY <1>3 DEF Books, ItemsExclusive, Untouched, Idle
<1>9. UnusedIds'
  BY <1>1, <1>4 DEF Books, UnusedIds, Accounts
<1>10. KardexAddsUp'
  BY <1>1, <1>4, <1>5 DEF Books, KardexAddsUp
<1> QED  BY <1>2, <1>5, <1>7, <1>8, <1>9, <1>10 DEF Books, StockNeverNegative

(* A step on an item that nobody holds.                                     *)
LEMMA BooksOneItem ==
  ASSUME Books, Shape', UNCHANGED request, NEW i \in Items,
         \A w \in Workers : i \notin held[w],
         \A j \in Items \ {i} : /\ itemRow'[j] = itemRow[j] /\ stock'[j] = stock[j]
                                /\ manual'[j] = manual[j] /\ orden'[j] = orden[j],
         stock'[i] >= 0, stock'[i] = manual'[i] + orden'[i],
         itemRow'[i] # "sin_alta"
  PROVE  Books'
<1>1. ASSUME NEW v \in Workers PROVE Accounts(v)'
  <2>1. Untouched(v)
    BY DEF request, Untouched
  <2>2. \A j \in held[v] : stock'[j] = stock[j] /\ itemRow'[j] = itemRow[j]
    BY DEF Books, Shape, RowsOK, RequestType
  <2> QED  BY <2>1, <2>2, AccountsFrame DEF Books
<1>2. ItemsExclusive'
  BY DEF Books, ItemsExclusive, request
<1>3. UnusedIds' /\ StockNeverNegative' /\ KardexAddsUp'
  BY DEF Books, UnusedIds, StockNeverNegative, KardexAddsUp
<1> QED  BY <1>1, <1>2, <1>3 DEF Books

LEMMA BooksRegisterMovement ==
  ASSUME Books, NEW i \in Items, NEW type \in MovementTypes, NEW n \in Amounts,
         RegisterMovement(i, type, n)
  PROVE  Books'
<1> DEFINE d == MovementDelta(i, type, n)
<1>1. d \in Int /\ stock[i] + d >= 0
  BY MovementFacts DEF RegisterMovement, Books, Shape, RowsOK, StockNeverNegative
<1>2. /\ stock' = [stock EXCEPT ![i] = @ + d] /\ manual' = [manual EXCEPT ![i] = @ + d]
      /\ UNCHANGED << itemRow, orden, request >> /\ itemRow[i] = "activo"
      /\ \A w \in Workers : i \notin held[w]
  BY DEF RegisterMovement, ItemRowUnlocked
<1>3. Shape'
  BY ShapeRegisterMovement DEF Books
<1>4. stock[i] \in Int /\ manual[i] \in Int /\ orden[i] \in Int /\ stock[i] = manual[i] + orden[i]
  BY DEF Books, Shape, RowsOK, RowType, KardexAddsUp
<1>5. stock'[i] = stock[i] + d /\ manual'[i] = manual[i] + d
  BY <1>2 DEF Books, Shape, RowsOK, RowType
<1>6. \A j \in Items \ {i} : stock'[j] = stock[j] /\ manual'[j] = manual[j]
  BY <1>2 DEF Books, Shape, RowsOK, RowType
<1> HIDE DEF d
<1> QED  BY <1>1, <1>2, <1>3, <1>4, <1>5, <1>6, BooksOneItem

LEMMA BooksCreateItem ==
  ASSUME Books, NEW i \in Items, NEW n \in Amounts, CreateItem(i, n) PROVE Books'
<1>1. Shape'
  BY ShapeCreateItem DEF Books
<1>2. /\ itemRow' = [itemRow EXCEPT ![i] = "activo"] /\ stock' = [stock EXCEPT ![i] = n]
      /\ manual' = [manual EXCEPT ![i] = n] /\ UNCHANGED << orden, request >>
      /\ itemRow[i] = "sin_alta"
  BY DEF CreateItem
<1>3. orden[i] = 0 /\ \A w \in Workers : i \notin held[w]
  BY <1>2 DEF Books, UnusedIds, Accounts
<1>4. n \in Nat
  BY BoundAssumption
<1> QED
  BY <1>1, <1>2, <1>3, <1>4, BooksOneItem DEF Books, Shape, RowsOK, RowType

LEMMA BooksRemoveItem ==
  ASSUME Books, NEW i \in Items, RemoveItem(i) PROVE Books'
<1>1. Shape'
  BY ShapeRemoveItem DEF Books
<1>2. /\ itemRow' = [itemRow EXCEPT ![i] = "borrado"] /\ stock' = [stock EXCEPT ![i] = 0]
      /\ manual' = [manual EXCEPT ![i] = 0] /\ orden' = [orden EXCEPT ![i] = 0]
      /\ UNCHANGED request /\ \A w \in Workers : i \notin held[w]
  BY DEF RemoveItem, ItemRowUnlocked
<1> QED
  BY <1>1, <1>2, BooksOneItem DEF Books, Shape, RowsOK, RowType

LEMMA BooksStep == Books /\ [Next]_vars => Books'
<1> SUFFICES ASSUME Books, [Next]_vars PROVE Books'
  OBVIOUS
<1>0. Shape'
  BY ShapeStep DEF Books
<1>1. ASSUME NEW w \in Workers, RequestStep(w) PROVE Books'
  <2>1. CASE \/ \E t \in Tasks, to \in Statuses : ReadForStatus(w, t, to)
             \/ \E t \in Tasks : ReadForDiscount(w, t)
             \/ \E plan \in Plans : SubmitSheets(w, plan)
    BY <1>0, <2>1, BooksUntouched
    DEF ReadForStatus, ReadForDiscount, SubmitSheets, Start, db, inventory
  <2>2. CASE LockTask(w) \/ CheckSheets(w) \/ InsertLine(w) \/ Interrupt(w)
    <3>1. CASE Rollback(w)
      BY <3>1, BooksRollback
    <3>2. CASE ~Rollback(w)
      BY <1>0, <2>2, <3>2, BooksUntouched
      DEF LockTask, CheckSheets, InsertLine, Interrupt, db, inventory
    <3> QED  BY <3>1, <3>2
  <2>3. CASE LockSheetRow(w)
    BY <1>0, <2>3, BooksUntouched DEF LockSheetRow, db, inventory
  <2>4. CASE CommitSheets(w)
    BY <1>0, <2>4, BooksRelease DEF CommitSheets, inventory
  <2> QED  BY <1>1, <2>1, <2>2, <2>3, <2>4, BooksMoveLine, BooksCommit DEF RequestStep
<1>2. ASSUME RowStep PROVE Books'
  <2>1. CASE \E t \in Tasks : CreateTask(t) \/ RemoveTask(t)
    BY <1>0, <2>1, BooksUntouched DEF CreateTask, RemoveTask, inventory, request
  <2> QED
    BY <1>2, <2>1, IdAssumption, BooksRegisterMovement, BooksCreateItem, BooksRemoveItem
    DEF RowStep
<1>3. CASE UNCHANGED vars
  BY <1>0, <1>3, BooksUntouched DEF vars, db, request, inventory
<1> QED  BY <1>1, <1>2, <1>3 DEF Next

LEMMA BooksAlways == Spec => []Books
<1> QED  BY BooksInit, BooksStep, PTL DEF Spec

(* The inventory never goes negative: the balance a request checks a line   *)
(* against is the one its commit will publish, because it holds the row.    *)
THEOREM Stock_Never_Negative == Spec => []StockNeverNegative
<1>1. Books => StockNeverNegative
  BY DEF Books
<1> QED  BY <1>1, BooksAlways, PTL

(* The kardex explains the stock of every item: no request overwrites the   *)
(* balance another one wrote, although each writes an absolute quantity.    *)
THEOREM Kardex_Adds_Up == Spec => []KardexAddsUp
<1>1. Books => KardexAddsUp
  BY DEF Books
<1> QED  BY <1>1, BooksAlways, PTL

(* The sheet of a finished task is never rewritten, however the save, the   *)
(* finishing and the removal of the task interleave: the tasks whose sheet  *)
(* a save rewrites were not finished and stay locked until it commits.      *)
THEOREM Finished_Sheet_Frozen == Spec => FinishedSheetFrozen
<1>1. Shape /\ [Next]_vars =>
        [\A t \in Tasks :
           status[t] = "terminado" /\ status'[t] = "terminado" => SheetKept(t)]_vars
  <2>1. SUFFICES ASSUME Shape, Next, NEW t \in Tasks,
                        status[t] = "terminado", status'[t] = "terminado"
                 PROVE  SheetKept(t)
    OBVIOUS
  <2>2. CASE \E w \in Workers : CommitSheets(w)
    <3>1. PICK w \in Workers : CommitSheets(w)
      BY <2>2
    <3>2. t \notin Named(job[w].plan)
      BY <2>1, <3>1 DEF CommitSheets, Shape, RequestOK, SaverHasTasks
    <3> QED  BY <3>1, <3>2 DEF CommitSheets, SheetKept
  <2>3. CASE \E i \in Removable : RemoveItem(i)
    <3>1. PICK i \in Items : RemoveItem(i)
      BY <2>3, IdAssumption
    <3>2. itemRow'[i] # itemRow[i]
      BY <2>1, <3>1 DEF RemoveItem, Shape, RowsOK, RowType
    <3> QED  BY <3>1, <3>2 DEF RemoveItem, SheetKept
  <2>4. CASE \E u \in Tasks : RemoveTask(u)
    BY <2>1, <2>4 DEF RemoveTask, SheetKept, Shape, RowsOK, RowType
  <2>5. CASE UNCHANGED sheet
    BY <2>5 DEF SheetKept
  <2> QED
    BY <2>1, <2>2, <2>3, <2>4, <2>5
    DEF Next, RequestStep, RowStep, ReadForStatus, ReadForDiscount, SubmitSheets, Start,
        LockTask, MoveLine, Turn, Rollback, Commit, LockSheetRow, CheckSheets, InsertLine,
        Interrupt, RegisterMovement, CreateItem, CreateTask, db
<1> QED  BY <1>1, ShapeAlways, PTL DEF Spec, FinishedSheetFrozen

-----------------------------------------------------------------------------
(* Which lines are discounted, and why.                                     *)

Tied(t, k) == sheet[t].lines[k].item # NoItem

(* Only our sheets are tied to the inventory.                               *)
OursOrText(s) == s.source # "nosotros" => \A k \in DOMAIN s.lines : s.lines[k].item = NoItem

DiscountedLinesExist == \A t \in Tasks : done[t] \subseteq DOMAIN sheet[t].lines

SheetsOursOrText == \A t \in Tasks : OursOrText(sheet[t])

(* What a request that moves lines is about: a change of status, or a retry *)
(* on a finished task; and when it takes the task out of "terminado", every *)
(* discounted line is one it gave back or has still to reach.               *)
MoverPurpose(w) ==
  LET t == job[w].task IN
  pc[w] = "moviendo" =>
    /\ \/ job[w].op = "estado"
       \/ job[w].op = "descuento" /\ job[w].target = "terminado" /\ status[t] = "terminado"
    /\ moved[w] \subseteq DOMAIN sheet[t].lines
    /\ job[w].target # "terminado" =>
         \A k \in done[t] : Tied(t, k) => k \in moved[w] \/ \E l \in todo[w] : l.slot = k

Errand(w) ==
  /\ \A t \in Tasks : OursOrText(job[w].plan[t])
  /\ pc[w] # "moviendo" => moved[w] = {}
  /\ pc[w] = "leido" => \/ job[w].op = "estado"
                        \/ job[w].op = "descuento" /\ job[w].target = "terminado"
  /\ MoverPurpose(w)

DiscountRules == DiscountedLinesExist /\ SheetsOursOrText /\ DiscountedOnlyWhenFinished

Discounts == Shape /\ DiscountRules /\ \A w \in Workers : Errand(w)

(* A step leaves of task t what its discount rests on.                      *)
Stable(t) ==
  /\ done'[t] = done[t] /\ status'[t] = status[t]
  /\ DOMAIN sheet'[t].lines = DOMAIN sheet[t].lines
  /\ \A k \in DOMAIN sheet[t].lines : Tied(t, k)' => Tied(t, k)

LEMMA NoSheetOursOrText == OursOrText(NoSheet) /\ \A t \in Tasks : OursOrText(NoPlan[t])
BY NoSheetFacts DEF OursOrText, NoSheet, NoPlan

LEMMA PlanOursOrText ==
  ASSUME NEW plan \in Plans, NEW t \in Tasks PROVE OursOrText(plan[t])
<1>1. CASE t \in Named(plan)
  <2>1. plan[t] \in Sheet /\ plan[t].source # "sin_hoja"
        /\ (plan[t].source = "cliente" =>
              \A k \in DOMAIN plan[t].lines : plan[t].lines[k].item = NoItem)
    BY <1>1, PlanAssumption DEF ValidSheet
  <2> QED  BY <2>1 DEF Sheet, OursOrText
<1>2. CASE t \notin Named(plan)
  BY <1>2, NoSheetOursOrText DEF Named
<1> QED  BY <1>1, <1>2

LEMMA DiscountsInit == Init => Discounts
<1> SUFFICES ASSUME Init PROVE Discounts
  OBVIOUS
<1>1. Shape
  BY ShapeInit
<1>2. DiscountRules
  BY NoSheetOursOrText
  DEF Init, DiscountRules, DiscountedLinesExist, SheetsOursOrText, DiscountedOnlyWhenFinished
<1>3. ASSUME NEW w \in Workers PROVE Errand(w)
  <2>1. job[w].plan = NoPlan /\ pc[w] = "libre" /\ moved[w] = {}
    BY ConstantFacts DEF Init
  <2> QED  BY <2>1, NoSheetOursOrText DEF Errand, MoverPurpose
<1> QED  BY <1>1, <1>2, <1>3 DEF Discounts

LEMMA MoverTask ==
  ASSUME Shape, NEW v \in Workers, pc[v] = "moviendo"
  PROVE  job[v].task \in locked[v] /\ job[v].task \in Tasks
BY DEF Shape, RequestOK, MoverHasTask, RowsOK, RequestType

LEMMA ErrandFrame ==
  ASSUME Discounts, NEW v \in Workers, Untouched(v),
         pc[v] = "moviendo" => Stable(job[v].task)
  PROVE  Errand(v)'
<1>1. CASE pc[v] = "moviendo"
  <2>1. job[v].task \in Tasks
    BY <1>1, MoverTask DEF Discounts
  <2>2. done[job[v].task] \subseteq DOMAIN sheet[job[v].task].lines
    BY <2>1 DEF Discounts, DiscountRules, DiscountedLinesExist
  <2>3. Stable(job[v].task)
    BY <1>1
  <2>4. MoverPurpose(v)'
    BY <1>1, <2>2, <2>3 DEF Discounts, Errand, MoverPurpose, Untouched, Stable
  <2> QED  BY <1>1, <2>4 DEF Discounts, Errand, Untouched
<1>2. CASE pc[v] # "moviendo"
  BY <1>2 DEF Discounts, Errand, MoverPurpose, Untouched
<1> QED  BY <1>1, <1>2

LEMMA IdleErrand ==
  ASSUME NEW w \in Workers, Idle(w)' PROVE Errand(w)'
<1>1. job'[w].plan = NoPlan /\ pc'[w] = "libre" /\ moved'[w] = {}
  BY DEF Idle, NoJob
<1> QED  BY <1>1, NoSheetOursOrText DEF Errand, MoverPurpose

(* A step of one request, on tasks it holds.                                *)
LEMMA DiscountsOneRequest ==
  ASSUME Discounts, Shape', DiscountRules', NEW w \in Workers, Errand(w)',
         \A v \in Workers \ {w} : Untouched(v),
         \A t \in Tasks \ locked[w] : Stable(t)
  PROVE  Discounts'
<1>1. ASSUME NEW v \in Workers, v # w PROVE Errand(v)'
  <2>1. ASSUME pc[v] = "moviendo" PROVE Stable(job[v].task)
    <3>1. job[v].task \in locked[v] /\ job[v].task \in Tasks
      BY <2>1, MoverTask DEF Discounts
    <3> QED  BY <1>1, <3>1 DEF Discounts, Shape, TasksExclusive
  <2> QED  BY <1>1, <2>1, ErrandFrame
<1> QED  BY <1>1 DEF Discounts

(* A step of the database, on tasks that no mover is about.                 *)
LEMMA DiscountsNoRequest ==
  ASSUME Discounts, Shape', DiscountRules', UNCHANGED request,
         \A v \in Workers : pc[v] = "moviendo" => Stable(job[v].task)
  PROVE  Discounts'
<1>1. \A v \in Workers : Untouched(v)
  BY DEF request, Untouched
<1> QED  BY <1>1, ErrandFrame DEF Discounts

LEMMA DiscountsRelease ==
  ASSUME Discounts, Shape', DiscountRules', NEW w \in Workers, Release(w),
         \A t \in Tasks \ locked[w] : Stable(t)
  PROVE  Discounts'
<1>1. Idle(w)' /\ \A v \in Workers \ {w} : Untouched(v)
  BY ReleaseFacts DEF Discounts, Shape, RowsOK
<1> QED  BY <1>1, IdleErrand, DiscountsOneRequest

LEMMA RulesSameDb ==
  ASSUME Discounts, UNCHANGED db PROVE DiscountRules' /\ \A t \in Tasks : Stable(t)
BY DEF Discounts, DiscountRules, DiscountedLinesExist, SheetsOursOrText,
       DiscountedOnlyWhenFinished, Stable, Tied, OursOrText, db

LEMMA DiscountsRollback ==
  ASSUME Discounts, NEW w \in Workers, Rollback(w) PROVE Discounts'
<1>1. Shape'
  BY RollbackShape DEF Discounts
<1> QED  BY <1>1, RulesSameDb, DiscountsRelease DEF Rollback

LEMMA DiscountsStart ==
  ASSUME Discounts, Shape', NEW w \in Workers, NEW what \in Jobs, Start(w, what),
         \A t \in Tasks : OursOrText(what.plan[t]),
         NEW p \in {"leido", "hoja"}, pc' = [pc EXCEPT ![w] = p],
         p = "leido" => what.op = "estado" \/ (what.op = "descuento" /\ what.target = "terminado")
  PROVE  Discounts'
<1>1. \A v \in Workers \ {w} : Untouched(v)
  BY DEF Start, Discounts, Shape, RowsOK, RequestType, Untouched
<1>2. /\ pc[w] = "libre" /\ pc'[w] = p /\ job'[w] = what /\ moved'[w] = moved[w]
      /\ UNCHANGED db
  BY DEF Start, Discounts, Shape, RowsOK, RequestType
<1>3. Errand(w)'
  BY <1>2 DEF Discounts, Errand, MoverPurpose
<1> QED  BY <1>1, <1>2, <1>3, RulesSameDb, DiscountsOneRequest

LEMMA DiscountsReads ==
  ASSUME Discounts, NEW w \in Workers, NEW t \in Tasks,
         \/ \E to \in Statuses : ReadForStatus(w, t, to)
         \/ ReadForDiscount(w, t)
  PROVE  Discounts'
<1>1. ASSUME NEW to \in Statuses, ReadForStatus(w, t, to) PROVE Discounts'
  <2> DEFINE what == [op |-> "estado", task |-> t, seen |-> status[t], target |-> to,
                      plan |-> NoPlan]
  <2>1. what \in Jobs
    BY <1>1, ConstantFacts DEF ReadForStatus, Discounts, Shape, RowsOK, RowType, Jobs
  <2>2. Start(w, what) /\ pc' = [pc EXCEPT ![w] = "leido"] /\ what.plan = NoPlan
        /\ what.op = "estado"
    BY <1>1 DEF ReadForStatus
  <2>3. Shape'
    BY <1>1, ShapeReadForStatus DEF Discounts
  <2> HIDE DEF what
  <2> QED  BY <2>1, <2>2, <2>3, NoSheetOursOrText, DiscountsStart
<1>2. CASE ReadForDiscount(w, t)
  <2> DEFINE what == [op |-> "descuento", task |-> t, seen |-> "terminado",
                      target |-> "terminado", plan |-> NoPlan]
  <2>1. what \in Jobs
    BY ConstantFacts DEF Jobs, Statuses
  <2>2. Start(w, what) /\ pc' = [pc EXCEPT ![w] = "leido"] /\ what.plan = NoPlan
        /\ what.op = "descuento" /\ what.target = "terminado"
    BY <1>2 DEF ReadForDiscount
  <2>3. Shape'
    BY <1>2, ShapeReadForDiscount DEF Discounts
  <2> HIDE DEF what
  <2> QED  BY <2>1, <2>2, <2>3, NoSheetOursOrText, DiscountsStart
<1> QED  BY <1>1, <1>2

LEMMA DiscountsSubmitSheets ==
  ASSUME Discounts, NEW w \in Workers, NEW plan \in Plans, SubmitSheets(w, plan)
  PROVE  Discounts'
<1> DEFINE what == [op |-> "hoja", task |-> NoTask, seen |-> "pendiente",
                    target |-> "pendiente", plan |-> plan]
<1>1. what \in Jobs
  BY PlanAssumption DEF Jobs, Statuses
<1>2. Start(w, what) /\ pc' = [pc EXCEPT ![w] = "hoja"] /\ what.plan = plan
  BY DEF SubmitSheets
<1>3. Shape'
  BY ShapeSubmitSheets DEF Discounts
<1>4. \A t \in Tasks : OursOrText(plan[t])
  BY PlanOursOrText
<1> HIDE DEF what
<1> QED  BY <1>1, <1>2, <1>3, <1>4, DiscountsStart

(* Reopening lists every discounted line that is tied to an item.           *)
LEMMA ReopeningListsAll ==
  ASSUME Discounts, NEW t \in Tasks, NEW k \in done[t], Tied(t, k)
  PROVE  /\ status[t] = "terminado"
         /\ \E l \in ListedLines(t, FALSE) : l.slot = k
<1>1. k \in DOMAIN sheet[t].lines
  BY DEF Discounts, DiscountRules, DiscountedLinesExist
<1>2. sheet[t].source = "nosotros" /\ sheet[t].lines[k].item # NoItem
  BY <1>1 DEF Discounts, DiscountRules, SheetsOursOrText, OursOrText, Tied
<1>3. [item |-> sheet[t].lines[k].item, slot |-> k] \in ListedLines(t, FALSE)
  BY <1>1, <1>2 DEF ListedLines
<1>4. status[t] = "terminado"
  BY <1>2 DEF Discounts, DiscountRules, DiscountedOnlyWhenFinished
<1> QED  BY <1>3, <1>4

LEMMA DiscountsLockTask ==
  ASSUME Discounts, NEW w \in Workers, LockTask(w) PROVE Discounts'
<1> DEFINE t == job[w].task
<1>1. CASE Refused(w)
  BY <1>1, DiscountsRollback DEF LockTask
<1>2. CASE ~Refused(w)
  <2> DEFINE lines == IF job[w].op = "descuento" THEN ListedLines(t, TRUE)
                      ELSE LinesToMove(t, status[t], job[w].target)
  <2>1. /\ pc[w] = "leido" /\ pc' = [pc EXCEPT ![w] = "moviendo"]
        /\ locked' = [locked EXCEPT ![w] = {t}] /\ todo' = [todo EXCEPT ![w] = lines]
        /\ UNCHANGED << db, job, held, shared, view, drawn, moved, inserts >>
    BY <1>2 DEF LockTask
  <2>2. t \in Tasks
    BY <2>1 DEF Discounts, Shape, RequestOK, ReaderHasTask
  <2>3. moved[w] = {} /\ (\/ job[w].op = "estado"
                          \/ job[w].op = "descuento" /\ job[w].target = "terminado")
    BY <2>1 DEF Discounts, Errand
  <2>4. job[w].op = "descuento" => status[t] = "terminado"
    BY <1>2 DEF Refused
  <2>5. ASSUME job[w].target # "terminado", NEW k \in done[t], Tied(t, k)
        PROVE  \E l \in lines : l.slot = k
    <3>1. lines = LinesToMove(t, status[t], job[w].target)
      BY <2>3, <2>5
    <3>2. status[t] = "terminado" /\ \E l \in ListedLines(t, FALSE) : l.slot = k
      BY <2>2, <2>5, ReopeningListsAll
    <3> QED  BY <2>5, <3>1, <3>2 DEF LinesToMove
  <2> HIDE DEF lines
  <2>6. pc'[w] = "moviendo" /\ job' = job /\ moved'[w] = {} /\ todo'[w] = lines
        /\ done' = done /\ status' = status /\ sheet' = sheet
    BY <2>1, <2>3 DEF Discounts, Shape, RowsOK, RequestType, db
  <2>7. MoverPurpose(w)'
    BY <2>3, <2>4, <2>5, <2>6 DEF MoverPurpose, Tied
  <2>8. Errand(w)'
    BY <2>6, <2>7 DEF Discounts, Errand
  <2>9. \A v \in Workers \ {w} : Untouched(v)
    BY <2>1 DEF Discounts, Shape, RowsOK, RequestType, Untouched
  <2>10. Shape'
    BY ShapeLockTask DEF Discounts
  <2> QED  BY <2>1, <2>8, <2>9, <2>10, RulesSameDb, DiscountsOneRequest
<1> QED  BY <1>1, <1>2

(* A line given back is one the request claims: when a task is reopened, a  *)
(* discounted line is claimable and always moves its quantity.              *)
LEMMA GivenBack ==
  ASSUME Shape, NEW w \in Workers, pc[w] = "moviendo", NEW l \in todo[w],
         job[w].target # "terminado", l.slot \in done[job[w].task]
  PROVE  Delta(w, l) # 0
<1> DEFINE t == job[w].task
           qty == sheet[t].lines[l.slot].qty
<1>1. t \in Tasks /\ l.slot \in DOMAIN sheet[t].lines
  BY MoverTask DEF Shape, RequestOK, MoverHasTask
<1>2. qty \in Int /\ qty > 0
  BY <1>1, SheetFacts DEF Shape, RowsOK, RowType
<1>3. Delta(w, l) = qty
  BY DEF Delta, Claimable, Finishing
<1> HIDE DEF qty
<1> QED  BY <1>2, <1>3

LEMMA DiscountsMoveLine ==
  ASSUME Discounts, NEW w \in Workers, MoveLine(w) PROVE Discounts'
<1>1. PICK l \in todo[w] : IF itemRow[l.item] = "activo" THEN Turn(w, l) ELSE Rollback(w)
  BY DEF MoveLine
<1>2. CASE itemRow[l.item] = "activo"
  <2> DEFINE t == job[w].task
  <2>1. /\ pc[w] = "moviendo" /\ UNCHANGED << db, pc, job, locked, shared, inserts >>
        /\ held' = [held EXCEPT ![w] = @ \cup {l.item}]
        /\ moved' = [moved EXCEPT ![w] = IF Delta(w, l) = 0 THEN @ ELSE @ \cup {l.slot}]
        /\ todo' = [todo EXCEPT ![w] = @ \ {l}]
    BY <1>1, <1>2 DEF MoveLine, Turn
  <2>2. \A v \in Workers \ {w} : Untouched(v)
    BY <1>1, <1>2 DEF Turn, Discounts, Shape, RowsOK, RequestType, Untouched
  <2>3. l.slot \in DOMAIN sheet[t].lines
    BY <2>1 DEF Discounts, Shape, RequestOK, MoverHasTask
  <2>4. moved'[w] \subseteq DOMAIN sheet[t].lines /\ moved[w] \subseteq moved'[w]
        /\ todo'[w] = todo[w] \ {l} /\ (Delta(w, l) # 0 => l.slot \in moved'[w])
    BY <2>1, <2>3 DEF Discounts, Shape, RowsOK, RequestType, Errand, MoverPurpose
  <2>5. ASSUME job[w].target # "terminado", NEW k \in done[t], Tied(t, k)
        PROVE  k \in moved'[w] \/ \E m \in todo'[w] : m.slot = k
    <3>1. CASE k = l.slot
      BY <2>1, <2>4, <2>5, <3>1, GivenBack DEF Discounts
    <3>2. CASE k # l.slot
      BY <2>1, <2>4, <2>5, <3>2 DEF Discounts, Errand, MoverPurpose
    <3> QED  BY <3>1, <3>2
  <2>6. UNCHANGED << pc, job, done, status, sheet >>
    BY <2>1 DEF db
  <2>7. MoverPurpose(w)'
    BY <2>1, <2>4, <2>5, <2>6 DEF Discounts, Errand, MoverPurpose, Tied
  <2>8. Errand(w)'
    BY <2>1, <2>6, <2>7 DEF Discounts, Errand
  <2>9. Shape'
    BY ShapeMoveLine DEF Discounts
  <2> QED  BY <2>1, <2>2, <2>8, <2>9, RulesSameDb, DiscountsOneRequest
<1>3. CASE itemRow[l.item] # "activo"
  BY <1>1, <1>3, DiscountsRollback
<1> QED  BY <1>2, <1>3

(* The commit of a reopening leaves no tied line discounted; the others     *)
(* leave the task finished.                                                 *)
LEMMA DiscountsCommit ==
  ASSUME Discounts, NEW w \in Workers, Commit(w) PROVE Discounts'
<1> DEFINE t == job[w].task
<1>1. /\ pc[w] = "moviendo" /\ todo[w] = {}
      /\ status' = [status EXCEPT ![t] = IF job[w].op = "estado" THEN job[w].target ELSE @]
      /\ done' = [done EXCEPT ![t] = Claimed(w)]
      /\ Release(w) /\ sheet' = sheet
  BY DEF Commit
<1>2. t \in locked[w] /\ t \in Tasks
  BY <1>1, MoverTask DEF Discounts
<1>3. done'[t] = Claimed(w)
      /\ status'[t] = (IF job[w].op = "estado" THEN job[w].target ELSE status[t])
      /\ \A u \in Tasks \ {t} : done'[u] = done[u] /\ status'[u] = status[u]
  BY <1>1, <1>2 DEF Discounts, Shape, RowsOK, RowType
<1>4. MoverPurpose(w)
  BY DEF Discounts, Errand
<1>5. Claimed(w) \subseteq DOMAIN sheet[t].lines
  BY <1>1, <1>2, <1>4
  DEF MoverPurpose, Claimed, Discounts, DiscountRules, DiscountedLinesExist
<1>6. DiscountedLinesExist' /\ SheetsOursOrText'
  BY <1>1, <1>2, <1>3, <1>5
  DEF Discounts, DiscountRules, DiscountedLinesExist, SheetsOursOrText, OursOrText
<1>7. ASSUME NEW k \in done'[t], Tied(t, k) PROVE status'[t] = "terminado"
  <2>1. CASE job[w].target = "terminado"
    BY <1>1, <1>3, <1>4, <2>1 DEF MoverPurpose
  <2>2. CASE job[w].target # "terminado"
    <3>1. k \in done[t] /\ k \notin moved[w]
      BY <1>3, <1>7, <2>2 DEF Claimed, Finishing
    <3> QED  BY <1>1, <1>4, <1>7, <2>2, <3>1 DEF MoverPurpose
  <2> QED  BY <2>1, <2>2
<1>8. DiscountedOnlyWhenFinished'
  BY <1>1, <1>3, <1>7 DEF Discounts, DiscountRules, DiscountedOnlyWhenFinished, Tied
<1>9. \A u \in Tasks \ locked[w] : Stable(u)
  BY <1>1, <1>2, <1>3 DEF Stable, Tied
<1>10. Shape'
  BY ShapeCommit DEF Discounts
<1> QED  BY <1>1, <1>6, <1>8, <1>9, <1>10, DiscountsRelease DEF DiscountRules

(* A step of a request that writes nothing yet and is not moving lines.     *)
LEMMA DiscountsQuietRequest ==
  ASSUME Discounts, Shape', NEW w \in Workers, UNCHANGED << db, moved >>,
         pc[w] # "moviendo", pc'[w] \notin {"moviendo", "leido"},
         \A t \in Tasks : OursOrText(job'[w].plan[t]),
         \A v \in Workers \ {w} : Untouched(v)
  PROVE  Discounts'
<1>1. DiscountRules' /\ \A t \in Tasks : Stable(t)
  BY RulesSameDb
<1>2. Errand(w)'
  BY DEF Discounts, Errand, MoverPurpose
<1> QED  BY <1>1, <1>2, DiscountsOneRequest

LEMMA DiscountsLockSheetRow ==
  ASSUME Discounts, NEW w \in Workers, LockSheetRow(w) PROVE Discounts'
<1>1. /\ pc[w] = "hoja"
      /\ UNCHANGED << db, pc, job, held, shared, view, drawn, todo, moved, inserts >>
  BY DEF LockSheetRow
<1>2. \A v \in Workers \ {w} : Untouched(v)
  BY DEF LockSheetRow, Discounts, Shape, RowsOK, RequestType, Untouched
<1>3. Shape'
  BY ShapeLockSheetRow DEF Discounts
<1>4. \A t \in Tasks : OursOrText(job[w].plan[t])
  BY DEF Discounts, Errand
<1> QED  BY <1>1, <1>2, <1>3, <1>4, DiscountsQuietRequest

LEMMA DiscountsCheckSheets ==
  ASSUME Discounts, NEW w \in Workers, CheckSheets(w) PROVE Discounts'
<1> DEFINE plan == job[w].plan
           new == [t \in Tasks |-> IF t \in Rewritten(w) THEN plan[t] ELSE NoSheet]
<1>1. CASE \E t \in Named(plan) : SheetRefused(t, plan[t])
  BY <1>1, DiscountsRollback DEF CheckSheets
<1>2. CASE ~\E t \in Named(plan) : SheetRefused(t, plan[t])
  <2>1. /\ pc[w] = "hoja" /\ pc' = [pc EXCEPT ![w] = "insertando"]
        /\ inserts' = [inserts EXCEPT ![w] = ItemLines(plan, Rewritten(w))]
        /\ job' = [job EXCEPT ![w].plan = new]
        /\ UNCHANGED << db, locked, held, shared, view, drawn, todo, moved >>
    BY <1>2 DEF CheckSheets
  <2>2. \A t \in Tasks : OursOrText(new[t])
    BY NoSheetOursOrText DEF Discounts, Errand
  <2> HIDE DEF new, plan
  <2>3. job'[w].plan = new /\ pc'[w] = "insertando"
    BY <2>1 DEF Discounts, Shape, RowsOK, RequestType, Jobs
  <2>4. \A v \in Workers \ {w} : Untouched(v)
    BY <2>1 DEF Discounts, Shape, RowsOK, RequestType, Untouched
  <2>5. Shape'
    BY ShapeCheckSheets DEF Discounts
  <2> QED  BY <2>1, <2>2, <2>3, <2>4, <2>5, DiscountsQuietRequest
<1> QED  BY <1>1, <1>2

LEMMA DiscountsInsertLine ==
  ASSUME Discounts, NEW w \in Workers, InsertLine(w) PROVE Discounts'
<1>1. CASE Rollback(w)
  BY <1>1, DiscountsRollback
<1>2. CASE ~Rollback(w)
  <2>1. PICK l \in inserts[w] :
          /\ pc[w] = "insertando"
          /\ shared' = [shared EXCEPT ![w] = @ \cup {InsertItem(w, l)}]
          /\ inserts' = [inserts EXCEPT ![w] = @ \ {l}]
          /\ UNCHANGED << db, pc, job, locked, held, view, drawn, todo, moved >>
    BY <1>2 DEF InsertLine
  <2>2. \A v \in Workers \ {w} : Untouched(v)
    BY <2>1 DEF Discounts, Shape, RowsOK, RequestType, Untouched
  <2>3. Shape'
    BY ShapeInsertLine DEF Discounts
  <2>4. \A t \in Tasks : OursOrText(job[w].plan[t])
    BY DEF Discounts, Errand
  <2> QED  BY <2>1, <2>2, <2>3, <2>4, DiscountsQuietRequest
<1> QED  BY <1>1, <1>2

(* The sheets a save replaces start with no line discounted.                *)
LEMMA DiscountsCommitSheets ==
  ASSUME Discounts, NEW w \in Workers, CommitSheets(w) PROVE Discounts'
<1> DEFINE plan == job[w].plan
<1>1. Named(plan) \subseteq locked[w] /\ \A t \in Tasks : OursOrText(plan[t])
  BY DEF CommitSheets, Discounts, Shape, RequestOK, SaverHasTasks, Errand, Named
<1>2. /\ sheet' = [t \in Tasks |-> IF t \in Named(plan) THEN plan[t] ELSE sheet[t]]
      /\ done' = [t \in Tasks |-> IF t \in Named(plan) THEN {} ELSE done[t]]
      /\ Release(w) /\ status' = status
  BY DEF CommitSheets
<1> HIDE DEF plan
<1>3. DiscountedLinesExist' /\ SheetsOursOrText' /\ DiscountedOnlyWhenFinished'
  BY <1>1, <1>2
  DEF Discounts, DiscountRules, DiscountedLinesExist, SheetsOursOrText,
      DiscountedOnlyWhenFinished
<1>4. \A t \in Tasks \ locked[w] : Stable(t)
  BY <1>1, <1>2 DEF Stable, Tied
<1>5. Shape'
  BY ShapeCommitSheets DEF Discounts
<1> QED  BY <1>2, <1>3, <1>4, <1>5, DiscountsRelease DEF DiscountRules

(* A deleted item only unties lines.                                        *)
LEMMA UntiedFacts ==
  ASSUME NEW s \in Sheet, NEW i \in Items
  PROVE  /\ \A k \in DOMAIN s.lines :
              Unlinked(s, i).lines[k].item # NoItem => s.lines[k].item # NoItem
         /\ OursOrText(s) => OursOrText(Unlinked(s, i))
<1> DEFINE f == [k \in DOMAIN s.lines |->
                  IF s.lines[k].item = i THEN [s.lines[k] EXCEPT !.item = NoItem]
                                         ELSE s.lines[k]]
<1>1. Unlinked(s, i) = [s EXCEPT !.lines = f]
  BY DEF Unlinked
<1>2. \A k \in DOMAIN s.lines : s.lines[k].item = NoItem => f[k].item = NoItem
  BY ConstantFacts
<1>3. \A k \in DOMAIN s.lines : f[k].item # NoItem => s.lines[k].item # NoItem
  BY <1>2
<1>4. DOMAIN f = DOMAIN s.lines
  OBVIOUS
<1> HIDE DEF f
<1>5. Unlinked(s, i).lines = f /\ Unlinked(s, i).source = s.source
  BY <1>1 DEF Sheet
<1> QED  BY <1>3, <1>4, <1>5 DEF OursOrText

LEMMA DiscountsRemoveItem ==
  ASSUME Discounts, NEW i \in Items, RemoveItem(i) PROVE Discounts'
<1>1. /\ sheet' = [t \in Tasks |-> Unlinked(sheet[t], i)]
      /\ status' = status /\ done' = done /\ UNCHANGED request
  BY DEF RemoveItem
<1>2. ASSUME NEW t \in Tasks
      PROVE  /\ DOMAIN sheet'[t].lines = DOMAIN sheet[t].lines
             /\ \A k \in DOMAIN sheet[t].lines : Tied(t, k)' => Tied(t, k)
             /\ OursOrText(sheet[t]) => OursOrText(sheet'[t])
  <2>1. sheet[t] \in Sheet /\ sheet'[t] = Unlinked(sheet[t], i)
    BY <1>1 DEF Discounts, Shape, RowsOK, RowType
  <2> QED  BY <2>1, UnlinkedFacts, UntiedFacts DEF Tied
<1>3. \A t \in Tasks : Stable(t)
  BY <1>1, <1>2 DEF Stable
<1>4. DiscountedLinesExist' /\ SheetsOursOrText'
  BY <1>1, <1>2 DEF Discounts, DiscountRules, DiscountedLinesExist, SheetsOursOrText
<1>5. ASSUME NEW t \in Tasks, NEW k \in done[t], Tied(t, k)' PROVE status[t] = "terminado"
  <2>1. k \in DOMAIN sheet[t].lines
    BY DEF Discounts, DiscountRules, DiscountedLinesExist
  <2> QED
    BY <1>2, <1>5, <2>1 DEF Discounts, DiscountRules, DiscountedOnlyWhenFinished, Tied
<1>6. DiscountedOnlyWhenFinished'
  BY <1>1, <1>5 DEF DiscountedOnlyWhenFinished, Tied
<1>7. Shape'
  BY ShapeRemoveItem DEF Discounts
<1>8. \A v \in Workers : pc[v] = "moviendo" => Stable(job[v].task)
  BY <1>3, MoverTask DEF Discounts
<1> QED  BY <1>1, <1>4, <1>6, <1>7, <1>8, DiscountsNoRequest DEF DiscountRules

(* A new task has no tied line discounted, and no mover is about it.        *)
LEMMA DiscountsCreateTask ==
  ASSUME Discounts, NEW t \in Tasks, CreateTask(t) PROVE Discounts'
<1>1. /\ status[t] = "sin_tarea" /\ \A v \in Workers : t # job[v].task
      /\ status' = [status EXCEPT ![t] = "pendiente"]
      /\ UNCHANGED << sheet, done, request >>
  BY DEF CreateTask
<1>2. \A u \in Tasks \ {t} : Stable(u)
  BY <1>1 DEF Stable, Tied, Discounts, Shape, RowsOK, RowType
<1>3. DiscountRules'
  BY <1>1
  DEF Discounts, DiscountRules, DiscountedLinesExist, SheetsOursOrText, OursOrText,
      DiscountedOnlyWhenFinished, Shape, RowsOK, RowType
<1>4. \A v \in Workers : pc[v] = "moviendo" => Stable(job[v].task)
  BY <1>1, <1>2, MoverTask DEF Discounts
<1>5. Shape'
  BY ShapeCreateTask DEF Discounts
<1> QED  BY <1>1, <1>3, <1>4, <1>5, DiscountsNoRequest

(* A removed task takes its sheet with it, and no mover is about it.        *)
LEMMA DiscountsRemoveTask ==
  ASSUME Discounts, NEW t \in Tasks, RemoveTask(t) PROVE Discounts'
<1>1. /\ \A v \in Workers : t \notin locked[v]
      /\ status' = [status EXCEPT ![t] = "sin_tarea"]
      /\ sheet' = [sheet EXCEPT ![t] = NoSheet] /\ done' = [done EXCEPT ![t] = {}]
      /\ UNCHANGED request
  BY DEF RemoveTask, TaskRowUnlocked
<1>2. \A u \in Tasks : /\ sheet'[u] = IF u = t THEN NoSheet ELSE sheet[u]
                       /\ done'[u] = IF u = t THEN {} ELSE done[u]
                       /\ status'[u] = IF u = t THEN "sin_tarea" ELSE status[u]
  BY <1>1 DEF Discounts, Shape, RowsOK, RowType
<1>3. \A u \in Tasks \ {t} : Stable(u)
  BY <1>2 DEF Stable, Tied
<1>4. DiscountedLinesExist' /\ DiscountedOnlyWhenFinished'
  BY <1>2
  DEF Discounts, DiscountRules, DiscountedLinesExist, DiscountedOnlyWhenFinished
<1>5. SheetsOursOrText'
  BY <1>2, NoSheetOursOrText
  DEF Discounts, DiscountRules, SheetsOursOrText, OursOrText
<1>6. \A v \in Workers : pc[v] = "moviendo" => Stable(job[v].task)
  BY <1>1, <1>3, MoverTask DEF Discounts
<1>7. Shape'
  BY ShapeRemoveTask DEF Discounts
<1> QED  BY <1>1, <1>4, <1>5, <1>6, <1>7, DiscountsNoRequest DEF DiscountRules

(* Stock that people move is no line's business.                            *)
LEMMA DiscountsInventory ==
  ASSUME Discounts, Shape', UNCHANGED << status, sheet, done, request >>
  PROVE  Discounts'
<1>1. \A t \in Tasks : Stable(t)
  BY DEF Stable, Tied
<1>2. DiscountRules'
  BY DEF Discounts, DiscountRules, DiscountedLinesExist, SheetsOursOrText, OursOrText,
         DiscountedOnlyWhenFinished
<1>3. \A v \in Workers : pc[v] = "moviendo" => Stable(job[v].task)
  BY <1>1, MoverTask DEF Discounts
<1> QED  BY <1>2, <1>3, DiscountsNoRequest

LEMMA DiscountsStep == Discounts /\ [Next]_vars => Discounts'
<1> SUFFICES ASSUME Discounts, [Next]_vars PROVE Discounts'
  OBVIOUS
<1>0. Shape'
  BY ShapeStep DEF Discounts
<1>1. ASSUME NEW w \in Workers, RequestStep(w) PROVE Discounts'
  BY <1>1, DiscountsReads, DiscountsSubmitSheets, DiscountsLockTask, DiscountsMoveLine,
     DiscountsCommit, DiscountsLockSheetRow, DiscountsCheckSheets, DiscountsInsertLine,
     DiscountsCommitSheets, DiscountsRollback
  DEF RequestStep, Interrupt
<1>2. ASSUME RowStep PROVE Discounts'
  <2>1. CASE \E i \in Items, type \in MovementTypes, n \in Amounts :
               RegisterMovement(i, type, n)
    BY <1>0, <2>1, DiscountsInventory DEF RegisterMovement
  <2>2. CASE \E i \in Items, n \in Amounts : CreateItem(i, n)
    BY <1>0, <2>2, DiscountsInventory DEF CreateItem
  <2> QED
    BY <1>2, <2>1, <2>2, IdAssumption, DiscountsRemoveItem, DiscountsCreateTask,
       DiscountsRemoveTask
    DEF RowStep
<1>3. CASE UNCHANGED vars
  BY <1>0, <1>3, DiscountsInventory DEF vars, db
<1> QED  BY <1>1, <1>2, <1>3 DEF Next

LEMMA DiscountsAlways == Spec => []Discounts
<1> QED  BY DiscountsInit, DiscountsStep, PTL DEF Spec

(* Stock is taken only by finished tasks: while its item exists, a          *)
(* discounted line belongs to a task in "terminado", whatever finishing,    *)
(* reopening, retrying and saving interleave.  A reopening has to reach     *)
(* every such line before it commits, and only it can move the status.      *)
THEOREM Discounted_Only_When_Finished == Spec => []DiscountedOnlyWhenFinished
<1>1. Discounts => DiscountedOnlyWhenFinished
  BY DEF Discounts, DiscountRules
<1> QED  BY <1>1, DiscountsAlways, PTL

-----------------------------------------------------------------------------
(* What a set of lines takes from an item.                                  *)

LinesOf(s, D, i) == {k \in D : s.lines[k].item = i}

LEMMA QuantityIs == \A s, D, i : Quantity(s, D, i) = SumFunctionOnSet(Quantities(s), LinesOf(s, D, i))
BY DEF Quantity, LinesOf

LEMMA LinesOfFacts ==
  ASSUME NEW s \in Sheet, NEW D, D \subseteq DOMAIN s.lines, NEW i
  PROVE  /\ IsFiniteSet(LinesOf(s, D, i))
         /\ LinesOf(s, D, i) \subseteq D
         /\ \A k \in D : Quantities(s)[k] = s.lines[k].qty /\ s.lines[k].qty \in Nat
<1>1. IsFiniteSet(1..Len(s.lines))
  BY SheetFacts, FS_Interval
<1>2. LinesOf(s, D, i) \subseteq D
  BY DEF LinesOf
<1>3. IsFiniteSet(LinesOf(s, D, i))
  BY <1>1, <1>2, SheetFacts, FS_Subset
<1>4. \A k \in D : Quantities(s)[k] = s.lines[k].qty /\ s.lines[k].qty \in Nat
  BY SheetFacts DEF Quantities
<1> QED  BY <1>2, <1>3, <1>4

LEMMA QuantityType ==
  ASSUME NEW s \in Sheet, NEW D, D \subseteq DOMAIN s.lines, NEW i
  PROVE  Quantity(s, D, i) \in Nat
<1>1. IsFiniteSet(LinesOf(s, D, i)) /\ \A k \in LinesOf(s, D, i) : Quantities(s)[k] \in Nat
  BY LinesOfFacts
<1> QED  BY <1>1, SumNat, QuantityIs

LEMMA QuantityNone == \A s, i : Quantity(s, {}, i) = 0
<1>1. \A s, i : LinesOf(s, {}, i) = {}
  BY DEF LinesOf
<1> QED  BY <1>1, SumEmpty, QuantityIs

(* Two sets of lines with nothing in common.                                *)
LEMMA QuantityUnion ==
  ASSUME NEW s \in Sheet, NEW D, D \subseteq DOMAIN s.lines, NEW E, E \subseteq DOMAIN s.lines,
         D \cap E = {}, NEW i
  PROVE  Quantity(s, D \cup E, i) = Quantity(s, D, i) + Quantity(s, E, i)
<1>1. /\ IsFiniteSet(LinesOf(s, D, i)) /\ \A m \in LinesOf(s, D, i) : Quantities(s)[m] \in Int
      /\ IsFiniteSet(LinesOf(s, E, i)) /\ \A m \in LinesOf(s, E, i) : Quantities(s)[m] \in Int
  BY LinesOfFacts
<1>2. /\ LinesOf(s, D \cup E, i) = LinesOf(s, D, i) \cup LinesOf(s, E, i)
      /\ LinesOf(s, D, i) \cap LinesOf(s, E, i) = {}
  BY DEF LinesOf
<1> QED  BY <1>1, <1>2, QuantityIs, SumUnion

LEMMA QuantityOne ==
  ASSUME NEW s \in Sheet, NEW k \in DOMAIN s.lines, NEW i
  PROVE  Quantity(s, {k}, i) = IF s.lines[k].item = i THEN s.lines[k].qty ELSE 0
<1>1. Quantities(s)[k] = s.lines[k].qty /\ s.lines[k].qty \in Int
  BY SheetFacts DEF Quantities
<1>2. LinesOf(s, {k}, i) = IF s.lines[k].item = i THEN {k} ELSE {}
  BY DEF LinesOf
<1>3. SumFunctionOnSet(Quantities(s), {} \cup {k})
        = Quantities(s)[k] + SumFunctionOnSet(Quantities(s), {})
  BY <1>1, FS_EmptySet, SumAdd
<1>4. {} \cup {k} = {k}
  OBVIOUS
<1> QED  BY <1>1, <1>2, <1>3, <1>4, QuantityIs, SumEmpty

(* One line more.                                                           *)
LEMMA QuantityAdd ==
  ASSUME NEW s \in Sheet, NEW D, D \subseteq DOMAIN s.lines, NEW i,
         NEW k \in DOMAIN s.lines, k \notin D
  PROVE  Quantity(s, D \cup {k}, i) =
           Quantity(s, D, i) + (IF s.lines[k].item = i THEN s.lines[k].qty ELSE 0)
<1>1. {k} \subseteq DOMAIN s.lines /\ D \cap {k} = {}
  OBVIOUS
<1>2. Quantity(s, D \cup {k}, i) = Quantity(s, D, i) + Quantity(s, {k}, i)
  BY <1>1, QuantityUnion
<1> QED  BY <1>2, QuantityOne

(* Only the quantities of the lines of the item count.                      *)
LEMMA QuantitySame ==
  ASSUME NEW s \in Sheet, NEW u \in Sheet, NEW D, NEW i,
         D \subseteq DOMAIN s.lines, D \subseteq DOMAIN u.lines,
         \A k \in D : /\ u.lines[k].qty = s.lines[k].qty
                      /\ u.lines[k].item = i <=> s.lines[k].item = i
  PROVE  Quantity(u, D, i) = Quantity(s, D, i)
<1>1. LinesOf(u, D, i) = LinesOf(s, D, i)
  BY DEF LinesOf
<1>2. /\ IsFiniteSet(LinesOf(s, D, i))
      /\ \A m \in LinesOf(s, D, i) : Quantities(s)[m] = Quantities(u)[m]
  BY LinesOfFacts
<1> QED  BY <1>1, <1>2, SumSame, QuantityIs

LEMMA QuantityZero ==
  ASSUME NEW s, NEW D, NEW i, \A k \in D : s.lines[k].item # i
  PROVE  Quantity(s, D, i) = 0
<1>1. LinesOf(s, D, i) = {}
  BY DEF LinesOf
<1> QED  BY <1>1, SumEmpty, QuantityIs

-----------------------------------------------------------------------------
(* The draft of a transaction: what it has listed, claimed and drawn so far *)
(* is what its task's sheet says.                                           *)

(* The status it asks for is the one the task has: nothing to move.         *)
Settled(w) ==
  job[w].op = "estado" /\ (status[job[w].task] = "terminado" <=> Finishing(w))

(* A listed line not reached yet is one of the sheet, unless its item is    *)
(* gone.                                                                    *)
Listed(w) ==
  LET s == sheet[job[w].task] IN
  \A l \in todo[w] :
    /\ l.slot \notin moved[w]
    /\ s.lines[l.slot].item = l.item \/ itemRow[l.item] = "borrado"
    /\ \A m \in todo[w] : m.slot = l.slot => m = l

(* A claimed line was as it was listed, and its item is held.               *)
Claims(w) ==
  LET t == job[w].task IN
  \A k \in moved[w] :
    sheet[t].lines[k].item \in held[w] /\ ((k \in done[t]) = ~Finishing(w))

(* What was drawn of an item is what the claimed lines say.                 *)
Tally(w) ==
  LET s == sheet[job[w].task] IN
  \A i \in Items :
    drawn[w][i] = IF Finishing(w) THEN -Quantity(s, moved[w], i) ELSE Quantity(s, moved[w], i)

(* A tied line that finishing leaves pending is one still to be reached, or *)
(* one that does not fit in what is left of its item.                       *)
Leftovers(w) ==
  LET t == job[w].task
      lines == sheet[t].lines
  IN  \A k \in DOMAIN lines :
        lines[k].item # NoItem /\ k \notin done[t] \cup moved[w] =>
          \/ \E l \in todo[w] : l.slot = k
          \/ lines[k].item \in held[w] /\ lines[k].qty > view[w][lines[k].item]

MoverDraft(w) ==
  pc[w] = "moviendo" =>
    /\ status[job[w].task] # "sin_tarea"
    /\ Listed(w) /\ Claims(w) /\ Tally(w)
    /\ Settled(w) => todo[w] = {} /\ moved[w] = {}
    /\ Finishing(w) /\ ~Settled(w) => Leftovers(w)

SaverDraft(w) ==
  pc[w] = "insertando" => \A t \in Named(job[w].plan) : done[t] = {}

(* Only a mover holds items.                                                *)
Draft(w) == MoverDraft(w) /\ SaverDraft(w) /\ (pc[w] # "moviendo" => held[w] = {})

Drafts == Books /\ Discounts /\ \A w \in Workers : Draft(w)

(* A step leaves all of task t as it was.                                   *)
Firm(t) == status'[t] = status[t] /\ sheet'[t] = sheet[t] /\ done'[t] = done[t]

ItemsStayGone == \A i \in Items : itemRow[i] = "borrado" => itemRow'[i] = "borrado"

LEMMA DraftQuiet ==
  ASSUME NEW w \in Workers, pc'[w] \notin {"moviendo", "insertando"}, held'[w] = {}
  PROVE  Draft(w)'
BY DEF Draft, MoverDraft, SaverDraft

LEMMA DraftFrame ==
  ASSUME Drafts, NEW v \in Workers, Untouched(v), ItemsStayGone,
         pc[v] = "moviendo" => Firm(job[v].task),
         pc[v] = "insertando" => \A t \in Named(job[v].plan) : done'[t] = done[t]
  PROVE  Draft(v)'
<1>1. SaverDraft(v)' /\ (pc'[v] # "moviendo" => held'[v] = {})
  BY DEF Drafts, Draft, SaverDraft, Untouched
<1>2. CASE pc[v] = "moviendo"
  <2>1. MoverDraft(v)
    BY DEF Drafts, Draft
  <2>2. /\ job'[v] = job[v] /\ held'[v] = held[v] /\ moved'[v] = moved[v] /\ todo'[v] = todo[v]
        /\ drawn'[v] = drawn[v] /\ view'[v] = view[v]
    BY DEF Untouched
  <2>3. Firm(job[v].task)
    BY <1>2
  <2>4. Listed(v)'
    <3>1. \A l \in todo[v] : l.item \in Items
      BY DEF Drafts, Books, Shape, RowsOK, RequestType
    <3> QED  BY <1>2, <2>1, <2>2, <2>3, <3>1 DEF MoverDraft, Listed, Firm, ItemsStayGone
  <2>5. Claims(v)'
    BY <1>2, <2>1, <2>2, <2>3 DEF MoverDraft, Claims, Finishing, Firm
  <2>6. Tally(v)'
    BY <1>2, <2>1, <2>2, <2>3 DEF MoverDraft, Tally, Finishing, Firm
  <2>7. (Leftovers(v) => Leftovers(v)') /\ (Finishing(v)' = Finishing(v))
    BY <2>2, <2>3 DEF Leftovers, Finishing, Firm
  <2>8. Settled(v)' = Settled(v)
    BY <2>2, <2>3 DEF Settled, Finishing, Firm
  <2>9. status'[job'[v].task] # "sin_tarea"
    BY <1>2, <2>1, <2>2, <2>3 DEF MoverDraft, Firm
  <2>10. MoverDraft(v)'
    BY <1>2, <2>1, <2>2, <2>4, <2>5, <2>6, <2>7, <2>8, <2>9 DEF MoverDraft
  <2> QED  BY <1>1, <2>10 DEF Draft
<1>3. CASE pc[v] # "moviendo"
  BY <1>1, <1>3 DEF Draft, MoverDraft, Untouched
<1> QED  BY <1>2, <1>3

(* A step of one request, on tasks it holds.                                *)
LEMMA DraftsOneRequest ==
  ASSUME Drafts, Books', Discounts', NEW w \in Workers, Draft(w)', ItemsStayGone,
         \A v \in Workers \ {w} : Untouched(v),
         \A t \in Tasks \ locked[w] : Firm(t)
  PROVE  Drafts'
<1>1. ASSUME NEW v \in Workers, v # w PROVE Draft(v)'
  <2>1. \A t \in locked[v] : Firm(t)
    BY <1>1 DEF Drafts, Books, Shape, TasksExclusive, RowsOK, RequestType
  <2>2. pc[v] = "moviendo" => job[v].task \in locked[v]
    BY MoverTask DEF Drafts, Books
  <2>3. pc[v] = "insertando" => Named(job[v].plan) \subseteq locked[v]
    BY DEF Drafts, Books, Shape, RequestOK, SaverHasTasks
  <2> QED  BY <1>1, <2>1, <2>2, <2>3, DraftFrame DEF Firm
<1> QED  BY <1>1 DEF Drafts

(* A step of the database, on tasks and items that no request is about.     *)
LEMMA DraftsNoRequest ==
  ASSUME Drafts, Books', Discounts', UNCHANGED request, ItemsStayGone,
         \A v \in Workers : pc[v] = "moviendo" => Firm(job[v].task),
         \A v \in Workers : \A t \in Named(job[v].plan) :
           pc[v] = "insertando" => done'[t] = done[t]
  PROVE  Drafts'
<1>1. \A v \in Workers : Untouched(v)
  BY DEF request, Untouched
<1> QED  BY <1>1, DraftFrame DEF Drafts

LEMMA DraftsRelease ==
  ASSUME Drafts, Books', Discounts', NEW w \in Workers, Release(w), ItemsStayGone,
         \A t \in Tasks \ locked[w] : Firm(t)
  PROVE  Drafts'
<1>1. Idle(w)' /\ \A v \in Workers \ {w} : Untouched(v)
  BY ReleaseFacts DEF Drafts, Books, Shape, RowsOK
<1>2. Draft(w)'
  BY <1>1, DraftQuiet DEF Idle
<1> QED  BY <1>1, <1>2, DraftsOneRequest

LEMMA DraftsRollback ==
  ASSUME Drafts, NEW w \in Workers, Rollback(w) PROVE Drafts'
<1>1. Books' /\ Discounts'
  BY BooksRollback, DiscountsRollback DEF Drafts
<1>2. ItemsStayGone /\ \A t \in Tasks : Firm(t)
  BY DEF Rollback, db, ItemsStayGone, Firm
<1> QED  BY <1>1, <1>2, DraftsRelease DEF Rollback

LEMMA DraftsInit == Init => Drafts
<1> SUFFICES ASSUME Init PROVE Drafts
  OBVIOUS
<1>1. \A w \in Workers : Draft(w)
  BY DEF Init, Draft, MoverDraft, SaverDraft
<1> QED  BY <1>1, BooksInit, DiscountsInit DEF Drafts

(* A step of a request that writes nothing yet and is not moving lines.     *)
LEMMA DraftsQuietRequest ==
  ASSUME Drafts, Books', Discounts', NEW w \in Workers, UNCHANGED << db, held >>,
         pc[w] # "moviendo", pc'[w] # "moviendo",
         pc'[w] = "insertando" => \A t \in Named(job'[w].plan) : done[t] = {},
         \A v \in Workers \ {w} : Untouched(v)
  PROVE  Drafts'
<1>1. ItemsStayGone /\ \A t \in Tasks : Firm(t)
  BY DEF db, ItemsStayGone, Firm
<1>2. Draft(w)'
  BY DEF Drafts, Draft, MoverDraft, SaverDraft, db
<1> QED  BY <1>1, <1>2, DraftsOneRequest

LEMMA DraftsStart ==
  ASSUME Drafts, Books', Discounts', NEW w \in Workers, NEW what, Start(w, what),
         NEW p \in {"leido", "hoja"}, pc' = [pc EXCEPT ![w] = p]
  PROVE  Drafts'
<1>1. \A v \in Workers \ {w} : Untouched(v)
  BY DEF Start, Drafts, Books, Shape, RowsOK, RequestType, Untouched
<1>2. pc[w] = "libre" /\ pc'[w] = p /\ UNCHANGED << db, held >>
  BY DEF Start, Drafts, Books, Shape, RowsOK, RequestType
<1> QED  BY <1>1, <1>2, DraftsQuietRequest

LEMMA DraftsLockTask ==
  ASSUME Drafts, Books', Discounts', NEW w \in Workers, LockTask(w) PROVE Drafts'
<1> DEFINE t == job[w].task
           s == sheet[t]
<1>1. CASE Refused(w)
  BY <1>1, DraftsRollback DEF LockTask
<1>2. CASE ~Refused(w)
  <2> DEFINE lines == IF job[w].op = "descuento" THEN ListedLines(t, TRUE)
                      ELSE LinesToMove(t, status[t], job[w].target)
  <2>1. /\ pc[w] = "leido" /\ pc' = [pc EXCEPT ![w] = "moviendo"]
        /\ todo' = [todo EXCEPT ![w] = lines]
        /\ locked' = [locked EXCEPT ![w] = {t}]
        /\ UNCHANGED << db, job, held, shared, view, drawn, moved, inserts >>
    BY <1>2 DEF LockTask
  <2>2. t \in Tasks /\ s \in Sheet
    BY <2>1 DEF Drafts, Books, Shape, RequestOK, ReaderHasTask, RowsOK, RowType
  <2>3. moved[w] = {} /\ held[w] = {}
        /\ (job[w].op = "estado" \/ (job[w].op = "descuento" /\ job[w].target = "terminado"))
    BY <2>1 DEF Drafts, Discounts, Errand, Draft
  <2>4. status[t] # "sin_tarea"
    BY <1>2 DEF Refused
  <2>5. \A l \in lines : s.lines[l.slot].item = l.item
                        /\ \A m \in lines : m.slot = l.slot => m = l
    BY DEF ListedLines, LinesToMove
  <2>6. Settled(w) => lines = {}
    BY DEF Settled, Finishing, LinesToMove
  <2>7. ASSUME Finishing(w), ~Settled(w), NEW k \in DOMAIN s.lines,
               s.lines[k].item # NoItem, k \notin done[t]
        PROVE  \E l \in lines : l.slot = k
    <3>1. s.source = "nosotros"
      BY <2>2, <2>7 DEF Drafts, Discounts, DiscountRules, SheetsOursOrText, OursOrText
    <3>2. \E l \in ListedLines(t, TRUE) : l.slot = k
      <4>1. [item |-> s.lines[k].item, slot |-> k] \in ListedLines(t, TRUE)
        BY <2>7, <3>1 DEF ListedLines
      <4> QED  BY <4>1
    <3>3. lines = ListedLines(t, TRUE)
      BY <2>3, <2>7 DEF Settled, Finishing, LinesToMove
    <3> QED  BY <3>2, <3>3
  <2>8. \A i \in Items : drawn[w][i] = 0
    BY <2>3 DEF Drafts, Books, Accounts
  <2> HIDE DEF lines
  <2>9. /\ pc'[w] = "moviendo" /\ job' = job /\ todo'[w] = lines /\ moved'[w] = {}
        /\ drawn'[w] = drawn[w] /\ sheet' = sheet /\ status' = status /\ done' = done
    BY <2>1, <2>3 DEF Drafts, Books, Shape, RowsOK, RequestType, db
  <2>10. Listed(w)' /\ Claims(w)'
    BY <2>5, <2>9 DEF Listed, Claims
  <2>11. Tally(w)'
    BY <2>8, <2>9, QuantityNone DEF Tally
  <2>12. Finishing(w)' = Finishing(w) /\ Settled(w)' = Settled(w)
    BY <2>9 DEF Finishing, Settled
  <2>13. Finishing(w) /\ ~Settled(w) => Leftovers(w)'
    BY <2>7, <2>9 DEF Leftovers
  <2>14. Draft(w)'
    BY <2>4, <2>6, <2>9, <2>10, <2>11, <2>12, <2>13 DEF Draft, MoverDraft, SaverDraft
  <2>15. \A v \in Workers \ {w} : Untouched(v)
    BY <2>1 DEF Drafts, Books, Shape, RowsOK, RequestType, Untouched
  <2>16. ItemsStayGone /\ \A u \in Tasks : Firm(u)
    BY <2>1 DEF ItemsStayGone, Firm, db
  <2> QED  BY <2>14, <2>15, <2>16, DraftsOneRequest
<1> QED  BY <1>1, <1>2

LEMMA DraftsMoveLine ==
  ASSUME Drafts, NEW w \in Workers, MoveLine(w) PROVE Drafts'
<1>1. PICK l \in todo[w] : IF itemRow[l.item] = "activo" THEN Turn(w, l) ELSE Rollback(w)
  BY DEF MoveLine
<1>2. CASE itemRow[l.item] = "activo"
  <2> DEFINE t == job[w].task
             s == sheet[t]
             i == l.item
             k == l.slot
             d == Delta(w, l)
             b == Balance(w, i)
  <2>1. /\ pc[w] = "moviendo" /\ UNCHANGED << db, pc, job, locked, shared, inserts >>
        /\ held' = [held EXCEPT ![w] = @ \cup {i}]
        /\ view' = [view EXCEPT ![w][i] = b + d]
        /\ drawn' = [drawn EXCEPT ![w][i] = @ + d]
        /\ moved' = [moved EXCEPT ![w] = IF d = 0 THEN @ ELSE @ \cup {k}]
        /\ todo' = [todo EXCEPT ![w] = @ \ {l}]
    BY <1>1, <1>2 DEF MoveLine, Turn
  <2>2. t \in Tasks /\ s \in Sheet /\ k \in DOMAIN s.lines /\ moved[w] \subseteq DOMAIN s.lines
    BY <2>1, MoverTask
    DEF Drafts, Books, Discounts, Errand, MoverPurpose, Shape, RequestOK, MoverHasTask,
        RowsOK, RowType
  <2>3. MoverDraft(w)
    BY DEF Drafts, Draft
  <2>4. k \notin moved[w] /\ s.lines[k].item = i /\ \A m \in todo[w] : m.slot = k => m = l
    BY <1>2, <2>1, <2>3 DEF MoverDraft, Listed
  <2>5. i \in Items /\ d \in Int /\ b \in Int
    BY <2>1, DeltaFacts DEF Drafts, Books
  <2>6. s.lines[k].qty \in Int /\ s.lines[k].qty > 0
    BY <2>2, SheetFacts
  <2>7. d = IF ~Claimable(w, k) \/ (Finishing(w) /\ ~Fits(w, i, s.lines[k].qty)) THEN 0
            ELSE IF Finishing(w) THEN -s.lines[k].qty ELSE s.lines[k].qty
    BY DEF Delta
  <2>8. /\ held \in [Workers -> SUBSET Items] /\ moved \in [Workers -> SUBSET Slots]
        /\ view \in [Workers -> [Items -> Int]] /\ drawn \in [Workers -> [Items -> Int]]
        /\ todo \in [Workers -> SUBSET [item : Items, slot : Slots]]
    BY DEF Drafts, Books, Shape, RowsOK, RequestType
  <2> HIDE DEF d, b
  <2>9. /\ held'[w] = held[w] \cup {i} /\ todo'[w] = todo[w] \ {l}
        /\ moved'[w] = (IF d = 0 THEN moved[w] ELSE moved[w] \cup {k})
        /\ view'[w][i] = b + d /\ drawn'[w][i] = drawn[w][i] + d
        /\ \A j \in Items \ {i} : view'[w][j] = view[w][j] /\ drawn'[w][j] = drawn[w][j]
    BY <2>1, <2>5, <2>8
  <2>10. /\ pc' = pc /\ job' = job /\ sheet' = sheet /\ done' = done /\ status' = status
         /\ itemRow' = itemRow /\ Finishing(w)' = Finishing(w) /\ Settled(w)' = Settled(w)
    BY <2>1 DEF db, Finishing, Settled
  <2>11. ~Settled(w)
    BY <1>1, <2>1, <2>3 DEF MoverDraft
  <2>12. Listed(w)'
    BY <2>1, <2>3, <2>4, <2>9, <2>10 DEF MoverDraft, Listed
  <2>13. Claims(w)'
    <3>1. ASSUME NEW m \in moved'[w]
          PROVE  s.lines[m].item \in held'[w] /\ ((m \in done[t]) = ~Finishing(w))
      <4>1. CASE m \in moved[w]
        BY <2>1, <2>3, <2>9, <4>1 DEF MoverDraft, Claims
      <4>2. CASE m \notin moved[w]
        <5>1. m = k /\ d # 0
          BY <2>9, <3>1, <4>2
        <5> QED  BY <2>4, <2>7, <2>9, <5>1 DEF Claimable
      <4> QED  BY <4>1, <4>2
    <3> QED  BY <2>10, <3>1 DEF Claims
  <2>14. Tally(w)'
    <3>1. ASSUME NEW j \in Items
          PROVE  drawn'[w][j] = IF Finishing(w) THEN -Quantity(s, moved'[w], j)
                                ELSE Quantity(s, moved'[w], j)
      <4>1. drawn[w][j] = IF Finishing(w) THEN -Quantity(s, moved[w], j)
                          ELSE Quantity(s, moved[w], j)
        BY <2>1, <2>3 DEF MoverDraft, Tally
      <4>2. drawn'[w][j] = drawn[w][j] + (IF j = i THEN d ELSE 0)
        BY <2>8, <2>9
      <4>3. CASE d = 0
        BY <2>8, <2>9, <4>1, <4>2, <4>3
      <4>4. CASE d # 0
        <5>1. moved'[w] = moved[w] \cup {k}
          BY <2>9, <4>4
        <5>2. Quantity(s, moved'[w], j) =
                Quantity(s, moved[w], j) + (IF j = i THEN s.lines[k].qty ELSE 0)
          <6>1. Quantity(s, moved[w] \cup {k}, j) =
                  Quantity(s, moved[w], j) + (IF s.lines[k].item = j THEN s.lines[k].qty ELSE 0)
            <7> DEFINE D == moved[w]
            <7>1. s \in Sheet /\ k \in DOMAIN s.lines /\ D \subseteq DOMAIN s.lines /\ k \notin D
              BY <2>2, <2>4
            <7> HIDE DEF s, k, D
            <7>2. Quantity(s, D \cup {k}, j) =
                  Quantity(s, D, j) + (IF s.lines[k].item = j THEN s.lines[k].qty ELSE 0)
              BY <7>1, QuantityAdd
            <7> QED  BY <7>2 DEF D
          <6> QED  BY <2>4, <5>1, <6>1
        <5>3. Quantity(s, moved[w], j) \in Int
          BY <2>2, QuantityType
        <5>4. d = IF Finishing(w) THEN -s.lines[k].qty ELSE s.lines[k].qty
          BY <2>7, <4>4
        <5> QED  BY <2>6, <4>1, <4>2, <5>2, <5>3, <5>4
      <4> QED  BY <4>3, <4>4
    <3> QED  BY <2>10, <3>1 DEF Tally
  <2>15. ASSUME Finishing(w) PROVE Leftovers(w)'
    <3>1. ASSUME NEW m \in DOMAIN s.lines, s.lines[m].item # NoItem, m \notin done[t] \cup moved'[w]
          PROVE  \/ \E n \in todo'[w] : n.slot = m
                 \/ s.lines[m].item \in held'[w] /\ s.lines[m].qty > view'[w][s.lines[m].item]
      <4>1. CASE m = k
        <5>1. d = 0 /\ Claimable(w, k)
          BY <2>9, <2>15, <3>1, <4>1 DEF Claimable
        <5>2. s.lines[k].qty > b
          BY <2>5, <2>6, <2>7, <2>15, <5>1 DEF Fits, b
        <5> QED  BY <2>4, <2>5, <2>9, <4>1, <5>1, <5>2
      <4>2. CASE m # k
        <5>1. \/ \E n \in todo[w] : n.slot = m
              \/ s.lines[m].item \in held[w] /\ s.lines[m].qty > view[w][s.lines[m].item]
          BY <2>1, <2>3, <2>9, <2>11, <2>15, <3>1 DEF MoverDraft, Leftovers
        <5>2. CASE \E n \in todo[w] : n.slot = m
          BY <2>9, <4>2, <5>2
        <5>3. CASE s.lines[m].item \in held[w] /\ s.lines[m].qty > view[w][s.lines[m].item]
          <6>1. CASE s.lines[m].item = i
            <7>1. b = view[w][i] /\ d <= 0
              BY <2>5, <2>6, <2>7, <2>15, <5>3, <6>1 DEF Balance, b
            <7>2. s.lines[m].qty \in Int
              BY <2>2, <3>1, SheetFacts
            <7> QED  BY <2>5, <2>9, <5>3, <6>1, <7>1, <7>2
          <6>2. CASE s.lines[m].item # i
            <7>1. s.lines[m].item \in Items
              BY <2>8, <5>3
            <7> QED  BY <2>9, <5>3, <6>2, <7>1
          <6> QED  BY <6>1, <6>2
        <5> QED  BY <5>1, <5>2, <5>3
      <4> QED  BY <4>1, <4>2
    <3> QED  BY <2>10, <3>1 DEF Leftovers
  <2>16. Draft(w)'
    BY <2>1, <2>3, <2>10, <2>11, <2>12, <2>13, <2>14, <2>15 DEF Draft, MoverDraft, SaverDraft
  <2>17. \A v \in Workers \ {w} : Untouched(v)
    BY <1>1, <1>2 DEF Turn, Drafts, Books, Shape, RowsOK, RequestType, Untouched
  <2>18. ItemsStayGone /\ \A u \in Tasks : Firm(u)
    BY <2>10 DEF ItemsStayGone, Firm
  <2>19. Books' /\ Discounts'
    BY BooksMoveLine, DiscountsMoveLine DEF Drafts
  <2> QED  BY <2>16, <2>17, <2>18, <2>19, DraftsOneRequest
<1>3. CASE itemRow[l.item] # "activo"
  BY <1>1, <1>3, DraftsRollback
<1> QED  BY <1>2, <1>3

LEMMA DraftsCommit ==
  ASSUME Drafts, NEW w \in Workers, Commit(w) PROVE Drafts'
<1>1. job[w].task \in locked[w] /\ job[w].task \in Tasks
  BY MoverTask DEF Commit, Drafts, Books
<1>2. ItemsStayGone /\ \A t \in Tasks \ locked[w] : Firm(t)
  BY <1>1 DEF Commit, ItemsStayGone, Firm, Drafts, Books, Shape, RowsOK, RowType
<1>3. Books' /\ Discounts'
  BY BooksCommit, DiscountsCommit DEF Drafts
<1> QED  BY <1>2, <1>3, DraftsRelease DEF Commit

(* A save only gets to insert lines when its tasks have drawn nothing.      *)
LEMMA DraftsCheckSheets ==
  ASSUME Drafts, Books', Discounts', NEW w \in Workers, CheckSheets(w) PROVE Drafts'
<1> DEFINE plan == job[w].plan
           new == [t \in Tasks |-> IF t \in Rewritten(w) THEN plan[t] ELSE NoSheet]
<1>1. CASE \E t \in Named(plan) : SheetRefused(t, plan[t])
  BY <1>1, DraftsRollback DEF CheckSheets
<1>2. CASE ~\E t \in Named(plan) : SheetRefused(t, plan[t])
  <2>1. /\ pc[w] = "hoja" /\ pc' = [pc EXCEPT ![w] = "insertando"]
        /\ inserts' = [inserts EXCEPT ![w] = ItemLines(plan, Rewritten(w))]
        /\ job' = [job EXCEPT ![w].plan = new]
        /\ UNCHANGED << db, locked, held, shared, view, drawn, todo, moved >>
    BY <1>2 DEF CheckSheets
  <2>2. \A t \in Named(new) : done[t] = {}
    BY <1>2 DEF Named, Rewritten, SheetRefused
  <2> HIDE DEF new, plan
  <2>3. job'[w].plan = new /\ pc'[w] = "insertando"
    BY <2>1 DEF Drafts, Books, Shape, RowsOK, RequestType, Jobs
  <2>4. \A v \in Workers \ {w} : Untouched(v)
    BY <2>1 DEF Drafts, Books, Shape, RowsOK, RequestType, Untouched
  <2> QED  BY <2>1, <2>2, <2>3, <2>4, DraftsQuietRequest
<1> QED  BY <1>1, <1>2

LEMMA DraftsInsertLine ==
  ASSUME Drafts, Books', Discounts', NEW w \in Workers, InsertLine(w) PROVE Drafts'
<1>1. CASE Rollback(w)
  BY <1>1, DraftsRollback
<1>2. CASE ~Rollback(w)
  <2>1. PICK l \in inserts[w] :
          /\ pc[w] = "insertando"
          /\ shared' = [shared EXCEPT ![w] = @ \cup {InsertItem(w, l)}]
          /\ inserts' = [inserts EXCEPT ![w] = @ \ {l}]
          /\ UNCHANGED << db, pc, job, locked, held, view, drawn, todo, moved >>
    BY <1>2 DEF InsertLine
  <2>2. \A v \in Workers \ {w} : Untouched(v)
    BY <2>1 DEF Drafts, Books, Shape, RowsOK, RequestType, Untouched
  <2>3. \A t \in Named(job[w].plan) : done[t] = {}
    BY <2>1 DEF Drafts, Draft, SaverDraft
  <2> QED  BY <2>1, <2>2, <2>3, DraftsQuietRequest
<1> QED  BY <1>1, <1>2

LEMMA DraftsCommitSheets ==
  ASSUME Drafts, Books', Discounts', NEW w \in Workers, CommitSheets(w) PROVE Drafts'
<1>1. Named(job[w].plan) \subseteq locked[w]
  BY DEF CommitSheets, Drafts, Books, Shape, RequestOK, SaverHasTasks
<1>2. ItemsStayGone /\ \A t \in Tasks \ locked[w] : Firm(t)
  BY <1>1 DEF CommitSheets, ItemsStayGone, Firm
<1> QED  BY <1>2, DraftsRelease DEF CommitSheets

(* Losing an item changes the lines tied to it and no other.                *)
LEMMA UnlinkedLines ==
  ASSUME NEW s \in Sheet, NEW i \in Items
  PROVE  /\ Unlinked(s, i).source = s.source
         /\ \A k \in DOMAIN s.lines :
              Unlinked(s, i).lines[k].item =
                IF s.lines[k].item = i THEN NoItem ELSE s.lines[k].item
<1> DEFINE f == [k \in DOMAIN s.lines |->
                  IF s.lines[k].item = i THEN [s.lines[k] EXCEPT !.item = NoItem]
                                         ELSE s.lines[k]]
<1>1. Unlinked(s, i) = [s EXCEPT !.lines = f]
  BY DEF Unlinked
<1>2. ASSUME NEW k \in DOMAIN s.lines
      PROVE  f[k].item = IF s.lines[k].item = i THEN NoItem ELSE s.lines[k].item
  <2>1. s.lines[k] \in Line
    BY SheetFacts
  <2> QED  BY <2>1 DEF Line
<1> HIDE DEF f
<1>3. Unlinked(s, i).lines = f /\ Unlinked(s, i).source = s.source
  BY <1>1 DEF Sheet
<1> QED  BY <1>2, <1>3

(* A mover whose item is deleted under it holds other items: what it has    *)
(* claimed stays, and a listed line of the item will make it fail.          *)
LEMMA DraftsRemoveItem ==
  ASSUME Drafts, NEW i \in Items, RemoveItem(i) PROVE Drafts'
<1>1. /\ itemRow' = [itemRow EXCEPT ![i] = "borrado"]
      /\ sheet' = [t \in Tasks |-> Unlinked(sheet[t], i)]
      /\ status' = status /\ done' = done /\ UNCHANGED request
      /\ \A v \in Workers : i \notin held[v]
  BY DEF RemoveItem, ItemRowUnlocked
<1>2. itemRow'[i] = "borrado" /\ ItemsStayGone
  BY <1>1 DEF ItemsStayGone, Drafts, Books, Shape, RowsOK, RowType
<1>3. ASSUME NEW v \in Workers, pc[v] = "moviendo" PROVE MoverDraft(v)'
  <2> DEFINE t == job[v].task
             s == sheet[t]
             u == sheet'[t]
  <2>1. t \in Tasks /\ s \in Sheet /\ u = Unlinked(s, i) /\ moved[v] \subseteq DOMAIN s.lines
    BY <1>1, <1>3, MoverTask
    DEF Drafts, Books, Shape, RowsOK, RowType, Discounts, Errand, MoverPurpose
  <2>2. /\ u \in Sheet /\ DOMAIN u.lines = DOMAIN s.lines
        /\ \A k \in DOMAIN s.lines : u.lines[k].qty = s.lines[k].qty
        /\ \A k \in DOMAIN s.lines :
             u.lines[k].item = IF s.lines[k].item = i THEN NoItem ELSE s.lines[k].item
    BY <2>1, UnlinkedFacts, UnlinkedLines
  <2>3. MoverDraft(v)
    BY DEF Drafts, Draft
  <2>4. /\ UNCHANGED << pc, job, held, view, drawn, todo, moved, done, status >>
        /\ Finishing(v)' = Finishing(v) /\ Settled(v)' = Settled(v)
    BY <1>1 DEF request, Finishing, Settled
  <2>5. \A l \in todo[v] : l.slot \in DOMAIN s.lines /\ l.item \in Items
    BY <1>3 DEF Drafts, Books, Shape, RequestOK, MoverHasTask, RowsOK, RequestType
  <2> HIDE DEF s, u
  <2>6. Listed(v)'
    <3>1. \A l \in todo[v] : u.lines[l.slot].item = l.item \/ itemRow'[l.item] = "borrado"
      BY <1>2, <1>3, <2>2, <2>3, <2>5 DEF MoverDraft, Listed, ItemsStayGone, s
    <3> QED  BY <1>3, <2>3, <2>4, <3>1 DEF MoverDraft, Listed, u
  <2>7. \A k \in moved[v] : s.lines[k].item \in held[v] /\ u.lines[k].item = s.lines[k].item
    BY <1>1, <1>3, <2>1, <2>2, <2>3 DEF MoverDraft, Claims, s
  <2>8. Claims(v)'
    BY <1>3, <2>3, <2>4, <2>7 DEF MoverDraft, Claims, u
  <2>9. Tally(v)'
    <3>1. \A j \in Items : Quantity(u, moved[v], j) = Quantity(s, moved[v], j)
      BY <2>1, <2>2, <2>7, QuantitySame
    <3> QED  BY <1>3, <2>3, <2>4, <3>1 DEF MoverDraft, Tally, s, u
  <2>10. ASSUME Leftovers(v) PROVE Leftovers(v)'
    <3>1. ASSUME NEW k \in DOMAIN u.lines, u.lines[k].item # NoItem, k \notin done[t] \cup moved[v]
          PROVE  \/ \E l \in todo[v] : l.slot = k
                 \/ u.lines[k].item \in held[v] /\ u.lines[k].qty > view[v][u.lines[k].item]
      <4>1. u.lines[k].item = s.lines[k].item /\ u.lines[k].qty = s.lines[k].qty
            /\ k \in DOMAIN s.lines
        BY <2>2, <3>1
      <4> QED  BY <2>10, <3>1, <4>1 DEF Leftovers, s
    <3> QED  BY <2>4, <3>1 DEF Leftovers, u
  <2> QED  BY <1>3, <2>3, <2>4, <2>6, <2>8, <2>9, <2>10 DEF MoverDraft
<1>4. ASSUME NEW v \in Workers PROVE Draft(v)'
  <2>1. SaverDraft(v)' /\ (pc'[v] # "moviendo" => held'[v] = {})
    BY <1>1 DEF request, Drafts, Draft, SaverDraft
  <2>2. CASE pc[v] = "moviendo"
    BY <1>3, <2>1, <2>2 DEF Draft
  <2>3. CASE pc[v] # "moviendo"
    BY <1>1, <2>1, <2>3 DEF Draft, MoverDraft, request
  <2> QED  BY <2>2, <2>3
<1>5. Books' /\ Discounts'
  BY BooksRemoveItem, DiscountsRemoveItem DEF Drafts
<1> QED  BY <1>4, <1>5 DEF Drafts

LEMMA DraftsStep == Drafts /\ [Next]_vars => Drafts'
<1> SUFFICES ASSUME Drafts, [Next]_vars PROVE Drafts'
  OBVIOUS
<1>0. Books' /\ Discounts'
  BY BooksStep, DiscountsStep DEF Drafts
<1>1. ASSUME NEW w \in Workers, RequestStep(w) PROVE Drafts'
  <2>1. ASSUME NEW t \in Tasks, NEW to \in Statuses, ReadForStatus(w, t, to) PROVE Drafts'
    BY <1>0, <2>1, DraftsStart DEF ReadForStatus
  <2>2. ASSUME NEW t \in Tasks, ReadForDiscount(w, t) PROVE Drafts'
    BY <1>0, <2>2, DraftsStart DEF ReadForDiscount
  <2>3. ASSUME NEW plan \in Plans, SubmitSheets(w, plan) PROVE Drafts'
    BY <1>0, <2>3, DraftsStart DEF SubmitSheets
  <2>4. CASE LockSheetRow(w)
    <3>1. \A v \in Workers \ {w} : Untouched(v)
      BY <2>4 DEF LockSheetRow, Drafts, Books, Shape, RowsOK, RequestType, Untouched
    <3> QED  BY <1>0, <2>4, <3>1, DraftsQuietRequest DEF LockSheetRow
  <2> QED
    BY <1>0, <1>1, <2>1, <2>2, <2>3, <2>4, DraftsLockTask, DraftsMoveLine, DraftsCommit,
       DraftsCheckSheets, DraftsInsertLine, DraftsCommitSheets, DraftsRollback
    DEF RequestStep, Interrupt
<1>2. ASSUME RowStep PROVE Drafts'
  <2>1. CASE \E i \in Items, type \in MovementTypes, n \in Amounts :
               RegisterMovement(i, type, n)
    <3>1. ItemsStayGone /\ (\A t : Firm(t)) /\ done' = done /\ UNCHANGED request
      BY <2>1 DEF RegisterMovement, ItemsStayGone, Firm
    <3> QED  BY <1>0, <3>1, DraftsNoRequest
  <2>2. CASE \E i \in Items, n \in Amounts : CreateItem(i, n)
    <3>1. ItemsStayGone /\ (\A t : Firm(t)) /\ done' = done /\ UNCHANGED request
      BY <2>2 DEF CreateItem, ItemsStayGone, Firm, Drafts, Books, Shape, RowsOK, RowType
    <3> QED  BY <1>0, <3>1, DraftsNoRequest
  <2>3. ASSUME NEW t \in Tasks, CreateTask(t) PROVE Drafts'
    <3>1. ItemsStayGone /\ (\A u \in Tasks \ {t} : Firm(u)) /\ done' = done
          /\ UNCHANGED request /\ \A w \in Workers : t # job[w].task
      BY <2>3 DEF CreateTask, ItemsStayGone, Firm, Drafts, Books, Shape, RowsOK, RowType
    <3> QED  BY <1>0, <3>1, DraftsNoRequest, MoverTask DEF Drafts, Books
  <2>4. ASSUME NEW t \in Tasks, RemoveTask(t) PROVE Drafts'
    <3>1. ItemsStayGone /\ (\A u \in Tasks \ {t} : Firm(u))
          /\ UNCHANGED request /\ (\A w \in Workers : t \notin locked[w]) /\ done'[t] = {}
      BY <2>4
      DEF RemoveTask, TaskRowUnlocked, ItemsStayGone, Firm, Drafts, Books, Shape, RowsOK, RowType
    <3>2. \A v \in Workers : \A u \in Named(job[v].plan) :
            pc[v] = "insertando" => done'[u] = done[u]
      BY <3>1 DEF Drafts, Draft, SaverDraft, Named, Firm
    <3> QED  BY <1>0, <3>1, <3>2, DraftsNoRequest, MoverTask DEF Drafts, Books
  <2> QED
    BY <1>2, <2>1, <2>2, <2>3, <2>4, IdAssumption, DraftsRemoveItem DEF RowStep
<1>3. CASE UNCHANGED vars
  <2>1. ItemsStayGone /\ (\A t : Firm(t)) /\ done' = done /\ UNCHANGED request
    BY <1>3 DEF vars, db, ItemsStayGone, Firm
  <2> QED  BY <1>0, <2>1, DraftsNoRequest
<1> QED  BY <1>1, <1>2, <1>3 DEF Next

LEMMA DraftsAlways == Spec => []Drafts
<1> QED  BY DraftsInit, DraftsStep, PTL DEF Spec

-----------------------------------------------------------------------------
(* What the kardex says that orders took.                                   *)

TasksDrew(i) == SumFunction([t \in Tasks |-> DrawnBy(t, i)])

Takings == Drafts /\ retired \in [Items -> Nat] /\ DrawnExactlyOnce

LEMMA DrawnType ==
  ASSUME Drafts, NEW t \in Tasks, NEW i PROVE DrawnBy(t, i) \in Nat
<1>1. sheet[t] \in Sheet /\ done[t] \subseteq DOMAIN sheet[t].lines
  BY DEF Drafts, Books, Shape, RowsOK, RowType, Discounts, DiscountRules, DiscountedLinesExist
<1> QED  BY <1>1, QuantityType DEF DrawnBy

LEMMA DrawnTypeNext ==
  ASSUME Drafts', NEW t \in Tasks, NEW i PROVE DrawnBy(t, i)' \in Nat
<1>1. sheet'[t] \in Sheet /\ done'[t] \subseteq DOMAIN sheet'[t].lines
  BY DEF Drafts, Books, Shape, RowsOK, RowType, Discounts, DiscountRules, DiscountedLinesExist
<1> QED  BY <1>1, QuantityType DEF DrawnBy

LEMMA TasksDrewType ==
  ASSUME Drafts, NEW i PROVE TasksDrew(i) \in Nat
<1> DEFINE f == [t \in Tasks |-> DrawnBy(t, i)]
<1>1. DOMAIN f = Tasks /\ \A t \in Tasks : f[t] \in Nat
  BY DrawnType
<1>2. TasksDrew(i) = SumFunctionOnSet(f, Tasks)
  BY <1>1 DEF TasksDrew, SumFunction
<1> HIDE DEF f
<1> QED  BY <1>1, <1>2, FiniteAssumption, SumNat

LEMMA TasksDrewNothing ==
  ASSUME NEW i, \A t \in Tasks : DrawnBy(t, i) = 0 PROVE TasksDrew(i) = 0
<1> DEFINE f == [t \in Tasks |-> DrawnBy(t, i)]
<1>1. DOMAIN f = Tasks /\ \A t \in Tasks : f[t] = 0
  OBVIOUS
<1>2. TasksDrew(i) = SumFunctionOnSet(f, Tasks)
  BY <1>1 DEF TasksDrew, SumFunction
<1> HIDE DEF f
<1> QED  BY <1>1, <1>2, FiniteAssumption, SumZero

LEMMA TasksDrewSame ==
  ASSUME NEW i, \A t \in Tasks : DrawnBy(t, i)' = DrawnBy(t, i)
  PROVE  TasksDrew(i)' = TasksDrew(i)
<1>1. [t \in Tasks |-> DrawnBy(t, i)'] = [t \in Tasks |-> DrawnBy(t, i)]
  OBVIOUS
<1> QED  BY <1>1 DEF TasksDrew

(* One task's lines change.                                                 *)
LEMMA TasksDrewOne ==
  ASSUME Drafts, Drafts', NEW i, NEW t \in Tasks,
         \A u \in Tasks \ {t} : DrawnBy(u, i)' = DrawnBy(u, i)
  PROVE  TasksDrew(i)' = TasksDrew(i) + DrawnBy(t, i)' - DrawnBy(t, i)
<1> DEFINE f == [u \in Tasks |-> DrawnBy(u, i)]
           h == [u \in Tasks |-> DrawnBy(u, i)']
<1>1. \A u \in Tasks : DrawnBy(u, i) \in Nat /\ DrawnBy(u, i)' \in Nat
  BY DrawnType, DrawnTypeNext
<1>2. /\ DOMAIN f = Tasks /\ DOMAIN h = Tasks
      /\ \A u \in Tasks : f[u] \in Int /\ h[u] \in Int
      /\ \A u \in Tasks \ {t} : f[u] = h[u]
      /\ f[t] = DrawnBy(t, i) /\ h[t] = DrawnBy(t, i)'
  BY <1>1
<1>3. TasksDrew(i) = SumFunctionOnSet(f, Tasks) /\ TasksDrew(i)' = SumFunctionOnSet(h, Tasks)
  BY <1>2 DEF TasksDrew, SumFunction
<1> HIDE DEF f, h
<1> QED  BY <1>2, <1>3, FiniteAssumption, SumChange

LEMMA TakingsInit == Init => Takings
<1> SUFFICES ASSUME Init PROVE Takings
  OBVIOUS
<1>1. Drafts /\ retired \in [Items -> Nat]
  BY DraftsInit DEF Init, Zero
<1>2. ASSUME NEW i \in Items PROVE TasksDrew(i) = 0
  BY QuantityNone, TasksDrewNothing DEF Init, DrawnBy
<1>3. DrawnExactlyOnce
  BY <1>2 DEF DrawnExactlyOnce, TasksDrew, Init, Zero
<1> QED  BY <1>1, <1>3 DEF Takings

(* Most steps touch neither what lines drew nor the kardex of orders.       *)
LEMMA TakingsSame ==
  ASSUME Takings, Drafts', UNCHANGED << orden, retired >>,
         \A i \in Items, t \in Tasks : DrawnBy(t, i)' = DrawnBy(t, i)
  PROVE  Takings'
<1>1. \A i \in Items : TasksDrew(i)' = TasksDrew(i)
  BY TasksDrewSame
<1> QED  BY <1>1 DEF Takings, DrawnExactlyOnce, TasksDrew

(* A step that changes what one task's lines drew.                          *)
LEMMA TakingsOneTask ==
  ASSUME Takings, Drafts', NEW t \in Tasks, retired' \in [Items -> Nat],
         \A i \in Items, u \in Tasks \ {t} : DrawnBy(u, i)' = DrawnBy(u, i),
         \A i \in Items : DrawnBy(t, i)' - DrawnBy(t, i) = (orden[i] - orden'[i]) + (retired[i] - retired'[i])
  PROVE  Takings'
<1>1. ASSUME NEW i \in Items PROVE -orden'[i] = TasksDrew(i)' + retired'[i]
  <2>1. TasksDrew(i)' = TasksDrew(i) + DrawnBy(t, i)' - DrawnBy(t, i)
    BY TasksDrewOne DEF Takings
  <2>2. -orden[i] = TasksDrew(i) + retired[i]
    BY DEF Takings, DrawnExactlyOnce, TasksDrew
  <2>3. /\ orden[i] \in Int /\ orden'[i] \in Int /\ retired[i] \in Int /\ retired'[i] \in Int
        /\ TasksDrew(i) \in Int
    BY TasksDrewType DEF Takings, Drafts, Books, Shape, RowsOK, RowType
  <2>4. DrawnBy(t, i) \in Int /\ DrawnBy(t, i)' \in Int
    BY DrawnType, DrawnTypeNext DEF Takings
  <2> QED  BY <2>1, <2>2, <2>3, <2>4
<1> QED  BY <1>1 DEF Takings, DrawnExactlyOnce, TasksDrew

(* The commit draws from the kardex what its claimed lines say, and gives   *)
(* back what the lines it releases had drawn.                               *)
LEMMA TakingsCommit ==
  ASSUME Takings, NEW w \in Workers, Commit(w) PROVE Takings'
<1>1. PICK t \in Tasks : t = job[w].task /\ pc[w] = "moviendo"
  BY MoverTask DEF Commit, Takings, Drafts, Books
<1> DEFINE s == sheet[t]
           M == moved[w]
           D == done[t]
<1>2. s \in Sheet /\ M \subseteq DOMAIN s.lines /\ D \subseteq DOMAIN s.lines
  BY <1>1
  DEF Takings, Drafts, Books, Shape, RowsOK, RowType, Discounts, DiscountRules,
      DiscountedLinesExist, Errand, MoverPurpose
<1>3. MoverDraft(w)
  BY DEF Takings, Drafts, Draft
<1>4. done' = [done EXCEPT ![t] = Claimed(w)] /\ sheet' = sheet /\ retired' = retired
      /\ orden' = [i \in Items |-> orden[i] + drawn[w][i]]
  BY <1>1 DEF Commit
<1>5. done'[t] = Claimed(w) /\ \A u \in Tasks \ {t} : done'[u] = done[u]
  BY <1>1, <1>4 DEF Takings, Drafts, Books, Shape, RowsOK, RowType
<1>6. ASSUME NEW i \in Items
      PROVE  Quantity(s, done'[t], i) - Quantity(s, D, i) = -drawn[w][i]
  <2>1. drawn[w][i] = IF Finishing(w) THEN -Quantity(s, M, i) ELSE Quantity(s, M, i)
    BY <1>1, <1>3 DEF MoverDraft, Tally
  <2>2. \A k \in M : (k \in D) = ~Finishing(w)
    BY <1>1, <1>3 DEF MoverDraft, Claims
  <2> HIDE DEF s, M, D
  <2>3. Quantity(s, M, i) \in Int /\ Quantity(s, D, i) \in Int
    BY <1>2, QuantityType
  <2>4. CASE Finishing(w)
    <3>1. done'[t] = D \cup M /\ D \cap M = {}
      BY <1>1, <1>5, <2>2, <2>4 DEF Claimed, D, M
    <3>2. Quantity(s, D \cup M, i) = Quantity(s, D, i) + Quantity(s, M, i)
      BY <1>2, <3>1, QuantityUnion
    <3> QED  BY <2>1, <2>3, <2>4, <3>1, <3>2
  <2>5. CASE ~Finishing(w)
    <3>1. done'[t] = D \ M /\ D = (D \ M) \cup M /\ (D \ M) \cap M = {}
      BY <1>1, <1>5, <2>2, <2>5 DEF Claimed, D, M
    <3>2. D \ M \subseteq DOMAIN s.lines
      BY <1>2
    <3>3. Quantity(s, (D \ M) \cup M, i) = Quantity(s, D \ M, i) + Quantity(s, M, i)
          /\ Quantity(s, D \ M, i) \in Int
      BY <1>2, <3>1, <3>2, QuantityUnion, QuantityType
    <3>4. Quantity(s, D, i) = Quantity(s, D \ M, i) + Quantity(s, M, i)
      BY <3>1, <3>3
    <3> QED  BY <2>1, <2>3, <2>5, <3>1, <3>3, <3>4
  <2> QED  BY <2>4, <2>5
<1>7. \A i \in Items : DrawnBy(t, i)' - DrawnBy(t, i) = (orden[i] - orden'[i]) + (retired[i] - retired'[i])
  <2>1. SUFFICES ASSUME NEW i \in Items
                 PROVE  DrawnBy(t, i)' - DrawnBy(t, i)
                          = (orden[i] - orden'[i]) + (retired[i] - retired'[i])
    OBVIOUS
  <2>2. orden'[i] = orden[i] + drawn[w][i] /\ retired'[i] = retired[i]
    BY <1>4
  <2>3. orden[i] \in Int /\ drawn[w][i] \in Int /\ retired[i] \in Int
    BY DEF Takings, Drafts, Books, Shape, RowsOK, RowType, RequestType
  <2>4. DrawnBy(t, i)' = Quantity(s, done'[t], i) /\ DrawnBy(t, i) = Quantity(s, D, i)
    BY <1>4 DEF DrawnBy
  <2> QED  BY <1>6, <2>2, <2>3, <2>4
<1>8. \A i \in Items, u \in Tasks \ {t} : DrawnBy(u, i)' = DrawnBy(u, i)
  BY <1>4, <1>5 DEF DrawnBy
<1>9. Drafts' /\ retired' \in [Items -> Nat]
  BY <1>4, DraftsCommit DEF Takings
<1> QED  BY <1>7, <1>8, <1>9, TakingsOneTask

LEMMA TakingsRemoveTask ==
  ASSUME Takings, Drafts', NEW t \in Tasks, RemoveTask(t) PROVE Takings'
<1>1. /\ retired' = [i \in Items |-> retired[i] + DrawnBy(t, i)] /\ orden' = orden
      /\ sheet' = [sheet EXCEPT ![t] = NoSheet] /\ done' = [done EXCEPT ![t] = {}]
  BY DEF RemoveTask
<1>2. done'[t] = {} /\ \A u \in Tasks \ {t} : done'[u] = done[u] /\ sheet'[u] = sheet[u]
  BY <1>1 DEF Takings, Drafts, Books, Shape, RowsOK, RowType
<1>3. \A i \in Items, u \in Tasks \ {t} : DrawnBy(u, i)' = DrawnBy(u, i)
  BY <1>2 DEF DrawnBy
<1>4. \A i \in Items : /\ retired[i] \in Nat /\ DrawnBy(t, i) \in Nat /\ orden[i] \in Int
                       /\ retired'[i] = retired[i] + DrawnBy(t, i)
  BY <1>1, DrawnType DEF Takings, Drafts, Books, Shape, RowsOK, RowType
<1>5. retired' \in [Items -> Nat]
  BY <1>1, <1>4
<1>6. \A i \in Items : DrawnBy(t, i)' = 0
  BY <1>2, QuantityNone DEF DrawnBy
<1>7. \A i \in Items :
        DrawnBy(t, i)' - DrawnBy(t, i) = (orden[i] - orden'[i]) + (retired[i] - retired'[i])
  <2>1. SUFFICES ASSUME NEW i \in Items
                 PROVE  DrawnBy(t, i)' - DrawnBy(t, i)
                          = (orden[i] - orden'[i]) + (retired[i] - retired'[i])
    OBVIOUS
  <2> QED  BY <1>1, <1>4, <1>6
<1> QED  BY <1>3, <1>5, <1>7, TakingsOneTask

(* A save replaces sheets that have drawn nothing.                          *)
LEMMA TakingsCommitSheets ==
  ASSUME Takings, Drafts', NEW w \in Workers, CommitSheets(w) PROVE Takings'
<1> DEFINE plan == job[w].plan
<1>1. /\ sheet' = [t \in Tasks |-> IF t \in Named(plan) THEN plan[t] ELSE sheet[t]]
      /\ done' = [t \in Tasks |-> IF t \in Named(plan) THEN {} ELSE done[t]]
      /\ UNCHANGED << orden, retired >> /\ \A t \in Named(plan) : done[t] = {}
  BY DEF CommitSheets, Takings, Drafts, Draft, SaverDraft
<1> HIDE DEF plan
<1>2. ASSUME NEW i \in Items, NEW t \in Tasks PROVE DrawnBy(t, i)' = DrawnBy(t, i)
  <2>1. CASE t \in Named(plan)
    BY <1>1, <2>1, QuantityNone DEF DrawnBy
  <2>2. CASE t \notin Named(plan)
    BY <1>1, <2>2 DEF DrawnBy
  <2> QED  BY <2>1, <2>2
<1> QED  BY <1>1, <1>2, TakingsSame

(* A deleted item leaves no line and no movement.                           *)
LEMMA TakingsRemoveItem ==
  ASSUME Takings, Drafts', NEW i \in Items, RemoveItem(i) PROVE Takings'
<1>1. /\ sheet' = [t \in Tasks |-> Unlinked(sheet[t], i)] /\ done' = done
      /\ orden' = [orden EXCEPT ![i] = 0] /\ retired' = [retired EXCEPT ![i] = 0]
  BY DEF RemoveItem
<1>2. ASSUME NEW t \in Tasks
      PROVE  /\ sheet[t] \in Sheet /\ sheet'[t] \in Sheet /\ i # NoItem
             /\ done[t] \subseteq DOMAIN sheet[t].lines
             /\ DOMAIN sheet'[t].lines = DOMAIN sheet[t].lines
             /\ \A k \in DOMAIN sheet[t].lines :
                  /\ sheet'[t].lines[k].qty = sheet[t].lines[k].qty
                  /\ sheet'[t].lines[k].item =
                       IF sheet[t].lines[k].item = i THEN NoItem ELSE sheet[t].lines[k].item
  <2>1. sheet[t] \in Sheet /\ sheet'[t] = Unlinked(sheet[t], i)
        /\ done[t] \subseteq DOMAIN sheet[t].lines
    BY <1>1
    DEF Takings, Drafts, Books, Shape, RowsOK, RowType, Discounts, DiscountRules,
        DiscountedLinesExist
  <2> QED  BY <2>1, UnlinkedFacts, UnlinkedLines, ConstantFacts
<1>3. ASSUME NEW j \in Items \ {i}, NEW t \in Tasks PROVE DrawnBy(t, j)' = DrawnBy(t, j)
  <2>1. \A k \in done[t] : /\ sheet'[t].lines[k].qty = sheet[t].lines[k].qty
                           /\ sheet'[t].lines[k].item = j <=> sheet[t].lines[k].item = j
    BY <1>2, ConstantFacts
  <2>2. Quantity(sheet'[t], done[t], j) = Quantity(sheet[t], done[t], j)
    BY <1>2, <2>1, QuantitySame
  <2> QED  BY <1>1, <2>2 DEF DrawnBy
<1>4. ASSUME NEW j, j = i, NEW t \in Tasks PROVE DrawnBy(t, j)' = 0
  <2>1. \A k \in done[t] : sheet'[t].lines[k].item # j
    BY <1>2, <1>4
  <2> QED  BY <1>1, <2>1, QuantityZero DEF DrawnBy
<1>5. ASSUME NEW j, j = i PROVE TasksDrew(j)' = 0
  <2> DEFINE f == [t \in Tasks |-> DrawnBy(t, j)']
  <2>1. DOMAIN f = Tasks /\ \A t \in Tasks : f[t] = 0
    BY <1>4, <1>5
  <2>2. TasksDrew(j)' = SumFunctionOnSet(f, Tasks)
    BY <2>1 DEF TasksDrew, SumFunction
  <2> HIDE DEF f
  <2> QED  BY <2>1, <2>2, FiniteAssumption, SumZero
<1>6. \A j \in Items \ {i} : TasksDrew(j)' = TasksDrew(j)
  BY <1>3, TasksDrewSame
<1>7. retired \in [Items -> Nat] /\ orden \in [Items -> Int]
  BY DEF Takings, Drafts, Books, Shape, RowsOK, RowType
<1>8. retired' \in [Items -> Nat]
  BY <1>1, <1>7
<1>9. ASSUME NEW j \in Items PROVE -orden'[j] = TasksDrew(j)' + retired'[j]
  <2>1. CASE j = i
    BY <1>1, <1>5, <1>7, <2>1
  <2>2. CASE j # i
    <3>1. -orden[j] = TasksDrew(j) + retired[j]
      BY DEF Takings, DrawnExactlyOnce, TasksDrew
    <3> QED  BY <1>1, <1>6, <1>7, <2>2, <3>1
  <2> QED  BY <2>1, <2>2
<1> QED  BY <1>8, <1>9 DEF Takings, DrawnExactlyOnce, TasksDrew

LEMMA TakingsStep == Takings /\ [Next]_vars => Takings'
<1> SUFFICES ASSUME Takings, [Next]_vars PROVE Takings'
  OBVIOUS
<1>0. Drafts'
  BY DraftsStep DEF Takings
<1>1. CASE UNCHANGED << sheet, done, orden, retired >>
  BY <1>0, <1>1, TakingsSame DEF DrawnBy
<1>2. ASSUME NEW w \in Workers, RequestStep(w) PROVE Takings'
  <2>1. CASE Commit(w) \/ CommitSheets(w)
    BY <1>0, <2>1, TakingsCommit, TakingsCommitSheets
  <2>2. CASE ~(Commit(w) \/ CommitSheets(w))
    BY <1>1, <1>2, <2>2
    DEF RequestStep, ReadForStatus, ReadForDiscount, SubmitSheets, Start, LockTask, MoveLine,
        Turn, Rollback, LockSheetRow, CheckSheets, InsertLine, Interrupt, db
  <2> QED  BY <2>1, <2>2
<1>3. ASSUME RowStep PROVE Takings'
  BY <1>0, <1>1, <1>3, IdAssumption, TakingsRemoveItem, TakingsRemoveTask
  DEF RowStep, RegisterMovement, CreateItem, CreateTask
<1>4. CASE UNCHANGED vars
  BY <1>1, <1>4 DEF vars, db
<1> QED  BY <1>2, <1>3, <1>4 DEF Next

LEMMA TakingsAlways == Spec => []Takings
<1> QED  BY TakingsInit, TakingsStep, PTL DEF Spec

(* Every variable keeps its type: a request only walks lines of the task it *)
(* locked, whatever saves, removals and deletions run beside it, and what a *)
(* removed task had drawn is a quantity.                                    *)
THEOREM TypeCorrect == Spec => []TypeOK
<1>1. Takings => TypeOK
  BY DEF Takings, Drafts, Books, Shape, RowsOK, TypeOK
<1> QED  BY <1>1, TakingsAlways, PTL

(* Each line is discounted, and given back, exactly once: what orders took  *)
(* from an item in the kardex is what the discounted lines of the tasks     *)
(* say, plus what removed tasks had drawn.                                  *)
THEOREM Drawn_Exactly_Once == Spec => []DrawnExactlyOnce
<1>1. Takings => DrawnExactlyOnce
  BY DEF Takings
<1> QED  BY <1>1, TakingsAlways, PTL

-----------------------------------------------------------------------------
(* The steps of StockLedger.                                                *)

LEMMA LedgerSum == \A f, S : Ledger!SumFunctionOnSet(f, S) = SumFunctionOnSet(f, S)
BY DEF Ledger!SumFunctionOnSet, Ledger!FoldFunctionOnSet, Ledger!MapThenFoldSet,
       SumFunctionOnSet, FoldFunctionOnSet, MapThenFoldSet

LEMMA LedgerQuantity ==
  \A t, D, i : Ledger!Quantity(t, D, i) = Quantity(sheet[t], D, i)
BY LedgerSum DEF Ledger!Quantity, Quantity, Quantities

LEMMA LedgerTied ==
  ASSUME Discounts, NEW t \in Tasks
  PROVE  Ledger!Tied(t) = {k \in DOMAIN sheet[t].lines : sheet[t].lines[k].item # NoItem}
<1>1. OursOrText(sheet[t])
  BY DEF Discounts, DiscountRules, SheetsOursOrText
<1> QED  BY <1>1 DEF Ledger!Tied, OursOrText

LEMMA LedgerInit == Init => Ledger!Init
BY DEF Init, Ledger!Init, Zero

LEMMA LedgerStutters ==
  ASSUME UNCHANGED << status, sheet, done, stock >>
  PROVE  UNCHANGED Ledger!ledger
BY DEF Ledger!ledger

(* What a commit does to its task and to the stock.                         *)
LEMMA CommitFacts ==
  ASSUME Takings, NEW w \in Workers, Commit(w), NEW t \in Tasks, t = job[w].task
  PROVE  /\ sheet[t] \in Sheet /\ sheet' = sheet /\ todo[w] = {} /\ pc[w] = "moviendo"
         /\ status' = [status EXCEPT ![t] = IF job[w].op = "estado" THEN job[w].target ELSE @]
         /\ done' = [done EXCEPT ![t] = Claimed(w)]
         /\ moved[w] \subseteq Ledger!Tied(t) /\ done[t] \subseteq DOMAIN sheet[t].lines
         /\ \A k \in moved[w] : (k \in done[t]) = ~Finishing(w)
         /\ stock' \in [Items -> Int]
         /\ \A i \in Items : /\ stock'[i] >= 0
                             /\ stock'[i] = stock[i] + drawn[w][i]
                             /\ stock[i] \in Int /\ drawn[w][i] \in Int
                             /\ i \in held[w] => stock'[i] = view[w][i]
<1>1. /\ pc[w] = "moviendo" /\ todo[w] = {} /\ sheet' = sheet
      /\ status' = [status EXCEPT ![t] = IF job[w].op = "estado" THEN job[w].target ELSE @]
      /\ done' = [done EXCEPT ![t] = Claimed(w)]
      /\ stock' = [i \in Items |-> Balance(w, i)]
  BY DEF Commit
<1>2. MoverDraft(w) /\ MoverPurpose(w)
  BY DEF Takings, Drafts, Draft, Discounts, Errand
<1>3. /\ sheet[t] \in Sheet /\ held[w] \subseteq Items
      /\ done[t] \subseteq DOMAIN sheet[t].lines
  BY DEF Takings, Drafts, Books, Shape, RowsOK, RowType, RequestType, Discounts,
         DiscountRules, DiscountedLinesExist
<1>4. moved[w] \subseteq Ledger!Tied(t)
  <2>1. \A k \in moved[w] : k \in DOMAIN sheet[t].lines /\ sheet[t].lines[k].item \in Items
    BY <1>1, <1>2, <1>3 DEF MoverDraft, Claims, MoverPurpose
  <2> QED  BY <2>1, LedgerTied, ConstantFacts DEF Takings, Drafts
<1>5. \A k \in moved[w] : (k \in done[t]) = ~Finishing(w)
  BY <1>1, <1>2 DEF MoverDraft, Claims
<1>6. ASSUME NEW i \in Items
      PROVE  /\ stock'[i] >= 0 /\ stock'[i] = stock[i] + drawn[w][i]
             /\ stock[i] \in Int /\ drawn[w][i] \in Int /\ stock'[i] \in Int
             /\ i \in held[w] => stock'[i] = view[w][i]
  <2>1. stock[i] \in Int /\ drawn[w][i] \in Int /\ view[w][i] \in Int /\ stock[i] >= 0
        /\ IF i \in held[w] THEN view[w][i] = stock[i] + drawn[w][i] /\ view[w][i] >= 0
                            ELSE drawn[w][i] = 0
    BY DEF Takings, Drafts, Books, Shape, RowsOK, RowType, RequestType, Accounts,
           StockNeverNegative
  <2>2. stock'[i] = IF i \in held[w] THEN view[w][i] ELSE stock[i]
    BY <1>1 DEF Balance
  <2> QED  BY <2>1, <2>2
<1>7. stock' \in [Items -> Int]
  BY <1>1, <1>6
<1> QED  BY <1>1, <1>3, <1>4, <1>5, <1>6, <1>7

(* Finishing and retrying take every pending line that fits.                *)
LEMMA LedgerTake ==
  ASSUME Takings, NEW w \in Workers, Commit(w), NEW t \in Tasks, t = job[w].task,
         Finishing(w), ~Settled(w)
  PROVE  Ledger!Take(t)
<1>1. /\ sheet[t] \in Sheet /\ sheet' = sheet /\ todo[w] = {} /\ pc[w] = "moviendo"
      /\ done' = [done EXCEPT ![t] = Claimed(w)]
      /\ moved[w] \subseteq Ledger!Tied(t)
      /\ \A k \in moved[w] : (k \in done[t]) = ~Finishing(w)
      /\ stock' \in [Items -> Int]
      /\ \A i \in Items : /\ stock'[i] >= 0
                          /\ stock'[i] = stock[i] + drawn[w][i]
                          /\ stock[i] \in Int /\ drawn[w][i] \in Int
                          /\ i \in held[w] => stock'[i] = view[w][i]
  BY CommitFacts
<1>2. MoverDraft(w)
  BY DEF Takings, Drafts, Draft
<1>3. done'[t] = done[t] \cup moved[w] /\ done'[t] \ done[t] = moved[w]
  <2>1. Claimed(w) = done[t] \cup moved[w]
    BY DEF Claimed
  <2>2. done'[t] = Claimed(w)
    BY <1>1 DEF Takings, Drafts, Books, Shape, RowsOK, RowType
  <2> QED  BY <1>1, <2>1, <2>2
<1>4. done' = [done EXCEPT ![t] = @ \cup moved[w]]
  BY <1>1 DEF Claimed
<1>5. ASSUME NEW i \in Items PROVE stock'[i] = stock[i] - Ledger!Quantity(t, moved[w], i)
  <2>1. drawn[w][i] = -Quantity(sheet[t], moved[w], i)
    BY <1>1, <1>2 DEF MoverDraft, Tally
  <2>2. Quantity(sheet[t], moved[w], i) \in Int
    BY <1>1, QuantityType DEF Ledger!Tied
  <2> QED  BY <1>1, <2>1, <2>2, LedgerQuantity
<1>6. stock' = [i \in Items |-> stock[i] - Ledger!Quantity(t, moved[w], i)]
  BY <1>1, <1>5
<1>7. ASSUME NEW k \in Ledger!Tied(t) \ done'[t]
      PROVE  sheet[t].lines[k].qty > stock'[sheet[t].lines[k].item]
  <2>1. k \in DOMAIN sheet[t].lines /\ sheet[t].lines[k].item # NoItem
        /\ k \notin done[t] \cup moved[w]
    BY <1>3 DEF Ledger!Tied
  <2>2. sheet[t].lines[k].item \in held[w]
        /\ sheet[t].lines[k].qty > view[w][sheet[t].lines[k].item]
    BY <1>1, <1>2, <2>1 DEF MoverDraft, Leftovers
  <2>3. held[w] \subseteq Items
    BY DEF Takings, Drafts, Books, Shape, RowsOK, RequestType
  <2> QED  BY <1>1, <2>2, <2>3
<1> QED  BY <1>1, <1>3, <1>4, <1>6, <1>7 DEF Ledger!Take

(* Reopening gives back every line that is still tied to an item.           *)
LEMMA LedgerReopen ==
  ASSUME Takings, NEW w \in Workers, Commit(w), NEW t \in Tasks, t = job[w].task,
         status[t] = "terminado", ~Finishing(w)
  PROVE  Ledger!Reopen(t)
<1>1. /\ sheet[t] \in Sheet /\ sheet' = sheet /\ todo[w] = {} /\ pc[w] = "moviendo"
      /\ moved[w] \subseteq Ledger!Tied(t) /\ done[t] \subseteq DOMAIN sheet[t].lines
      /\ \A k \in moved[w] : (k \in done[t]) = ~Finishing(w)
      /\ stock' \in [Items -> Int]
      /\ \A i \in Items : /\ stock'[i] >= 0
                          /\ stock'[i] = stock[i] + drawn[w][i]
                          /\ stock[i] \in Int /\ drawn[w][i] \in Int
                          /\ i \in held[w] => stock'[i] = view[w][i]
  BY CommitFacts
<1>0. /\ status' = [status EXCEPT ![t] = IF job[w].op = "estado" THEN job[w].target ELSE @]
      /\ done' = [done EXCEPT ![t] = Claimed(w)]
  BY DEF Commit
<1>2. MoverDraft(w) /\ MoverPurpose(w)
  BY DEF Takings, Drafts, Draft, Discounts, Errand
<1> DEFINE back == done[t] \cap Ledger!Tied(t)
<1>3. moved[w] = back
  <2>1. back \subseteq moved[w]
    BY <1>1, <1>2 DEF MoverPurpose, Finishing, Tied, Ledger!Tied
  <2> QED  BY <1>1, <2>1
<1>4. job[w].op = "estado" /\ job[w].target # "terminado"
  BY <1>1, <1>2 DEF MoverPurpose, Finishing
<1>5. done' = [done EXCEPT ![t] = @ \ back]
  BY <1>0, <1>3 DEF Claimed
<1>6. {u \in Tasks : status'[u] = "terminado"} = {u \in Tasks : status[u] = "terminado"} \ {t}
  BY <1>0, <1>4 DEF Takings, Drafts, Books, Shape, RowsOK, RowType
<1>7. ASSUME NEW i \in Items PROVE stock'[i] = stock[i] + Ledger!Quantity(t, back, i)
  <2>1. drawn[w][i] = Quantity(sheet[t], moved[w], i)
    BY <1>1, <1>2 DEF MoverDraft, Tally
  <2> QED  BY <1>1, <1>3, <2>1, LedgerQuantity
<1>8. stock' = [i \in Items |-> stock[i] + Ledger!Quantity(t, back, i)]
  BY <1>1, <1>7
<1> QED  BY <1>1, <1>5, <1>6, <1>8 DEF Ledger!Reopen

LEMMA LedgerCommit ==
  ASSUME Takings, NEW w \in Workers, Commit(w)
  PROVE  Ledger!Next \/ UNCHANGED Ledger!ledger
<1>1. PICK t \in Tasks : t = job[w].task /\ pc[w] = "moviendo"
  BY MoverTask DEF Commit, Takings, Drafts, Books
<1>2. /\ sheet' = sheet /\ stock' \in [Items -> Int]
      /\ status' = [status EXCEPT ![t] = IF job[w].op = "estado" THEN job[w].target ELSE @]
      /\ done' = [done EXCEPT ![t] = Claimed(w)]
      /\ \A i \in Items : stock'[i] = stock[i] + drawn[w][i]
                          /\ stock[i] \in Int /\ drawn[w][i] \in Int
  BY <1>1, CommitFacts
<1>3. MoverDraft(w) /\ MoverPurpose(w)
  BY DEF Takings, Drafts, Draft, Discounts, Errand
<1>4. status \in [Tasks -> Statuses \cup {"sin_tarea"}] /\ done \in [Tasks -> SUBSET Slots]
      /\ stock \in [Items -> Int]
  BY DEF Takings, Drafts, Books, Shape, RowsOK, RowType
<1>5. CASE Settled(w)
  <2>1. moved[w] = {}
    BY <1>1, <1>3, <1>5 DEF MoverDraft
  <2>2. done' = done
    BY <1>1, <1>2, <1>4, <2>1 DEF Claimed
  <2>3. \A i \in Items : drawn[w][i] = 0
    BY <1>1, <1>3, <2>1, QuantityNone DEF MoverDraft, Tally
  <2>4. stock' = stock
    BY <1>2, <1>4, <2>3
  <2>5. {u \in Tasks : status'[u] = "terminado"} = {u \in Tasks : status[u] = "terminado"}
    BY <1>1, <1>2, <1>4, <1>5 DEF Settled, Finishing
  <2> QED  BY <1>2, <2>2, <2>4, <2>5 DEF Ledger!ledger
<1>6. CASE ~Settled(w) /\ Finishing(w)
  <2>1. Ledger!Take(t)
    BY <1>1, <1>6, LedgerTake
  <2>2. CASE job[w].op = "estado"
    <3>1. status[t] # "terminado" /\ status'[t] = "terminado"
          /\ \A u \in Tasks \ {t} : status'[u] = status[u]
      BY <1>1, <1>2, <1>4, <1>6, <2>2 DEF Settled, Finishing
    <3>2. {u \in Tasks : status'[u] = "terminado"} = {u \in Tasks : status[u] = "terminado"} \cup {t}
      BY <3>1
    <3>3. Ledger!Finish(t)
      BY <2>1, <3>1, <3>2 DEF Ledger!Finish
    <3> QED  BY <3>3 DEF Ledger!Next
  <2>3. CASE job[w].op # "estado"
    <3>1. status[t] = "terminado" /\ status' = status
      BY <1>1, <1>2, <1>3, <1>4, <2>3 DEF MoverPurpose
    <3>2. Ledger!Retry(t)
      BY <2>1, <3>1 DEF Ledger!Retry
    <3> QED  BY <3>2 DEF Ledger!Next
  <2> QED  BY <2>2, <2>3
<1>7. CASE ~Settled(w) /\ ~Finishing(w)
  <2>1. status[t] = "terminado"
    BY <1>1, <1>3, <1>7 DEF MoverPurpose, Settled, Finishing
  <2>2. Ledger!Reopen(t)
    BY <1>1, <1>7, <2>1, LedgerReopen
  <2> QED  BY <2>2 DEF Ledger!Next
<1> QED  BY <1>5, <1>6, <1>7

LEMMA LedgerCommitSheets ==
  ASSUME Takings, NEW w \in Workers, CommitSheets(w) PROVE Ledger!Next
<1> DEFINE T == Named(job[w].plan)
<1>1. /\ sheet' = [t \in Tasks |-> IF t \in T THEN job[w].plan[t] ELSE sheet[t]]
      /\ done' = [t \in Tasks |-> IF t \in T THEN {} ELSE done[t]]
      /\ status' = status /\ stock' = stock
      /\ T \in SUBSET Tasks
  BY DEF CommitSheets, Named
<1>2. \A t \in T : status[t] # "terminado" /\ done[t] = {}
  BY DEF CommitSheets, Takings, Drafts, Draft, SaverDraft, Books, Shape, RequestOK, SaverHasTasks
<1>3. done' = done
  BY <1>1, <1>2 DEF Takings, Drafts, Books, Shape, RowsOK, RowType
<1>4. \A t \in Tasks \ T : sheet'[t] = sheet[t]
  BY <1>1
<1> HIDE DEF T
<1>5. Ledger!Rewrite(T)
  BY <1>1, <1>2, <1>3, <1>4 DEF Ledger!Rewrite
<1> QED  BY <1>1, <1>5 DEF Ledger!Next

LEMMA LedgerInventory ==
  ASSUME Takings, NEW i \in Items, UNCHANGED << status, sheet, done >>,
         NEW n \in Nat, stock' = [stock EXCEPT ![i] = n]
  PROVE  Ledger!Next
<1>1. stock'[i] = n
  BY DEF Takings, Drafts, Books, Shape, RowsOK, RowType
<1>2. Ledger!Move(i)
  BY <1>1 DEF Ledger!Move
<1> QED  BY <1>2 DEF Ledger!Next

LEMMA LedgerRemoveItem ==
  ASSUME Takings, NEW i \in Items, RemoveItem(i) PROVE Ledger!Next
<1>1. /\ sheet' = [t \in Tasks |-> Unlinked(sheet[t], i)] /\ stock' = [stock EXCEPT ![i] = 0]
      /\ UNCHANGED << status, done >>
  BY DEF RemoveItem
<1>2. ASSUME NEW t \in Tasks
      PROVE  /\ sheet'[t].source = sheet[t].source
             /\ DOMAIN sheet'[t].lines = DOMAIN sheet[t].lines
             /\ \A k \in DOMAIN sheet[t].lines :
                  /\ sheet'[t].lines[k].qty = sheet[t].lines[k].qty
                  /\ sheet'[t].lines[k].item =
                       IF sheet[t].lines[k].item = i THEN NoItem ELSE sheet[t].lines[k].item
  <2>1. sheet[t] \in Sheet /\ sheet'[t] = Unlinked(sheet[t], i)
    BY <1>1 DEF Takings, Drafts, Books, Shape, RowsOK, RowType
  <2> QED  BY <2>1, UnlinkedFacts, UnlinkedLines
<1>3. Ledger!Discontinue(i)
  BY <1>1, <1>2 DEF Ledger!Discontinue
<1> QED  BY <1>3 DEF Ledger!Next

LEMMA LedgerRemoveTask ==
  ASSUME Takings, NEW t \in Tasks, RemoveTask(t) PROVE Ledger!Next
<1>1. /\ status' = [status EXCEPT ![t] = "sin_tarea"] /\ sheet' = [sheet EXCEPT ![t] = NoSheet]
      /\ done' = [done EXCEPT ![t] = {}] /\ stock' = stock
  BY DEF RemoveTask
<1>2. {u \in Tasks : status'[u] = "terminado"} = {u \in Tasks : status[u] = "terminado"} \ {t}
  BY <1>1 DEF Takings, Drafts, Books, Shape, RowsOK, RowType
<1>3. Ledger!Drop(t)
  BY <1>1, <1>2 DEF Ledger!Drop
<1> QED  BY <1>3 DEF Ledger!Next

LEMMA LedgerStep == Takings /\ [Next]_vars => [Ledger!Next]_(Ledger!ledger)
<1> SUFFICES ASSUME Takings, [Next]_vars
             PROVE  Ledger!Next \/ UNCHANGED Ledger!ledger
  OBVIOUS
<1>1. ASSUME NEW w \in Workers, RequestStep(w)
      PROVE  Ledger!Next \/ UNCHANGED Ledger!ledger
  <2>1. CASE Commit(w) \/ CommitSheets(w)
    BY <2>1, LedgerCommit, LedgerCommitSheets
  <2>2. CASE ~(Commit(w) \/ CommitSheets(w))
    <3>1. UNCHANGED << status, sheet, done, stock >>
      BY <1>1, <2>2
      DEF RequestStep, ReadForStatus, ReadForDiscount, SubmitSheets, Start, LockTask, MoveLine,
          Turn, Rollback, LockSheetRow, CheckSheets, InsertLine, Interrupt, db
    <3> QED  BY <3>1, LedgerStutters
  <2> QED  BY <2>1, <2>2
<1>2. ASSUME RowStep PROVE Ledger!Next \/ UNCHANGED Ledger!ledger
  <2>1. ASSUME NEW i \in Items, NEW type \in MovementTypes, NEW n \in Amounts,
               RegisterMovement(i, type, n)
        PROVE  Ledger!Next
    <3> DEFINE m == stock[i] + MovementDelta(i, type, n)
    <3>1. m \in Nat
      BY <2>1, MovementFacts
      DEF RegisterMovement, Takings, Drafts, Books, Shape, RowsOK, RowType, StockNeverNegative
    <3>2. stock' = [stock EXCEPT ![i] = m] /\ UNCHANGED << status, sheet, done >>
      BY <2>1 DEF RegisterMovement
    <3> HIDE DEF m
    <3> QED  BY <3>1, <3>2, LedgerInventory
  <2>2. ASSUME NEW i \in Items, NEW n \in Amounts, CreateItem(i, n) PROVE Ledger!Next
    <3>1. n \in Nat
      BY BoundAssumption
    <3> QED  BY <2>2, <3>1, LedgerInventory DEF CreateItem
  <2>3. ASSUME NEW t \in Tasks, CreateTask(t) PROVE UNCHANGED Ledger!ledger
    <3>1. {u \in Tasks : status'[u] = "terminado"} = {u \in Tasks : status[u] = "terminado"}
      BY <2>3 DEF CreateTask, Takings, Drafts, Books, Shape, RowsOK, RowType
    <3> QED  BY <2>3, <3>1 DEF CreateTask, Ledger!ledger
  <2> QED
    BY <1>2, <2>1, <2>2, <2>3, IdAssumption, LedgerRemoveItem, LedgerRemoveTask DEF RowStep
<1>3. CASE UNCHANGED vars
  BY <1>3, LedgerStutters DEF vars, db
<1> QED  BY <1>1, <1>2, <1>3 DEF Next

(* Transactions that interleave row lock by row lock look like single steps *)
(* of the ledger: each commit finishes, retries or reopens its task at once,*)
(* each save rewrites sheets that had drawn nothing, and everything before  *)
(* a commit is invisible.                                                   *)
THEOREM Implements_Ledger == Spec => LedgerSpec
<1> QED  BY LedgerInit, LedgerStep, TakingsAlways, PTL DEF Spec, LedgerSpec, Ledger!Spec

-----------------------------------------------------------------------------
(* The order in which requests take their locks.                            *)

(* A request holds rows only while it works with them, a mover takes items  *)
(* upwards, and so does a save with its tasks.                              *)
LocksInOrder(w) ==
  /\ pc[w] \in {"libre", "leido"} => locked[w] = {}
  /\ pc[w] # "insertando" => shared[w] = {}
  /\ pc[w] = "moviendo" => \A i \in held[w] : \A l \in todo[w] : i <= l.item
  /\ pc[w] = "hoja" => \A u \in locked[w] : \A t \in RowsToLock(w) : u < t

LockOrder == Drafts /\ \A w \in Workers : LocksInOrder(w)

(* No task of a form in flight comes into being.                            *)
NoNewRows(v) ==
  \A t \in Named(job[v].plan) : status'[t] # "sin_tarea" => status[t] # "sin_tarea"

LEMMA LocksFrame ==
  ASSUME NEW v \in Workers, LocksInOrder(v), Untouched(v), NoNewRows(v)
  PROVE  LocksInOrder(v)'
<1>1. RowsToLock(v)' \subseteq RowsToLock(v)
  BY DEF RowsToLock, NoNewRows, Untouched
<1> QED  BY <1>1 DEF LocksInOrder, Untouched

LEMMA LocksIdle ==
  ASSUME NEW w \in Workers, Idle(w)' PROVE LocksInOrder(w)'
BY DEF Idle, LocksInOrder

(* Status changes of one request's commit create no task.                   *)
LEMMA LockOrderOneRequest ==
  ASSUME LockOrder, Drafts', NEW w \in Workers, LocksInOrder(w)',
         \A v \in Workers \ {w} : Untouched(v),
         \A t \in Tasks : status'[t] # "sin_tarea" => status[t] # "sin_tarea"
  PROVE  LockOrder'
<1>1. \A v \in Workers : NoNewRows(v)
  BY DEF NoNewRows, Named
<1> QED  BY <1>1, LocksFrame DEF LockOrder

LEMMA LockOrderRelease ==
  ASSUME LockOrder, Drafts', NEW w \in Workers, Release(w),
         \A t \in Tasks : status'[t] # "sin_tarea" => status[t] # "sin_tarea"
  PROVE  LockOrder'
<1>1. Idle(w)' /\ \A v \in Workers \ {w} : Untouched(v)
  BY ReleaseFacts DEF LockOrder, Drafts, Books, Shape, RowsOK
<1> QED  BY <1>1, LocksIdle, LockOrderOneRequest

LEMMA LockOrderRollback ==
  ASSUME LockOrder, Drafts', NEW w \in Workers, Rollback(w) PROVE LockOrder'
BY LockOrderRelease DEF Rollback, db

LEMMA LockOrderStart ==
  ASSUME LockOrder, Drafts', NEW w \in Workers, NEW what, Start(w, what),
         NEW p \in {"leido", "hoja"}, pc' = [pc EXCEPT ![w] = p]
  PROVE  LockOrder'
<1>1. \A v \in Workers \ {w} : Untouched(v)
  BY DEF Start, LockOrder, Drafts, Books, Shape, RowsOK, RequestType, Untouched
<1>2. pc[w] = "libre" /\ pc'[w] = p /\ UNCHANGED << status, locked, shared >>
  BY DEF Start, LockOrder, Drafts, Books, Shape, RowsOK, RequestType, db
<1>3. LocksInOrder(w)'
  BY <1>2 DEF LockOrder, LocksInOrder
<1> QED  BY <1>1, <1>2, <1>3, LockOrderOneRequest

LEMMA LockOrderLockTask ==
  ASSUME LockOrder, Drafts', NEW w \in Workers, LockTask(w) PROVE LockOrder'
<1>1. CASE Refused(w)
  BY <1>1, LockOrderRollback DEF LockTask
<1>2. CASE ~Refused(w)
  <2>1. /\ pc[w] = "leido" /\ pc'[w] = "moviendo" /\ UNCHANGED << status, held, shared >>
        /\ \A v \in Workers \ {w} : Untouched(v)
    BY <1>2
    DEF LockTask, LockOrder, Drafts, Books, Shape, RowsOK, RequestType, Untouched, db
  <2>2. held[w] = {}
    BY <2>1 DEF LockOrder, Drafts, Draft
  <2>3. LocksInOrder(w)'
    BY <2>1, <2>2 DEF LockOrder, LocksInOrder
  <2> QED  BY <2>1, <2>3, LockOrderOneRequest
<1> QED  BY <1>1, <1>2

LEMMA LockOrderMoveLine ==
  ASSUME LockOrder, Drafts', NEW w \in Workers, MoveLine(w) PROVE LockOrder'
<1>1. PICK l \in todo[w] :
        IsNext(w, l) /\ IF itemRow[l.item] = "activo" THEN Turn(w, l) ELSE Rollback(w)
  BY DEF MoveLine
<1>2. CASE itemRow[l.item] = "activo"
  <2>1. /\ pc[w] = "moviendo" /\ UNCHANGED << pc, status, shared >>
        /\ held'[w] = held[w] \cup {l.item} /\ todo'[w] = todo[w] \ {l}
        /\ \A v \in Workers \ {w} : Untouched(v)
    BY <1>1, <1>2
    DEF MoveLine, Turn, LockOrder, Drafts, Books, Shape, RowsOK, RequestType, Untouched, db
  <2>2. \A m \in todo[w] : m.item \in Items
    BY DEF LockOrder, Drafts, Books, Shape, RowsOK, RequestType
  <2>2a. \A m \in todo[w] : m.item \in Int
    BY <2>2, ConstantFacts
  <2>2b. \A m \in todo[w] : l.item <= m.item
    BY <1>1, <2>2a DEF IsNext
  <2>3. LocksInOrder(w)'
    BY <2>1, <2>2b DEF LockOrder, LocksInOrder
  <2> QED  BY <2>1, <2>3, LockOrderOneRequest
<1>3. CASE itemRow[l.item] # "activo"
  BY <1>1, <1>3, LockOrderRollback
<1> QED  BY <1>2, <1>3

LEMMA LockOrderLockSheetRow ==
  ASSUME LockOrder, Drafts', NEW w \in Workers, LockSheetRow(w) PROVE LockOrder'
<1>1. PICK t \in RowsToLock(w) :
        IsNextRow(w, t) /\ locked' = [locked EXCEPT ![w] = @ \cup {t}]
  BY DEF LockSheetRow
<1>2. /\ pc[w] = "hoja" /\ UNCHANGED << pc, job, status, shared >>
      /\ locked'[w] = locked[w] \cup {t}
      /\ \A v \in Workers \ {w} : Untouched(v)
  BY <1>1 DEF LockSheetRow, LockOrder, Drafts, Books, Shape, RowsOK, RequestType, Untouched, db
<1>3. RowsToLock(w)' = RowsToLock(w) \ {t}
  BY <1>2 DEF RowsToLock
<1>4. \A u \in RowsToLock(w) : u \in Int /\ t <= u
  BY <1>1, ConstantFacts DEF IsNextRow, RowsToLock, Named
<1>5. \A u \in RowsToLock(w)' : t < u
  BY <1>1, <1>3, <1>4
<1>6. LocksInOrder(w)'
  BY <1>2, <1>3, <1>5 DEF LockOrder, LocksInOrder
<1> QED  BY <1>2, <1>6, LockOrderOneRequest

LEMMA LockOrderInserting ==
  ASSUME LockOrder, Drafts', NEW w \in Workers, CheckSheets(w) \/ InsertLine(w)
  PROVE  LockOrder'
<1>1. CASE Rollback(w)
  BY <1>1, LockOrderRollback
<1>2. CASE ~Rollback(w)
  <2>1. /\ pc'[w] = "insertando" /\ status' = status
        /\ \A v \in Workers \ {w} : Untouched(v)
    BY <1>2
    DEF CheckSheets, InsertLine, LockOrder, Drafts, Books, Shape, RowsOK, RequestType,
        Untouched, db
  <2>2. LocksInOrder(w)'
    BY <2>1 DEF LocksInOrder
  <2> QED  BY <2>1, <2>2, LockOrderOneRequest
<1> QED  BY <1>1, <1>2

LEMMA LockOrderCommit ==
  ASSUME LockOrder, Drafts', NEW w \in Workers, Commit(w) PROVE LockOrder'
<1>1. PICK t \in Tasks : t = job[w].task /\ pc[w] = "moviendo"
  BY MoverTask DEF Commit, LockOrder, Drafts, Books
<1>2. status[t] # "sin_tarea"
  BY <1>1 DEF LockOrder, Drafts, Draft, MoverDraft
<1>3. \A u \in Tasks \ {t} : status'[u] = status[u]
  BY <1>1 DEF Commit, LockOrder, Drafts, Books, Shape, RowsOK, RowType
<1> QED  BY <1>2, <1>3, LockOrderRelease DEF Commit

LEMMA LockOrderDb ==
  ASSUME LockOrder, Drafts', UNCHANGED request, \A v \in Workers : NoNewRows(v)
  PROVE  LockOrder'
<1>1. \A v \in Workers : Untouched(v)
  BY DEF request, Untouched
<1> QED  BY <1>1, LocksFrame DEF LockOrder

LEMMA LockOrderInit == Init => LockOrder
<1> SUFFICES ASSUME Init PROVE LockOrder
  OBVIOUS
<1>1. \A w \in Workers : LocksInOrder(w)
  BY DEF Init, LocksInOrder
<1> QED  BY <1>1, DraftsInit DEF LockOrder

LEMMA LockOrderStep == LockOrder /\ [Next]_vars => LockOrder'
<1> SUFFICES ASSUME LockOrder, [Next]_vars PROVE LockOrder'
  OBVIOUS
<1>0. Drafts'
  BY DraftsStep DEF LockOrder
<1>1. ASSUME NEW w \in Workers, RequestStep(w) PROVE LockOrder'
  <2>1. ASSUME NEW t \in Tasks, NEW to \in Statuses, ReadForStatus(w, t, to) PROVE LockOrder'
    BY <1>0, <2>1, LockOrderStart DEF ReadForStatus
  <2>2. ASSUME NEW t \in Tasks, ReadForDiscount(w, t) PROVE LockOrder'
    BY <1>0, <2>2, LockOrderStart DEF ReadForDiscount
  <2>3. ASSUME NEW plan \in Plans, SubmitSheets(w, plan) PROVE LockOrder'
    BY <1>0, <2>3, LockOrderStart DEF SubmitSheets
  <2>4. CASE CommitSheets(w)
    BY <1>0, <2>4, LockOrderRelease DEF CommitSheets
  <2> QED
    BY <1>0, <1>1, <2>1, <2>2, <2>3, <2>4, LockOrderLockTask, LockOrderMoveLine,
       LockOrderCommit, LockOrderLockSheetRow, LockOrderInserting, LockOrderRollback
    DEF RequestStep, Interrupt
<1>2. ASSUME RowStep PROVE LockOrder'
  <2>1. CASE UNCHANGED << status, request >>
    BY <1>0, <2>1, LockOrderDb DEF NoNewRows
  <2>2. ASSUME NEW t \in Tasks, CreateTask(t) PROVE LockOrder'
    <3>1. \A v \in Workers : NoNewRows(v)
      BY <2>2 DEF CreateTask, NoNewRows, Named, LockOrder, Drafts, Books, Shape, RowsOK, RowType
    <3> QED  BY <1>0, <2>2, <3>1, LockOrderDb DEF CreateTask
  <2>3. ASSUME NEW t \in Tasks, RemoveTask(t) PROVE LockOrder'
    <3>1. \A v \in Workers : NoNewRows(v)
      BY <2>3 DEF RemoveTask, NoNewRows, Named, LockOrder, Drafts, Books, Shape, RowsOK, RowType
    <3> QED  BY <1>0, <2>3, <3>1, LockOrderDb DEF RemoveTask
  <2> QED
    BY <1>2, <2>1, <2>2, <2>3 DEF RowStep, RegisterMovement, CreateItem, RemoveItem
<1>3. CASE UNCHANGED vars
  BY <1>0, <1>3, LockOrderDb DEF vars, db, NoNewRows
<1> QED  BY <1>1, <1>2, <1>3 DEF Next

LEMMA LockOrderAlways == Spec => []LockOrder
<1> QED  BY LockOrderInit, LockOrderStep, PTL DEF Spec

(* In a circle, whoever waits for the largest thing awaited waits for a     *)
(* member that waits for a larger one.                                      *)
LEMMA NoCircle ==
  ASSUME NEW M, IsFiniteSet(M), M # {}, NEW want \in [M -> Int],
         \A v \in M : \E w \in M : want[v] < want[w]
  PROVE  FALSE
<1> DEFINE W == {want[v] : v \in M}
<1>1. W \subseteq Int /\ W # {}
  OBVIOUS
<1>2. IsFiniteSet(W)
  <2>1. want \in Surjection(M, W)
    BY DEF Surjection
  <2> QED  BY <2>1, FS_Surjection
<1>3. PICK x \in W : \A y \in W : y <= x
  <2> HIDE DEF W
  <2> QED  BY <1>1, <1>2, LargestElement
<1>4. PICK v \in M : x = want[v]
  BY <1>3
<1>5. PICK w \in M : want[v] < want[w]
  OBVIOUS
<1>6. want[w] \in W /\ want[v] \in Int /\ want[w] \in Int
  OBVIOUS
<1>7. want[w] <= want[v]
  BY <1>3, <1>4, <1>6
<1> QED
  <2> HIDE DEF W
  <2> QED  BY <1>5, <1>6, <1>7

(* What a request of S waits for: the item of its next line, held by        *)
(* another of S.                                                            *)
AwaitsItem(S, v, i) ==
  /\ \E l \in todo[v] : IsNext(v, l) /\ l.item = i
  /\ \E w \in S \ {v} : i \in held[w]

(* The next task row of its form, locked by another of S.                   *)
AwaitsRow(S, v, t) ==
  /\ t \in RowsToLock(v)
  /\ IsNextRow(v, t)
  /\ \E w \in S \ {v} : t \in locked[w]

(* Whoever holds an item of S awaits a larger one.                          *)
LEMMA HolderAwaits ==
  ASSUME LockOrder, NEW S \in SUBSET Workers,
         NEW w \in S, NEW i \in Items, i \in held[w], NEW j \in Items, AwaitsItem(S, w, j)
  PROVE  i < j
<1>1. PICK l \in todo[w] : l.item = j
  BY DEF AwaitsItem
<1>2. pc[w] = "moviendo"
  BY DEF LockOrder, Drafts, Draft
<1>3. i <= j
  BY <1>1, <1>2 DEF LockOrder, LocksInOrder
<1>4. i # j
  BY DEF AwaitsItem, LockOrder, Drafts, Books, Shape, ItemsExclusive
<1> QED  BY <1>3, <1>4, ConstantFacts

(* The movers of S do not wait for one another's items in a circle.         *)
LEMMA NoItemCircle ==
  ASSUME LockOrder, NEW S \in SUBSET Workers,
         \A v \in S : pc[v] = "moviendo" => \E i \in Items : AwaitsItem(S, v, i)
  PROVE  \A v \in S : pc[v] # "moviendo"
<1> DEFINE M == {v \in S : pc[v] = "moviendo"}
           want == [v \in M |-> CHOOSE i \in Items : AwaitsItem(S, v, i)]
<1> SUFFICES ASSUME M # {} PROVE FALSE
  OBVIOUS
<1>1. \A v \in M : want[v] \in Items /\ AwaitsItem(S, v, want[v])
  OBVIOUS
<1>2. ASSUME NEW v \in M PROVE \E w \in M : want[v] < want[w]
  <2>1. want[v] \in Items /\ AwaitsItem(S, v, want[v])
    BY <1>1
  <2> HIDE DEF want
  <2>2. PICK w \in S : want[v] \in held[w]
    BY <2>1 DEF AwaitsItem
  <2>3. w \in M
    BY <2>2 DEF LockOrder, Drafts, Draft
  <2>4. want[w] \in Items /\ AwaitsItem(S, w, want[w])
    BY <1>1, <2>3
  <2>5. want[v] < want[w]
    BY <2>1, <2>2, <2>4, HolderAwaits
  <2> QED  BY <2>3, <2>5
<1>3. want \in [M -> Int]
  BY <1>1, ConstantFacts
<1>4. IsFiniteSet(M)
  BY FiniteAssumption, FS_Subset
<1> QED
  <2> HIDE DEF want, M
  <2> QED  BY <1>2, <1>3, <1>4, NoCircle

(* The saves of S do not wait for one another's task rows in a circle.      *)
LEMMA NoRowCircle ==
  ASSUME LockOrder, NEW S \in SUBSET Workers, \A v \in S : pc[v] \in {"libre", "leido", "hoja"},
         \A v \in S : pc[v] = "hoja" => \E t \in Tasks : AwaitsRow(S, v, t)
  PROVE  \A v \in S : pc[v] # "hoja"
<1> DEFINE M == {v \in S : pc[v] = "hoja"}
           want == [v \in M |-> CHOOSE t \in Tasks : AwaitsRow(S, v, t)]
<1> SUFFICES ASSUME M # {} PROVE FALSE
  OBVIOUS
<1>1. \A v \in M : want[v] \in Tasks /\ AwaitsRow(S, v, want[v])
  OBVIOUS
<1>2. ASSUME NEW v \in M PROVE \E w \in M : want[v] < want[w]
  <2>1. want[v] \in Tasks /\ AwaitsRow(S, v, want[v])
    BY <1>1
  <2> HIDE DEF want
  <2>2. PICK w \in S : want[v] \in locked[w]
    BY <2>1 DEF AwaitsRow
  <2>3. w \in M
    BY <2>2 DEF LockOrder, LocksInOrder
  <2>4. want[w] \in Tasks /\ AwaitsRow(S, w, want[w])
    BY <1>1, <2>3
  <2>5. want[v] < want[w]
    BY <2>2, <2>3, <2>4 DEF AwaitsRow, LockOrder, LocksInOrder
  <2> QED  BY <2>3, <2>5
<1>3. want \in [M -> Int]
  BY <1>1, ConstantFacts
<1>4. IsFiniteSet(M)
  BY FiniteAssumption, FS_Subset
<1> QED
  <2> HIDE DEF want, M
  <2> QED  BY <1>2, <1>3, <1>4, NoCircle

LEMMA LockOrderSafe == LockOrder => MoversNeverDeadlock
<1> SUFFICES ASSUME LockOrder, NEW S \in SUBSET Workers, Deadlocked(S),
                    \A w \in S : pc[w] # "insertando"
             PROVE  FALSE
  BY DEF MoversNeverDeadlock
<1>1. \A w \in S : pc[w] # "libre" /\ shared[w] = {}
  BY DEF Deadlocked, WaitsFor, LockOrder, LocksInOrder
<1>2. \A v \in S : pc[v] = "moviendo" => \E i \in Items : AwaitsItem(S, v, i)
  <2> SUFFICES ASSUME NEW v \in S, pc[v] = "moviendo" PROVE \E i \in Items : AwaitsItem(S, v, i)
    OBVIOUS
  <2>1. PICK w \in S \ {v} : WaitsFor(v, w)
    BY DEF Deadlocked
  <2>2. PICK l \in todo[v] : IsNext(v, l) /\ l.item \in held[w]
    BY <1>1, <2>1 DEF WaitsFor
  <2>3. l.item \in Items
    BY <2>2 DEF LockOrder, Drafts, Books, Shape, RowsOK, RequestType
  <2> QED  BY <2>1, <2>2, <2>3 DEF AwaitsItem
<1>3. \A v \in S : pc[v] # "moviendo"
  BY <1>2, NoItemCircle
<1>4. \A v \in S : pc[v] \in {"leido", "hoja"}
  BY <1>1, <1>3 DEF LockOrder, Drafts, Books, Shape, RowsOK, RequestType
<1>5. \A v \in S : pc[v] = "hoja" => \E t \in Tasks : AwaitsRow(S, v, t)
  BY <1>4 DEF Deadlocked, WaitsFor, AwaitsRow, RowsToLock, Named
<1>6. \A v \in S : pc[v] = "leido"
  BY <1>4, <1>5, NoRowCircle
<1> QED  BY <1>6 DEF Deadlocked, WaitsFor, LockOrder, LocksInOrder

(* Two tasks that share items never block each other, however many requests *)
(* run: whoever waits in a circle without a save inserting its lines would  *)
(* have to hold a larger id than the one it waits for (the ORDER BY of the  *)
(* row locks of moveSupplyLinesTx and saveSuppliesTx).                      *)
THEOREM Movers_Never_Deadlock == Spec => []MoversNeverDeadlock
<1> QED  BY LockOrderAlways, LockOrderSafe, PTL

=============================================================================

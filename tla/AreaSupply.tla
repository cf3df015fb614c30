----------------------------- MODULE AreaSupply -----------------------------
(***************************************************************************)
(* The materials sheet of a production task and the inventory it draws on: *)
(* src/order/order-area-supply.ts, the transactional part of               *)
(* OrderAreaTaskService.updateStatus / discountPending / saveSupplies, and *)
(* the stock movements of InventoryService.                                *)
(*                                                                         *)
(* A database transaction is modelled statement by statement as far as its *)
(* row locks go: a Worker is one HTTP request in flight, it takes the task *)
(* row FOR UPDATE, then one inventory row after the other, and its writes  *)
(* stay in view/drawn/moved until Commit makes them visible.  A blocked    *)
(* statement is a disabled action.  Operations that are one statement, or  *)
(* a transaction with a single lock, are one action.                       *)
(*                                                                         *)
(* Ids are naturals: the code orders task rows and items by id.            *)
(***************************************************************************)
EXTENDS Integers, Sequences, FiniteSetsExt

CONSTANTS
  Tasks,       \* ids of the OrderAreaTask rows of the orders under study
  Items,       \* ids of the InventoryItem rows
  Workers,     \* requests that may run at the same time
  Plans,       \* what Recepcion may send: a sheet for some of the tasks
  Amounts,     \* quantities of a manual movement or an initial stock
  Removable,   \* bound: the items Recepcion may delete
  MaxLines,    \* bound: lines of a sheet
  MaxStock,    \* bound: what people may have put in of an item, in all
  MaxRetired   \* bound: quantity drawn by tasks that were later removed

NoItem == 0    \* inventoryItemId = null
NoTask == 0

Line  == [item : Items \cup {NoItem}, qty : Nat \ {0}]
Sheet == [source : {"sin_hoja", "cliente", "nosotros"}, lines : Seq(Line)]
NoSheet == [source |-> "sin_hoja", lines |-> << >>]

(* validateSupplies: "nosotros" needs a line, the client's lines are never  *)
(* tied to inventory, a quantity is positive.                               *)
ValidSheet(s) ==
  /\ s \in Sheet
  /\ Len(s.lines) <= MaxLines
  /\ s.source # "sin_hoja"
  /\ s.source = "nosotros" => s.lines # << >>
  /\ s.source = "cliente" => \A k \in DOMAIN s.lines : s.lines[k].item = NoItem

ASSUME IdAssumption ==
  /\ Tasks \subseteq Nat \ {NoTask}
  /\ Items \subseteq Nat \ {NoItem}
  /\ Removable \subseteq Items
ASSUME FiniteAssumption == IsFiniteSet(Tasks) /\ IsFiniteSet(Workers)
ASSUME BoundAssumption ==
  /\ MaxLines \in Nat /\ MaxStock \in Nat /\ MaxRetired \in Nat
  /\ Amounts \subseteq Nat
Named(plan) == {t \in Tasks : plan[t] # NoSheet}
ASSUME PlanAssumption ==
  \A plan \in Plans :
    /\ plan \in [Tasks -> Sheet]
    /\ \A t \in Named(plan) : ValidSheet(plan[t])

Slots    == 1..MaxLines
Statuses == {"pendiente", "en_proceso", "terminado"}
NoPlan   == [t \in Tasks |-> NoSheet]
NoJob    == [op |-> "ninguna", task |-> NoTask, seen |-> "pendiente",
             target |-> "pendiente", plan |-> NoPlan]

VARIABLES
  status,   \* committed OrderAreaTask.status, or "sin_tarea"
  sheet,    \* committed OrderAreaSupply and its lines
  done,     \* slots of the sheet whose discountedAt is set
  itemRow,  \* "sin_alta", "activo" or "borrado"
  stock,    \* committed InventoryItem.quantity
  manual,   \* sum of the kardex deltas registered by people
  orden,    \* sum of the kardex deltas with source 'orden'
  retired,  \* what removed tasks had drawn (history)
  pc,       \* where each request is
  job,      \* what it was asked to do, and the status it read first
  locked,   \* task rows it holds FOR UPDATE
  held,     \* item rows it holds FOR UPDATE
  shared,   \* item rows it holds FOR KEY SHARE (foreign key of a line)
  view,     \* its own uncommitted quantity of the rows it holds
  drawn,    \* sum of the deltas of the kardex rows it inserted
  todo,     \* listed lines it has not reached yet
  moved,    \* slots it claimed
  inserts   \* lines of the new sheets it still has to insert

db      == << status, sheet, done, itemRow, stock, manual, orden, retired >>
request == << pc, job, locked, held, shared, view, drawn, todo, moved, inserts >>
vars    == << db, request >>

Zero == [i \in Items |-> 0]

Init ==
  /\ status = [t \in Tasks |-> "sin_tarea"]
  /\ sheet = [t \in Tasks |-> NoSheet]
  /\ done = [t \in Tasks |-> {}]
  /\ itemRow = [i \in Items |-> "sin_alta"]
  /\ stock = Zero /\ manual = Zero /\ orden = Zero /\ retired = Zero
  /\ pc = [w \in Workers |-> "libre"]
  /\ job = [w \in Workers |-> NoJob]
  /\ locked = [w \in Workers |-> {}]
  /\ held = [w \in Workers |-> {}]
  /\ shared = [w \in Workers |-> {}]
  /\ view = [w \in Workers |-> Zero]
  /\ drawn = [w \in Workers |-> Zero]
  /\ todo = [w \in Workers |-> {}]
  /\ moved = [w \in Workers |-> {}]
  /\ inserts = [w \in Workers |-> {}]

-----------------------------------------------------------------------------
(* Row locks of PostgreSQL, as the code's statements take them.             *)

TaskRowFreeNoLock(w, t) == TRUE         \* mutant: read without FOR UPDATE

TaskRowFree(w, t) == \A v \in Workers \ {w} : t \notin locked[v]

ItemRowFreeNoLock(w, i) == TRUE         \* mutant: read without FOR UPDATE

ItemRowFree(w, i) ==
  \A v \in Workers \ {w} : i \notin held[v] /\ i \notin shared[v]

ItemRowShareable(w, i) == \A v \in Workers \ {w} : i \notin held[v]

(* End of a transaction: the request is over, its locks are released.       *)
Release(w) ==
  /\ pc' = [pc EXCEPT ![w] = "libre"]
  /\ job' = [job EXCEPT ![w] = NoJob]
  /\ locked' = [locked EXCEPT ![w] = {}]
  /\ held' = [held EXCEPT ![w] = {}]
  /\ shared' = [shared EXCEPT ![w] = {}]
  /\ view' = [view EXCEPT ![w] = Zero]
  /\ drawn' = [drawn EXCEPT ![w] = Zero]
  /\ todo' = [todo EXCEPT ![w] = {}]
  /\ moved' = [moved EXCEPT ![w] = {}]
  /\ inserts' = [inserts EXCEPT ![w] = {}]

Rollback(w) == Release(w) /\ UNCHANGED db

-----------------------------------------------------------------------------
(* Changing a task's status, and retrying a pending discount.               *)

Allowed(from, to) ==
  \/ from = to
  \/ << from, to >> \in { << "pendiente", "en_proceso" >>,
                          << "en_proceso", "terminado" >>,
                          << "en_proceso", "pendiente" >>,
                          << "terminado", "en_proceso" >> }

Start(w, what) ==
  /\ pc[w] = "libre"
  /\ job' = [job EXCEPT ![w] = what]
  /\ UNCHANGED << db, locked, held, shared, view, drawn, todo, moved, inserts >>

(* updateStatus up to its transaction: the first read takes no lock.        *)
ReadForStatus(w, t, to) ==
  /\ status[t] # "sin_tarea"
  /\ Allowed(status[t], to)
  /\ Start(w, [op |-> "estado", task |-> t, seen |-> status[t],
               target |-> to, plan |-> NoPlan])
  /\ pc' = [pc EXCEPT ![w] = "leido"]

(* discountPending up to its transaction.                                   *)
ReadForDiscount(w, t) ==
  /\ status[t] # "sin_tarea"
  /\ Start(w, [op |-> "descuento", task |-> t, seen |-> "terminado",
               target |-> "terminado", plan |-> NoPlan])
  /\ pc' = [pc EXCEPT ![w] = "leido"]

(* Mutant of ListedLines: without inventoryItemId: { not: null }.           *)
ListedLinesWithText(t, finishing) ==
  {[item |-> sheet[t].lines[k].item, slot |-> k] :
     k \in {s \in DOMAIN sheet[t].lines :
              sheet[t].source = "nosotros" /\ (s \in done[t]) = ~finishing}}

(* The lines moveSupplyLinesTx lists: ours, tied to an item, not yet        *)
(* discounted when finishing, discounted when reopening.                    *)
ListedLines(t, finishing) ==
  {[item |-> sheet[t].lines[k].item, slot |-> k] :
     k \in {s \in DOMAIN sheet[t].lines :
              /\ sheet[t].source = "nosotros"
              /\ sheet[t].lines[s].item # NoItem
              /\ (s \in done[t]) = ~finishing}}

(* The listed lines for a change from one status to another; none when it   *)
(* neither enters nor leaves "terminado".                                   *)
LinesToMove(t, from, to) ==
  IF from # "terminado" /\ to = "terminado" THEN ListedLines(t, TRUE)
  ELSE IF from = "terminado" /\ to # "terminado" THEN ListedLines(t, FALSE)
  ELSE {}

(* Mutant of Refused: a retry that does not ask for "terminado".            *)
RefusedRetryAnytime(w) ==
  LET t == job[w].task IN
  \/ status[t] = "sin_tarea"
  \/ /\ job[w].op = "estado"
     /\ \/ ~Allowed(status[t], job[w].target)
        \/ status[t] = job[w].target /\ job[w].seen # job[w].target

(* The status re-read under the lock makes the request stop: the task is    *)
(* gone, the transition is no longer valid, or another request already made *)
(* it; a retry stops unless the task is finished.                           *)
Refused(w) ==
  LET t == job[w].task IN
  \/ status[t] = "sin_tarea"
  \/ /\ job[w].op = "estado"
     /\ \/ ~Allowed(status[t], job[w].target)
        \/ status[t] = job[w].target /\ job[w].seen # job[w].target
  \/ job[w].op = "descuento" /\ status[t] # "terminado"

LockTask(w) ==
  LET t == job[w].task IN
  /\ pc[w] = "leido"
  /\ TaskRowFree(w, t)
  /\ IF Refused(w)
     THEN Rollback(w)
     ELSE /\ pc' = [pc EXCEPT ![w] = "moviendo"]
          /\ locked' = [locked EXCEPT ![w] = {t}]
          /\ todo' = [todo EXCEPT ![w] =
                        IF job[w].op = "descuento" THEN ListedLines(t, TRUE)
                        ELSE LinesToMove(t, status[t], job[w].target)]
          /\ UNCHANGED << db, job, held, shared, view, drawn, moved, inserts >>

Finishing(w) == job[w].target = "terminado"

(* Mutant of IsNext: without the sort, lines are walked by line id.         *)
IsNextByLine(w, l) == \A m \in todo[w] : l.slot <= m.slot

(* Lines are walked by item id, then by line id.                            *)
IsNext(w, l) ==
  \A m \in todo[w] : \/ l.item < m.item
                     \/ l.item = m.item /\ l.slot <= m.slot

Balance(w, i) == IF i \in held[w] THEN view[w][i] ELSE stock[i]

FitsNoCheck(w, i, qty) == TRUE          \* mutants of Fits
FitsStrict(w, i, qty)  == qty < Balance(w, i)

Fits(w, i, qty) == qty <= Balance(w, i)

(* updateMany on discountedAt: the line is still as it was listed.          *)
Claimable(w, slot) == (slot \in done[job[w].task]) = ~Finishing(w)

(* What a line moves: nothing when it does not fit or is no longer as it    *)
(* was listed.                                                              *)
Delta(w, l) ==
  LET qty == sheet[job[w].task].lines[l.slot].qty IN
  IF ~Claimable(w, l.slot) \/ (Finishing(w) /\ ~Fits(w, l.item, qty)) THEN 0
  ELSE IF Finishing(w) THEN -qty ELSE qty

(* Lock the item, claim the line and move the stock, or leave it pending.   *)
Turn(w, l) ==
  /\ held' = [held EXCEPT ![w] = @ \cup {l.item}]
  /\ view' = [view EXCEPT ![w][l.item] = Balance(w, l.item) + Delta(w, l)]
  /\ drawn' = [drawn EXCEPT ![w][l.item] = @ + Delta(w, l)]
  /\ moved' = [moved EXCEPT ![w] = IF Delta(w, l) = 0 THEN @ ELSE @ \cup {l.slot}]
  /\ todo' = [todo EXCEPT ![w] = @ \ {l}]
  /\ UNCHANGED << db, pc, job, locked, shared, inserts >>

(* The loop of moveSupplyLinesTx.  An item deleted after the lines were     *)
(* listed makes the transaction fail.                                       *)
MoveLine(w) ==
  /\ pc[w] = "moviendo"
  /\ \E l \in todo[w] :
       /\ IsNext(w, l)
       /\ ItemRowFree(w, l.item)
       /\ IF itemRow[l.item] = "activo" THEN Turn(w, l) ELSE Rollback(w)

(* Mutant of Claimed: giving a line back does not clear discountedAt.       *)
ClaimedForever(w) == done[job[w].task] \cup moved[w]

(* discountedAt of the claimed lines, as the commit publishes it.           *)
Claimed(w) ==
  IF Finishing(w) THEN done[job[w].task] \cup moved[w]
                  ELSE done[job[w].task] \ moved[w]

Commit(w) ==
  LET t == job[w].task IN
  /\ pc[w] = "moviendo"
  /\ todo[w] = {}
  /\ status' = [status EXCEPT ![t] = IF job[w].op = "estado" THEN job[w].target ELSE @]
  /\ done' = [done EXCEPT ![t] = Claimed(w)]
  /\ stock' = [i \in Items |-> Balance(w, i)]
  /\ orden' = [i \in Items |-> orden[i] + drawn[w][i]]
  /\ Release(w)
  /\ UNCHANGED << sheet, itemRow, manual, retired >>

-----------------------------------------------------------------------------
(* Saving the sheets of some tasks of the order (PUT area-supplies, and the *)
(* same function inside the authorization of a design).                     *)

SubmitSheets(w, plan) ==
  /\ Start(w, [op |-> "hoja", task |-> NoTask, seen |-> "pendiente",
               target |-> "pendiente", plan |-> plan])
  /\ pc' = [pc EXCEPT ![w] = "hoja"]

(* Rows the SELECT ... ORDER BY "id" FOR UPDATE has still to lock.          *)
RowsToLock(w) ==
  {t \in Named(job[w].plan) : status[t] # "sin_tarea"} \ locked[w]

IsNextRow(w, t) == \A u \in RowsToLock(w) : t <= u

LockSheetRow(w) ==
  /\ pc[w] = "hoja"
  /\ \E t \in RowsToLock(w) :
       /\ IsNextRow(w, t)
       /\ TaskRowFree(w, t)
       /\ locked' = [locked EXCEPT ![w] = @ \cup {t}]
  /\ UNCHANGED << db, pc, job, held, shared, view, drawn, todo, moved, inserts >>

(* The checks of saveSuppliesTx; any of them rolls everything back.         *)
SheetRefused(t, new) ==
  \/ status[t] = "sin_tarea"
  \/ \E k \in DOMAIN new.lines :
       new.lines[k].item # NoItem /\ itemRow[new.lines[k].item] # "activo"
  \/ status[t] = "terminado" /\ sheet[t] # new
  \/ status[t] # "terminado" /\ done[t] # {}

(* Tasks whose sheet is replaced: re-sending the sheet of a finished task   *)
(* writes nothing.                                                          *)
Rewritten(w) == {t \in Named(job[w].plan) : status[t] # "terminado"}

(* The lines of the new sheets that are tied to an item.                    *)
ItemLines(plan, T) ==
  {l \in [task : T, slot : Slots] :
     /\ l.slot \in DOMAIN plan[l.task].lines
     /\ plan[l.task].lines[l.slot].item # NoItem}

CheckSheets(w) ==
  LET plan == job[w].plan IN
  /\ pc[w] = "hoja"
  /\ RowsToLock(w) = {}
  /\ IF \E t \in Named(plan) : SheetRefused(t, plan[t])
     THEN Rollback(w)
     ELSE /\ pc' = [pc EXCEPT ![w] = "insertando"]
          /\ inserts' = [inserts EXCEPT ![w] = ItemLines(plan, Rewritten(w))]
          /\ job' = [job EXCEPT ![w].plan =
                        [t \in Tasks |-> IF t \in Rewritten(w) THEN plan[t] ELSE NoSheet]]
          /\ UNCHANGED << db, locked, held, shared, view, drawn, todo, moved >>

(* Lines are inserted sheet by sheet, in the order the form lists them (the *)
(* areas of the form are taken here in the order of their tasks' ids).      *)
IsNextInsert(w, l) ==
  \A m \in inserts[w] : \/ l.task < m.task
                        \/ l.task = m.task /\ l.slot <= m.slot

InsertItem(w, l) == job[w].plan[l.task].lines[l.slot].item

(* The foreign key of the new line locks the item row FOR KEY SHARE, and    *)
(* fails when the item was deleted meanwhile.                               *)
InsertLine(w) ==
  /\ pc[w] = "insertando"
  /\ \E l \in inserts[w] :
       /\ IsNextInsert(w, l)
       /\ ItemRowShareable(w, InsertItem(w, l))
       /\ IF itemRow[InsertItem(w, l)] # "activo"
          THEN Rollback(w)
          ELSE /\ shared' = [shared EXCEPT ![w] = @ \cup {InsertItem(w, l)}]
               /\ inserts' = [inserts EXCEPT ![w] = @ \ {l}]
               /\ UNCHANGED << db, pc, job, locked, held, view, drawn, todo, moved >>

CommitSheets(w) ==
  /\ pc[w] = "insertando"
  /\ inserts[w] = {}
  /\ sheet' = [t \in Tasks |-> IF t \in Named(job[w].plan) THEN job[w].plan[t] ELSE sheet[t]]
  /\ done' = [t \in Tasks |-> IF t \in Named(job[w].plan) THEN {} ELSE done[t]]
  /\ Release(w)
  /\ UNCHANGED << status, itemRow, stock, manual, orden, retired >>

(* A process that dies, a transaction that times out (SUPPLY_TX_OPTIONS) or *)
(* one PostgreSQL picks to break a deadlock: the transaction is rolled back.*)
Interrupt(w) == pc[w] # "libre" /\ Rollback(w)

-----------------------------------------------------------------------------
(* The inventory, and the rows the sheets hang from.                        *)

ItemRowUnlocked(i) == \A w \in Workers : i \notin held[w] /\ i \notin shared[w]

TaskRowUnlocked(t) == \A w \in Workers : t \notin locked[w]

MovementTypes == {"ENTRADA", "SALIDA", "AJUSTE"}

MovementDelta(i, type, n) ==
  CASE type = "ENTRADA" -> n
    [] type = "SALIDA"  -> -n
    [] type = "AJUSTE"  -> n - stock[i]

(* A consumption is refused beyond the stock, a count of zero is valid.     *)
MovementAccepted(i, type, n) ==
  /\ type # "AJUSTE" => n > 0
  /\ type = "SALIDA" => n <= stock[i]

RegisterMovement(i, type, n) ==
  /\ itemRow[i] = "activo"
  /\ ItemRowUnlocked(i)
  /\ MovementAccepted(i, type, n)
  /\ manual[i] + MovementDelta(i, type, n) <= MaxStock
  /\ stock' = [stock EXCEPT ![i] = @ + MovementDelta(i, type, n)]
  /\ manual' = [manual EXCEPT ![i] = @ + MovementDelta(i, type, n)]
  /\ UNCHANGED << status, sheet, done, itemRow, orden, retired, request >>

CreateItem(i, n) ==
  /\ itemRow[i] = "sin_alta"
  /\ n <= MaxStock
  /\ itemRow' = [itemRow EXCEPT ![i] = "activo"]
  /\ stock' = [stock EXCEPT ![i] = n]
  /\ manual' = [manual EXCEPT ![i] = n]
  /\ UNCHANGED << status, sheet, done, orden, retired, request >>

Unlinked(s, i) ==
  [s EXCEPT !.lines = [k \in DOMAIN s.lines |->
     IF s.lines[k].item = i THEN [s.lines[k] EXCEPT !.item = NoItem] ELSE s.lines[k]]]

(* Deleting an item deletes its kardex and leaves its lines without item    *)
(* (onDelete: Cascade and SetNull in the schema); discountedAt stays.       *)
RemoveItem(i) ==
  /\ itemRow[i] = "activo"
  /\ ItemRowUnlocked(i)
  /\ itemRow' = [itemRow EXCEPT ![i] = "borrado"]
  /\ sheet' = [t \in Tasks |-> Unlinked(sheet[t], i)]
  /\ stock' = [stock EXCEPT ![i] = 0]
  /\ manual' = [manual EXCEPT ![i] = 0]
  /\ orden' = [orden EXCEPT ![i] = 0]
  /\ retired' = [retired EXCEPT ![i] = 0]
  /\ UNCHANGED << status, done, request >>

(* createTasksForAreas, for one area that has no task yet.  The new row has *)
(* an id no request in flight knows: one that read the row it replaces will *)
(* answer 404, and one that is saving a sheet locked the rows it saw.       *)
CreateTask(t) ==
  /\ status[t] = "sin_tarea"
  /\ \A w \in Workers : t # job[w].task /\ t \notin Named(job[w].plan)
  /\ status' = [status EXCEPT ![t] = "pendiente"]
  /\ UNCHANGED << sheet, done, itemRow, stock, manual, orden, retired, request >>

(* What the lines of a sheet in a set of slots take from an item.           *)
Quantities(s) == [k \in DOMAIN s.lines |-> s.lines[k].qty]
Quantity(s, slots, i) == SumFunctionOnSet(Quantities(s), {k \in slots : s.lines[k].item = i})

(* What the discounted lines of a task drew from an item.                   *)
DrawnBy(t, i) == Quantity(sheet[t], done[t], i)

(* Removing an area deletes its sheet and lines in cascade; the stock they  *)
(* drew is not returned.                                                    *)
RemoveTask(t) ==
  /\ status[t] # "sin_tarea"
  /\ TaskRowUnlocked(t)
  /\ retired' = [i \in Items |-> retired[i] + DrawnBy(t, i)]
  /\ SumFunction(retired') <= MaxRetired
  /\ status' = [status EXCEPT ![t] = "sin_tarea"]
  /\ sheet' = [sheet EXCEPT ![t] = NoSheet]
  /\ done' = [done EXCEPT ![t] = {}]
  /\ UNCHANGED << itemRow, stock, manual, orden, request >>

-----------------------------------------------------------------------------
RequestStep(w) ==
  \/ \E t \in Tasks, to \in Statuses : ReadForStatus(w, t, to)
  \/ \E t \in Tasks : ReadForDiscount(w, t)
  \/ \E plan \in Plans : SubmitSheets(w, plan)
  \/ LockTask(w)
  \/ MoveLine(w)
  \/ Commit(w)
  \/ LockSheetRow(w)
  \/ CheckSheets(w)
  \/ InsertLine(w)
  \/ CommitSheets(w)
  \/ Interrupt(w)

RowStep ==
  \/ \E i \in Items, type \in MovementTypes, n \in Amounts : RegisterMovement(i, type, n)
  \/ \E i \in Items, n \in Amounts : CreateItem(i, n)
  \/ \E i \in Removable : RemoveItem(i)
  \/ \E t \in Tasks : CreateTask(t)
  \/ \E t \in Tasks : RemoveTask(t)

Next == (\E w \in Workers : RequestStep(w)) \/ RowStep

Spec == Init /\ [][Next]_vars

-----------------------------------------------------------------------------
(* Type invariant.                                                          *)
RowType ==
  /\ status \in [Tasks -> Statuses \cup {"sin_tarea"}]
  /\ sheet \in [Tasks -> Sheet]
  /\ done \in [Tasks -> SUBSET Slots]
  /\ itemRow \in [Items -> {"sin_alta", "activo", "borrado"}]
  /\ stock \in [Items -> Int] /\ manual \in [Items -> Int] /\ orden \in [Items -> Int]

Jobs == [op : {"ninguna", "estado", "descuento", "hoja"}, task : Tasks \cup {NoTask},
         seen : Statuses, target : Statuses,
         plan : [Tasks -> Sheet]]

RequestType ==
  /\ pc \in [Workers -> {"libre", "leido", "moviendo", "hoja", "insertando"}]
  /\ job \in [Workers -> Jobs]
  /\ locked \in [Workers -> SUBSET Tasks]
  /\ held \in [Workers -> SUBSET Items]
  /\ shared \in [Workers -> SUBSET Items]
  /\ view \in [Workers -> [Items -> Int]]
  /\ drawn \in [Workers -> [Items -> Int]]
  /\ todo \in [Workers -> SUBSET [item : Items, slot : Slots]]
  /\ moved \in [Workers -> SUBSET Slots]
  /\ inserts \in [Workers -> SUBSET [task : Tasks, slot : Slots]]

TypeOK == RowType /\ RequestType /\ retired \in [Items -> Nat]

(* The inventory never goes negative, whatever finishes, retries, manual    *)
(* movements and deletions interleave ("el inventario no admite stock       *)
(* negativo").                                                              *)
StockNeverNegative == \A i \in Items : stock[i] >= 0

(* The kardex explains the stock: an item's quantity is the sum of the      *)
(* deltas of its movements, so no request overwrote another one's balance.  *)
KardexAddsUp == \A i \in Items : stock[i] = manual[i] + orden[i]

(* Each line is discounted, and given back, exactly once: what orders took  *)
(* from an item in the kardex is what the discounted lines say, plus what   *)
(* removed tasks had drawn.                                                 *)
DrawnExactlyOnce ==
  \A i \in Items :
    -orden[i] = SumFunction([t \in Tasks |-> DrawnBy(t, i)]) + retired[i]

(* Stock is taken only by finished tasks: while the item exists, a          *)
(* discounted line belongs to a task in "terminado", through every race of  *)
(* finishing, reopening, retrying and saving the sheet.                     *)
DiscountedOnlyWhenFinished ==
  \A t \in Tasks : \A k \in done[t] :
    sheet[t].lines[k].item # NoItem => status[t] = "terminado"

(* A request waits for another one's row lock.                              *)
WaitsFor(v, w) ==
  \/ pc[v] = "leido" /\ job[v].task \in locked[w]
  \/ /\ pc[v] = "moviendo"
     /\ \E l \in todo[v] : IsNext(v, l) /\ l.item \in held[w] \cup shared[w]
  \/ /\ pc[v] = "hoja"
     /\ \E t \in RowsToLock(v) : IsNextRow(v, t) /\ t \in locked[w]
  \/ /\ pc[v] = "insertando"
     /\ \E l \in inserts[v] : IsNextInsert(v, l) /\ InsertItem(v, l) \in held[w]

Deadlocked(S) ==
  S # {} /\ \A v \in S : \E w \in S \ {v} : WaitsFor(v, w)

(* Two tasks that share items never block each other: a deadlock always     *)
(* involves a request that is inserting the lines of a sheet.               *)
MoversNeverDeadlock ==
  \A S \in SUBSET Workers : Deadlocked(S) => \E w \in S : pc[w] = "insertando"

(* "Siempre se bloquean los articulos en el mismo orden (por id)": no       *)
(* deadlock at all.  The foreign keys of a sheet being saved lock the items *)
(* in the order of the form.                                                *)
NoDeadlock == \A S \in SUBSET Workers : ~Deadlocked(S)

(* The sheet of a finished task is history: nothing rewrites it, except     *)
(* that a deleted item leaves its lines.                                    *)
SheetKept(t) ==
  \/ sheet'[t] = sheet[t]
  \/ \E i \in Items : itemRow'[i] # itemRow[i] /\ sheet'[t] = Unlinked(sheet[t], i)

FinishedSheetFrozen ==
  [][\A t \in Tasks :
       status[t] = "terminado" /\ status'[t] = "terminado" => SheetKept(t)]_vars

(* A task out of "terminado" can have its sheet corrected, as the refusal   *)
(* tells Recepcion ("regresa la tarea de terminado para cambiarlos").       *)
ReopenedSheetEditable ==
  \A t \in Tasks : status[t] # "terminado" => done[t] = {}

-----------------------------------------------------------------------------
Ledger == INSTANCE StockLedger WITH
  finished <- {t \in Tasks : status[t] = "terminado"}

(* Transactions that interleave row lock by row lock look like single       *)
(* steps: finishing, retrying or reopening a task moves the stock and marks *)
(* its lines at once, takes a line whenever it fits, and gives back exactly *)
(* what was taken.                                                          *)
LedgerSpec == Ledger!Spec

=============================================================================

---------------------------- MODULE InventoryDesk ----------------------------
(***************************************************************************)
(* The articles of the inventory as people handle them (InventoryService): *)
(* their codes, the notice of an article that crosses its point of reorder *)
(* and the requests to restock it.  A handler reads the article first and  *)
(* writes later, movements under the lock of the row; notices go out after *)
(* the write, and nobody waits for them.  What a materials sheet takes and *)
(* gives back is one step here (AreaSupply has it lock by lock).           *)
(***************************************************************************)
EXTENDS Integers, FiniteSets

CONSTANTS
  Workers,
  MaxItems,        \* bound: articles ever created; ids are 1..MaxItems
  Custom,          \* codes of their own, above every id
  MaxStock,        \* bound: units of one article
  Levels,          \* minStock; 0 stands for none as well, since 0 units are none left
  Statuses,        \* of a request: PENDIENTE and what follows
  MaxRequests      \* bound: handlers started

Ids == 1..MaxItems
New == "PENDIENTE"
Keep == -1         \* a field the form does not bring
NoItem    == [live |-> FALSE, quantity |-> 0, min |-> 0, code |-> 0]
NoRestock == [status |-> "no", item |-> 0]
NoJob == [at |-> "libre", id |-> 0, kind |-> "no", amount |-> 0, min |-> 0, code |-> 0,
          seen |-> "no", to |-> "no", self |-> FALSE]

VARIABLES
  item,         \* the articles; code i is the default code EMD-i
  last,         \* the last id given
  restock,      \* one request to restock
  job,
  alarm,        \* history: the notice of the last crossing went out
  low,          \* history: why an article may be low with no notice
  told,         \* history: the status whoever asked was last told
  untold,       \* history: that may not be the status of the request
  refused,      \* history: an article with no code of its own was refused
  requests

vars == << item, last, restock, job, alarm, low, told, untold, refused, requests >>
lowVars     == << alarm, low >>
restockVars == << restock, told, untold >>

Init ==
  /\ last = 1
  /\ \E min \in Levels :
       item = [i \in Ids |-> IF i = 1 THEN [live |-> TRUE, quantity |-> MaxStock,
                                          min |-> min, code |-> 1] ELSE NoItem]
  /\ restock \in {NoRestock, [status |-> New, item |-> 1]}
  /\ job = [w \in Workers |-> NoJob]
  /\ alarm = [i \in Ids |-> FALSE] /\ low = [i \in Ids |-> {}]
  /\ told = restock.status /\ untold = FALSE
  /\ refused = FALSE
  /\ requests = 0

Set(w, value) == job' = [job EXCEPT ![w] = value]
Begin(w, value) ==
  job[w] = NoJob /\ requests < MaxRequests /\ requests' = requests + 1 /\ Set(w, value)

-----------------------------------------------------------------------------
(* stockStatusOf is ok.                                                     *)
Enough(quantity, min) == quantity > min

(* Mutant of Crosses: everything that leaves an article low is noticed.     *)
CrossesToOut(before, after, min) == Enough(before, min) /\ after = 0
Crosses(before, after, min) == Enough(before, min) /\ ~Enough(after, min)

(* The history of the notice: cleared when there is enough again, owed when *)
(* there is not any more, unless the minimum is being edited, or was since  *)
(* the handler read it.                                                     *)
Falls(before, after, min0, min1) == Enough(before, min0) /\ ~Enough(after, min1)
History(i, quantity, min, seen) ==
  LET was   == item[i]
      falls == Falls(was.quantity, quantity, was.min, min)
  IN
  /\ alarm' = IF Enough(quantity, min) \/ falls THEN [alarm EXCEPT ![i] = FALSE] ELSE alarm
  /\ low' = [low EXCEPT ![i] =
       IF Enough(quantity, min) THEN {}
       ELSE IF falls /\ seen # min /\ ~Falls(was.quantity, quantity, seen, seen)
         THEN @ \cup {"minimo"} ELSE @]

(* A balance is written, by a handler that decides about the notice with    *)
(* the minimum it read.                                                     *)
WriteStock(w, i, quantity, seen) ==
  /\ quantity \in 0..MaxStock
  /\ item' = [item EXCEPT ![i].quantity = quantity]
  /\ History(i, quantity, item[i].min, seen)
  /\ Set(w, IF Crosses(item[i].quantity, quantity, seen)
              THEN [NoJob EXCEPT !.at = "avisa", !.id = i] ELSE NoJob)

(* registerMovement: the article, as it is before the transaction.          *)
MoveRead(w, i, kind, amount) ==
  /\ item[i].live
  /\ kind # "ajuste" => amount > 0
  /\ Begin(w, [NoJob EXCEPT !.at = "mueve", !.id = i, !.kind = kind, !.amount = amount,
                            !.min = item[i].min])
  /\ UNCHANGED << item, last, lowVars, restockVars, refused >>

Balance(kind, current, amount) ==
  CASE kind = "entrada" -> current + amount
    [] kind = "salida"  -> current - amount
    [] kind = "ajuste"  -> amount

MoveTx(w) ==
  LET j == job[w]
      current == item[j.id].quantity
  IN
  /\ j.at = "mueve"
  /\ IF ~item[j.id].live \/ (j.kind = "salida" /\ j.amount > current)
       THEN Set(w, NoJob) /\ UNCHANGED << item, lowVars >>
       ELSE WriteStock(w, j.id, Balance(j.kind, current, j.amount), j.min)
  /\ UNCHANGED << last, restockVars, refused, requests >>

(* moveSupplyLinesTx: the minimum is read with the row locked; giving back  *)
(* decides nothing.                                                         *)
SheetMoves(w, i, amount) ==
  /\ item[i].live
  /\ job[w] = NoJob /\ requests < MaxRequests /\ requests' = requests + 1
  /\ \/ amount <= item[i].quantity
        /\ WriteStock(w, i, item[i].quantity - amount, item[i].min)
     \/ WriteStock(w, i, item[i].quantity + amount, item[i].min)
  /\ UNCHANGED << last, restockVars, refused >>

NotifyLowStock(w) ==
  /\ job[w].at = "avisa"
  /\ alarm' = [alarm EXCEPT ![job[w].id] = TRUE]
  /\ Set(w, NoJob)
  /\ UNCHANGED << item, last, low, restockVars, refused, requests >>

-----------------------------------------------------------------------------
(* Mutant of Acceptable: the default codes are not reserved.                *)
AcceptableAny(code, own) == code \in Custom \cup Ids
(* normalizeBarcode                                                         *)
Acceptable(code, own) == code \in Custom \cup {own}

(* assertBarcodeFree, and what the unique index says later.                 *)
Free(code, own) == \A i \in Ids \ {own} : item[i].live => item[i].code # code

(* A code of 0 is no code, or the one there is.                             *)
CreateRead(w, code, quantity, min) ==
  /\ last < MaxItems
  /\ code # 0 => Acceptable(code, 0) /\ Free(code, 0)
  /\ Begin(w, [NoJob EXCEPT !.at = "crea", !.code = code, !.amount = quantity, !.min = min])
  /\ UNCHANGED << item, last, lowVars, restockVars, refused >>

(* The default code depends on the id, and is written in the transaction.   *)
CreateTx(w) ==
  LET j    == job[w]
      i    == last + 1
      code == IF j.code = 0 THEN i ELSE j.code
  IN
  /\ j.at = "crea"
  /\ i \in Ids
  /\ last' = i                       \* the sequence does not go back
  /\ IF Free(code, 0)
       THEN /\ item' = [item EXCEPT ![i] = [live |-> TRUE, quantity |-> j.amount,
                                            min |-> j.min, code |-> code]]
            /\ low' = [low EXCEPT ![i] = IF Enough(j.amount, j.min) THEN {} ELSE {"alta"}]
            /\ UNCHANGED refused
       ELSE /\ refused' = (refused \/ j.code = 0)
            /\ UNCHANGED << item, low >>
  /\ Set(w, NoJob)
  /\ UNCHANGED << alarm, restockVars, requests >>

UpdateRead(w, i, code, min) ==
  /\ item[i].live
  /\ code # 0 => Acceptable(code, i) /\ (code # item[i].code => Free(code, i))
  /\ Begin(w, [NoJob EXCEPT !.at = "edita", !.id = i, !.code = code, !.min = min])
  /\ UNCHANGED << item, last, lowVars, restockVars, refused >>

UpdateWrite(w) ==
  LET j    == job[w]
      was  == item[j.id]
      code == IF j.code = 0 THEN was.code ELSE j.code
      min  == IF j.min = Keep THEN was.min ELSE j.min
  IN
  /\ j.at = "edita"
  /\ IF was.live /\ Free(code, j.id)
       THEN /\ item' = [item EXCEPT ![j.id].code = code, ![j.id].min = min]
            /\ History(j.id, was.quantity, min, was.min)
       ELSE UNCHANGED << item, lowVars >>
  /\ Set(w, NoJob)
  /\ UNCHANGED << last, restockVars, refused, requests >>

Remove(i) ==
  /\ item[i].live
  /\ requests < MaxRequests /\ requests' = requests + 1
  /\ item' = [item EXCEPT ![i] = NoItem]
  /\ low' = [low EXCEPT ![i] = {}]
  /\ restock' = IF restock.item = i THEN [restock EXCEPT !.item = 0] ELSE restock
  /\ UNCHANGED << last, job, alarm, told, untold, refused >>

-----------------------------------------------------------------------------
(* createRestockRequest: of an article (its row must still be there when    *)
(* the request is written), or of free text.                                *)
RestockRead(w, i) ==
  /\ restock = NoRestock
  /\ i # 0 => item[i].live
  /\ Begin(w, [NoJob EXCEPT !.at = "pide", !.id = i])
  /\ UNCHANGED << item, last, lowVars, restockVars, refused >>

RestockCreate(w) ==
  /\ job[w].at = "pide"
  /\ IF restock = NoRestock /\ (job[w].id # 0 => item[job[w].id].live)
       THEN restock' = [status |-> New, item |-> job[w].id] /\ told' = New
       ELSE UNCHANGED << restock, told >>
  /\ Set(w, NoJob)
  /\ UNCHANGED << item, last, lowVars, untold, refused, requests >>

(* updateRestockStatus; `self` is whoever asked.                            *)
StatusRead(w, to, self) ==
  /\ restock # NoRestock
  /\ Begin(w, [NoJob EXCEPT !.at = "atiende", !.seen = restock.status, !.to = to,
                            !.self = self])
  /\ UNCHANGED << item, last, lowVars, restockVars, refused >>

(* Mutant of Telling: a note with no change of status is told, a change is  *)
(* not when somebody else handled the request before.                       *)
TellingFirst(j) == j.seen = New /\ ~j.self
Telling(j) == j.seen # j.to /\ ~j.self

Overlaps(w) == \E v \in Workers \ {w} : job[v].at = "dice"

StatusWrite(w) ==
  LET j == job[w] IN
  /\ j.at = "atiende"
  /\ restock' = [restock EXCEPT !.status = j.to]
  /\ told' = IF j.self THEN j.to ELSE told
  /\ untold' = (Overlaps(w) \/ (~j.self /\ j.seen = j.to /\ restock.status # j.to)
                 \/ (untold /\ ~Telling(j) /\ ~j.self))
  /\ Set(w, IF Telling(j) THEN [NoJob EXCEPT !.at = "dice", !.to = j.to] ELSE NoJob)
  /\ UNCHANGED << item, last, lowVars, refused, requests >>

TellStatus(w) ==
  /\ job[w].at = "dice"
  /\ told' = job[w].to
  /\ Set(w, NoJob)
  /\ UNCHANGED << item, last, lowVars, restock, untold, refused, requests >>

(* The handler fails or the process dies: a notice that was owed is lost.   *)
GiveUp(w) ==
  /\ job[w] # NoJob
  /\ low' = IF job[w].at = "avisa" THEN [low EXCEPT ![job[w].id] = @ \cup {"caida"}] ELSE low
  /\ untold' = (untold \/ job[w].at = "dice")
  /\ Set(w, NoJob)
  /\ UNCHANGED << item, last, alarm, restock, told, refused, requests >>

Next ==
  \/ \E w \in Workers :
       MoveTx(w) \/ NotifyLowStock(w) \/ CreateTx(w) \/ UpdateWrite(w)
         \/ RestockCreate(w) \/ StatusWrite(w) \/ TellStatus(w) \/ GiveUp(w)
  \/ \E w \in Workers, i \in Ids, amount \in 0..MaxStock :
       \/ \E kind \in {"entrada", "salida", "ajuste"} : MoveRead(w, i, kind, amount)
       \/ amount > 0 /\ SheetMoves(w, i, amount)
  \/ \E w \in Workers, code \in {0} \cup Custom \cup Ids, min \in Levels \cup {Keep} :
       \/ \E quantity \in 0..MaxStock : min # Keep /\ CreateRead(w, code, quantity, min)
       \/ \E i \in Ids : UpdateRead(w, i, code, min)
  \/ \E i \in Ids : Remove(i)
  \/ \E w \in Workers, i \in {0} \cup Ids : RestockRead(w, i)
  \/ \E w \in Workers, to \in Statuses, self \in BOOLEAN : StatusRead(w, to, self)

Spec == Init /\ [][Next]_vars

-----------------------------------------------------------------------------
(* Type invariant.                                                          *)
TypeOK ==
  /\ \A i \in Ids : item[i].quantity \in 0..MaxStock /\ item[i].min \in {0} \cup Levels
  /\ last \in 0..MaxItems
  /\ restock.status \in {"no"} \cup Statuses /\ restock.item \in {0} \cup Ids
  /\ requests \in 0..MaxRequests
  /\ \A i \in Ids : low[i] \subseteq {"minimo", "alta", "caida"}

(* Whoever buys hears of an article that is low since it crossed its point  *)
(* of reorder, unless the minimum was edited under it or under the handler, *)
(* the article was created low, or the notice was lost on its way.          *)
LowIsAnnounced ==
  \A i \in Ids :
    item[i].live /\ ~Enough(item[i].quantity, item[i].min) =>
      \/ alarm[i] \/ low[i] # {}
      \/ \E w \in Workers : job[w].at = "avisa" /\ job[w].id = i

(* A code belongs to one article, the code EMD-i to article i alone, and so *)
(* an article with no code of its own is never refused for its code.        *)
CodesAreOwn ==
  /\ ~refused
  /\ \A i, k \in Ids : item[i].live /\ item[k].live /\ i # k => item[i].code # item[k].code
  /\ \A i \in Ids : item[i].live => item[i].code \in Custom \cup {i}

(* Whoever asked was told the status the request has, unless two changes of *)
(* it overlapped or the notice was lost on its way.                         *)
RestockTold ==
  restock # NoRestock /\ ~untold /\ (\A w \in Workers : job[w].at # "dice") =>
    told = restock.status
=============================================================================

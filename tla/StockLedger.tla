---------------------------- MODULE StockLedger -----------------------------
(***************************************************************************)
(* What the materials sheet promises, with no requests and no locks: a     *)
(* task finishes, reopens or is retried in one step that moves the stock   *)
(* and marks the lines together (header of order-area-supply.ts).          *)
(***************************************************************************)
EXTENDS Integers, Sequences, FiniteSetsExt

CONSTANTS Tasks, Items, NoItem, NoSheet

VARIABLES
  finished,  \* tasks in "terminado"
  sheet,     \* source and lines of each task
  done,      \* discounted slots of each task
  stock      \* quantity of each item

ledger == << finished, sheet, done, stock >>

Init ==
  /\ finished = {}
  /\ sheet = [t \in Tasks |-> NoSheet]
  /\ done = [t \in Tasks |-> {}]
  /\ stock = [i \in Items |-> 0]

(* Our lines that are tied to an item: the others never touch the stock.    *)
Tied(t) ==
  {k \in DOMAIN sheet[t].lines :
     sheet[t].source = "nosotros" /\ sheet[t].lines[k].item # NoItem}

Quantity(t, D, i) ==
  SumFunctionOnSet([k \in DOMAIN sheet[t].lines |-> sheet[t].lines[k].qty],
                   {k \in D : sheet[t].lines[k].item = i})

(* The lines a task takes leave the stock, and a line is left only because  *)
(* it does not fit in what remains.                                         *)
Take(t) ==
  LET D == done'[t] \ done[t] IN
  /\ UNCHANGED sheet
  /\ D \subseteq Tied(t)
  /\ done' = [done EXCEPT ![t] = @ \cup D]
  /\ stock' = [i \in Items |-> stock[i] - Quantity(t, D, i)]
  /\ \A i \in Items : stock'[i] >= 0
  /\ \A k \in Tied(t) \ done'[t] :
       sheet[t].lines[k].qty > stock'[sheet[t].lines[k].item]

Finish(t) ==
  /\ t \notin finished
  /\ finished' = finished \cup {t}
  /\ Take(t)

Retry(t) ==
  /\ t \in finished
  /\ UNCHANGED finished
  /\ Take(t)

Reopen(t) ==
  LET back == done[t] \cap Tied(t) IN
  /\ t \in finished
  /\ finished' = finished \ {t}
  /\ stock' = [i \in Items |-> stock[i] + Quantity(t, back, i)]
  /\ done' = [done EXCEPT ![t] = @ \ back]
  /\ UNCHANGED sheet

(* New sheets, for tasks that are not finished and have drawn nothing.      *)
Rewrite(T) ==
  /\ UNCHANGED << finished, done, stock >>
  /\ \A t \in T : t \notin finished /\ done[t] = {}
  /\ \A t \in Tasks \ T : sheet'[t] = sheet[t]

(* A purchase, a consumption or a count of one item.                        *)
Move(i) ==
  /\ UNCHANGED << finished, sheet, done >>
  /\ stock'[i] \in Nat
  /\ stock' = [stock EXCEPT ![i] = stock'[i]]

Drop(t) ==
  /\ finished' = finished \ {t}
  /\ sheet' = [sheet EXCEPT ![t] = NoSheet]
  /\ done' = [done EXCEPT ![t] = {}]
  /\ UNCHANGED stock

(* The item is deleted: its lines stay as text.                             *)
Discontinue(i) ==
  /\ UNCHANGED << finished, done >>
  /\ stock' = [stock EXCEPT ![i] = 0]
  /\ \A t \in Tasks :
       /\ sheet'[t].source = sheet[t].source
       /\ DOMAIN sheet'[t].lines = DOMAIN sheet[t].lines
       /\ \A k \in DOMAIN sheet[t].lines :
            /\ sheet'[t].lines[k].qty = sheet[t].lines[k].qty
            /\ sheet'[t].lines[k].item =
                 IF sheet[t].lines[k].item = i THEN NoItem ELSE sheet[t].lines[k].item

Next ==
  \/ \E t \in Tasks : Finish(t) \/ Retry(t) \/ Reopen(t) \/ Drop(t)
  \/ \E T \in SUBSET Tasks : Rewrite(T)
  \/ \E i \in Items : Move(i) \/ Discontinue(i)

Spec == Init /\ [][Next]_ledger
=============================================================================

---------------------------- MODULE AreaSupplyMC ----------------------------
(***************************************************************************)
(* Two tasks that share two items, two requests at a time.  Task 1 gets    *)
(* its sheet alone, or the client's together with a sheet for task 2 that  *)
(* lists the items in the opposite order: the two draw on the same stock,  *)
(* and a save can meet a finishing task in both orders.                    *)
(***************************************************************************)
EXTENDS AreaSupply, TLC

Ours(lines) == [source |-> "nosotros", lines |-> lines]
L(i, n)     == [item |-> i, qty |-> n]

SheetA == Ours(<< L(2, 1), L(1, 1) >>)
SheetB == Ours(<< L(1, 1), L(2, 1) >>)
Clients == [source |-> "cliente", lines |-> << L(NoItem, 1) >>]

MCPlans == {1 :> SheetA @@ 2 :> NoSheet, 1 :> Clients @@ 2 :> SheetB}

MCSymmetry == Permutations(Workers)
=============================================================================

---------------------------- MODULE OrderWorkMC ----------------------------
(***************************************************************************)
(* OrderWork for TLC: an area with work, a review and perhaps more work,   *)
(* whose list is edited twice; and one order; two requests at a time.  The *)
(* requests are alike, and the people of the area.                         *)
(***************************************************************************)
EXTENDS OrderWork, TLC

MCLists == { << "work" >>, << "work", "review" >> }
MCSymmetry == Permutations(Workers) \cup Permutations(Staff)
=============================================================================

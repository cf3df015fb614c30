--------------------------- MODULE DesignCycleMC ---------------------------
(***************************************************************************)
(* Two designers and two requests at a time on one order, one production   *)
(* area, three rounds and two answers of the client: enough for a verdict, *)
(* a round, an answer and a take-over to meet another of their kind.       *)
(***************************************************************************)
EXTENDS DesignCycle, TLC

MCSymmetry == Permutations(Workers) \cup Permutations(Designers)
=============================================================================

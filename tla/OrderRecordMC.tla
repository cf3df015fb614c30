--------------------------- MODULE OrderRecordMC ---------------------------
(***************************************************************************)
(* OrderRecord for TLC: two rows, two requests and two runs of the         *)
(* backfill; one area; two articles.  The requests are alike, and the runs.*)
(***************************************************************************)
EXTENDS OrderRecord, TLC

MCSymmetry == Permutations(Workers) \cup Permutations(Runs)
=============================================================================

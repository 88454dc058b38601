--------------------------- MODULE MCRetrievalLadder ---------------------------
(***************************************************************************)
(* Small instance of RetrievalLadder: two processes, main and one          *)
(* diagnostic branch, a ladder of two routes with up to two windows each.  *)
(***************************************************************************)
EXTENDS RetrievalLadder, TLC

Symmetry == Permutations(Runners)
=============================================================================

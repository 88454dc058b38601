---------------------------- MODULE MCModelRegistry ----------------------------
(***************************************************************************)
(* Small instance of ModelRegistry: three versions over two contents, so   *)
(* that two versions share an artifact, and one server.                    *)
(***************************************************************************)
EXTENDS ModelRegistry, TLC

Symmetry == Permutations(Contents)
=============================================================================

---------------------------- MODULE AtomicHistory ----------------------------
(***************************************************************************)
(* What the launch protocols promise about the factual world: one history, *)
(* to which a launch either adds its window together with exactly the      *)
(* request partitions of that window, or adds nothing at all.              *)
(***************************************************************************)
EXTENDS Integers, Sequences

CONSTANTS Launches, Variants,
          WindowFiles(_)   \* the partitions of the last window of a lineage

VARIABLES history,         \* the launches that took place, in order
          published        \* the request partitions of that history

vars == <<history, published>>

Init == history = <<>> /\ published = {}

Launch(l, v) ==
    /\ history' = Append(history, [launch |-> l, variant |-> v])
    /\ published' = published \cup WindowFiles(history')

Next == \E l \in Launches, v \in Variants : Launch(l, v)

Spec == Init /\ [][Next]_vars
=============================================================================

---------------------------- MODULE MCFeedLaunch ----------------------------
(* A ladder of two launches, the second open once the first has passed, and *)
(* two variants of each, of which only v1 passes.  Each window has two      *)
(* ticks; the first tick of the second window has no requests.              *)
EXTENDS FeedLaunch, TLC

CONSTANTS l1, l2, v1, v2, r1, r2

MCLaunches == {l1, l2}
MCVariants == {v1, v2}
MCPredecessor == l1 :> None @@ l2 :> l1
MCPasses == {l1, l2} \X {v1}
MCChosen == l1 :> v1 @@ l2 :> v2
MCQuiet == {<<2, 1>>}
OneRunner == {r1}
TwoRunners == {r1, r2}
RunnerSymmetry == Permutations(TwoRunners)
=============================================================================

-------------------------- MODULE MCScenarioLaunch --------------------------
(* Two launches, one that analyses first and one that commits first, two    *)
(* variants of which only v1 concludes, and at most two attempts.           *)
EXTENDS ScenarioLaunch, TLC

CONSTANTS l1, l2, v1, v2, r1, r2

MCLaunches == {l1, l2}
MCVariants == {v1, v2}
MCCommitEarly == {l2}
MCConcludes == {l1, l2} \X {v1}
MCQuiet == {<<2, 1>>}
OneRunner == {r1}
TwoRunners == {r1, r2}
RunnerSymmetry == Permutations(TwoRunners)
=============================================================================

--------------------------- MODULE MCOutcomeQueue ---------------------------
(* Two journeys, each a cart or an ad click, and one item.  A day has two   *)
(* ticks; the maturities are exactly the sums of the delays.                *)
EXTENDS OutcomeQueue, TLC

CONSTANTS i1, j1, j2

MCItems == {i1}
MCJourneys == {j1, j2}
MCItemOf == [j \in MCJourneys |-> i1]
JourneySymmetry == Permutations(MCJourneys)
=============================================================================

----------------------------- MODULE MCSampleBus -----------------------------
(* Two jobs and a lane with two consumers.  Three times in two windows: the  *)
(* first alone, then the other two.  Their keys sort like the times (as 11,  *)
(* 12, 13 do) or the last two first (as 9, 10, 11 do: "10" < "11" < "9").    *)
EXTENDS SampleBus

CONSTANTS w1, w2, candidate, c1, c2

MCWriters == {w1, w2}
MCLanes == {candidate}
MCConsumers == {c1, c2}
MCLaneOf == [c \in MCConsumers |-> candidate]
MCTimes == {1, 2, 3}
MCMarks == {1, 3}
SameWidth == [t \in MCTimes |-> t]
MixedWidth == [t \in MCTimes |-> (t + 1) % 3]
AnyWidth == {SameWidth, MixedWidth}
=============================================================================

----------------------------- MODULE MCEventLog -----------------------------
(* Four events around a lateness of one tick: two simultaneous ones, one    *)
(* that is still admissible late and one that never is.                     *)
EXTENDS EventLog

CONSTANTS e1, e2, e3, e4

MCIds == {e1, e2, e3, e4}
MCEventTime == [e \in MCIds |-> CASE e = e1 -> 0
                                  [] e = e2 -> 1
                                  [] e = e3 -> 1
                                  [] e = e4 -> 2]
=============================================================================

---------------------------- MODULE ServedVersions ----------------------------
(***************************************************************************)
(* What the model registry promises to serving: versions become current    *)
(* one after the other, none ever comes back, and the one to fall back to  *)
(* is always the direct predecessor of the current one.                    *)
(***************************************************************************)
EXTENDS Integers

CONSTANT Version

None == -1

VARIABLES current, previous, past

Init ==
    /\ current = None
    /\ previous = None
    /\ past = {}

Serve(v) ==
    /\ v \notin past \cup {current}
    /\ current' = v
    /\ previous' = current
    /\ past' = past \cup ({current} \ {None})

Next == \E v \in Version : Serve(v)

Spec == Init /\ [][Next]_<<current, previous, past>>
=============================================================================

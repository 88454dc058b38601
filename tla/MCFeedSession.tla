----------------------------- MODULE MCFeedSession -----------------------------
(***************************************************************************)
(* Small instance of FeedSession: three items of which any two hash to the *)
(* bits of the third, a ring of two, two segments.                         *)
(***************************************************************************)
EXTENDS FeedSession, TLC

CONSTANTS a, b, c

MCItems == {a, b, c}
MCBits == 1..3
MCLocations == a :> {1, 2} @@ b :> {2, 3} @@ c :> {1, 3}
=============================================================================

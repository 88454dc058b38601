----------------------------- MODULE MCSupplyTick -----------------------------
(***************************************************************************)
(* Small instance of SupplyTick: two creators with four posts of which one *)
(* is live and one will fail moderation, one advertiser, two cells.        *)
(***************************************************************************)
EXTENDS SupplyTick, TLC

CONSTANTS p1, p2, p3, p4, c1, c2, x, y

MCItems == {p1, p2, p3, p4}
MCCreators == {c1, c2}
MCOwner == p1 :> c1 @@ p2 :> c1 @@ p3 :> c2 @@ p4 :> c2
MCCooldown == c1 :> 2 @@ c2 :> 1
MCCells == {x, y}
MCShares == x :> 1 @@ y :> 1
=============================================================================

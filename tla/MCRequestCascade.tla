--------------------------- MODULE MCRequestCascade ---------------------------
(***************************************************************************)
(* Six items: two new videos, two older posts of one creator, two ads;     *)
(* three routes of two places.                                             *)
(***************************************************************************)
EXTENDS RequestCascade

CONSTANTS c1, c2, v, w, a, b

MCItems == {c1, c2, v, w, a, b}
MCCreatorOf == c1 :> 1 @@ c2 :> 2 @@ v :> 3 @@ w :> 3 @@ a :> 4 @@ b :> 5
MCKindOf == c1 :> "video" @@ c2 :> "video" @@ v :> "video" @@ w :> "photo"
            @@ a :> "ad" @@ b :> "ad"
MCMerit == a :> 95 @@ b :> 90 @@ v :> 80 @@ w :> 70 @@ c1 :> 63 @@ c2 :> 50

MCRoutes == {"following", "cold_start", "ads_auction"}
MCContribution == <<22, 21>>

MCRouteRows ==
    [r \in MCRoutes |->
        CASE r = "following" ->
                {row \in [1..2 -> {v, w, c1}] : row[1] # row[2]}
                \cup {<<None, v>>, <<v, a>>, <<None, None>>}
          [] r = "cold_start" -> {<<c1, c2>>, <<c2, None>>, <<None, None>>}
          [] r = "ads_auction" -> {<<a, b>>, <<a, None>>, <<None, None>>}]

Even == [r \in MCRoutes |-> 1]
NoCold == [Even EXCEPT !["cold_start"] = 0]

\* The rankers without exploration, the canonical random policy on one route, a
\* mixture, and cold start with either fine ranker and with the weights of the
\* retrieval ladder.
MCPolicies ==
    {[routes |-> MCRoutes, weights |-> Even, coarse |-> 1, fine |-> 1,
      rate |-> 0, coldRate |-> 0],
     [routes |-> {"following"}, weights |-> Even, coarse |-> 0, fine |-> 0,
      rate |-> 2, coldRate |-> 0],
     [routes |-> MCRoutes, weights |-> Even, coarse |-> 0, fine |-> 1,
      rate |-> 1, coldRate |-> 0],
     [routes |-> MCRoutes, weights |-> Even, coarse |-> 1, fine |-> 0,
      rate |-> 0, coldRate |-> 1],
     [routes |-> MCRoutes, weights |-> Even, coarse |-> 0, fine |-> 1,
      rate |-> 0, coldRate |-> 1],
     [routes |-> MCRoutes, weights |-> NoCold, coarse |-> 0, fine |-> 0,
      rate |-> 0, coldRate |-> 1]}
=============================================================================

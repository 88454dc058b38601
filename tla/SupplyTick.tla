------------------------------ MODULE SupplyTick ------------------------------
(***************************************************************************)
(* The ticks of the kernel (engine.py) over the supply side: the entry     *)
(* batch of the world is committed and projected, slates of all cells are  *)
(* rendered from that one view, and the response to them is committed and  *)
(* projected.  Posts and ads share the tick.                               *)
(***************************************************************************)
EXTENDS Integers, Sequences, FiniteSets

CONSTANTS Items, Creators, Owner, Initial, Risky, Cooldown, Posts, PerTicks,
          DeleteAfter, ExitAfter, RefreshInterval,
          Advertisers, Cells, Shares, Whole, Bids, Budgets, MaxAds,
          PageSize,              \* bound: posts that draw feedback in a tick
          MaxIntents,            \* bound: users who want to post in a tick
          MaxTime                \* bound: ticks

VARIABLES now, phase,
          supply, catalog, index, shown,
          market, priced, sold

INSTANCE PostSupply
INSTANCE AdMarket

ASSUME SupplyAssumption ==
    /\ Owner \in [Items -> Creators]
    /\ Initial \subseteq Items
    /\ Risky \subseteq Items
    /\ Cooldown \in [Creators -> Nat \ {0}]
    /\ Posts \in Nat /\ PerTicks \in Nat \ {0}
    /\ {DeleteAfter, ExitAfter, RefreshInterval} \subseteq Nat \ {0}

ASSUME MarketAssumption ==
    /\ IsFiniteSet(Cells)
    /\ Shares \in [Cells -> Nat]
    /\ Whole \in Nat \ {0}
    /\ Bids \subseteq Nat \ {0}
    /\ Budgets \subseteq Nat
    /\ {PageSize, MaxIntents, MaxAds, MaxTime} \subseteq Nat

\* The cells divide the traffic.
ASSUME SharesAssumption == FoldFunction(LAMBDA x, y : x + y, 0, Shares) <= Whole

posts == <<supply, catalog, index>>
ads == <<market, priced, sold>>

vars == <<now, phase, posts, shown, ads>>

TypeOK ==
    /\ now \in Nat
    /\ phase \in {"entry", "serve", "respond"}
    /\ supply \in SupplyState
    /\ catalog \in CatalogState
    /\ index \in Index
    /\ shown \subseteq Items
    /\ market \in [Advertisers -> Accounts]
    /\ priced \in [Advertisers -> Accounts]
    /\ sold \in [Advertisers -> [Cells -> Nat]]

Init ==
    /\ now = 0
    /\ phase = "entry"
    /\ SupplyInit
    /\ shown = {}
    /\ MarketInit

-----------------------------------------------------------------------------
Entry ==
    /\ phase = "entry"
    /\ now < MaxTime
    /\ SupplyEntry
    /\ MarketEntry
    /\ phase' = "serve"
    /\ UNCHANGED <<now, index, shown>>

Serve ==
    /\ phase = "serve"
    /\ \E indexed \in BOOLEAN :
        /\ SupplyServe(indexed)
        /\ shown' \in {s \in SUBSET Retrieved(indexed) : Cardinality(s) <= PageSize}
    /\ MarketServe
    /\ phase' = "respond"
    /\ UNCHANGED now

Respond ==
    /\ phase = "respond"
    /\ \E n \in 0..MaxIntents : \E intents \in [1..n -> Creators] :
            SupplyRespond(intents, shown)
    /\ MarketRespond
    /\ phase' = "entry"
    /\ now' = now + 1
    /\ shown' = {}

Next == Entry \/ Serve \/ Respond

Spec == Init /\ [][Next]_vars

-----------------------------------------------------------------------------
(* Properties.                                                             *)

\* Between two ticks in which a creator publishes lies the pause, whoever
\* started the posts: the background or the users (creator_next_publish).
CooldownKept ==
    \A i, j \in Items \ Initial :
        /\ supply.published[i] # Never
        /\ supply.creator[i] = supply.creator[j]
        /\ supply.published[i] < supply.published[j]
        => supply.published[j] - supply.published[i] >= Cooldown[supply.creator[i]]

\* Users are only shown posts that are live in the world at that moment, however
\* old the index is, and the platform attributes them to who published them
\* (_filter_and_trim, AnnIndex.sync, ObservableProjection._supply).
ServesLive ==
    /\ phase = "respond" => shown \subseteq supply.active
    /\ catalog.active = supply.active
    /\ catalog.creator = supply.creator

\* Every ad is billed in full at the price it was sold for, although the cells
\* sell at the same time: the shares of the capacity never exceed the budget
\* (enforce_ad_budget, materialize_ad_spend and the audit of the ads launch).
FullyBilled ==
    phase = "respond" => \A a \in Advertisers : Total(a) = Count(a) * priced[a].bid
=============================================================================

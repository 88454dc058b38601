------------------------------- MODULE AdMarket -------------------------------
(***************************************************************************)
(* The ad market of a tick: the hidden budgets and bids of the advertisers *)
(* (world/supply.py), what the platform projects of them                   *)
(* (platform/projection.py), the allocation of ads to the cells of an      *)
(* experiment (platform/markets/ads.py) and the bill.                      *)
(*                                                                         *)
(* All cells of a tick are rendered from one projection, so no cell sees   *)
(* what another one sells.  Money is counted in units; a bid and a budget  *)
(* are whole numbers of them.                                              *)
(***************************************************************************)
EXTENDS Integers, FiniteSets, Functions

CONSTANTS Advertisers,
          Cells,
          Shares, Whole,         \* a cell gets Shares[c] of Whole of the traffic
          Bids, Budgets,         \* amounts in the instance
          MaxAds                 \* bound: ads of one advertiser a cell asks for

VARIABLES market,                \* hidden: budget and bid of an advertiser
          priced,                \* projected: the same
          sold                   \* ads per advertiser and cell in this tick

Accounts == [budget : Nat, bid : Nat]

MarketInit ==
    /\ market \in [Advertisers -> [budget : Budgets, bid : Bids]]
    /\ priced = [a \in Advertisers |-> [budget |-> 0, bid |-> 0]]
    /\ sold = [a \in Advertisers |-> [c \in Cells |-> 0]]

-----------------------------------------------------------------------------
(* The entry of a tick: every budget is announced, some bids are.          *)

WithBids(bids) ==
    [a \in Advertisers |-> IF a \in DOMAIN bids THEN [market[a] EXCEPT !.bid = bids[a]]
                           ELSE market[a]]

MarketEntry ==
    \E bidders \in SUBSET Advertisers : \E bids \in [bidders -> Bids] :
        /\ market' = WithBids(bids)
        /\ priced' = [a \in Advertisers |->
                        [budget |-> market[a].budget,
                         bid |-> IF a \in bidders THEN bids[a] ELSE priced[a].bid]]
        /\ UNCHANGED sold

-----------------------------------------------------------------------------
(* Serving.                                                                *)

Eligible(a) == priced[a].bid > 0 /\ priced[a].budget >= priced[a].bid

\* Seeded fault: every cell may sell all of the budget.
CapacityOfAll(a, c) == priced[a].budget \div priced[a].bid

\* floor of the share of floor(budget / bid).
Capacity(a, c) == ((priced[a].budget \div priced[a].bid) * Shares[c]) \div Whole

AtMostAds(wanted, capacity) == IF wanted < capacity THEN wanted ELSE capacity

\* What a slate holds too much of is filled with organic items.
MarketServe ==
    \E wanted \in [Advertisers -> [Cells -> 0..MaxAds]] :
        /\ \A a \in Advertisers : ~Eligible(a) => \A c \in Cells : wanted[a][c] = 0
        /\ sold' = [a \in Advertisers |-> [c \in Cells |->
                        IF Eligible(a) THEN AtMostAds(wanted[a][c], Capacity(a, c)) ELSE 0]]
        /\ UNCHANGED <<market, priced>>

-----------------------------------------------------------------------------
(* The bill: the bid for every impression, or an equal part of what is     *)
(* left of the budget.                                                     *)

Count(a) == FoldFunction(LAMBDA x, y : x + y, 0, sold[a])

Total(a) ==
    LET full == Count(a) * market[a].bid
    IN IF full <= market[a].budget THEN full ELSE market[a].budget

Left(budget, spent) == IF spent < budget THEN budget - spent ELSE 0

Spent(accounts) ==
    [a \in Advertisers |-> [accounts[a] EXCEPT !.budget = Left(@, Total(a))]]

MarketRespond ==
    /\ market' = Spent(market)
    /\ priced' = Spent(priced)
    /\ sold' = [a \in Advertisers |-> [c \in Cells |-> 0]]
=============================================================================

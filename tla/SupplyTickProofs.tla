--------------------------- MODULE SupplyTickProofs ---------------------------
(***************************************************************************)
(* Theorems about the supply side of a tick, for any items, creators,      *)
(* advertisers, cells and prices: users are shown posts that are live,     *)
(* creators keep their pause, and every ad is billed in full.              *)
(***************************************************************************)
EXTENDS SupplyTick, FiniteSetTheorems, WellFoundedInduction, TLAPS

-----------------------------------------------------------------------------
(* The inductive invariant.                                                *)

\* The catalog follows the world, and what is shown was live when rendered.
CatalogFollows ==
    /\ catalog.active = supply.active
    /\ catalog.creator = supply.creator
    /\ phase = "respond" => shown \subseteq supply.active

\* Nothing was published in the future, and whoever published pauses from then.
PausesRecorded ==
    \A i \in Items :
        /\ supply.published[i] <= now
        /\ i \in Initial => supply.published[i] # Never
        /\ i \notin Initial /\ supply.published[i] # Never =>
               supply.published[i] + Cooldown[supply.creator[i]]
                   <= supply.next[supply.creator[i]]

\* From the entry of a tick on, the platform knows the budgets of the world, and
\* always the bids that were announced.
PricesFollow ==
    \A a \in Advertisers :
        /\ priced[a].bid = 0 \/ priced[a].bid = market[a].bid
        /\ phase # "entry" => priced[a].budget = market[a].budget

\* No cell sells more than its share.
SoldWithin ==
    phase = "respond" =>
        \A a \in Advertisers, c \in Cells :
            IF Eligible(a) THEN sold[a][c] <= Capacity(a, c) ELSE sold[a][c] = 0

IInv == /\ TypeOK
        /\ CatalogFollows
        /\ PausesRecorded
        /\ CooldownKept
        /\ PricesFollow
        /\ SoldWithin

-----------------------------------------------------------------------------
(* Sums over the cells.                                                    *)

Pick(s) == CHOOSE x \in s : TRUE

\* iter is the recursion of a sum of f over the subsets of S.
IsSum(iter, f, S) ==
    iter = [s \in SUBSET S |-> IF s = {} THEN 0
                               ELSE f[Pick(s)] + iter[s \ {Pick(s)}]]

SumOf(f) == FoldFunction(LAMBDA x, y : x + y, 0, f)

\* A set of naturals has a least element.
LEMMA LeastNat ==
    ASSUME NEW T, T \subseteq Nat, T # {}
    PROVE  \E n \in T : \A m \in T : n <= m
  <1> DEFINE R == {p \in Nat \X Nat : p[1] < p[2]}
  <1>1. IsWellFoundedOn(R, Nat)
    BY NatLessThanWellFounded DEF OpToRel
  <1> HIDE DEF R
  <1>2. PICK n \in T : \A m \in T : ~ (<<m, n>> \in R)
    BY <1>1, WFMin
  <1>3. \A m \in T : ~ (m < n)
    BY <1>2 DEF R
  <1> QED  BY <1>3

\* What is left of a finite set without the picked element is smaller by one.
LEMMA PickFacts ==
    ASSUME NEW S, IsFiniteSet(S), NEW s \in SUBSET S, s # {}
    PROVE  /\ Pick(s) \in s /\ Pick(s) \in S
           /\ s \ {Pick(s)} \in SUBSET S
           /\ Cardinality(s) \in Nat \ {0}
           /\ Cardinality(s \ {Pick(s)}) = Cardinality(s) - 1
  <1>1. Pick(s) \in s
    BY DEF Pick
  <1>2. IsFiniteSet(s)
    BY FS_Subset
  <1>3. Cardinality(s) \in Nat /\ Cardinality(s) # 0
    BY <1>2, FS_CardinalityType, FS_EmptySet
  <1>4. Cardinality(s \ {Pick(s)}) = Cardinality(s) - 1
    BY <1>1, <1>2, FS_RemoveElement
  <1> QED  BY <1>1, <1>3, <1>4

\* The recursion of the fold has a solution on the subsets of a finite set: a
\* solution up to one size extends to the next.
LEMMA SumExists ==
    ASSUME NEW f, NEW S, IsFiniteSet(S)
    PROVE  \E iter : IsSum(iter, f, S)
  <1> DEFINE Upto(n) == {s \in SUBSET S : Cardinality(s) <= n}
             Step(g, s) == IF s = {} THEN 0 ELSE f[Pick(s)] + g[s \ {Pick(s)}]
             Fits(g, n) == \A s \in Upto(n) : g[s] = Step(g, s)
             Bad == {n \in Nat : ~ \E g : Fits(g, n)}
  <1>1. \A s \in SUBSET S : Cardinality(s) \in Nat
    BY FS_Subset, FS_CardinalityType
  <1>2. Bad = {}
    <2> SUFFICES ASSUME Bad # {} PROVE FALSE
      OBVIOUS
    <2>1. PICK n \in Bad : \A m \in Bad : n <= m
      <3>1. Bad \subseteq Nat
        OBVIOUS
      <3> HIDE DEF Bad
      <3> QED  BY <3>1, LeastNat
    <2>2. n \in Nat /\ ~ \E g : Fits(g, n)
      OBVIOUS
    <2>3. CASE n = 0
      <3> DEFINE g == [s \in SUBSET S |-> 0]
      <3>1. \A s \in Upto(0) : s = {}
        <4> SUFFICES ASSUME NEW s \in SUBSET S, Cardinality(s) <= 0, s # {}
                     PROVE  FALSE
          OBVIOUS
        <4>1. Cardinality(s) \in Nat \ {0}
          BY PickFacts
        <4> QED  BY <4>1
      <3>2. Fits(g, 0)
        BY <3>1
      <3> QED  BY <2>2, <2>3, <3>2
    <2>4. CASE n # 0
      <3>1. n - 1 \in Nat /\ n - 1 \notin Bad
        <4> HIDE DEF Bad
        <4> QED  BY <2>1, <2>2, <2>4
      <3>2. PICK h : Fits(h, n - 1)
        BY <3>1
      <3> DEFINE g == [s \in SUBSET S |-> Step(h, s)]
      <3>3. \A s \in Upto(n - 1) : g[s] = h[s]
        BY <3>2
      <3>4. \A s \in Upto(n) : s # {} => s \ {Pick(s)} \in Upto(n - 1)
        <4> SUFFICES ASSUME NEW s \in Upto(n), s # {}
                     PROVE  s \ {Pick(s)} \in Upto(n - 1)
          OBVIOUS
        <4>1. Cardinality(s) \in Nat \ {0} /\ Cardinality(s \ {Pick(s)}) = Cardinality(s) - 1
          BY PickFacts
        <4>2. Cardinality(s) <= n
          OBVIOUS
        <4>3. Cardinality(s \ {Pick(s)}) <= n - 1
          BY <2>2, <4>1, <4>2
        <4> QED  BY <4>3
      <3>5. \A s \in Upto(n) : s # {} => g[s \ {Pick(s)}] = h[s \ {Pick(s)}]
        <4> HIDE DEF g, Upto
        <4> QED  BY <3>3, <3>4
      <3>6. Fits(g, n)
        BY <3>5
      <3> QED  BY <2>2, <3>6
    <2> QED  BY <2>3, <2>4
  <1>3. Cardinality(S) \in Nat
    BY <1>1
  <1>4. PICK g : Fits(g, Cardinality(S))
    BY <1>2, <1>3
  <1>5. \A s \in SUBSET S : Cardinality(s) <= Cardinality(S)
    BY FS_Subset
  <1> DEFINE iter == [s \in SUBSET S |-> g[s]]
  <1>6. \A s \in SUBSET S : s # {} => s \ {Pick(s)} \in SUBSET S
    OBVIOUS
  <1>7. \A s \in SUBSET S : iter[s] = Step(iter, s)
    BY <1>4, <1>5, <1>6
  <1>8. iter = [s \in SUBSET S |-> Step(iter, s)]
    <2> HIDE DEF Step
    <2>1. iter = [s \in SUBSET S |-> iter[s]]
      OBVIOUS
    <2> QED  BY <1>7, <2>1
  <1>9. IsSum(iter, f, S)
    BY <1>8 DEF IsSum
  <1> QED  BY <1>9

\* The fold is that recursion.
LEMMA SumDef ==
    ASSUME NEW f, IsFiniteSet(DOMAIN f)
    PROVE  \E iter : IsSum(iter, f, DOMAIN f) /\ SumOf(f) = iter[DOMAIN f]
  <1> DEFINE g == CHOOSE iter : IsSum(iter, f, DOMAIN f)
  <1>1. IsSum(g, f, DOMAIN f)
    BY SumExists
  <1>2. SumOf(f) = g[DOMAIN f]
    BY DEF SumOf, FoldFunction, FoldFunctionOnSet, MapThenFoldSet, IsSum, Pick
  <1> QED  BY <1>1, <1>2

\* Of some subsets of a finite set a smallest one has no predecessor among them.
LEMMA SmallestSubset ==
    ASSUME NEW S, IsFiniteSet(S), NEW T, T \subseteq SUBSET S, T # {}
    PROVE  \E s \in T : s = {} \/ s \ {Pick(s)} \notin T
  <1> DEFINE Sizes == {Cardinality(s) : s \in T}
  <1>1. \A s \in T : Cardinality(s) \in Nat
    BY FS_Subset, FS_CardinalityType
  <1>2. PICK n \in Sizes : \A m \in Sizes : n <= m
    <2>1. Sizes \subseteq Nat /\ Sizes # {}
      BY <1>1
    <2> HIDE DEF Sizes
    <2> QED  BY <2>1, LeastNat
  <1>3. PICK s \in T : n = Cardinality(s)
    OBVIOUS
  <1>4. \A r \in T : Cardinality(s) <= Cardinality(r)
    BY <1>2, <1>3
  <1>5. ASSUME s # {}
        PROVE  s \ {Pick(s)} \notin T
    <2>1. Cardinality(s) \in Nat /\ Cardinality(s \ {Pick(s)}) = Cardinality(s) - 1
      BY <1>5, PickFacts
    <2> QED  BY <1>4, <2>1
  <1> QED  BY <1>5

\* Sums compare as their terms do, also when scaled.
LEMMA SumScaled ==
    ASSUME NEW S, IsFiniteSet(S), NEW f \in [S -> Nat], NEW h \in [S -> Nat],
           NEW w \in Nat, NEW k \in Nat, \A c \in S : w * f[c] <= k * h[c]
    PROVE  SumOf(f) \in Nat /\ SumOf(h) \in Nat /\ w * SumOf(f) <= k * SumOf(h)
  <1>1. PICK F : IsSum(F, f, S) /\ SumOf(f) = F[S]
    BY SumDef
  <1>2. PICK H : IsSum(H, h, S) /\ SumOf(h) = H[S]
    BY SumDef
  <1> DEFINE Good(s) == F[s] \in Nat /\ H[s] \in Nat /\ w * F[s] <= k * H[s]
             Bad == {s \in SUBSET S : ~ Good(s)}
  <1>3. F[{}] = 0 /\ H[{}] = 0
    BY <1>1, <1>2 DEF IsSum
  <1>4. Good({})
    BY <1>3
  <1>5. ASSUME NEW s \in SUBSET S, s # {}, Good(s \ {Pick(s)})
        PROVE  Good(s)
    <2> DEFINE r == s \ {Pick(s)}
               x == f[Pick(s)]
               y == h[Pick(s)]
    <2>1. F[s] = x + F[r] /\ H[s] = y + H[r]
      BY <1>1, <1>2, <1>5 DEF IsSum
    <2>2. Pick(s) \in S
      BY <1>5, PickFacts
    <2>3. x \in Nat /\ y \in Nat /\ w * x <= k * y
      BY <2>2
    <2>4. F[r] \in Nat /\ H[r] \in Nat /\ w * F[r] <= k * H[r]
      BY <1>5
    <2> HIDE DEF r, x, y
    <2>5. w * (x + F[r]) = w * x + w * F[r] /\ k * (y + H[r]) = k * y + k * H[r]
      BY <2>3, <2>4
    <2>6. w * x \in Nat /\ w * F[r] \in Nat /\ k * y \in Nat /\ k * H[r] \in Nat
      BY <2>3, <2>4
    <2>7. w * x + w * F[r] <= k * y + k * H[r]
      BY <2>3, <2>4, <2>6
    <2> QED  BY <2>1, <2>3, <2>4, <2>5, <2>7
  <1> HIDE DEF Good
  <1>6. Bad = {}
    <2> SUFFICES ASSUME Bad # {} PROVE FALSE
      OBVIOUS
    <2>1. Bad \subseteq SUBSET S
      OBVIOUS
    <2>2. PICK s \in Bad : s = {} \/ s \ {Pick(s)} \notin Bad
      <3> HIDE DEF Bad
      <3> QED  BY <2>1, SmallestSubset
    <2> QED  BY <1>4, <1>5, <2>2
  <1>7. Good(S)
    BY <1>6
  <1> QED  BY <1>1, <1>2, <1>7 DEF Good

-----------------------------------------------------------------------------
(* The market.                                                             *)

MarketTyped == /\ market \in [Advertisers -> Accounts]
               /\ priced \in [Advertisers -> Accounts]
               /\ sold \in [Advertisers -> [Cells -> Nat]]

LEMMA AccountFacts ==
    ASSUME MarketTyped, NEW a \in Advertisers
    PROVE  /\ market[a] \in Accounts /\ priced[a] \in Accounts
           /\ market[a].budget \in Nat /\ market[a].bid \in Nat
           /\ priced[a].budget \in Nat /\ priced[a].bid \in Nat
           /\ sold[a] \in [Cells -> Nat]
  BY DEF MarketTyped, Accounts

LEMMA CountTyped ==
    ASSUME MarketTyped, NEW a \in Advertisers
    PROVE  Count(a) \in Nat /\ Total(a) \in Nat
  <1>1. sold[a] \in [Cells -> Nat] /\ IsFiniteSet(Cells)
    BY AccountFacts, MarketAssumption
  <1>2. SumOf(sold[a]) \in Nat
    BY <1>1, SumScaled
  <1>3. Count(a) = SumOf(sold[a])
    BY DEF Count, SumOf
  <1>4. Count(a) * market[a].bid \in Nat
    BY <1>2, <1>3, AccountFacts
  <1> QED  BY <1>2, <1>3, <1>4, AccountFacts DEF Total

\* The shares of a whole number do not exceed it.
LEMMA WholeBounds ==
    ASSUME NEW k \in Nat, NEW n \in Nat, NEW s \in Nat, s <= Whole,
           Whole * n <= k * s
    PROVE  n <= k
  <1>1. Whole \in Nat \ {0}
    BY MarketAssumption
  <1>2. k * s <= k * Whole
    BY <1>1
  <1>3. k * Whole = Whole * k /\ Whole * n \in Nat /\ k * s \in Nat /\ Whole * k \in Nat
    BY <1>1
  <1>4. Whole * n <= Whole * k
    BY <1>2, <1>3
  <1>5. n > k => Whole * n >= Whole * k + Whole
    <2> SUFFICES ASSUME n > k PROVE Whole * n >= Whole * k + Whole
      OBVIOUS
    <2> DEFINE d == n - k - 1
    <2>1. d \in Nat /\ n = k + 1 + d
      OBVIOUS
    <2> HIDE DEF d
    <2>2. Whole * n = Whole * k + Whole + Whole * d
      BY <1>1, <2>1
    <2>3. Whole * d \in Nat
      BY <1>1, <2>1
    <2> QED  BY <1>1, <1>3, <2>2, <2>3
  <1> QED  BY <1>1, <1>3, <1>4, <1>5

\* What the cells sell together fits the budget.
LEMMA CountBounded ==
    ASSUME MarketTyped, NEW a \in Advertisers, Eligible(a),
           \A c \in Cells : sold[a][c] <= Capacity(a, c)
    PROVE  Count(a) * priced[a].bid <= priced[a].budget
  <1> DEFINE k == priced[a].budget \div priced[a].bid
  <1>1. /\ priced[a].budget \in Nat /\ priced[a].bid \in Nat \ {0}
        /\ sold[a] \in [Cells -> Nat]
    BY AccountFacts DEF Eligible
  <1>2. k \in Nat /\ k * priced[a].bid <= priced[a].budget
    BY <1>1
  <1>3. /\ Shares \in [Cells -> Nat] /\ IsFiniteSet(Cells)
        /\ Whole \in Nat \ {0} /\ SumOf(Shares) <= Whole
    BY MarketAssumption, SharesAssumption DEF SumOf
  <1>4. \A c \in Cells : sold[a][c] <= (k * Shares[c]) \div Whole
    BY DEF Capacity
  <1> HIDE DEF k
  <1>5. \A c \in Cells : Whole * sold[a][c] <= k * Shares[c]
    <2> SUFFICES ASSUME NEW c \in Cells PROVE Whole * sold[a][c] <= k * Shares[c]
      OBVIOUS
    <2> DEFINE y == k * Shares[c]
               q == y \div Whole
               x == sold[a][c]
    <2>1. y \in Nat /\ x \in Nat /\ x <= q
      BY <1>1, <1>2, <1>3, <1>4
    <2> HIDE DEF x, y
    <2>2. q \in Nat /\ Whole * q <= y
      BY <1>3, <2>1
    <2> HIDE DEF q
    <2>3. Whole * x <= Whole * q
      BY <1>3, <2>1, <2>2
    <2>4. Whole * x \in Nat /\ Whole * q \in Nat
      BY <1>3, <2>1, <2>2
    <2>5. Whole * x <= y
      BY <2>1, <2>2, <2>3, <2>4
    <2> QED  BY <2>5 DEF x, y
  <1>6. /\ SumOf(sold[a]) \in Nat /\ SumOf(Shares) \in Nat
        /\ Whole * SumOf(sold[a]) <= k * SumOf(Shares)
    BY <1>1, <1>2, <1>3, <1>5, SumScaled
  <1>7. SumOf(sold[a]) <= k
    BY <1>2, <1>3, <1>6, WholeBounds
  <1>8. Count(a) = SumOf(sold[a])
    BY DEF Count, SumOf
  <1>9. Count(a) * priced[a].bid <= k * priced[a].bid
    BY <1>1, <1>2, <1>6, <1>7, <1>8
  <1>10. Count(a) * priced[a].bid \in Nat /\ k * priced[a].bid \in Nat
    BY <1>1, <1>2, <1>6, <1>8
  <1> QED  BY <1>1, <1>2, <1>9, <1>10

\* An advertiser that is not eligible sells nothing.
LEMMA CountZero ==
    ASSUME MarketTyped, NEW a \in Advertisers, \A c \in Cells : sold[a][c] = 0
    PROVE  Count(a) = 0
  <1>1. sold[a] \in [Cells -> Nat] /\ IsFiniteSet(Cells)
    BY AccountFacts, MarketAssumption
  <1>2. SumOf(sold[a]) \in Nat /\ 1 * SumOf(sold[a]) <= 0 * SumOf(sold[a])
    BY <1>1, SumScaled
  <1>3. Count(a) = SumOf(sold[a])
    BY DEF Count, SumOf
  <1> QED  BY <1>2, <1>3

LEMMA MarketEntryKeeps ==
    ASSUME IInv, MarketEntry
    PROVE  /\ MarketTyped'
           /\ \A a \in Advertisers :
                  /\ priced'[a].bid = 0 \/ priced'[a].bid = market'[a].bid
                  /\ priced'[a].budget = market'[a].budget
  <1>1. MarketTyped
    BY DEF IInv, TypeOK, MarketTyped
  <1>a. PICK bidders \in SUBSET Advertisers : \E bids \in [bidders -> Bids] :
            /\ market' = WithBids(bids)
            /\ priced' = [a \in Advertisers |->
                            [budget |-> market[a].budget,
                             bid |-> IF a \in bidders THEN bids[a] ELSE priced[a].bid]]
            /\ sold' = sold
    BY DEF MarketEntry
  <1>2. PICK bids \in [bidders -> Bids] :
            /\ market' = WithBids(bids)
            /\ priced' = [a \in Advertisers |->
                            [budget |-> market[a].budget,
                             bid |-> IF a \in bidders THEN bids[a] ELSE priced[a].bid]]
            /\ sold' = sold
    BY <1>a
  <1>3. \A a \in bidders : bids[a] \in Nat
    BY MarketAssumption
  <1>4. \A a \in Advertisers :
            /\ market'[a] = IF a \in bidders THEN [market[a] EXCEPT !.bid = bids[a]]
                                             ELSE market[a]
            /\ priced'[a] = [budget |-> market[a].budget,
                             bid |-> IF a \in bidders THEN bids[a] ELSE priced[a].bid]
    BY <1>2 DEF WithBids
  <1>5. \A a \in Advertisers :
            /\ market'[a] \in Accounts /\ priced'[a] \in Accounts
            /\ priced'[a].bid = 0 \/ priced'[a].bid = market'[a].bid
            /\ priced'[a].budget = market'[a].budget
    <2> SUFFICES ASSUME NEW a \in Advertisers
                 PROVE  /\ market'[a] \in Accounts /\ priced'[a] \in Accounts
                        /\ priced'[a].bid = 0 \/ priced'[a].bid = market'[a].bid
                        /\ priced'[a].budget = market'[a].budget
      OBVIOUS
    <2>1. /\ market[a] \in Accounts
          /\ priced[a].bid \in Nat /\ market[a].budget \in Nat
          /\ priced[a].bid = 0 \/ priced[a].bid = market[a].bid
      BY <1>1, AccountFacts DEF IInv, PricesFollow
    <2>2. CASE a \in bidders
      <3>1. /\ market'[a] = [market[a] EXCEPT !.bid = bids[a]]
            /\ priced'[a] = [budget |-> market[a].budget, bid |-> bids[a]]
            /\ bids[a] \in Nat
        BY <1>3, <1>4, <2>2
      <3>2. market'[a] = [budget |-> market[a].budget, bid |-> bids[a]]
        BY <2>1, <3>1 DEF Accounts
      <3> QED  BY <2>1, <3>1, <3>2 DEF Accounts
    <2>3. CASE a \notin bidders
      <3>1. /\ market'[a] = market[a]
            /\ priced'[a] = [budget |-> market[a].budget, bid |-> priced[a].bid]
        BY <1>4, <2>3
      <3> QED  BY <2>1, <3>1 DEF Accounts
    <2> QED  BY <2>2, <2>3
  <1>6. market' = [a \in Advertisers |-> market'[a]] /\ priced' = [a \in Advertisers |-> priced'[a]]
    BY <1>2 DEF WithBids
  <1>7. MarketTyped'
    BY <1>1, <1>2, <1>5, <1>6 DEF MarketTyped
  <1> QED  BY <1>5, <1>7

LEMMA MarketServeKeeps ==
    ASSUME IInv, MarketServe
    PROVE  /\ MarketTyped' /\ market' = market /\ priced' = priced
           /\ \A a \in Advertisers, c \in Cells :
                  IF Eligible(a)' THEN sold'[a][c] <= Capacity(a, c)' ELSE sold'[a][c] = 0
  <1>1. MarketTyped
    BY DEF IInv, TypeOK, MarketTyped
  <1>2. PICK wanted \in [Advertisers -> [Cells -> 0..MaxAds]] :
            /\ sold' = [a \in Advertisers |-> [c \in Cells |->
                          IF Eligible(a) THEN AtMostAds(wanted[a][c], Capacity(a, c)) ELSE 0]]
            /\ market' = market /\ priced' = priced
    BY DEF MarketServe
  <1>3. \A a \in Advertisers, c \in Cells : Eligible(a) => Capacity(a, c) \in Nat
    <2> SUFFICES ASSUME NEW a \in Advertisers, NEW c \in Cells, Eligible(a)
                 PROVE  Capacity(a, c) \in Nat
      OBVIOUS
    <2> DEFINE k == priced[a].budget \div priced[a].bid
    <2>1. priced[a].budget \in Nat /\ priced[a].bid \in Nat \ {0}
      BY <1>1, AccountFacts DEF Eligible
    <2>2. k \in Nat
      BY <2>1
    <2>3. Shares[c] \in Nat /\ Whole \in Nat \ {0}
      BY MarketAssumption
    <2>4. Capacity(a, c) = (k * Shares[c]) \div Whole
      BY DEF Capacity
    <2> HIDE DEF k
    <2>5. k * Shares[c] \in Nat
      BY <2>2, <2>3
    <2> QED  BY <2>3, <2>4, <2>5
  <1>4. \A a \in Advertisers, c \in Cells : wanted[a][c] \in Nat
    BY MarketAssumption
  <1>5. \A a \in Advertisers, c \in Cells :
            /\ sold'[a][c] \in Nat
            /\ IF Eligible(a) THEN sold'[a][c] <= Capacity(a, c) ELSE sold'[a][c] = 0
    BY <1>2, <1>3, <1>4 DEF AtMostAds
  <1>6. sold' = [a \in Advertisers |-> [c \in Cells |-> sold'[a][c]]]
    BY <1>2
  <1>7. sold' \in [Advertisers -> [Cells -> Nat]]
    BY <1>5, <1>6
  <1>8. \A a \in Advertisers, c \in Cells :
            (Eligible(a)' <=> Eligible(a)) /\ Capacity(a, c)' = Capacity(a, c)
    BY <1>2 DEF Eligible, Capacity
  <1> QED  BY <1>1, <1>2, <1>5, <1>7, <1>8 DEF MarketTyped

LEMMA MarketRespondKeeps ==
    ASSUME IInv, MarketRespond
    PROVE  /\ MarketTyped'
           /\ \A a \in Advertisers : priced'[a].bid = 0 \/ priced'[a].bid = market'[a].bid
  <1>1. MarketTyped
    BY DEF IInv, TypeOK, MarketTyped
  <1>2. /\ market' = [a \in Advertisers |-> [market[a] EXCEPT !.budget = Left(@, Total(a))]]
        /\ priced' = [a \in Advertisers |-> [priced[a] EXCEPT !.budget = Left(@, Total(a))]]
        /\ sold' = [a \in Advertisers |-> [c \in Cells |-> 0]]
    BY DEF MarketRespond, Spent
  <1>3. ASSUME NEW a \in Advertisers
        PROVE  /\ market'[a] \in Accounts /\ priced'[a] \in Accounts
               /\ priced'[a].bid = 0 \/ priced'[a].bid = market'[a].bid
    <2>1. Total(a) \in Nat
      BY <1>1, CountTyped
    <2>2. Left(market[a].budget, Total(a)) \in Nat /\ Left(priced[a].budget, Total(a)) \in Nat
      BY <1>1, <2>1, AccountFacts DEF Left
    <2>3. priced[a].bid = 0 \/ priced[a].bid = market[a].bid
      BY DEF IInv, PricesFollow
    <2>4. market[a] \in Accounts /\ priced[a] \in Accounts
      BY <1>1, AccountFacts
    <2> QED  BY <1>2, <2>2, <2>3, <2>4 DEF Accounts
  <1>4. MarketTyped'
    BY <1>2, <1>3 DEF MarketTyped
  <1> QED  BY <1>3, <1>4

-----------------------------------------------------------------------------
(* The posts.                                                              *)

SupplyTyped == /\ supply \in SupplyState
               /\ catalog \in CatalogState
               /\ index \in Index

LEMMA SupplyFacts ==
    ASSUME SupplyTyped
    PROVE  /\ supply.active \subseteq Items
           /\ supply.creator \in [Items -> Creators]
           /\ supply.published \in [Items -> Nat \cup {Never}]
           /\ supply.next \in [Creators -> Nat]
           /\ supply.touched \in [Creators -> Int]
           /\ supply.retained \subseteq Creators
           /\ catalog.active \subseteq Items
           /\ catalog.creator \in [Items -> Creators]
           /\ catalog.published \in [Items -> Nat \cup {Never}]
           /\ index.items \subseteq Items /\ index.time \in Int
  BY DEF SupplyTyped, SupplyState, CatalogState, Index

\* What comes out of the background: posts of the reserve whose creators may
\* publish.
LEMMA BackgroundFacts ==
    ASSUME NEW items \in BackgroundPosts
    PROVE  items \subseteq Reserve /\ \A i \in items : MayPublish(i)
  <1> DEFINE eligible == {i \in Reserve : MayPublish(i)}
  <1>1. PICK pool \in SUBSET eligible : items \in SUBSET pool
    BY DEF BackgroundPosts, kSubset
  <1> QED  BY <1>1

\* What the users post: items of the reserve, for creators that may publish.
LEMMA AllocationFacts ==
    ASSUME NEW n \in Nat, NEW intents \in [1..n -> Creators], NEW a \in Allocations(intents)
    PROVE  /\ {a[k] : k \in DOMAIN a} \subseteq Reserve
           /\ \A i \in {a[k] : k \in DOMAIN a} :
                  LET c == intents[CHOOSE k \in DOMAIN a : a[k] = i]
                  IN c \in Creators /\ Ready(c)
  <1> DEFINE ready == {k \in DOMAIN intents : Ready(intents[k])}
  <1>1. PICK served \in SUBSET ready : a \in [served -> Free]
    BY DEF Allocations, kSubset
  <1>2. {a[k] : k \in DOMAIN a} \subseteq Reserve
    BY <1>1 DEF Free
  <1>3. ASSUME NEW i \in {a[k] : k \in DOMAIN a}
        PROVE  LET c == intents[CHOOSE k \in DOMAIN a : a[k] = i]
               IN c \in Creators /\ Ready(c)
    <2>1. (CHOOSE k \in DOMAIN a : a[k] = i) \in DOMAIN a
      BY <1>3
    <2> DEFINE k == CHOOSE k \in DOMAIN a : a[k] = i
    <2>2. k \in ready
      BY <1>1, <2>1
    <2> HIDE DEF k
    <2>3. intents[k] \in Creators /\ Ready(intents[k])
      BY <2>2
    <2> QED  BY <2>3 DEF k
  <1> QED  BY <1>2, <1>3

\* When the creators may publish again once items are published.
Paused(items, by) == [c \in Creators |-> IF c \in Publishers(items, by)
                                         THEN now + Cooldown[c] ELSE supply.next[c]]

\* Posts of the reserve, published now by creators that are not pausing, keep
\* the pauses of all creators.
LEMMA PublishingKeeps ==
    ASSUME IInv, SupplyTyped', NEW items \in SUBSET Items, NEW by,
           items \subseteq Reserve,
           \A i \in items : by[i] \in Creators /\ supply.next[by[i]] <= now,
           supply'.creator = Assigned(supply.creator, items, by),
           supply'.published = Stamped(supply.published, items),
           supply'.next = Paused(items, by),
           now' \in Nat, now' >= now
    PROVE  PausesRecorded' /\ CooldownKept'
  <1>1. /\ supply.creator \in [Items -> Creators]
        /\ supply.published \in [Items -> Nat \cup {-1}]
        /\ supply.next \in [Creators -> Nat]
        /\ now \in Nat
    BY SupplyFacts DEF IInv, TypeOK, SupplyTyped, Never
  <1>2. Cooldown \in [Creators -> Nat \ {0}] /\ Initial \subseteq Items
    BY SupplyAssumption
  <1>3. \A i \in Items :
            /\ i \in items => supply'.creator[i] = by[i] /\ supply'.published[i] = now
            /\ i \notin items => /\ supply'.creator[i] = supply.creator[i]
                                 /\ supply'.published[i] = supply.published[i]
    BY DEF Assigned, Stamped
  <1>4. \A i \in items : supply.published[i] = -1 /\ i \notin Initial
    BY DEF Reserve, IInv, PausesRecorded, Never
  <1>5. \A c \in Creators :
            supply'.next[c] = IF c \in Publishers(items, by)
                              THEN now + Cooldown[c] ELSE supply.next[c]
    BY DEF Paused
  <1>6. \A i \in Items : supply.published[i] <= now
    BY DEF IInv, PausesRecorded
  <1>7. \A i \in Items \ Initial : supply.published[i] # -1 =>
            supply.published[i] + Cooldown[supply.creator[i]]
                <= supply.next[supply.creator[i]]
    BY DEF IInv, PausesRecorded, Never
  <1>8. \A c \in Publishers(items, by) : c \in Creators /\ supply.next[c] <= now
    BY DEF Publishers
  <1>9. PausesRecorded'
    <2> SUFFICES ASSUME NEW i \in Items
                 PROVE  /\ supply'.published[i] <= now'
                        /\ i \in Initial => supply'.published[i] # -1
                        /\ i \notin Initial /\ supply'.published[i] # -1 =>
                               supply'.published[i] + Cooldown[supply'.creator[i]]
                                   <= supply'.next[supply'.creator[i]]
      BY DEF PausesRecorded, Never
    <2>1. CASE i \in items
      <3>1. by[i] \in Publishers(items, by)
        BY <2>1 DEF Publishers
      <3>2. supply'.next[by[i]] = now + Cooldown[by[i]] /\ Cooldown[by[i]] \in Nat
        BY <1>2, <1>5, <1>8, <3>1
      <3> QED  BY <1>1, <1>3, <1>4, <2>1, <3>2
    <2>2. CASE i \notin items
      <3> DEFINE c == supply.creator[i]
      <3>1. c \in Creators /\ Cooldown[c] \in Nat /\ supply.next[c] \in Nat
        BY <1>1, <1>2
      <3>2. supply.published[i] \in Int /\ supply.published[i] <= now
        BY <1>1, <1>6
      <3>3. supply'.creator[i] = c /\ supply'.published[i] = supply.published[i]
        BY <1>3, <2>2
      <3>4. supply'.next[c] >= supply.next[c] /\ supply'.next[c] \in Int
        BY <1>1, <1>5, <1>8, <3>1
      <3>5. i \notin Initial /\ supply.published[i] # -1 =>
                supply.published[i] + Cooldown[c] <= supply.next[c]
        BY <1>7
      <3>6. i \in Initial => supply.published[i] # -1
        BY DEF IInv, PausesRecorded, Never
      <3> HIDE DEF c
      <3> QED  BY <1>1, <3>1, <3>2, <3>3, <3>4, <3>5, <3>6
    <2> QED  BY <2>1, <2>2
  <1>10. CooldownKept'
    <2> SUFFICES ASSUME NEW i \in Items \ Initial, NEW j \in Items \ Initial,
                        supply'.published[i] # -1,
                        supply'.creator[i] = supply'.creator[j],
                        supply'.published[i] < supply'.published[j]
                 PROVE  supply'.published[j] - supply'.published[i]
                            >= Cooldown[supply'.creator[i]]
      BY DEF CooldownKept, Never
    <2>1. i \notin items
      BY <1>1, <1>3, <1>6
    <2>2. CASE j \in items
      <3> DEFINE c == by[j]
      <3>1. c \in Creators /\ supply.next[c] <= now
        BY <2>2
      <3>2. supply.creator[i] = c /\ supply'.creator[i] = c
        BY <1>3, <2>1, <2>2
      <3>3. supply.published[i] + Cooldown[c] <= supply.next[c]
        BY <1>3, <1>7, <2>1, <3>2
      <3>4. Cooldown[c] \in Nat /\ supply.next[c] \in Nat /\ supply.published[i] \in Int
        BY <1>1, <1>2, <3>1
      <3>5. supply'.published[j] = now /\ supply'.published[i] = supply.published[i]
        BY <1>3, <2>1, <2>2
      <3> HIDE DEF c
      <3> QED  BY <1>1, <3>1, <3>2, <3>3, <3>4, <3>5
    <2>3. CASE j \notin items
      BY <1>3, <2>1, <2>3 DEF IInv, CooldownKept, Never
    <2> QED  BY <2>2, <2>3
  <1> QED  BY <1>9, <1>10

\* What a batch of posts leaves in the world, and its projection in the catalog.
Batch(s, c, items, by, removed) ==
    /\ s \in SupplyState /\ c \in CatalogState
    /\ s.active = supply.active \cup items
    /\ s.retained = supply.retained
    /\ s.creator = Assigned(supply.creator, items, by)
    /\ s.published = Stamped(supply.published, items)
    /\ s.next = Paused(items, by)
    /\ c.active = s.active \ removed
    /\ c.creator = s.creator

LEMMA BatchTyped ==
    ASSUME IInv, NEW items \in SUBSET Items, NEW D, NEW by \in [D -> Creators],
           items \subseteq D, NEW removed
    PROVE  Batch(Published(supply, items, by), Projected(catalog, items, by, removed),
                 items, by, removed)
  <1> DEFINE s == Published(supply, items, by)
             c == Projected(catalog, items, by, removed)
  <1>1. SupplyTyped /\ now \in Nat
    BY DEF IInv, TypeOK, SupplyTyped
  <1>2. /\ supply.active \subseteq Items /\ supply.retained \subseteq Creators
        /\ supply.creator \in [Items -> Creators]
        /\ supply.published \in [Items -> Nat \cup {Never}]
        /\ catalog.published \in [Items -> Nat \cup {Never}]
        /\ supply.next \in [Creators -> Nat]
        /\ supply.touched \in [Creators -> Int]
    BY <1>1, SupplyFacts
  <1>3. catalog.active = supply.active /\ catalog.creator = supply.creator
    BY DEF IInv, CatalogFollows
  <1> DEFINE touched == [d \in Creators |-> IF d \in Publishers(items, by)
                                            THEN now ELSE supply.touched[d]]
             next == Paused(items, by)
  <1>4. Assigned(supply.creator, items, by) \in [Items -> Creators]
    BY <1>2 DEF Assigned
  <1>5. /\ Stamped(supply.published, items) \in [Items -> Nat \cup {Never}]
        /\ Stamped(catalog.published, items) \in [Items -> Nat \cup {Never}]
    BY <1>1, <1>2 DEF Stamped
  <1>6. touched \in [Creators -> Int]
    BY <1>1, <1>2
  <1>7. next \in [Creators -> Nat]
    <2>1. \A d \in Creators : Cooldown[d] \in Nat
      BY SupplyAssumption
    <2> QED  BY <1>1, <1>2, <2>1 DEF Paused
  <1>8. s = [active |-> supply.active \cup items,
             creator |-> Assigned(supply.creator, items, by),
             published |-> Stamped(supply.published, items),
             next |-> next, touched |-> touched, retained |-> supply.retained]
    <2>1. supply \in SupplyState
      BY <1>1 DEF SupplyTyped
    <2>2. PICK r : r = Published(supply, items, by)
      OBVIOUS
    <2>3. r = [active |-> supply.active \cup items,
               creator |-> Assigned(supply.creator, items, by),
               published |-> Stamped(supply.published, items),
               next |-> next, touched |-> touched, retained |-> supply.retained]
      BY <2>1, <2>2 DEF Published, SupplyState, Paused
    <2> QED  BY <2>2, <2>3
  <1>9. c = [active |-> (supply.active \cup items) \ removed,
             creator |-> Assigned(supply.creator, items, by),
             published |-> Stamped(catalog.published, items)]
    BY <1>3 DEF Projected
  <1> HIDE DEF touched, next, s, c
  <1>10. s \in SupplyState /\ c \in CatalogState
    BY <1>2, <1>4, <1>5, <1>6, <1>7, <1>8, <1>9 DEF SupplyState, CatalogState
  <1>11. /\ s.active = supply.active \cup items
         /\ s.retained = supply.retained
         /\ s.creator = Assigned(supply.creator, items, by)
         /\ s.published = Stamped(supply.published, items)
         /\ s.next = next
         /\ c.active = s.active \ removed
         /\ c.creator = s.creator
    BY <1>8, <1>9
  <1>12. Batch(s, c, items, by, removed)
    BY <1>10, <1>11 DEF Batch, next
  <1> QED  BY <1>12 DEF s, c

LEMMA SupplyEntryKeeps ==
    ASSUME IInv, SupplyEntry, now' = now, index' = index
    PROVE  /\ SupplyTyped'
           /\ catalog'.active = supply'.active
           /\ catalog'.creator = supply'.creator
           /\ PausesRecorded' /\ CooldownKept'
  <1>1. PICK items \in BackgroundPosts, deleted \in SUBSET Deletable, exits \in SUBSET MayExit :
            LET removed == Moderated \cup deleted
            IN /\ supply' = [Published(supply, items, supply.creator) EXCEPT
                                !.active = @ \ removed, !.retained = @ \ exits]
               /\ catalog' = Projected(catalog, items, supply.creator, removed)
    BY DEF SupplyEntry
  <1> DEFINE removed == Moderated \cup deleted
             s == Published(supply, items, supply.creator)
  <1>2. SupplyTyped /\ now \in Nat
    BY DEF IInv, TypeOK, SupplyTyped
  <1>3. supply.creator \in [Items -> Creators]
    BY <1>2, SupplyFacts
  <1>4. items \in SUBSET Items /\ items \subseteq Reserve /\ \A i \in items : MayPublish(i)
    BY BackgroundFacts DEF Reserve
  <1>5. supply' = [s EXCEPT !.active = @ \ removed, !.retained = @ \ exits]
        /\ catalog' = Projected(catalog, items, supply.creator, removed)
    BY <1>1
  <1> HIDE DEF removed
  <1>6. /\ s \in SupplyState /\ catalog' \in CatalogState
        /\ s.creator = Assigned(supply.creator, items, supply.creator)
        /\ s.published = Stamped(supply.published, items)
        /\ s.next = Paused(items, supply.creator)
        /\ catalog'.active = s.active \ removed
        /\ catalog'.creator = s.creator
    <2>1. items \subseteq Items /\ Items = DOMAIN supply.creator
      BY <1>3, <1>4
    <2>2. Batch(s, catalog', items, supply.creator, removed)
      BY <1>3, <1>4, <1>5, <2>1, BatchTyped
    <2> HIDE DEF s
    <2> QED  BY <2>2 DEF Batch
  <1> HIDE DEF s
  <1>7. /\ supply' \in SupplyState
        /\ supply'.active = s.active \ removed
        /\ supply'.creator = s.creator /\ supply'.published = s.published
        /\ supply'.next = s.next
    BY <1>5, <1>6 DEF SupplyState
  <1>8. SupplyTyped'
    BY <1>2, <1>6, <1>7 DEF SupplyTyped
  <1>9. \A i \in items : supply.creator[i] \in Creators
                         /\ supply.next[supply.creator[i]] <= now
    BY <1>3, <1>4 DEF MayPublish
  <1>10. PausesRecorded' /\ CooldownKept'
    BY <1>2, <1>4, <1>6, <1>7, <1>8, <1>9, PublishingKeeps
  <1> QED  BY <1>6, <1>7, <1>8, <1>10

LEMMA SupplyRespondKeeps ==
    ASSUME IInv, NEW n \in Nat, NEW intents \in [1..n -> Creators],
           SupplyRespond(intents, shown), now' = now + 1
    PROVE  /\ SupplyTyped'
           /\ catalog'.active = supply'.active
           /\ catalog'.creator = supply'.creator
           /\ PausesRecorded' /\ CooldownKept'
  <1>1. PICK a \in Allocations(intents) :
            LET items == {a[k] : k \in DOMAIN a}
                by == [i \in items |-> intents[CHOOSE k \in DOMAIN a : a[k] = i]]
                feedback == CreatorsOf(shown)
                after == Published(supply, items, by)
            IN /\ supply' = [after EXCEPT
                                !.touched = [c \in Creators |->
                                    IF c \in feedback THEN now ELSE @[c]]]
               /\ catalog' = Projected(catalog, items, by, {})
               /\ UNCHANGED index
    BY DEF SupplyRespond
  <1> DEFINE items == {a[k] : k \in DOMAIN a}
             by == [i \in items |-> intents[CHOOSE k \in DOMAIN a : a[k] = i]]
             s == Published(supply, items, by)
             touched == [c \in Creators |-> IF c \in CreatorsOf(shown)
                                            THEN now ELSE s.touched[c]]
  <1>2. SupplyTyped /\ now \in Nat
    BY DEF IInv, TypeOK, SupplyTyped
  <1>3. items \subseteq Reserve /\ \A i \in items : by[i] \in Creators /\ Ready(by[i])
    <2>1. \A i \in items : by[i] = intents[CHOOSE k \in DOMAIN a : a[k] = i]
      OBVIOUS
    <2>2. items \subseteq Reserve
          /\ \A i \in items :
                 LET c == intents[CHOOSE k \in DOMAIN a : a[k] = i]
                 IN c \in Creators /\ Ready(c)
      BY AllocationFacts
    <2> HIDE DEF items, by
    <2> QED  BY <2>1, <2>2
  <1>4. items \in SUBSET Items
    BY <1>3 DEF Reserve
  <1>5. supply' = [s EXCEPT !.touched = touched]
        /\ catalog' = Projected(catalog, items, by, {}) /\ index' = index
    BY <1>1
  <1> HIDE DEF items, by
  <1>6. /\ s \in SupplyState /\ catalog' \in CatalogState
        /\ s.creator = Assigned(supply.creator, items, by)
        /\ s.published = Stamped(supply.published, items)
        /\ s.next = Paused(items, by)
        /\ catalog'.active = s.active \ {}
        /\ catalog'.creator = s.creator
    <2>1. by \in [items -> Creators]
      BY <1>3 DEF by
    <2>2. s = Published(supply, items, by) /\ catalog' = Projected(catalog, items, by, {})
      BY <1>5
    <2>3. Batch(s, catalog', items, by, {})
      BY <1>4, <2>1, <2>2, BatchTyped
    <2> HIDE DEF s
    <2> QED  BY <2>3 DEF Batch
  <1> HIDE DEF s
  <1>7. touched \in [Creators -> Int]
    BY <1>2, <1>6 DEF SupplyState
  <1> HIDE DEF touched
  <1>8. /\ supply' \in SupplyState /\ supply'.active = s.active
        /\ supply'.creator = s.creator /\ supply'.published = s.published
        /\ supply'.next = s.next
    BY <1>5, <1>6, <1>7 DEF SupplyState
  <1>9. SupplyTyped'
    BY <1>2, <1>5, <1>6, <1>8 DEF SupplyTyped
  <1>10. \A i \in items : by[i] \in Creators /\ supply.next[by[i]] <= now
    BY <1>3 DEF Ready
  <1>11. now' \in Nat /\ now' >= now
    BY <1>2
  <1>12. PausesRecorded' /\ CooldownKept'
    BY <1>3, <1>4, <1>6, <1>8, <1>9, <1>10, <1>11, PublishingKeeps
  <1> QED  BY <1>6, <1>8, <1>9, <1>12

\* What may be shown is live: the index is asked whether its items still are.
LEMMA RetrievedLive ==
    ASSUME NEW indexed \in BOOLEAN
    PROVE  Retrieved(indexed) = catalog.active
  BY DEF Retrieved, Indexed

-----------------------------------------------------------------------------
(* One lemma per action.                                                   *)

LEMMA EntryPreserves ==
    ASSUME IInv, Entry
    PROVE  IInv'
  <1>1. /\ SupplyEntry /\ MarketEntry /\ phase' = "serve"
        /\ now' = now /\ index' = index /\ shown' = shown
    BY DEF Entry
  <1>2. /\ SupplyTyped' /\ PausesRecorded' /\ CooldownKept'
        /\ catalog'.active = supply'.active /\ catalog'.creator = supply'.creator
    BY <1>1, SupplyEntryKeeps
  <1>3. /\ MarketTyped'
        /\ \A a \in Advertisers :
               /\ priced'[a].bid = 0 \/ priced'[a].bid = market'[a].bid
               /\ priced'[a].budget = market'[a].budget
    BY <1>1, MarketEntryKeeps
  <1>4. TypeOK'
    BY <1>1, <1>2, <1>3 DEF IInv, TypeOK, SupplyTyped, MarketTyped
  <1>5. CatalogFollows' /\ SoldWithin'
    BY <1>1, <1>2 DEF CatalogFollows, SoldWithin
  <1>6. PricesFollow'
    BY <1>3 DEF PricesFollow
  <1> QED  BY <1>2, <1>4, <1>5, <1>6 DEF IInv

LEMMA ServePreserves ==
    ASSUME IInv, Serve
    PROVE  IInv'
  <1>1. PICK indexed \in BOOLEAN :
            /\ SupplyServe(indexed)
            /\ shown' \in {s \in SUBSET Retrieved(indexed) : Cardinality(s) <= PageSize}
    BY DEF Serve
  <1>2. /\ MarketServe /\ phase = "serve" /\ phase' = "respond" /\ now' = now
        /\ supply' = supply /\ catalog' = catalog
        /\ index' = IF indexed /\ RefreshDue
                    THEN [items |-> Synced(catalog.active), time |-> now] ELSE index
    BY <1>1 DEF Serve, SupplyServe
  <1>3. SupplyTyped /\ now \in Nat
    BY DEF IInv, TypeOK, SupplyTyped
  <1>4. shown' \subseteq catalog.active /\ catalog.active \subseteq Items
    BY <1>1, <1>3, RetrievedLive, SupplyFacts
  <1>5. index' \in Index
    <2>1. index \in Index /\ index.items \subseteq Items
      BY <1>3, SupplyFacts DEF SupplyTyped
    <2>2. Synced(catalog.active) \subseteq Items
      BY <1>4, <2>1 DEF Synced
    <2> QED  BY <1>2, <1>3, <2>1, <2>2 DEF Index
  <1>6. /\ MarketTyped' /\ market' = market /\ priced' = priced
        /\ \A a \in Advertisers, c \in Cells :
               IF Eligible(a)' THEN sold'[a][c] <= Capacity(a, c)' ELSE sold'[a][c] = 0
    BY <1>2, MarketServeKeeps
  <1>7. TypeOK'
    BY <1>2, <1>4, <1>5, <1>6 DEF IInv, TypeOK, MarketTyped
  <1>8. CatalogFollows'
    BY <1>2, <1>4 DEF IInv, CatalogFollows
  <1>9. PausesRecorded' /\ CooldownKept'
    BY <1>2 DEF IInv, PausesRecorded, CooldownKept
  <1>10. PricesFollow'
    BY <1>2, <1>6 DEF IInv, PricesFollow
  <1>11. SoldWithin'
    BY <1>6 DEF SoldWithin
  <1> QED  BY <1>7, <1>8, <1>9, <1>10, <1>11 DEF IInv

LEMMA RespondPreserves ==
    ASSUME IInv, Respond
    PROVE  IInv'
  <1>1. PICK n \in 0..MaxIntents : \E intents \in [1..n -> Creators] :
            SupplyRespond(intents, shown)
    BY DEF Respond
  <1>2. PICK intents \in [1..n -> Creators] : SupplyRespond(intents, shown)
    BY <1>1
  <1>3. /\ MarketRespond /\ phase' = "entry" /\ now' = now + 1 /\ shown' = {}
        /\ n \in Nat /\ now \in Nat
    BY MarketAssumption DEF Respond, IInv, TypeOK
  <1>4. /\ SupplyTyped' /\ PausesRecorded' /\ CooldownKept'
        /\ catalog'.active = supply'.active /\ catalog'.creator = supply'.creator
    BY <1>2, <1>3, SupplyRespondKeeps
  <1>5. /\ MarketTyped'
        /\ \A a \in Advertisers : priced'[a].bid = 0 \/ priced'[a].bid = market'[a].bid
    BY <1>3, MarketRespondKeeps
  <1>6. TypeOK'
    BY <1>3, <1>4, <1>5 DEF TypeOK, SupplyTyped, MarketTyped
  <1>7. CatalogFollows' /\ SoldWithin' /\ PricesFollow'
    BY <1>3, <1>4, <1>5 DEF CatalogFollows, SoldWithin, PricesFollow
  <1> QED  BY <1>4, <1>6, <1>7 DEF IInv

-----------------------------------------------------------------------------
(* The theorems.                                                           *)

LEMMA InitIInv == Init => IInv
  <1> SUFFICES ASSUME Init PROVE IInv
    OBVIOUS
  <1>1. /\ Owner \in [Items -> Creators] /\ Initial \subseteq Items
        /\ Bids \subseteq Nat /\ Budgets \subseteq Nat
    BY SupplyAssumption, MarketAssumption
  <1>2. PublishedFrom(Initial) \in [Items -> Nat \cup {Never}]
    BY DEF PublishedFrom
  <1>3. supply = [active |-> Initial, creator |-> Owner,
                  published |-> PublishedFrom(Initial),
                  next |-> [c \in Creators |-> 0],
                  touched |-> [c \in Creators |-> -1],
                  retained |-> Creators]
        /\ catalog = [active |-> Initial, creator |-> Owner,
                      published |-> PublishedFrom(Initial)]
        /\ index = [items |-> {}, time |-> -1]
        /\ now = 0 /\ phase = "entry" /\ shown = {}
    BY DEF Init, SupplyInit
  <1>4. SupplyTyped
    BY <1>1, <1>2, <1>3 DEF SupplyTyped, SupplyState, CatalogState, Index
  <1>5. /\ market \in [Advertisers -> [budget : Budgets, bid : Bids]]
        /\ priced = [a \in Advertisers |-> [budget |-> 0, bid |-> 0]]
        /\ sold = [a \in Advertisers |-> [c \in Cells |-> 0]]
    BY DEF Init, MarketInit
  <1>6. [budget : Budgets, bid : Bids] \subseteq Accounts
    BY <1>1 DEF Accounts
  <1>7. MarketTyped
    BY <1>5, <1>6 DEF MarketTyped, Accounts
  <1>8. TypeOK
    BY <1>3, <1>4, <1>7 DEF TypeOK, SupplyTyped, MarketTyped
  <1>9. CatalogFollows /\ SoldWithin /\ PricesFollow
    BY <1>3, <1>5 DEF CatalogFollows, SoldWithin, PricesFollow
  <1>10. \A i \in Items : /\ i \in Initial => supply.published[i] = 0
                          /\ i \notin Initial => supply.published[i] = -1
    BY <1>3 DEF PublishedFrom, Never
  <1>11. PausesRecorded /\ CooldownKept
    BY <1>3, <1>10 DEF PausesRecorded, CooldownKept, Never
  <1> QED  BY <1>8, <1>9, <1>11 DEF IInv

LEMMA NextIInv == IInv /\ [Next]_vars => IInv'
  <1> SUFFICES ASSUME IInv, [Next]_vars PROVE IInv'
    OBVIOUS
  <1>1. CASE Next
    BY <1>1, EntryPreserves, ServePreserves, RespondPreserves DEF Next
  <1>2. CASE UNCHANGED vars
    <2>1. /\ now' = now /\ phase' = phase /\ supply' = supply /\ catalog' = catalog
          /\ index' = index /\ shown' = shown /\ market' = market
          /\ priced' = priced /\ sold' = sold
      BY <1>2 DEF vars, posts, ads
    <2>2. TypeOK' /\ CatalogFollows' /\ PricesFollow'
      BY <2>1 DEF IInv, TypeOK, CatalogFollows, PricesFollow
    <2>3. PausesRecorded' /\ CooldownKept'
      BY <2>1 DEF IInv, PausesRecorded, CooldownKept
    <2>4. SoldWithin'
      BY <2>1 DEF IInv, SoldWithin, Eligible, Capacity
    <2> QED  BY <2>2, <2>3, <2>4 DEF IInv
  <1> QED  BY <1>1, <1>2

\* The inductive invariant of the supply side of a tick.
THEOREM SupplyInvariant == Spec => []IInv
  BY InitIInv, NextIInv, PTL DEF Spec

\* The world, the catalog, the index and the market have their types.
THEOREM TypeCorrect == Spec => []TypeOK
  <1>1. IInv => TypeOK
    BY DEF IInv
  <1> QED  BY <1>1, SupplyInvariant, PTL

\* Users are only shown posts that are live, however old the index is, and the
\* catalog has the active posts and the publishers of the world.
THEOREM ShowsLive == Spec => []ServesLive
  <1>1. IInv => ServesLive
    BY DEF IInv, CatalogFollows, ServesLive
  <1> QED  BY <1>1, SupplyInvariant, PTL

\* Between two ticks in which a creator publishes lies the pause of the creator,
\* whether the background or users started the posts.
THEOREM CreatorsPause == Spec => []CooldownKept
  <1>1. IInv => CooldownKept
    BY DEF IInv
  <1> QED  BY <1>1, SupplyInvariant, PTL

\* All ads that the cells of a tick sell are billed in full, for any number of
\* cells and any shares that divide the traffic: no budget is sold twice.
THEOREM AdsAreBilled == Spec => []FullyBilled
  <1>1. IInv => FullyBilled
    <2> SUFFICES ASSUME IInv, phase = "respond", NEW a \in Advertisers
                 PROVE  Total(a) = Count(a) * priced[a].bid
      BY DEF FullyBilled
    <2>1. MarketTyped
      BY DEF IInv, TypeOK, MarketTyped
    <2>2. /\ priced[a].budget = market[a].budget
          /\ priced[a].bid = 0 \/ priced[a].bid = market[a].bid
      BY DEF IInv, PricesFollow
    <2>3. /\ market[a].budget \in Nat /\ market[a].bid \in Nat
          /\ priced[a].bid \in Nat /\ Count(a) \in Nat
      BY <2>1, AccountFacts, CountTyped
    <2>4. CASE Eligible(a)
      <3>1. Count(a) * priced[a].bid <= priced[a].budget
        BY <2>1, <2>4, CountBounded DEF IInv, SoldWithin
      <3>2. priced[a].bid = market[a].bid
        BY <2>2, <2>3, <2>4 DEF Eligible
      <3> QED  BY <2>2, <3>1, <3>2 DEF Total
    <2>5. CASE ~ Eligible(a)
      <3>1. Count(a) = 0
        BY <2>1, <2>5, CountZero DEF IInv, SoldWithin
      <3>2. 0 * market[a].bid = 0 /\ 0 * priced[a].bid = 0
        BY <2>3
      <3> QED  BY <2>3, <3>1, <3>2 DEF Total
    <2> QED  BY <2>4, <2>5
  <1> QED  BY <1>1, SupplyInvariant, PTL
=============================================================================

------------------------- MODULE OutcomeQueueProofs -------------------------
(***************************************************************************)
(* Theorems about the outcome queue, for any number of journeys and items, *)
(* any delays and any shelf: types, punctuality, final labels, oversell,   *)
(* lateness and the funnel of a journey.                                   *)
(***************************************************************************)
EXTENDS OutcomeQueue, TLAPS, FiniteSetTheorems

-----------------------------------------------------------------------------
(* What may be scheduled.                                                  *)

\* The latest a kind of outcome is reported, counted from the request.
Horizon(kind) ==
    CASE kind = "order" -> OrderDelay
      [] kind = "payment" -> OrderDelay + PayDelay
      [] kind = "refund" -> OrderDelay + PayDelay + TicksPerDay
                                + RefundDays * TicksPerDay - 1
      [] kind = "pixel" -> 3 * TicksPerDay - 1

\* A successor happens after the outcome it follows, at the time it occurs.
LEMMA SuccessorFacts ==
    ASSUME NEW p \in Outcome, NEW q \in Successors(p)
    PROVE  /\ q \in Outcome
           /\ q.journey = p.journey
           /\ q.occurs = q.at
           /\ q.at > p.occurs
           /\ \/ p.kind = "order" /\ q.kind = "payment" /\ q.at <= p.occurs + PayDelay
              \/ /\ p.kind = "payment" /\ q.kind = "refund"
                 /\ q.at <= p.occurs + TicksPerDay + RefundDays * TicksPerDay - 1
  <1>0. TicksPerDay * RefundDays \in Nat /\ TicksPerDay \in Nat /\ TicksPerDay >= 1
        /\ RefundDays * TicksPerDay \in Nat /\ PayDelay \in Nat
    BY QueueAssumption
  <1>1. p.occurs \in Nat /\ p.journey \in Journeys /\ p.kind \in Kinds
    BY DEF Outcome
  <1>2. CASE p.kind = "order"
    <2>1. PICK t \in p.occurs + 1 .. p.occurs + PayDelay :
              q = [kind |-> "payment", journey |-> p.journey, occurs |-> t, at |-> t]
      BY <1>2 DEF Successors, Payments, Outcomes
    <2> QED  BY <1>0, <1>1, <1>2, <2>1 DEF Outcome, Kinds
  <1>3. CASE p.kind = "payment"
    <2>1. PICK t \in p.occurs + TicksPerDay ..
                        p.occurs + TicksPerDay + RefundDays * TicksPerDay - 1 :
              q = [kind |-> "refund", journey |-> p.journey, occurs |-> t, at |-> t]
      BY <1>3 DEF Successors, Refunds, Outcomes
    <2> QED  BY <1>0, <1>1, <1>3, <2>1 DEF Outcome, Kinds
  <1> QED  BY <1>2, <1>3 DEF Successors

\* An order follows its cart.
LEMMA OrderFacts ==
    ASSUME NEW j \in Journeys, NEW t \in Nat, NEW q \in Orders(j, t)
    PROVE  /\ q \in Outcome /\ q.journey = j /\ q.kind = "order"
           /\ q.occurs = q.at /\ q.at > t /\ q.at <= t + OrderDelay
  <1>1. PICK u \in t + 1 .. t + OrderDelay :
            q = [kind |-> "order", journey |-> j, occurs |-> u, at |-> u]
    BY DEF Orders, Outcomes
  <1> QED  BY <1>1, QueueAssumption DEF Outcome, Kinds

\* A conversion follows its click and may be reported later than it occurs.
LEMMA PixelFacts ==
    ASSUME NEW j \in Journeys, NEW t \in Nat, NEW q \in Pixels(j, t)
    PROVE  /\ q \in Outcome /\ q.journey = j /\ q.kind = "pixel"
           /\ q.at > t /\ q.at <= t + 3 * TicksPerDay - 1
  <1>1. PICK c \in 1..TicksPerDay, r \in 0..(2 * TicksPerDay - 1) :
            q = [kind |-> "pixel", journey |-> j, occurs |-> t + c, at |-> t + c + r]
    BY DEF Pixels
  <1> QED  BY <1>1, QueueAssumption DEF Outcome, Kinds

\* A function on a finite set has a finite image, no larger than the set.
LEMMA ImageFacts ==
    ASSUME NEW S, IsFiniteSet(S), NEW f
    PROVE  /\ IsFiniteSet({f[x] : x \in S})
           /\ Cardinality({f[x] : x \in S}) <= Cardinality(S)
  <1>1. [x \in S |-> f[x]] \in Surjection(S, {f[x] : x \in S})
    BY DEF Surjection
  <1> QED  BY <1>1, FS_Surjection

-----------------------------------------------------------------------------
(* The inductive invariant.                                                *)

\* Every pending outcome belongs to a request and keeps within its horizon;
\* only conversions are reported later than they occur.
Bounded ==
    \A p \in pending : /\ asked[p.journey] # -1
                       /\ p.at <= asked[p.journey] + Horizon(p.kind)
                       /\ p.kind # "pixel" => p.occurs = p.at

IInv == /\ TypeOK
        /\ IsFiniteSet(pending)
        /\ NothingOverdue
        /\ Bounded
        /\ NoOversell

LEMMA InitIInv == Init => IInv
  <1> SUFFICES ASSUME Init  PROVE IInv
    OBVIOUS
  <1>1. \A i \in Items : On(i, Of("order", pending)) = {}
    BY DEF Init, On, Of
  <1>2. NoOversell
    <2> SUFFICES ASSUME NEW i \in Items
                 PROVE  2 * Cardinality(On(i, Of("order", pending))) <= stock[i]
      BY DEF NoOversell
    <2>1. Cardinality(On(i, Of("order", pending))) = 0
      BY <1>1, FS_EmptySet
    <2>2. stock[i] \in 0..Capacity
      BY DEF Init
    <2> QED  BY <2>1, <2>2, QueueAssumption
  <1> QED  BY <1>2, FS_EmptySet, QueueAssumption
           DEF Init, IInv, TypeOK, NothingOverdue, Bounded

\* The entry commit: what is delivered leaves the queue together with its units
\* on the shelf, and the successors are no orders.
LEMMA EntryPreserves ==
    ASSUME IInv,
           NEW restocked \in SUBSET Items, NEW level \in Refill..Capacity,
           NEW S \in SUBSET Due, NEW U, NEW f \in [S -> U],
           CommitEntry(restocked, level, f)
    PROVE  IInv'
  <1> DEFINE new == {f[p] : p \in S}
  <1>1. /\ DOMAIN f = S
        /\ pending' = (pending \ Due) \cup new
        /\ phase' = "response" /\ now' = now /\ asked' = asked
        /\ phase = "entry"
    BY DEF CommitEntry
  <1>2. \A q \in new : \E p \in Due : q \in Successors(p)
    BY <1>1 DEF CommitEntry
  <1>3. now \in Nat /\ Due \subseteq pending /\ pending \subseteq Outcome
        /\ asked \in [Journeys -> Nat \cup {-1}]
        /\ stock \in [Items -> 0..Capacity]
    BY DEF IInv, TypeOK, Due
  <1>4. IsFiniteSet(pending) /\ IsFiniteSet(Due) /\ IsFiniteSet(new)
        /\ IsFiniteSet(pending')
    <2>1. IsFiniteSet(pending) /\ IsFiniteSet(Due) /\ IsFiniteSet(S)
      BY <1>3, FS_Subset DEF IInv
    <2>2. IsFiniteSet(new)
      BY <2>1, ImageFacts
    <2>3. IsFiniteSet(pending \ Due)
      BY <2>1, FS_Difference
    <2> QED  BY <2>1, <2>2, <2>3, <1>1, FS_Union
  <1>5. \A q \in new : /\ q \in Outcome
                       /\ q.kind # "order" /\ q.kind # "pixel"
                       /\ q.occurs = q.at
                       /\ q.at > now
                       /\ asked[q.journey] # -1
                       /\ q.at <= asked[q.journey] + Horizon(q.kind)
    <2> SUFFICES ASSUME NEW q \in new
                 PROVE  /\ q \in Outcome
                        /\ q.kind # "order" /\ q.kind # "pixel"
                        /\ q.occurs = q.at
                        /\ q.at > now
                        /\ asked[q.journey] # -1
                        /\ q.at <= asked[q.journey] + Horizon(q.kind)
      OBVIOUS
    <2>1. PICK p \in Due : q \in Successors(p)
      BY <1>2
    <2>2. p \in Outcome /\ p \in pending /\ p.at = now
      BY <1>3, <2>1 DEF Due
    <2>3. /\ q \in Outcome /\ q.journey = p.journey /\ q.occurs = q.at
          /\ q.at > p.occurs
          /\ \/ p.kind = "order" /\ q.kind = "payment" /\ q.at <= p.occurs + PayDelay
             \/ /\ p.kind = "payment" /\ q.kind = "refund"
                /\ q.at <= p.occurs + TicksPerDay + RefundDays * TicksPerDay - 1
      BY <2>1, <2>2, SuccessorFacts
    <2>4. /\ asked[p.journey] # -1 /\ p.occurs = p.at
          /\ p.at <= asked[p.journey] + Horizon(p.kind)
      BY <2>2, <2>3 DEF IInv, Bounded
    <2>5. /\ p.journey \in Journeys /\ asked[p.journey] \in Nat
          /\ p.at \in Nat /\ q.at \in Nat
          /\ RefundDays * TicksPerDay \in Nat
      BY <2>2, <2>3, <2>4, <1>3, QueueAssumption DEF Outcome
    <2>6. q.at <= asked[q.journey] + Horizon(q.kind)
      <3>1. CASE p.kind = "order" /\ q.kind = "payment" /\ q.at <= p.occurs + PayDelay
        BY <3>1, <2>3, <2>4, <2>5, QueueAssumption DEF Horizon
      <3>2. CASE /\ p.kind = "payment" /\ q.kind = "refund"
                 /\ q.at <= p.occurs + TicksPerDay + RefundDays * TicksPerDay - 1
        BY <3>2, <2>3, <2>4, <2>5, QueueAssumption DEF Horizon
      <3> QED  BY <2>3, <3>1, <3>2
    <2> QED  BY <2>2, <2>3, <2>4, <2>6
  <1>6. TypeOK'
    <2>1. \A i \in Items : stock'[i] \in 0..Capacity
      <3> SUFFICES ASSUME NEW i \in Items  PROVE stock'[i] \in 0..Capacity
        OBVIOUS
      <3> DEFINE base == IF i \in restocked THEN level ELSE stock[i]
      <3>1. stock'[i] = StockAfter(i, base, Due)
        BY DEF CommitEntry
      <3>2. base \in 0..Capacity
        BY <1>3, QueueAssumption
      <3>3. /\ Cardinality(On(i, Of("order", Due))) \in Nat
            /\ Cardinality(On(i, Of("refund", Due))) \in Nat
        <4>1. /\ IsFiniteSet(On(i, Of("order", Due)))
              /\ IsFiniteSet(On(i, Of("refund", Due)))
          BY <1>4, FS_Subset DEF On, Of
        <4> QED  BY <4>1, FS_CardinalityType
      <3> HIDE DEF base
      <3> QED  BY <3>1, <3>2, <3>3, QueueAssumption DEF StockAfter, Least, Most
    <2>2. stock' \in [Items -> 0..Capacity]
      BY <2>1 DEF CommitEntry
    <2>3. delivered' \subseteq Outcome
      BY <1>3 DEF CommitEntry, IInv, TypeOK
    <2> QED  BY <1>1, <1>3, <1>5, <2>2, <2>3 DEF TypeOK
  <1>7. NothingOverdue'
    <2> SUFFICES ASSUME NEW p \in pending'  PROVE p.at > now
      BY <1>1 DEF NothingOverdue
    <2>1. CASE p \in pending \ Due
      <3>1. p.at >= now /\ p.at # now /\ p.at \in Nat
        BY <2>1, <1>1, <1>3 DEF IInv, NothingOverdue, Due, Outcome
      <3> QED  BY <3>1, <1>3
    <2>2. CASE p \in new
      BY <2>2, <1>5
    <2> QED  BY <1>1, <2>1, <2>2
  <1>8. Bounded'
    BY <1>1, <1>3, <1>5 DEF IInv, Bounded
  <1>9. NoOversell'
    <2> SUFFICES ASSUME NEW i \in Items
                 PROVE  2 * Cardinality(On(i, Of("order", pending')))  <= stock'[i]
      BY DEF NoOversell
    <2> DEFINE P == On(i, Of("order", pending))
               D == On(i, Of("order", Due))
               R == On(i, Of("refund", Due))
               base == IF i \in restocked THEN level ELSE stock[i]
    <2>1. On(i, Of("order", pending')) = P \ D
      BY <1>1, <1>5 DEF On, Of
    <2>2. P \cap D = D
      BY <1>3 DEF On, Of
    <2>3. IsFiniteSet(P) /\ IsFiniteSet(D) /\ IsFiniteSet(R)
      BY <1>4, FS_Subset DEF On, Of
    <2>4. Cardinality(P) \in Nat /\ Cardinality(D) \in Nat /\ Cardinality(R) \in Nat
      BY <2>3, FS_CardinalityType
    <2>5. Cardinality(P \ D) = Cardinality(P) - Cardinality(D)
      <3> HIDE DEF P, D
      <3>1. Cardinality(P \ D) = Cardinality(P) - Cardinality(P \cap D)
        BY <2>3, FS_Difference
      <3> QED  BY <3>1, <2>2
    <2>6. 2 * Cardinality(P) <= stock[i] /\ stock[i] \in 0..Capacity
      BY <1>3 DEF IInv, NoOversell
    <2>7. base \in 0..Capacity /\ stock[i] <= base
      BY <1>3, QueueAssumption DEF CommitEntry
    <2>8. stock'[i] = StockAfter(i, base, Due)
      BY DEF CommitEntry
    <2>9. stock'[i] = Least(Capacity, Most(0, base - 2 * Cardinality(D)) + Cardinality(R))
      BY <2>8 DEF StockAfter
    <2>10. 2 * (Cardinality(P) - Cardinality(D)) <= stock'[i]
      <3> HIDE DEF P, D, R, base
      <3> QED  BY <2>4, <2>6, <2>7, <2>9, QueueAssumption DEF Least, Most
    <2> QED  BY <2>1, <2>5, <2>10
  <1> QED  BY <1>4, <1>6, <1>7, <1>8, <1>9 DEF IInv

\* The response commit: new orders stay within what is available.
LEMMA ResponsePreserves ==
    ASSUME IInv,
           NEW started \in SUBSET Journeys,
           NEW S \in SUBSET started, NEW U, NEW f \in [S -> U],
           CommitResponse(started, f)
    PROVE  IInv'
  <1> DEFINE new == {f[j] : j \in S}
  <1>1. /\ DOMAIN f = S
        /\ pending' = pending \cup new
        /\ phase = "response" /\ phase' = "entry" /\ now' = now + 1
        /\ asked' = [j \in Journeys |-> IF j \in started THEN now ELSE asked[j]]
        /\ \A j \in started : asked[j] = -1
        /\ stock' = stock /\ delivered' = delivered
    BY DEF CommitResponse
  <1>2. now \in Nat /\ pending \subseteq Outcome
        /\ asked \in [Journeys -> Nat \cup {-1}]
        /\ stock \in [Items -> 0..Capacity]
        /\ IsFiniteSet(pending) /\ IsFiniteSet(S)
    BY FS_Subset, QueueAssumption DEF IInv, TypeOK
  <1>3. IsFiniteSet(new) /\ IsFiniteSet(pending')
    <2>1. IsFiniteSet(S)
      BY <1>2
    <2>2. IsFiniteSet(new)
      BY <2>1, ImageFacts
    <2> QED  BY <2>2, <1>1, <1>2, FS_Union
  <1>4. \A j \in S : /\ f[j] \in Outcome /\ f[j].journey = j
                     /\ f[j].kind # "pixel" => f[j].occurs = f[j].at
                     /\ f[j].at > now /\ f[j].at <= now + Horizon(f[j].kind)
    <2> SUFFICES ASSUME NEW j \in S
                 PROVE  /\ f[j] \in Outcome /\ f[j].journey = j
                        /\ f[j].kind # "pixel" => f[j].occurs = f[j].at
                        /\ f[j].at > now /\ f[j].at <= now + Horizon(f[j].kind)
      OBVIOUS
    <2>1. f[j] \in Orders(j, now) \/ f[j] \in Pixels(j, now)
      BY <1>1 DEF CommitResponse
    <2>2. CASE f[j] \in Orders(j, now)
      BY <2>2, <1>2, OrderFacts DEF Horizon
    <2>3. CASE f[j] \in Pixels(j, now)
      BY <2>3, <1>2, PixelFacts DEF Horizon
    <2> QED  BY <2>1, <2>2, <2>3
  <1>5. \A p \in pending : asked'[p.journey] = asked[p.journey]
                           /\ p.journey \in Journeys
    BY <1>1, <1>2 DEF IInv, Bounded, Outcome
  <1>6. TypeOK'
    BY <1>1, <1>2, <1>4 DEF IInv, TypeOK
  <1>7. NothingOverdue'
    BY <1>1, <1>2, <1>4 DEF IInv, NothingOverdue, Outcome
  <1>8. Bounded'
    <2> SUFFICES ASSUME NEW p \in pending'
                 PROVE  /\ asked'[p.journey] # -1
                        /\ p.at <= asked'[p.journey] + Horizon(p.kind)
                        /\ p.kind # "pixel" => p.occurs = p.at
      BY DEF Bounded
    <2>1. CASE p \in pending
      BY <2>1, <1>5 DEF IInv, Bounded
    <2>2. CASE p \in new
      BY <2>2, <1>1, <1>2, <1>4
    <2> QED  BY <1>1, <2>1, <2>2
  <1>9. NoOversell'
    <2> SUFFICES ASSUME NEW i \in Items
                 PROVE  2 * Cardinality(On(i, Of("order", pending'))) <= stock[i]
      BY <1>1 DEF NoOversell
    <2> DEFINE P == On(i, Of("order", pending))
               K == {j \in S : f[j].kind = "order" /\ ItemOf[j] = i}
               N == {f[j] : j \in K}
    <2>1. On(i, Of("order", pending')) = P \cup N
      BY <1>1, <1>4 DEF On, Of
    <2>2. IsFiniteSet(P) /\ IsFiniteSet(K)
      BY <1>2, FS_Subset DEF On, Of
    <2>3. IsFiniteSet(N) /\ Cardinality(N) <= Cardinality(K)
      <3>1. IsFiniteSet(K)
        BY <2>2
      <3> HIDE DEF K
      <3> QED  BY <3>1, ImageFacts
    <2>4. Cardinality(P \cup N) <= Cardinality(P) + Cardinality(K)
          /\ Cardinality(P \cup N) \in Nat
          /\ Cardinality(P) \in Nat /\ Cardinality(K) \in Nat
      <3>1. IsFiniteSet(P \cap N) /\ IsFiniteSet(P \cup N)
        BY <2>2, <2>3, FS_Intersection, FS_Union
      <3>2. Cardinality(P \cup N) = Cardinality(P) + Cardinality(N) - Cardinality(P \cap N)
        BY <2>2, <2>3, FS_Union
      <3>3. /\ Cardinality(P) \in Nat /\ Cardinality(K) \in Nat
            /\ Cardinality(N) \in Nat /\ Cardinality(P \cap N) \in Nat
            /\ Cardinality(P \cup N) \in Nat
        BY <2>2, <2>3, <3>1, FS_CardinalityType
      <3> HIDE DEF P, K, N
      <3> QED  BY <2>3, <3>2, <3>3
    <2>5. Cardinality(K) <= Available(i)
      BY <1>1 DEF CommitResponse
    <2>6. Available(i) = Most(0, (stock[i] \div 2) - Cardinality(P))
      BY DEF Available
    <2>7. 2 * Cardinality(P) <= stock[i] /\ stock[i] \in Nat
      BY <1>2, QueueAssumption DEF IInv, NoOversell
    <2>8. /\ stock[i] \div 2 \in Nat
          /\ 2 * (stock[i] \div 2) <= stock[i]
          /\ stock[i] <= 2 * (stock[i] \div 2) + 1
      BY <2>7
    <2>9. 2 * Cardinality(P \cup N) <= stock[i]
      <3> HIDE DEF P, K, N
      <3> QED  BY <2>4, <2>5, <2>6, <2>7, <2>8 DEF Most
    <2> QED  BY <2>1, <2>9
  <1> QED  BY <1>3, <1>6, <1>7, <1>8, <1>9 DEF IInv

LEMMA StutterPreserves == IInv /\ UNCHANGED vars => IInv'
  BY DEF IInv, vars, TypeOK, NothingOverdue, Bounded, NoOversell, On, Of

\* Every reachable state satisfies the inductive invariant.
THEOREM QueueInvariant == Spec => []IInv
  <1>1. IInv /\ [Next]_vars => IInv'
    <2> SUFFICES ASSUME IInv, [Next]_vars  PROVE IInv'
      OBVIOUS
    <2>1. CASE \E restocked \in SUBSET Items, level \in Refill..Capacity :
                   \E S \in SUBSET Due :
                       \E f \in [S -> UNION {Successors(p) : p \in S}] :
                           CommitEntry(restocked, level, f)
      BY <2>1, EntryPreserves
    <2>2. CASE \E started \in SUBSET Journeys : \E S \in SUBSET started :
                   \E f \in [S -> UNION {Orders(j, now) \cup Pixels(j, now) : j \in S}] :
                       CommitResponse(started, f)
      BY <2>2, ResponsePreserves
    <2>3. CASE UNCHANGED vars
      BY <2>3, StutterPreserves
    <2> QED  BY <2>1, <2>2, <2>3 DEF Next
  <1> QED  BY InitIInv, <1>1, PTL DEF Spec

-----------------------------------------------------------------------------
(* What the invariant gives.                                               *)

\* Types, for any constants.
THEOREM QueueTyped == Spec => []TypeOK
  <1>1. IInv => TypeOK
    BY DEF IInv
  <1> QED  BY <1>1, QueueInvariant, PTL

\* No outcome is missed by the exact-match delivery of due.
THEOREM QueueNothingOverdue == Spec => []NothingOverdue
  <1>1. IInv => NothingOverdue
    BY DEF IInv
  <1> QED  BY <1>1, QueueInvariant, PTL

\* Inventory reservations prevent oversell.
THEOREM QueueNoOversell == Spec => []NoOversell
  <1>1. IInv => NoOversell
    BY DEF IInv
  <1> QED  BY <1>1, QueueInvariant, PTL

\* A label the joiner calls mature is final: what is pending is due no later
\* than its horizon, which the maturity covers.
THEOREM QueueMatureLabelsFinal == Spec => []MatureLabelsFinal
  <1>1. IInv => MatureLabelsFinal
    <2> SUFFICES ASSUME IInv, NEW p \in pending
                 PROVE  now <= asked[p.journey] + Maturity(p.kind)
      BY DEF MatureLabelsFinal
    <2>1. /\ p \in Outcome /\ now \in Nat /\ asked[p.journey] \in Nat
          /\ p.at <= asked[p.journey] + Horizon(p.kind)
      BY DEF IInv, TypeOK, Bounded, Outcome
    <2>2. now <= p.at /\ p.at \in Nat
      BY <2>1 DEF IInv, NothingOverdue, Outcome
    <2>3. RefundDays * TicksPerDay \in Nat
      BY QueueAssumption
    <2>4. Horizon(p.kind) <= Maturity(p.kind)
          /\ Horizon(p.kind) \in Int /\ Maturity(p.kind) \in Int
      BY <2>1, <2>3, QueueAssumption, MaturityAssumption
      DEF Horizon, Maturity, Outcome, Kinds
    <2> QED  BY <2>1, <2>2, <2>4
  <1> QED  BY <1>1, QueueInvariant, PTL

-----------------------------------------------------------------------------
(* Lateness: a second invariant on top of the first.                       *)

\* Nothing is reported more than two days after it occurred.
ReportedInTime == \A p \in pending : p.at <= p.occurs + 2 * TicksPerDay - 1

LEMMA EntryReportedInTime ==
    ASSUME IInv, ReportedInTime,
           NEW restocked \in SUBSET Items, NEW level \in Refill..Capacity,
           NEW S \in SUBSET Due, NEW U, NEW f \in [S -> U],
           CommitEntry(restocked, level, f)
    PROVE  ReportedInTime'
  <1> SUFFICES ASSUME NEW q \in pending'
               PROVE  q.at <= q.occurs + 2 * TicksPerDay - 1
    BY DEF ReportedInTime
  <1>1. CASE q \in pending
    BY <1>1 DEF ReportedInTime
  <1>2. CASE q \notin pending
    <2>1. PICK p \in S : q \in Successors(p)
      BY <1>2 DEF CommitEntry
    <2>2. p \in Outcome
      BY <2>1 DEF Due, IInv, TypeOK
    <2>3. q \in Outcome /\ q.occurs = q.at
      BY <2>1, <2>2, SuccessorFacts
    <2> QED  BY <2>3, QueueAssumption DEF Outcome
  <1> QED  BY <1>1, <1>2

LEMMA ResponseReportedInTime ==
    ASSUME IInv, ReportedInTime,
           NEW started \in SUBSET Journeys,
           NEW S \in SUBSET started, NEW U, NEW f \in [S -> U],
           CommitResponse(started, f)
    PROVE  ReportedInTime'
  <1> SUFFICES ASSUME NEW q \in pending'
               PROVE  q.at <= q.occurs + 2 * TicksPerDay - 1
    BY DEF ReportedInTime
  <1>1. CASE q \in pending
    BY <1>1 DEF ReportedInTime
  <1>2. CASE q \notin pending
    <2>1. PICK j \in S : q \in Orders(j, now) \/ q \in Pixels(j, now)
      BY <1>2 DEF CommitResponse
    <2>2. j \in Journeys /\ now \in Nat
      BY DEF IInv, TypeOK
    <2>3. CASE q \in Orders(j, now)
      <3>1. q \in Outcome /\ q.occurs = q.at
        BY <2>2, <2>3, OrderFacts
      <3> QED  BY <3>1, QueueAssumption DEF Outcome
    <2>4. CASE q \in Pixels(j, now)
      <3>1. PICK c \in 1..TicksPerDay, r \in 0..(2 * TicksPerDay - 1) :
                q = [kind |-> "pixel", journey |-> j, occurs |-> now + c,
                     at |-> now + c + r]
        BY <2>4 DEF Pixels
      <3> QED  BY <3>1, <2>2, QueueAssumption
    <2> QED  BY <2>1, <2>3, <2>4
  <1> QED  BY <1>1, <1>2

\* Every outcome is still admissible for the event log when it is delivered.
THEOREM QueueDeliveredInTime == Spec => DeliveredInTime
  <1>1. Init => ReportedInTime
    BY DEF Init, ReportedInTime
  <1>2. IInv /\ ReportedInTime /\ [Next]_vars => ReportedInTime'
    <2> SUFFICES ASSUME IInv, ReportedInTime, [Next]_vars  PROVE ReportedInTime'
      OBVIOUS
    <2>1. CASE Next
      BY <2>1, EntryReportedInTime, ResponseReportedInTime DEF Next
    <2>2. CASE UNCHANGED vars
      BY <2>2 DEF vars, ReportedInTime
    <2> QED  BY <2>1, <2>2
  <1>3. IInv /\ ReportedInTime /\ [Next]_vars
            => [\A p \in delivered' \ delivered : p.occurs >= now - MaxReportingLag]_vars
    <2> SUFFICES ASSUME IInv, ReportedInTime, Next,
                        NEW p \in delivered' \ delivered
                 PROVE  p.occurs >= now - MaxReportingLag
      OBVIOUS
    <2>1. p \in Due
      BY DEF Next, CommitEntry, CommitResponse
    <2>2. /\ p \in Outcome /\ p.at = now
          /\ p.at <= p.occurs + 2 * TicksPerDay - 1
      BY <2>1 DEF Due, IInv, TypeOK, ReportedInTime
    <2> QED  BY <2>2, QueueAssumption, LagAssumption DEF Outcome
  <1> QED  BY <1>1, <1>2, <1>3, QueueInvariant, PTL DEF Spec, DeliveredInTime

-----------------------------------------------------------------------------
(* The funnel: another invariant on top of the first.                      *)

\* Every outcome scheduled so far, delivered or not.
Known == pending \cup delivered

\* No outcome without a request.
Requested == \A p \in Known : asked[p.journey] # -1

\* What is delivered was due: with NothingOverdue, no outcome is both pending
\* and delivered, so a pending outcome has not been followed by another one.
Past == \A p \in delivered : IF phase = "entry" THEN p.at < now ELSE p.at <= now

FunnelInv == Requested /\ Past /\ Funnel

\* The entry commit schedules the successors of what it delivers, once each.
LEMMA EntryFunnel ==
    ASSUME IInv, FunnelInv,
           NEW restocked \in SUBSET Items, NEW level \in Refill..Capacity,
           NEW S \in SUBSET Due, NEW U, NEW f \in [S -> U],
           CommitEntry(restocked, level, f)
    PROVE  FunnelInv'
  <1> DEFINE new == {f[p] : p \in S}
  <1>1. /\ DOMAIN f = S
        /\ pending' = (pending \ Due) \cup new
        /\ delivered' = delivered \cup Due
        /\ phase' = "response" /\ now' = now /\ asked' = asked
        /\ phase = "entry"
    BY DEF CommitEntry
  <1>2. /\ now \in Nat /\ Due \subseteq pending
        /\ pending \subseteq Outcome /\ delivered \subseteq Outcome
    BY DEF IInv, TypeOK, Due
  <1>3. Known' = Known \cup new
    BY <1>1, <1>2 DEF Known
  <1>4. \A p \in Due : p \in Known /\ p \in Outcome /\ p.at = now /\ p \notin delivered
    BY <1>1, <1>2 DEF Due, Known, FunnelInv, Past
  <1>5. ASSUME NEW p \in S
        PROVE  /\ f[p] \in Outcome /\ f[p].journey = p.journey
               /\ f[p].at > p.at
               /\ \/ p.kind = "order" /\ f[p].kind = "payment"
                  \/ p.kind = "payment" /\ f[p].kind = "refund"
    <2>1. p \in Due /\ p \in pending /\ p \in Outcome
      BY <1>2
    <2>2. f[p] \in Successors(p)
      BY <1>1 DEF CommitEntry
    <2>3. /\ f[p] \in Outcome /\ f[p].journey = p.journey
          /\ f[p].at > p.occurs
          /\ \/ p.kind = "order" /\ f[p].kind = "payment"
             \/ p.kind = "payment" /\ f[p].kind = "refund"
      BY <2>1, <2>2, SuccessorFacts
    <2>4. p.occurs = p.at
      BY <2>1, <2>3 DEF IInv, Bounded
    <2> QED  BY <2>3, <2>4
  <1>6. Requested'
    <2> SUFFICES ASSUME NEW q \in Known'  PROVE asked[q.journey] # -1
      BY <1>1 DEF Requested
    <2>1. CASE q \in Known
      BY <2>1 DEF FunnelInv, Requested
    <2>2. CASE q \in new
      BY <2>2, <1>4, <1>5 DEF FunnelInv, Requested
    <2> QED  BY <1>3, <2>1, <2>2
  <1>7. Past'
    <2> SUFFICES ASSUME NEW p \in delivered'  PROVE p.at <= now
      BY <1>1 DEF Past
    <2>1. CASE p \in Due
      BY <2>1, <1>2, <1>4
    <2>2. CASE p \in delivered
      <3>1. p.at < now /\ p.at \in Nat
        BY <2>2, <1>1, <1>2 DEF FunnelInv, Past, Outcome
      <3> QED  BY <3>1, <1>2
    <2> QED  BY <1>1, <2>1, <2>2
  <1>8. ASSUME NEW p \in S, NEW r \in Known,
               r.journey = p.journey, r.kind = f[p].kind
        PROVE  FALSE
    <2>1. p \in Due /\ p \in Known /\ p \notin delivered
      BY <1>4
    <2>2. PICK s \in delivered : s.journey = p.journey /\ s.kind = p.kind
      <3>1. CASE p.kind = "order" /\ f[p].kind = "payment"
        BY <3>1, <1>8 DEF FunnelInv, Funnel, Known
      <3>2. CASE p.kind = "payment" /\ f[p].kind = "refund"
        BY <3>2, <1>8 DEF FunnelInv, Funnel, Known
      <3> QED  BY <1>5, <3>1, <3>2
    <2>3. s = p
      BY <2>1, <2>2 DEF FunnelInv, Funnel, Known
    <2> QED  BY <2>1, <2>2, <2>3
  <1>9. ASSUME NEW p \in Known', NEW q \in Known',
               p.journey = q.journey, p.kind = q.kind
        PROVE  p = q
    <2>1. CASE p \in Known /\ q \in Known
      BY <2>1, <1>9 DEF FunnelInv, Funnel, Known
    <2>2. CASE p \in Known /\ q \in new
      BY <2>2, <1>5, <1>8, <1>9
    <2>3. CASE p \in new /\ q \in Known
      BY <2>3, <1>5, <1>8, <1>9
    <2>4. CASE p \in new /\ q \in new
      <3>1. PICK a \in S, b \in S : p = f[a] /\ q = f[b]
        BY <2>4
      <3>2. a.journey = b.journey /\ a.kind = b.kind
        BY <3>1, <1>5, <1>9
      <3>3. a \in Known /\ b \in Known
        BY <1>4
      <3>4. a = b
        BY <3>2, <3>3 DEF FunnelInv, Funnel, Known
      <3> QED  BY <3>1, <3>4
    <2> QED  BY <1>3, <2>1, <2>2, <2>3, <2>4
  <1>10. ASSUME NEW p \in Known'
         PROVE  /\ p.kind = "payment" =>
                       \E q \in delivered' : /\ q.journey = p.journey
                                             /\ q.kind = "order" /\ q.at < p.at
                /\ p.kind = "refund" =>
                       \E q \in delivered' : /\ q.journey = p.journey
                                             /\ q.kind = "payment" /\ q.at < p.at
    <2>1. CASE p \in Known
      BY <2>1, <1>1 DEF FunnelInv, Funnel, Known
    <2>2. CASE p \in new
      <3>1. PICK a \in S : p = f[a]
        BY <2>2
      <3>2. a \in delivered' /\ a.at \in Nat /\ p.at \in Nat
        BY <3>1, <1>1, <1>2, <1>4, <1>5 DEF Outcome
      <3>3. a.at < p.at /\ a.journey = p.journey
        BY <3>1, <3>2, <1>5
      <3>4. \/ a.kind = "order" /\ p.kind = "payment"
            \/ a.kind = "payment" /\ p.kind = "refund"
        BY <3>1, <1>5
      <3> QED  BY <3>2, <3>3, <3>4
    <2> QED  BY <1>3, <2>1, <2>2
  <1>11. Funnel'
    BY <1>9, <1>10 DEF Funnel, Known
  <1> QED  BY <1>6, <1>7, <1>11 DEF FunnelInv

\* The response commit schedules orders and conversions of journeys that had
\* nothing before.
LEMMA ResponseFunnel ==
    ASSUME IInv, FunnelInv,
           NEW started \in SUBSET Journeys,
           NEW S \in SUBSET started, NEW U, NEW f \in [S -> U],
           CommitResponse(started, f)
    PROVE  FunnelInv'
  <1> DEFINE new == {f[j] : j \in S}
  <1>1. /\ DOMAIN f = S
        /\ pending' = pending \cup new
        /\ delivered' = delivered
        /\ phase = "response" /\ phase' = "entry" /\ now' = now + 1
        /\ asked' = [j \in Journeys |-> IF j \in started THEN now ELSE asked[j]]
        /\ \A j \in started : asked[j] = -1
    BY DEF CommitResponse
  <1>2. /\ now \in Nat
        /\ pending \subseteq Outcome /\ delivered \subseteq Outcome
    BY DEF IInv, TypeOK
  <1>3. Known' = Known \cup new
    BY <1>1 DEF Known
  <1>4. ASSUME NEW j \in S
        PROVE  /\ f[j] \in Outcome /\ f[j].journey = j
               /\ f[j].kind \in {"order", "pixel"}
    <2>1. f[j] \in Orders(j, now) \/ f[j] \in Pixels(j, now)
      BY <1>1 DEF CommitResponse
    <2>2. CASE f[j] \in Orders(j, now)
      BY <2>2, <1>2, OrderFacts
    <2>3. CASE f[j] \in Pixels(j, now)
      BY <2>3, <1>2, PixelFacts
    <2> QED  BY <2>1, <2>2, <2>3
  <1>5. \A r \in Known : /\ r.journey \in Journeys /\ r.journey \notin started
                         /\ asked'[r.journey] = asked[r.journey]
    BY <1>1, <1>2 DEF FunnelInv, Requested, Known, Outcome
  <1>6. Requested'
    <2> SUFFICES ASSUME NEW q \in Known'  PROVE asked'[q.journey] # -1
      BY DEF Requested
    <2>1. CASE q \in Known
      BY <2>1, <1>5 DEF FunnelInv, Requested
    <2>2. CASE q \in new
      BY <2>2, <1>1, <1>2, <1>4
    <2> QED  BY <1>3, <2>1, <2>2
  <1>7. Past'
    <2> SUFFICES ASSUME NEW p \in delivered  PROVE p.at < now + 1
      BY <1>1 DEF Past
    <2>1. p.at <= now /\ p.at \in Nat
      BY <1>1, <1>2 DEF FunnelInv, Past, Outcome
    <2> QED  BY <2>1, <1>2
  <1>8. ASSUME NEW p \in Known', NEW q \in Known',
               p.journey = q.journey, p.kind = q.kind
        PROVE  p = q
    <2>1. CASE p \in Known /\ q \in Known
      BY <2>1, <1>8 DEF FunnelInv, Funnel, Known
    <2>2. CASE p \in new \/ q \in new
      BY <2>2, <1>3, <1>4, <1>5, <1>8
    <2> QED  BY <1>3, <2>1, <2>2
  <1>9. ASSUME NEW p \in Known'
        PROVE  /\ p.kind = "payment" =>
                      \E q \in delivered' : /\ q.journey = p.journey
                                            /\ q.kind = "order" /\ q.at < p.at
               /\ p.kind = "refund" =>
                      \E q \in delivered' : /\ q.journey = p.journey
                                            /\ q.kind = "payment" /\ q.at < p.at
    <2>1. CASE p \in Known
      BY <2>1, <1>1 DEF FunnelInv, Funnel, Known
    <2>2. CASE p \in new
      BY <2>2, <1>4
    <2> QED  BY <1>3, <2>1, <2>2
  <1>10. Funnel'
    BY <1>8, <1>9 DEF Funnel, Known
  <1> QED  BY <1>6, <1>7, <1>10 DEF FunnelInv

\* A journey has at most one outcome of each kind, a payment only after its
\* order was delivered and a refund only after its payment.
THEOREM QueueFunnel == Spec => []Funnel
  <1>1. Init => FunnelInv
    BY DEF Init, FunnelInv, Requested, Past, Funnel, Known
  <1>2. IInv /\ FunnelInv /\ [Next]_vars => FunnelInv'
    <2> SUFFICES ASSUME IInv, FunnelInv, [Next]_vars  PROVE FunnelInv'
      OBVIOUS
    <2>1. CASE Next
      BY <2>1, EntryFunnel, ResponseFunnel DEF Next
    <2>2. CASE UNCHANGED vars
      BY <2>2 DEF vars, FunnelInv, Requested, Past, Funnel, Known
    <2> QED  BY <2>1, <2>2
  <1>3. FunnelInv => Funnel
    BY DEF FunnelInv
  <1> QED  BY <1>1, <1>2, <1>3, QueueInvariant, PTL DEF Spec
=============================================================================

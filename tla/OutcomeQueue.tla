---------------------------- MODULE OutcomeQueue ----------------------------
(***************************************************************************)
(* Delayed commerce and ads outcomes (world/delayed.py) with the stock     *)
(* they draw on (world/supply.py), in the order in which a kernel step     *)
(* commits them, and the maturity times at which the joiner                *)
(* (samples/joiner.py) freezes their labels.                               *)
(*                                                                         *)
(* A tick has two commits.  The entry batch brings restocks and the        *)
(* outcomes due now; the response batch brings carts and ad clicks.  Each  *)
(* commit acknowledges what it delivers, updates the stock and schedules   *)
(* what follows.  A journey is one cart or ad click.  Stock counts half    *)
(* units: an order takes one unit of 0.04, a refund returns 0.02.          *)
(***************************************************************************)
EXTENDS Integers, FiniteSets

CONSTANTS Items, Journeys,
          ItemOf,          \* journey -> item
          TicksPerDay,
          OrderDelay,      \* largest cart to order delay (12)
          PayDelay,        \* largest order to payment delay (4)
          RefundDays,      \* random part of the refund delay, in days (13)
          OrderMaturity, PaymentMaturity, RefundMaturity, PixelMaturity,
          MaxReportingLag, \* world.max_reporting_lag
          Capacity,        \* a full shelf (50 half units)
          Low, Refill,     \* restock below Low (0.28), to at least Refill (0.45)
          MaxTime          \* bound: last tick

ASSUME QueueAssumption ==
    /\ IsFiniteSet(Journeys)
    /\ ItemOf \in [Journeys -> Items]
    /\ TicksPerDay \in Nat \ {0} /\ RefundDays \in Nat \ {0}
    /\ OrderDelay \in Nat \ {0} /\ PayDelay \in Nat \ {0}
    /\ MaxReportingLag \in Nat /\ MaxTime \in Nat
    /\ OrderMaturity \in Nat /\ PaymentMaturity \in Nat
    /\ RefundMaturity \in Nat /\ PixelMaturity \in Nat
    /\ Capacity \in Nat /\ Low \in Nat /\ Refill \in Nat
    /\ Low <= Refill /\ Refill <= Capacity

\* The maturities cover the delays: true of the factual profile (96 ticks a
\* day), not of a world with fewer than 15.
ASSUME MaturityAssumption ==
    /\ OrderDelay <= OrderMaturity
    /\ OrderDelay + PayDelay <= PaymentMaturity
    /\ OrderDelay + PayDelay + TicksPerDay + RefundDays * TicksPerDay - 1
           <= RefundMaturity
    /\ 3 * TicksPerDay - 1 <= PixelMaturity

\* world.max_reporting_lag covers the two days of reporting.
ASSUME LagAssumption == 2 * TicksPerDay - 1 <= MaxReportingLag

VARIABLES now, phase,
          stock,           \* item -> half units on the shelf
          pending,         \* _pending
          delivered,       \* the delayed events in the event log
          asked            \* journey -> time of its request, -1 before

vars == <<now, phase, stock, pending, delivered, asked>>

Kinds == {"order", "payment", "refund", "pixel"}

Outcome == [kind : Kinds, journey : Journeys, occurs : Nat, at : Nat]

TypeOK ==
    /\ now \in Nat
    /\ phase \in {"entry", "response"}
    /\ stock \in [Items -> 0..Capacity]
    /\ pending \subseteq Outcome
    /\ delivered \subseteq Outcome
    /\ asked \in [Journeys -> Nat \cup {-1}]

-----------------------------------------------------------------------------
Of(kind, S) == {p \in S : p.kind = kind}
On(item, S) == {p \in S : ItemOf[p.journey] = item}

Least(a, b) == IF a <= b THEN a ELSE b
Most(a, b) == IF a <= b THEN b ELSE a

\* due: an exact match, a missed time is never looked at again.
Due == {p \in pending : p.at = now}

Outcomes(kind, j, times) ==
    {[kind |-> kind, journey |-> j, occurs |-> t, at |-> t] : t \in times}

\* Seeded fault: a delay of zero ticks.
OrdersAtOnce(j, t) == Outcomes("order", j, t .. t + OrderDelay - 1)

\* _orders
Orders(j, t) == Outcomes("order", j, t + 1 .. t + OrderDelay)

\* _payments of an order and _refunds of a payment; each may not happen.
Payments(p) == Outcomes("payment", p.journey, p.occurs + 1 .. p.occurs + PayDelay)

\* Seeded fault: the random part may take a tick more.
RefundsLate(p) ==
    Outcomes("refund", p.journey,
             p.occurs + TicksPerDay .. p.occurs + TicksPerDay + RefundDays * TicksPerDay)

Refunds(p) ==
    Outcomes("refund", p.journey,
             p.occurs + TicksPerDay ..
                 p.occurs + TicksPerDay + RefundDays * TicksPerDay - 1)

\* Seeded fault: reported up to three days later.
PixelsLate(j, t) ==
    {[kind |-> "pixel", journey |-> j, occurs |-> t + c, at |-> t + c + r] :
        c \in 1..TicksPerDay, r \in 0..(3 * TicksPerDay)}

\* _pixel_conversions: conversion within a day, reported up to two days later.
Pixels(j, t) ==
    {[kind |-> "pixel", journey |-> j, occurs |-> t + c, at |-> t + c + r] :
        c \in 1..TicksPerDay, r \in 0..(2 * TicksPerDay - 1)}

\* Seeded fault: a payment is followed by a payment like an order.
SuccessorsRepeat(p) == {q \in Payments(p) : p.kind \in {"order", "payment"}}
                           \cup {q \in Refunds(p) : p.kind = "payment"}

\* The outcomes one committed outcome may schedule.
Successors(p) == {q \in Payments(p) : p.kind = "order"}
                     \cup {q \in Refunds(p) : p.kind = "payment"}

\* supply.commit: a restock sets the stock, orders and refunds move it.
StockAfter(i, level, batch) ==
    Least(Capacity,
          Most(0, level - 2 * Cardinality(On(i, Of("order", batch))))
              + Cardinality(On(i, Of("refund", batch))))

\* Seeded fault: pending orders are not reserved.
AvailableUnreserved(i) == stock[i] \div 2

\* _within_available_inventory: units on the shelf not yet promised.
Available(i) == Most(0, stock[i] \div 2 - Cardinality(On(i, Of("order", pending))))

-----------------------------------------------------------------------------
\* Commit of the entry batch: restocks, then everything due.  f schedules the
\* successors that happen.
CommitEntry(restocked, level, f) ==
    /\ phase = "entry"
    /\ now <= MaxTime
    /\ \A i \in restocked : stock[i] < Low
    /\ \A p \in DOMAIN f : f[p] \in Successors(p)
    /\ pending' = (pending \ Due) \cup {f[p] : p \in DOMAIN f}
    /\ delivered' = delivered \cup Due
    /\ stock' = [i \in Items |->
                    StockAfter(i, IF i \in restocked THEN level ELSE stock[i], Due)]
    /\ phase' = "response"
    /\ UNCHANGED <<now, asked>>

\* Commit of the response batch: journeys start, and f schedules the carts
\* that become orders, as far as the shelf allows, and the clicks that convert.
CommitResponse(started, f) ==
    /\ phase = "response"
    /\ \A j \in started : asked[j] = -1
    /\ DOMAIN f \subseteq started
    /\ \A j \in DOMAIN f : f[j] \in Orders(j, now) \cup Pixels(j, now)
    /\ \A i \in Items :
           Cardinality({j \in DOMAIN f : f[j].kind = "order" /\ ItemOf[j] = i})
               <= Available(i)
    /\ pending' = pending \cup {f[j] : j \in DOMAIN f}
    /\ asked' = [j \in Journeys |-> IF j \in started THEN now ELSE asked[j]]
    /\ now' = now + 1
    /\ phase' = "entry"
    /\ UNCHANGED <<stock, delivered>>

Init ==
    /\ now = 0
    /\ phase = "entry"
    /\ stock \in [Items -> 0..Capacity]
    /\ pending = {}
    /\ delivered = {}
    /\ asked = [j \in Journeys |-> -1]

Next ==
    \/ \E restocked \in SUBSET Items, level \in Refill..Capacity :
           \E S \in SUBSET Due :
               \E f \in [S -> UNION {Successors(p) : p \in S}] :
                   CommitEntry(restocked, level, f)
    \/ \E started \in SUBSET Journeys : \E S \in SUBSET started :
           \E f \in [S -> UNION {Orders(j, now) \cup Pixels(j, now) : j \in S}] :
               CommitResponse(started, f)

Spec == Init /\ [][Next]_vars

(***************************************************************************)
(* Properties.                                                             *)
(***************************************************************************)

\* README.md:30 "inventory reservations prevent oversell": the orders promised
\* on an item never exceed the units on its shelf, although carts, deliveries,
\* refunds and restocks interleave and no reservation is stored.
NoOversell ==
    \A i \in Items : 2 * Cardinality(On(i, Of("order", pending))) <= stock[i]

\* due matches the tick exactly: no scheduled outcome lies in the past, where
\* it would never be delivered.
NothingOverdue ==
    \A p \in pending : IF phase = "entry" THEN p.at >= now ELSE p.at > now

\* Once the joiner takes a label for mature, its outcome has been delivered: a
\* label written as negative is never contradicted later.
Maturity(kind) == CASE kind = "order" -> OrderMaturity
                    [] kind = "payment" -> PaymentMaturity
                    [] kind = "refund" -> RefundMaturity
                    [] kind = "pixel" -> PixelMaturity

MatureLabelsFinal ==
    \A p \in pending : now <= asked[p.journey] + Maturity(p.kind)

\* What is delivered is still admissible for an event log whose lateness is
\* the reporting lag of the world.
DeliveredInTime ==
    [][\A p \in delivered' \ delivered : p.occurs >= now - MaxReportingLag]_vars

\* A journey has at most one outcome of each kind, a payment only after its
\* order was delivered and a refund only after its payment.
Funnel ==
    \A p \in pending \cup delivered :
        /\ \A q \in pending \cup delivered :
               p.journey = q.journey /\ p.kind = q.kind => p = q
        /\ p.kind = "payment" =>
               \E q \in delivered : /\ q.journey = p.journey
                                    /\ q.kind = "order" /\ q.at < p.at
        /\ p.kind = "refund" =>
               \E q \in delivered : /\ q.journey = p.journey
                                    /\ q.kind = "payment" /\ q.at < p.at
=============================================================================

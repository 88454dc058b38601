----------------------------- MODULE ExposureLedger -----------------------------
(***************************************************************************)
(* What the platform remembers of the Feed items shown to one user         *)
(* (platform/projection.py, platform/state/exposure_bloom.py) and the two  *)
(* filters retrieval applies to it (platform/routes/exposure.py): an exact *)
(* ring of the last exposures, and a Bloom filter with one segment a day   *)
(* that is cleared when its place is needed again.  The day of a segment   *)
(* is shared by all users, so that exposures of others clear it too.       *)
(***************************************************************************)
EXTENDS Integers, Sequences, FiniteSets

CONSTANTS Items,
          Bits, Locations,       \* Locations[i]: the bits item i hashes to
          Width,                 \* feed_exposure_history_length
          Segments, SegmentTicks \* ExposureBloomConfig

VARIABLE ledger

Exposure == [item : Items, time : Nat]

Slots == 0..(Width - 1)
Places == 0..(Segments - 1)

\* A slot is a sequence of one exposure, or of none.
LedgerState == [ring : [Slots -> Seq(Exposure)],
                cursor : Nat,
                bits : [Places -> SUBSET Bits],
                epochs : [Places -> Int],
                start : Int]                 \* user_session_start_time

EmptyLedger == [ring |-> [s \in Slots |-> <<>>], cursor |-> 0,
                bits |-> [p \in Places |-> {}], epochs |-> [p \in Places |-> -1],
                start |-> -1]

Epoch(t) == t \div SegmentTicks

-----------------------------------------------------------------------------
(* Writing.                                                                *)

\* Seeded fault: a batch that is wider than the ring starts at its beginning.
RingWrapped(l, batch) ==
    [l EXCEPT
        !.ring = [s \in Slots |->
            LET hits == {k \in 1..Len(batch) : k <= Width /\ (l.cursor + k - 1) % Width = s}
            IN IF hits = {} THEN l.ring[s]
               ELSE <<batch[CHOOSE k \in hits : \A j \in hits : j <= k]>>],
        !.cursor = @ + Len(batch)]

\* The newest Width of a batch, in the order of their times.
RingAppended(l, batch) ==
    [l EXCEPT
        !.ring = [s \in Slots |->
            LET hits == {k \in 1..Len(batch) :
                            k > Len(batch) - Width /\ (l.cursor + k - 1) % Width = s}
            IN IF hits = {} THEN l.ring[s] ELSE <<batch[CHOOSE k \in hits : TRUE]>>],
        !.cursor = @ + Len(batch)]

\* The place of an epoch is cleared when another epoch had it.
Rotated(l, epoch) ==
    LET place == epoch % Segments
    IN IF l.epochs[place] = epoch THEN l
       ELSE [l EXCEPT !.bits[place] = {}, !.epochs[place] = epoch]

BitsOf(items) == UNION {Locations[i] : i \in items}

\* add_exposures for the items of one epoch.
Added(l, epoch, items) ==
    [Rotated(l, epoch) EXCEPT !.bits[epoch % Segments] = @ \cup BitsOf(items)]

\* Exposures of one time: of this user, and whether others had any.
Exposed(l, items, time, others) ==
    LET batch == [k \in 1..Len(items) |-> [item |-> items[k], time |-> time]]
        shown == {items[k] : k \in 1..Len(items)}
    IN IF shown = {} /\ ~others THEN l
       ELSE Added(RingAppended(l, batch), Epoch(time), shown)

SessionStarted(l, time) == [l EXCEPT !.start = IF time > @ THEN time ELSE @]

-----------------------------------------------------------------------------
(* Reading.                                                                *)

AtLeast(a, b) == IF a < b THEN b ELSE a
AtMost(a, b) == IF a < b THEN a ELSE b

\* A window of ticks is rounded up to whole segments.
Retained(window) ==
    AtMost(Segments, AtLeast((window + SegmentTicks - 1) \div SegmentTicks, 1))

\* Seeded fault: the segment that is about to be replaced still counts.
ActivePlacesOld(l, time, window) ==
    {p \in Places : l.epochs[p] <= Epoch(time)
                 /\ l.epochs[p] >= Epoch(time) - Retained(window)}

ActivePlaces(l, time, window) ==
    {p \in Places : l.epochs[p] <= Epoch(time)
                 /\ l.epochs[p] > Epoch(time) - Retained(window)}

RecentlyExposed(l, item, time, window) ==
    Locations[item] \subseteq UNION {l.bits[p] : p \in ActivePlaces(l, time, window)}

\* Seeded fault: the start of the session itself does not count.
ExposedInSessionAfter(l, item, time) ==
    \E s \in Slots : \E k \in DOMAIN l.ring[s] :
        /\ l.ring[s][k].item = item
        /\ l.ring[s][k].time > l.start
        /\ l.ring[s][k].time <= time

ExposedInSession(l, item, time) ==
    \E s \in Slots : \E k \in DOMAIN l.ring[s] :
        /\ l.ring[s][k].item = item
        /\ l.ring[s][k].time >= l.start
        /\ l.ring[s][k].time <= time
=============================================================================

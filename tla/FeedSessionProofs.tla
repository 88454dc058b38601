--------------------------- MODULE FeedSessionProofs ---------------------------
(***************************************************************************)
(* Theorems about one user and the Feed, for any delays, ring, segments,   *)
(* hash locations, windows and length of history: sessions and searches    *)
(* are whole, both exposure filters block exactly what they promise, and   *)
(* a rebuild from the event log finds the ledger that ingestion has kept.  *)
(***************************************************************************)
EXTENDS FeedSession, TLAPS, SequenceTheorems

-----------------------------------------------------------------------------
(* The inductive invariant of sessions and searches.                       *)

SessionTypes ==
    /\ now \in 0..MaxTime
    /\ user \in UserState
    /\ request \in Requests
    /\ phase \in {"entry", "respond"}
    /\ journal \in Seq(Served)
    /\ phase = "respond" => now < MaxTime

\* The next request of the user starts a session.
Fresh == journal = <<>> \/ journal[Len(journal)].end

Latest == journal[Len(journal)]

\* Requests are recorded in the order of their ticks.
InOrder ==
    /\ \A i, j \in DOMAIN journal : i < j => journal[i].time < journal[j].time
    /\ \A i \in DOMAIN journal : journal[i].time < now

\* Nothing of a search outlives the session.
Rested ==
    IF user.active THEN user.registered /\ ~user.churned
    ELSE ~user.followup /\ ~user.feedPending /\ user.depth = 0

\* The depth counts the reformulations in a row, and others before them.
DepthCounts ==
    ~Fresh /\ Latest.outcome = "reformulate" =>
        /\ user.depth >= 1
        /\ Len(journal) > 1 /\ journal[Len(journal) - 1].outcome = "reformulate"
               /\ ~Latest.start => user.depth = 2

\* Between two ticks the flags of the user are those of the latest request.
Carried ==
    phase = "entry" /\ ~Fresh =>
        /\ Latest.time = now - 1
        /\ user.followup <=> Latest.outcome = "reformulate"
        /\ user.feedPending <=> Latest.outcome = "success"
        /\ user.feedPending => user.lastQuery = Latest.time

\* Within a tick they are used up, and the open request has what they ask for.
Asked ==
    phase = "respond" =>
        IF user.active
        THEN /\ ~user.followup /\ ~user.feedPending
             /\ request.start <=> Fresh
             /\ request.surface = "search" => user.lastQuery = now
             /\ request.lineage # None <=> ~Fresh /\ Latest.outcome = "success"
             /\ request.lineage # None =>
                    request.surface = "feed" /\ request.lineage = Latest.time
             /\ ~Fresh => /\ Latest.time = now - 1
                          /\ Latest.outcome = "reformulate" => request.surface = "search"
        ELSE request = NoRequest

\* The session of the user is the one the journal leaves open.
OneSession ==
    IF phase = "entry" THEN user.active <=> ~Fresh
    ELSE ~user.active => Fresh

SessionInv == /\ SessionTypes
              /\ InOrder /\ Rested /\ DepthCounts /\ Carried /\ Asked /\ OneSession
              /\ SessionsAreWhole

-----------------------------------------------------------------------------
(* The inductive invariant of the ledger.                                  *)

LedgerTypes ==
    /\ ledger \in LedgerState
    /\ shown \in Seq(Exposure)
    /\ rotations \subseteq Nat

\* The positions of a sequence of exposures that a slot of the ring may hold.
Newest(s, n) == {k \in 1..n : k > n - Width /\ (k - 1) % Width = s}

\* The ring that a sequence of exposures leaves.
RingOf(seq) ==
    [s \in Slots |-> IF Newest(s, Len(seq)) = {} THEN <<>>
                     ELSE <<seq[CHOOSE k \in Newest(s, Len(seq)) : TRUE]>>]

RingExact == ledger.cursor = Len(shown) /\ ledger.ring = RingOf(shown)

\* k is the latest request that started a session.
LatestStart(k) ==
    /\ k \in DOMAIN journal /\ journal[k].start
    /\ \A j \in DOMAIN journal : journal[j].start => j <= k

StartExact ==
    IF phase = "respond" /\ request.start THEN ledger.start = now
    ELSE \/ ledger.start = -1 /\ \A j \in DOMAIN journal : ~journal[j].start
         \/ \E k \in DOMAIN journal : LatestStart(k) /\ ledger.start = journal[k].time

\* The epoch of a place is the last one that had it.
EpochExact(l, rotated, p) ==
    \/ l.epochs[p] = -1 /\ \A e \in rotated : e % Segments # p
    \/ /\ l.epochs[p] \in rotated
       /\ l.epochs[p] % Segments = p
       /\ \A e \in rotated : e % Segments = p => e <= l.epochs[p]

\* What a sequence of exposures shows in an epoch.
ShownIn(seq, epoch) == {seq[k].item : k \in {k \in DOMAIN seq : Epoch(seq[k].time) = epoch}}

SegmentsExact(l, seq, rotated) ==
    \A p \in Places :
        /\ EpochExact(l, rotated, p)
        /\ l.bits[p] = BitsOf(ShownIn(seq, l.epochs[p]))

\* Exposures lie in the past and in epochs that rotated their place.
Dated(seq, rotated, time) ==
    /\ \A k \in DOMAIN seq : seq[k].time < time /\ Epoch(seq[k].time) \in rotated
    /\ \A e \in rotated : e <= Epoch(time)

LedgerInv == /\ LedgerTypes /\ RingExact /\ StartExact
             /\ SegmentsExact(ledger, shown, rotations)
             /\ Dated(shown, rotations, now)

-----------------------------------------------------------------------------
(* What the operators of the session do.                                   *)

\* The fields of a user have their types.
LEMMA UserFields ==
    ASSUME NEW u \in UserState
    PROVE  /\ u.registered \in BOOLEAN /\ u.active \in BOOLEAN /\ u.churned \in BOOLEAN
           /\ u.nextReturn \in Nat /\ u.reactivation \in Nat \cup {Never}
           /\ u.followup \in BOOLEAN /\ u.depth \in 0..2 /\ u.feedPending \in BOOLEAN
           /\ u.lastQuery \in Nat \cup {None}
  BY DEF UserState

\* What the entry of a tick makes of the user, and the request it opens.
LEMMA EnteredFacts ==
    ASSUME now \in Nat, user \in UserState,
           NEW arrival \in BOOLEAN, NEW surface \in SurfacesOf(user),
           user.feedPending => ~user.followup
    PROVE  LET u == Entered(user, arrival, surface)
               r == RequestOf(user, arrival, surface)
           IN /\ u \in UserState /\ r \in Requests
              /\ u.active /\ u.registered
              /\ u.churned <=> user.churned /\ ~arrival
              /\ ~u.followup /\ ~u.feedPending /\ u.depth = user.depth
              /\ surface = "search" => u.lastQuery = now
              /\ r.start = arrival /\ r.surface = surface
              /\ user.followup => surface = "search"
              /\ user.feedPending => surface = "feed" /\ r.lineage = user.lastQuery
              /\ ~user.feedPending => r.lineage = None
  <1>1. surface \in Surfaces /\ (user.followup => surface = "search")
        /\ (user.feedPending => surface = "feed")
    BY DEF SurfacesOf, PostSearchFeed, Surfaces
  <1>2. user.followup \in BOOLEAN /\ user.feedPending \in BOOLEAN /\ user.churned \in BOOLEAN
        /\ user.reactivation \in Nat \cup {Never} /\ user.lastQuery \in Nat \cup {None}
    BY DEF UserState
  <1>3. RequestOf(user, arrival, surface) \in Requests
    BY <1>1, <1>2 DEF RequestOf, Requests, PostSearchFeed
  <1>4. Entered(user, arrival, surface) \in UserState
    <2> DEFINE churned == user.churned /\ ~arrival
               reactivation == IF arrival THEN Never ELSE user.reactivation
               followup == user.followup /\ surface # "search"
               feedPending == user.feedPending /\ ~PostSearchFeed(user)
               lastQuery == IF surface = "search" THEN now ELSE user.lastQuery
    <2>1. /\ churned \in BOOLEAN /\ followup \in BOOLEAN /\ feedPending \in BOOLEAN
          /\ reactivation \in Nat \cup {Never} /\ lastQuery \in Nat \cup {None}
      BY <1>2
    <2>2. Entered(user, arrival, surface) =
             [user EXCEPT !.registered = TRUE, !.active = TRUE, !.churned = churned,
                          !.reactivation = reactivation, !.followup = followup,
                          !.feedPending = feedPending, !.lastQuery = lastQuery]
      BY Zenon DEF Entered
    <2> HIDE DEF churned, reactivation, followup, feedPending, lastQuery
    <2> QED  BY <2>1, <2>2 DEF UserState
  <1>5. LET u == Entered(user, arrival, surface)
        IN /\ u.active /\ u.registered
           /\ u.churned <=> user.churned /\ ~arrival
           /\ ~u.followup /\ ~u.feedPending /\ u.depth = user.depth
           /\ surface = "search" => u.lastQuery = now
    BY <1>1, <1>2 DEF Entered, UserState, PostSearchFeed
  <1>6. LET r == RequestOf(user, arrival, surface)
        IN /\ r.start = arrival /\ r.surface = surface
           /\ user.feedPending => r.lineage = user.lastQuery
           /\ ~user.feedPending => r.lineage = None
    BY <1>1, <1>2 DEF RequestOf, PostSearchFeed
  <1> QED  BY <1>1, <1>3, <1>4, <1>5, <1>6

\* What the outcome of a request leaves with the user.
LEMMA SearchedFacts ==
    ASSUME NEW u \in UserState, ~u.followup, ~u.feedPending,
           NEW surface, NEW outcome \in OutcomesOf(u, surface)
    PROVE  LET v == Searched(u, outcome)
           IN /\ v \in UserState
              /\ v.active <=> u.active
              /\ v.registered <=> u.registered
              /\ v.churned <=> u.churned
              /\ v.lastQuery = u.lastQuery
              /\ v.followup <=> outcome = "reformulate"
              /\ v.feedPending <=> outcome = "success"
              /\ outcome = "reformulate" => v.depth = u.depth + 1 /\ u.depth < 2
              /\ outcome # "none" => surface = "search"
              /\ outcome \in Outcomes
  <1>1. outcome \in {"none", "success", "reformulate", "abandon"}
        /\ (outcome = "reformulate" => u.depth < 2)
        /\ (outcome # "none" => surface = "search")
    BY DEF OutcomesOf
  <1>2. 0 \in 0..2 /\ u.depth \in 0..2
    BY UserFields
  <1>3. CASE outcome = "none"
    <2>1. Searched(u, outcome) = u
      BY <1>3 DEF Searched
    <2>2. Searched(u, outcome) \in UserState
      BY <2>1, <1>2, UserFields DEF UserState
    <2> QED  BY <1>1, <1>2, <1>3, <2>1, <2>2, UserFields DEF Outcomes, UserState
  <1>4. CASE outcome = "success"
    <2>1. Searched(u, outcome) = [u EXCEPT !.feedPending = TRUE,
                                            !.followup = FALSE, !.depth = 0]
      BY <1>4 DEF Searched
    <2>2. Searched(u, outcome) \in UserState
      BY <2>1, <1>2, UserFields DEF UserState
    <2> QED  BY <1>1, <1>2, <1>4, <2>1, <2>2, UserFields DEF Outcomes, UserState
  <1>5. CASE outcome = "reformulate"
    <2>0. u.depth + 1 \in 0..2
      BY <1>1, <1>2, <1>5
    <2>1. Searched(u, outcome) = [u EXCEPT !.followup = TRUE, !.depth = @ + 1]
      BY <1>5 DEF Searched
    <2>2. Searched(u, outcome) \in UserState
      BY <2>1, <1>2, <2>0, UserFields DEF UserState
    <2> QED  BY <1>1, <1>2, <1>5, <2>1, <2>2, <2>0, UserFields DEF Outcomes, UserState
  <1>6. CASE outcome = "abandon"
    <2>1. Searched(u, outcome) = [u EXCEPT !.followup = FALSE, !.depth = 0]
      BY <1>6 DEF Searched
    <2>2. Searched(u, outcome) \in UserState
      BY <2>1, <1>2, UserFields DEF UserState
    <2> QED  BY <1>1, <1>2, <1>6, <2>1, <2>2, UserFields DEF Outcomes, UserState
  <1> QED  BY <1>1, <1>3, <1>4, <1>5, <1>6

\* Leaving ends the session and the search with it.
LEMMA LeftFacts ==
    ASSUME now \in Nat, NEW u \in UserState,
           NEW delay \in Delays, NEW reactivation \in Reactivations
    PROVE  LET v == Left(u, delay, reactivation)
           IN /\ v \in UserState
              /\ ~v.active /\ ~v.followup /\ ~v.feedPending /\ v.depth = 0
  <1>1. delay \in Nat /\ reactivation \in Nat \cup {None, Never}
    BY FeedAssumption DEF Reactivations
  <1> DEFINE gone == reactivation # None
             back == IF reactivation = None THEN Never ELSE reactivation
  <1>2. gone \in BOOLEAN /\ back \in Nat \cup {Never} /\ now + delay \in Nat
        /\ 0 \in 0..2
    BY <1>1
  <1> DEFINE v == [u EXCEPT !.active = FALSE, !.churned = gone, !.reactivation = back,
                            !.nextReturn = now + delay, !.followup = FALSE, !.depth = 0,
                            !.feedPending = FALSE]
  <1>3. Left(u, delay, reactivation) = v
    BY DEF Left
  <1> HIDE DEF gone, back
  <1>4. v \in UserState
    BY <1>2, UserFields DEF UserState
  <1>5. ~v.active /\ ~v.followup /\ ~v.feedPending /\ v.depth = 0
    BY DEF UserState
  <1> QED  BY <1>3, <1>4, <1>5

\* Recording a request.
LEMMA RecordFacts ==
    ASSUME journal \in Seq(Served), now \in Nat, request \in Requests,
           NEW outcome \in Outcomes, NEW end \in BOOLEAN, Record(outcome, end)
    PROVE  LET n == Len(journal) IN
           /\ journal' \in Seq(Served) /\ Len(journal') = n + 1
           /\ n \in Nat /\ DOMAIN journal = 1..n /\ DOMAIN journal' = 1..(n + 1)
           /\ \A i \in 1..n : journal'[i] = journal[i]
           /\ journal'[n + 1] = [time |-> now, start |-> request.start,
                                 surface |-> request.surface,
                                 lineage |-> request.lineage,
                                 outcome |-> outcome, end |-> end]
           /\ journal = <<>> <=> n = 0
           /\ journal' # <<>>
  <1> DEFINE new == [time |-> now, start |-> request.start,
                     surface |-> request.surface, lineage |-> request.lineage,
                     outcome |-> outcome, end |-> end]
  <1>1. new \in Served
    BY DEF Served, Requests
  <1>2. journal' = Append(journal, new)
    BY DEF Record
  <1> HIDE DEF new
  <1>3. /\ journal' \in Seq(Served) /\ Len(journal') = Len(journal) + 1
        /\ \A i \in 1..Len(journal) : journal'[i] = journal[i]
        /\ journal'[Len(journal) + 1] = new
    BY <1>1, <1>2
  <1>4. Len(journal) \in Nat /\ DOMAIN journal = 1..Len(journal)
        /\ DOMAIN journal' = 1..Len(journal')
        /\ (journal = <<>> <=> Len(journal) = 0) /\ (journal' = <<>> <=> Len(journal') = 0)
    BY <1>3
  <1> QED  BY <1>3, <1>4 DEF new

\* The journal is a sequence of served requests, and its last one is open or ended.
LEMMA JournalFacts ==
    ASSUME SessionInv
    PROVE  /\ now \in Nat /\ MaxTime \in Nat /\ Len(journal) \in Nat
           /\ DOMAIN journal = 1..Len(journal)
           /\ journal = <<>> <=> Len(journal) = 0
           /\ \A i \in 1..Len(journal) : journal[i] \in Served
           /\ ~Fresh => Len(journal) >= 1 /\ Latest \in Served /\ ~Latest.end
  <1>1. now \in Nat /\ MaxTime \in Nat /\ journal \in Seq(Served)
    BY FeedAssumption DEF SessionInv, SessionTypes
  <1>2. /\ Len(journal) \in Nat /\ DOMAIN journal = 1..Len(journal)
        /\ journal = <<>> <=> Len(journal) = 0
        /\ \A i \in 1..Len(journal) : journal[i] \in Served
    BY <1>1
  <1>3. ~Fresh => Len(journal) >= 1 /\ Latest \in Served /\ ~Latest.end
    BY <1>2 DEF Fresh, Latest
  <1> QED  BY <1>1, <1>2, <1>3

\* What the flags say at the start of a tick, with or without an open session.
LEMMA CarriedFacts ==
    ASSUME SessionInv, phase = "entry"
    PROVE  /\ user.active <=> ~Fresh
           /\ user.followup <=> ~Fresh /\ Latest.outcome = "reformulate"
           /\ user.feedPending <=> ~Fresh /\ Latest.outcome = "success"
           /\ user.feedPending => user.lastQuery = Latest.time
           /\ user.active => user.registered /\ ~user.churned
           /\ user.followup \in BOOLEAN /\ user.feedPending \in BOOLEAN
           /\ user.active \in BOOLEAN
  <1>1. user \in UserState
    BY DEF SessionInv, SessionTypes
  <1>2. user.followup \in BOOLEAN /\ user.feedPending \in BOOLEAN /\ user.active \in BOOLEAN
    BY <1>1, UserFields
  <1>3. user.active <=> ~Fresh
    BY DEF SessionInv, OneSession
  <1>4. CASE Fresh
    BY <1>2, <1>3, <1>4 DEF SessionInv, Rested
  <1>5. CASE ~Fresh
    BY <1>2, <1>3, <1>5 DEF SessionInv, Rested, Carried
  <1> QED  BY <1>4, <1>5

\* A request is opened: it has what the flags ask for, and they are used up.
LEMMA EntersSession ==
    ASSUME SessionInv, Entry, NEW arrival \in BOOLEAN, arrival <=> ~user.active,
           Enters(arrival)
    PROVE  SessionInv'
  <1>1. /\ phase = "entry" /\ phase' = "respond" /\ now < MaxTime
        /\ now' = now /\ journal' = journal
    BY DEF Entry
  <1>2. PICK surface \in SurfacesOf(user) :
            /\ request' = RequestOf(user, arrival, surface)
            /\ user' = Entered(user, arrival, surface)
    BY DEF Enters
  <1>3. now \in Nat /\ user \in UserState
    BY JournalFacts DEF SessionInv, SessionTypes
  <1>4. user.feedPending => ~user.followup
    BY <1>1, CarriedFacts
  <1>5. /\ user' \in UserState /\ request' \in Requests
        /\ user'.active /\ user'.registered
        /\ user'.churned <=> user.churned /\ ~arrival
        /\ ~user'.followup /\ ~user'.feedPending /\ user'.depth = user.depth
        /\ surface = "search" => user'.lastQuery = now
        /\ request'.start = arrival /\ request'.surface = surface
        /\ user.followup => surface = "search"
        /\ user.feedPending => surface = "feed" /\ request'.lineage = user.lastQuery
        /\ ~user.feedPending => request'.lineage = None
    BY <1>2, <1>3, <1>4, EnteredFacts
  <1>6. Fresh' = Fresh /\ Latest' = Latest
    BY <1>1 DEF Fresh, Latest
  <1>7. SessionTypes'
    BY <1>1, <1>5 DEF SessionInv, SessionTypes
  <1>8. InOrder' /\ SessionsAreWhole'
    BY <1>1 DEF SessionInv, InOrder, SessionsAreWhole
  <1>9. Rested'
    BY <1>1, <1>5, CarriedFacts DEF Rested
  <1>10. DepthCounts'
    BY <1>1, <1>5, <1>6 DEF SessionInv, DepthCounts
  <1>11. Carried' /\ OneSession'
    BY <1>1, <1>5 DEF Carried, OneSession
  <1>12. Asked'
    <2>1. ~Fresh => Latest.time \in Nat /\ Latest.time = now - 1
      BY <1>1, JournalFacts DEF SessionInv, Carried, Served
    <2>2. request'.lineage # None <=> user.feedPending
      BY <1>1, <1>5, <2>1, CarriedFacts DEF None
    <2> QED  BY <1>1, <1>5, <1>6, <2>1, <2>2, CarriedFacts DEF Asked
  <1> QED  BY <1>7, <1>8, <1>9, <1>10, <1>11, <1>12 DEF SessionInv

\* The entry of a tick.
LEMMA EntrySession ==
    ASSUME SessionInv, Entry
    PROVE  SessionInv'
  <1>1. phase = "entry" /\ phase' = "respond" /\ now < MaxTime
        /\ now' = now /\ journal' = journal
    BY DEF Entry
  <1>2. CASE Arrive
    <2>1. ~user.active
      BY <1>1, <1>2, CarriedFacts DEF Arrive, MayArrive, Reactivates
    <2> QED  BY <1>2, <2>1, EntersSession DEF Arrive
  <1>3. CASE GoOn
    BY <1>3, EntersSession DEF GoOn
  <1>4. CASE StayAway
    <2>1. ~user.active /\ request' = NoRequest /\ user' = user
      BY <1>4 DEF StayAway
    <2>2. NoRequest \in Requests
      BY DEF NoRequest, Requests, Surfaces
    <2>3. Fresh' = Fresh /\ Latest' = Latest
      BY <1>1 DEF Fresh, Latest
    <2>4. SessionTypes'
      BY <1>1, <2>1, <2>2 DEF SessionInv, SessionTypes
    <2>5. InOrder' /\ SessionsAreWhole' /\ Rested' /\ DepthCounts'
      BY <1>1, <2>1, <2>3 DEF SessionInv, InOrder, SessionsAreWhole, Rested, DepthCounts
    <2>6. Carried' /\ Asked' /\ OneSession'
      BY <1>1, <2>1, <2>3, CarriedFacts DEF Carried, Asked, OneSession
    <2> QED  BY <2>4, <2>5, <2>6 DEF SessionInv
  <1> QED  BY <1>2, <1>3, <1>4 DEF Entry

\* Both answers record one request and keep or end the session.
LEMMA AnswerShape ==
    ASSUME SessionInv, BrowseFeed \/ Respond
    PROVE  /\ phase = "respond" /\ user.active
           /\ now' = now + 1 /\ phase' = "entry" /\ request' = NoRequest
           /\ \E outcome \in OutcomesOf(user, request.surface), end \in BOOLEAN :
                  /\ Record(outcome, end)
                  /\ end => Leaves(outcome)
                  /\ ~end => Stays(outcome)
  <1>1. CASE BrowseFeed
    <2>1. "none" \in OutcomesOf(user, request.surface)
      BY <1>1 DEF BrowseFeed, OutcomesOf
    <2> QED  BY <1>1, <2>1 DEF BrowseFeed, Tick
  <1>2. CASE Respond
    BY <1>2 DEF Respond, Tick
  <1> QED  BY <1>1, <1>2

\* A request that is answered keeps sessions and searches whole.
LEMMA AnswerSession ==
    ASSUME SessionInv, BrowseFeed \/ Respond
    PROVE  SessionInv'
  <1> DEFINE n == Len(journal)
  <1>1. /\ phase = "respond" /\ user.active /\ now < MaxTime
        /\ now' = now + 1 /\ phase' = "entry" /\ request' = NoRequest
    BY AnswerShape DEF SessionInv, SessionTypes
  <1>2. PICK outcome \in OutcomesOf(user, request.surface), end \in BOOLEAN :
            /\ Record(outcome, end)
            /\ end => Leaves(outcome)
            /\ ~end => Stays(outcome)
    BY AnswerShape
  <1>3. /\ now \in Nat /\ MaxTime \in Nat /\ user \in UserState /\ request \in Requests
        /\ journal \in Seq(Served) /\ n \in Nat
        /\ DOMAIN journal = 1..n /\ (journal = <<>> <=> n = 0)
    BY JournalFacts DEF SessionInv, SessionTypes
  <1>4. /\ ~user.followup /\ ~user.feedPending
        /\ request.start <=> Fresh
        /\ request.surface = "search" => user.lastQuery = now
        /\ request.lineage # None <=> ~Fresh /\ Latest.outcome = "success"
        /\ request.lineage # None =>
               request.surface = "feed" /\ request.lineage = Latest.time
        /\ ~Fresh => /\ Latest.time = now - 1
                     /\ Latest.outcome = "reformulate" => request.surface = "search"
    BY <1>1 DEF SessionInv, Asked
  <1> DEFINE v == Searched(user, outcome)
  <1>5. /\ v \in UserState
        /\ v.active /\ v.registered /\ ~v.churned
        /\ v.lastQuery = user.lastQuery
        /\ v.followup <=> outcome = "reformulate"
        /\ v.feedPending <=> outcome = "success"
        /\ outcome = "reformulate" => v.depth = user.depth + 1 /\ user.depth < 2
        /\ outcome # "none" => request.surface = "search"
        /\ outcome \in Outcomes
    <2>1. user.active /\ user.registered /\ ~user.churned
      BY <1>1 DEF SessionInv, Rested
    <2> QED  BY <1>3, <1>4, <2>1, SearchedFacts
  <1> HIDE DEF v
  <1>6. /\ user' \in UserState
        /\ ~end => user' = v
        /\ end => ~user'.active /\ ~user'.followup /\ ~user'.feedPending /\ user'.depth = 0
    <2>1. CASE end
      <3>1. PICK delay \in Delays, reactivation \in Reactivations :
                user' = Left(v, delay, reactivation)
        BY <1>2, <2>1 DEF Leaves, SearchedAndLeft, v
      <3> QED  BY <2>1, <3>1, <1>3, <1>5, LeftFacts
    <2>2. CASE ~end
      BY <1>2, <1>5, <2>2 DEF Stays, v
    <2> QED  BY <2>1, <2>2
  <1> DEFINE new == [time |-> now, start |-> request.start, surface |-> request.surface,
                     lineage |-> request.lineage, outcome |-> outcome, end |-> end]
  <1>7. /\ journal' \in Seq(Served) /\ Len(journal') = n + 1
        /\ DOMAIN journal' = 1..(n + 1)
        /\ \A i \in 1..n : journal'[i] = journal[i]
        /\ journal'[n + 1] = new
        /\ journal' # <<>>
    BY <1>2, <1>3, <1>5, RecordFacts
  <1>8. (Fresh' <=> end) /\ Latest' = new
    BY <1>7 DEF Fresh, Latest
  <1>9. SessionTypes'
    <2>1. NoRequest \in Requests
      BY DEF NoRequest, Requests, Surfaces
    <2> QED  BY <1>1, <1>3, <1>6, <1>7, <2>1 DEF SessionTypes
  <1>10. InOrder'
    <2>1. \A i \in 1..n : journal[i].time \in Nat /\ journal[i].time < now
      BY <1>3, JournalFacts DEF SessionInv, InOrder, Served
    <2>2. \A i, j \in 1..n : i < j => journal[i].time < journal[j].time
      BY <1>3 DEF SessionInv, InOrder
    <2>3. \A i \in 1..(n + 1) : journal'[i].time < now + 1
      BY <1>3, <1>7, <2>1
    <2>4. ASSUME NEW i \in 1..(n + 1), NEW j \in 1..(n + 1), i < j
          PROVE  journal'[i].time < journal'[j].time
      <3>1. i \in 1..n /\ journal'[i] = journal[i]
        BY <1>3, <1>7, <2>4
      <3>2. CASE j \in 1..n
        BY <1>7, <2>2, <2>4, <3>1, <3>2
      <3>3. CASE j = n + 1
        BY <1>7, <2>1, <3>1, <3>3
      <3> QED  BY <1>3, <3>2, <3>3
    <2> QED  BY <1>1, <1>7, <2>3, <2>4 DEF InOrder
  <1>11. Rested'
    BY <1>5, <1>6 DEF Rested
  <1>12. DepthCounts'
    <2> SUFFICES ASSUME ~end, outcome = "reformulate"
                 PROVE  /\ v.depth >= 1
                        /\ n + 1 > 1 /\ journal'[n + 1 - 1].outcome = "reformulate"
                               /\ ~request.start => v.depth = 2
      BY <1>6, <1>7, <1>8 DEF DepthCounts
    <2>1. v.depth = user.depth + 1 /\ user.depth \in 0..2 /\ v.depth \in 0..2
      BY <1>3, <1>5, UserFields
    <2>2. ASSUME n + 1 > 1, journal'[n + 1 - 1].outcome = "reformulate", ~request.start
          PROVE  user.depth >= 1
      <3>1. ~Fresh
        BY <1>4, <2>2
      <3>2. Latest.outcome = "reformulate"
        BY <1>3, <1>7, <2>2 DEF Latest
      <3> QED  BY <3>1, <3>2 DEF SessionInv, DepthCounts
    <2> QED  BY <2>1, <2>2
  <1>13. Carried'
    <2>1. Latest'.time = now /\ Latest'.outcome = outcome
      BY <1>8
    <2> SUFFICES ASSUME ~end
                 PROVE  /\ Latest'.time = now' - 1
                        /\ user'.followup <=> Latest'.outcome = "reformulate"
                        /\ user'.feedPending <=> Latest'.outcome = "success"
                        /\ user'.feedPending => user'.lastQuery = Latest'.time
      BY <1>8 DEF Carried
    <2>2. user' = v
      BY <1>6
    <2>3. v.feedPending => v.lastQuery = now
      BY <1>4, <1>5
    <2> QED  BY <1>1, <1>3, <1>5, <2>1, <2>2, <2>3
  <1>14. Asked' /\ OneSession'
    <2>1. user'.active <=> ~end
      BY <1>5, <1>6
    <2> QED  BY <1>1, <1>8, <2>1 DEF Asked, OneSession
  <1>15. SessionsAreWhole'
    <2> DEFINE Good(s, k) ==
            LET this == s[k]
                first == k = 1 \/ s[k - 1].end
            IN /\ this.start <=> first
               /\ ~first =>
                    /\ this.time = s[k - 1].time + 1
                    /\ s[k - 1].outcome = "reformulate" => this.surface = "search"
               /\ this.lineage # None <=> ~first /\ s[k - 1].outcome = "success"
               /\ this.lineage # None =>
                    this.surface = "feed" /\ this.lineage = s[k - 1].time
    <2> DEFINE Endless(s, k) ==
            \E b \in {k - 2} \cap DOMAIN s : \A i \in b..k :
                /\ s[i].outcome = "reformulate"
                /\ i > b => ~s[i].start
    <2>1. SessionsAreWhole <=> \A k \in DOMAIN journal : Good(journal, k) /\ ~Endless(journal, k)
      BY DEF SessionsAreWhole
    <2>2. SessionsAreWhole' <=> \A k \in DOMAIN journal' : Good(journal', k) /\ ~Endless(journal', k)
      BY DEF SessionsAreWhole
    <2>3. ASSUME NEW k \in 1..n
          PROVE  Good(journal', k) /\ ~Endless(journal', k)
      <3>1. Good(journal, k) /\ ~Endless(journal, k)
        BY <1>3, <2>1, <2>3 DEF SessionInv
      <3>2. journal'[k] = journal[k] /\ (k # 1 => journal'[k - 1] = journal[k - 1])
        BY <1>3, <1>7, <2>3
      <3>3. Good(journal', k)
        BY <3>1, <3>2
      <3>4. ~Endless(journal', k)
        <4> SUFFICES ASSUME k - 2 \in 1..(n + 1),
                            \A i \in (k - 2)..k : /\ journal'[i].outcome = "reformulate"
                                                  /\ i > k - 2 => ~journal'[i].start
                     PROVE  FALSE
          BY <1>7
        <4>1. k - 2 \in DOMAIN journal
          BY <1>3, <2>3
        <4>2. \A i \in (k - 2)..k : journal'[i] = journal[i]
          BY <1>3, <1>7, <2>3, <4>1
        <4> QED  BY <3>1, <4>1, <4>2
      <3> QED  BY <3>3, <3>4
    <2>4. Good(journal', n + 1)
      <3>1. CASE Fresh
        <4>1. n + 1 = 1 \/ journal'[n + 1 - 1].end
          BY <1>3, <1>7, <3>1 DEF Fresh
        <4> QED  BY <1>4, <1>7, <3>1, <4>1
      <3>2. CASE ~Fresh
        <4>1. n >= 1 /\ n + 1 # 1 /\ journal'[n + 1 - 1] = Latest /\ ~Latest.end
              /\ Latest.time \in Nat
          BY <1>3, <1>7, <3>2, JournalFacts DEF Latest, Served
        <4> QED  BY <1>3, <1>4, <1>7, <3>2, <4>1
      <3> QED  BY <3>1, <3>2
    <2>5. ~Endless(journal', n + 1)
      <3> SUFFICES ASSUME n + 1 - 2 \in 1..(n + 1),
                          \A i \in (n + 1 - 2)..(n + 1) :
                              /\ journal'[i].outcome = "reformulate"
                              /\ i > n + 1 - 2 => ~journal'[i].start
                   PROVE  FALSE
        BY <1>7
      <3>1. n > 1 /\ n - 1 \in 1..n
        BY <1>3
      <3>2. /\ journal'[n + 1].outcome = "reformulate" /\ ~journal'[n + 1].start
            /\ journal'[n].outcome = "reformulate" /\ ~journal'[n].start
            /\ journal'[n - 1].outcome = "reformulate"
        BY <1>3, <3>1
      <3>3. outcome = "reformulate" /\ ~Fresh
        BY <1>4, <1>7, <3>2
      <3>4. Latest.outcome = "reformulate" /\ ~Latest.start
            /\ journal[n - 1].outcome = "reformulate"
        BY <1>3, <1>7, <3>1, <3>2 DEF Latest
      <3>5. user.depth = 2
        BY <3>1, <3>3, <3>4 DEF SessionInv, DepthCounts
      <3> QED  BY <1>5, <3>3, <3>5
    <2> HIDE DEF Good, Endless
    <2> QED  BY <1>3, <1>7, <2>2, <2>3, <2>4, <2>5
  <1> QED  BY <1>9, <1>10, <1>11, <1>12, <1>13, <1>14, <1>15 DEF SessionInv

\* The initial states.
LEMMA InitSession == Init => SessionInv
  <1> SUFFICES ASSUME Init  PROVE SessionInv
    OBVIOUS
  <1>1. PICK registered \in BOOLEAN : user = [NewUser EXCEPT !.registered = registered]
    BY DEF Init
  <1>2. NewUser \in UserState /\ NoRequest \in Requests
    BY DEF NewUser, UserState, NoRequest, Requests, Surfaces
  <1>3. user \in UserState /\ ~user.active /\ ~user.followup /\ ~user.feedPending
        /\ user.depth = 0
    BY <1>1, <1>2, UserFields DEF NewUser, UserState
  <1>4. SessionTypes
    BY <1>2, <1>3, FeedAssumption DEF Init, SessionTypes
  <1>5. Fresh
    BY DEF Init, Fresh
  <1> QED  BY <1>3, <1>4, <1>5
           DEF Init, SessionInv, InOrder, Rested, DepthCounts, Carried, Asked,
               OneSession, SessionsAreWhole

\* Every step keeps the invariant of sessions.
LEMMA StepSession == SessionInv /\ [Next]_vars => SessionInv'
  <1> SUFFICES ASSUME SessionInv, [Next]_vars  PROVE SessionInv'
    OBVIOUS
  <1>1. CASE Entry
    BY <1>1, EntrySession
  <1>2. CASE BrowseFeed \/ Respond
    BY <1>2, AnswerSession
  <1>3. CASE Pass
    <2>1. /\ phase = "respond" /\ ~user.active /\ now < MaxTime
          /\ now' = now + 1 /\ phase' = "entry" /\ request' = NoRequest
          /\ user' = user /\ journal' = journal
      BY <1>3 DEF Pass, Tick, SessionInv, SessionTypes
    <2>2. NoRequest \in Requests
      BY DEF NoRequest, Requests, Surfaces
    <2>3. Fresh' = Fresh /\ Latest' = Latest /\ Fresh
      BY <2>1 DEF Fresh, Latest, SessionInv, OneSession
    <2>4. SessionTypes'
      BY <2>1, <2>2, JournalFacts DEF SessionInv, SessionTypes
    <2>5. InOrder'
      <3>1. \A i \in DOMAIN journal : journal[i].time < now /\ journal[i].time \in Nat
        BY JournalFacts DEF SessionInv, InOrder, Served
      <3> QED  BY <2>1, <3>1, JournalFacts DEF SessionInv, InOrder
    <2>6. SessionsAreWhole' /\ Rested' /\ DepthCounts'
      BY <2>1, <2>3 DEF SessionInv, SessionsAreWhole, Rested, DepthCounts
    <2>7. Carried' /\ Asked' /\ OneSession'
      BY <2>1, <2>3 DEF Carried, Asked, OneSession
    <2> QED  BY <2>4, <2>5, <2>6, <2>7 DEF SessionInv
  <1>4. CASE Rebuild \/ UNCHANGED vars
    <2>1. /\ now' = now /\ user' = user /\ request' = request /\ phase' = phase
          /\ journal' = journal
      BY <1>4 DEF Rebuild, vars
    <2> QED  BY <2>1
             DEF SessionInv, SessionTypes, InOrder, Rested, DepthCounts, Carried, Asked,
                 OneSession, SessionsAreWhole, Fresh, Latest
  <1> QED  BY <1>1, <1>2, <1>3, <1>4 DEF Next

\* Every reachable state satisfies the invariant of sessions.
THEOREM SessionInvariant == Spec => []SessionInv
  BY InitSession, StepSession, PTL DEF Spec

\* Sessions and searches are whole, for any delays and any length of history.
THEOREM FeedSessionsAreWhole == Spec => []SessionsAreWhole
  <1>1. SessionInv => SessionsAreWhole
    BY DEF SessionInv
  <1> QED  BY <1>1, SessionInvariant, PTL

-----------------------------------------------------------------------------
(* Rings and places: what remainders tell apart.                           *)

\* A quotient and a remainder make up the number.
LEMMA DivisionFacts ==
    ASSUME NEW a \in Nat, NEW w \in Nat \ {0}
    PROVE  /\ a = w * (a \div w) + (a % w)
           /\ a % w \in 0..(w - 1) /\ a \div w \in Nat
  OBVIOUS

\* The remainder of a multiple and a small number is the small number.
LEMMA RemainderFacts ==
    ASSUME NEW q \in Nat, NEW w \in Nat \ {0}, NEW s \in 0..(w - 1)
    PROVE  (q * w + s) % w = s
  OBVIOUS

\* Two numbers of one remainder are far apart.
LEMMA FarApart ==
    ASSUME NEW a \in Nat, NEW b \in Nat, NEW w \in Nat \ {0}, a % w = b % w, a < b
    PROVE  b - a >= w
  OBVIOUS

\* Epochs are numbers and never go back.
LEMMA EpochFacts ==
    ASSUME NEW a \in Nat
    PROVE  /\ Epoch(a) \in Nat
           /\ \A b \in Nat : a <= b => Epoch(a) <= Epoch(b)
  <1>1. SegmentTicks \in Nat \ {0}
    BY FeedAssumption
  <1>2. Epoch(a) \in Nat
    BY <1>1 DEF Epoch
  <1>3. ASSUME NEW b \in Nat, a <= b  PROVE a \div SegmentTicks <= b \div SegmentTicks
    BY <1>1, <1>3
  <1> QED  BY <1>2, <1>3 DEF Epoch

\* Every epoch has a place.
LEMMA PlaceFacts ==
    ASSUME NEW e \in Nat
    PROVE  e % Segments \in Places
  BY FeedAssumption, DivisionFacts DEF Places

\* A slot holds one of the newest positions.
LEMMA NewestUnique ==
    ASSUME NEW s, NEW n \in Nat, NEW j \in Newest(s, n), NEW k \in Newest(s, n)
    PROVE  j = k
  <1>1. Width \in Nat \ {0}
    BY FeedAssumption
  <1>2. ASSUME NEW a \in Newest(s, n), NEW b \in Newest(s, n), a < b  PROVE FALSE
    <2>1. a - 1 \in Nat /\ b - 1 \in Nat /\ a - 1 < b - 1
          /\ (a - 1) % Width = (b - 1) % Width
      BY <1>2 DEF Newest
    <2>2. (b - 1) - (a - 1) >= Width
      BY <1>1, <2>1, FarApart
    <2> QED  BY <1>1, <2>2 DEF Newest
  <1>3. j \in Int /\ k \in Int
    BY DEF Newest
  <1> QED  BY <1>2, <1>3

\* Once the ring is full, every slot holds one.
LEMMA NewestExists ==
    ASSUME NEW s \in Slots, NEW n \in Nat, n >= Width
    PROVE  Newest(s, n) # {}
  <1>1. Width \in Nat \ {0} /\ s \in 0..(Width - 1)
    BY FeedAssumption DEF Slots
  <1> DEFINE lo == n - Width
             q == lo \div Width
             r == lo % Width
  <1>2. lo \in Nat
    BY <1>1
  <1>3. lo = Width * q + r /\ r \in 0..(Width - 1) /\ q \in Nat
    BY <1>1, <1>2, DivisionFacts
  <1> HIDE DEF q, r
  <1>4. /\ (q * Width + s) % Width = s
        /\ ((q + 1) * Width + s) % Width = s
    <2>1. q + 1 \in Nat
      BY <1>3
    <2> QED  BY <1>1, <1>3, <2>1, RemainderFacts
  <1>5. (q + 1) * Width = q * Width + Width /\ Width * q = q * Width
        /\ q * Width \in Nat
    BY <1>1, <1>3
  <1> DEFINE qw == q * Width
  <1> HIDE DEF qw
  <1>6. CASE r <= s
    <2>1. PICK k \in Nat : k = qw + s + 1
      BY <1>1, <1>5 DEF qw
    <2>2. k \in 1..n /\ k > n - Width /\ k - 1 = qw + s
      BY <1>1, <1>2, <1>3, <1>5, <1>6, <2>1 DEF qw
    <2>3. (k - 1) % Width = s
      BY <1>4, <2>2 DEF qw
    <2> QED  BY <2>2, <2>3 DEF Newest
  <1>7. CASE r > s
    <2>1. PICK k \in Nat : k = qw + Width + s + 1
      BY <1>1, <1>5 DEF qw
    <2>2. k \in 1..n /\ k > n - Width /\ k - 1 = qw + Width + s
      BY <1>1, <1>2, <1>3, <1>5, <1>7, <2>1 DEF qw
    <2>3. (k - 1) % Width = s
      BY <1>4, <1>5, <2>2 DEF qw
    <2> QED  BY <2>2, <2>3 DEF Newest
  <1> QED  BY <1>1, <1>3, <1>6, <1>7

\* The ring of a sequence holds, slot by slot, its newest exposures.
LEMMA RingHolds ==
    ASSUME NEW seq \in Seq(Exposure), NEW s \in Slots
    PROVE  /\ RingOf(seq)[s] \in Seq(Exposure)
           /\ Newest(s, Len(seq)) = {} => RingOf(seq)[s] = <<>>
           /\ \A k \in Newest(s, Len(seq)) : RingOf(seq)[s] = <<seq[k]>>
  <1>1. Len(seq) \in Nat
    OBVIOUS
  <1>2. CASE Newest(s, Len(seq)) = {}
    BY <1>2 DEF RingOf
  <1>3. CASE Newest(s, Len(seq)) # {}
    <2> DEFINE chosen == CHOOSE k \in Newest(s, Len(seq)) : TRUE
    <2>1. chosen \in Newest(s, Len(seq)) /\ RingOf(seq)[s] = <<seq[chosen]>>
      BY <1>3 DEF RingOf
    <2> HIDE DEF chosen
    <2>2. seq[chosen] \in Exposure
      BY <2>1 DEF Newest
    <2>3. \A k \in Newest(s, Len(seq)) : k = chosen
      BY <1>1, <2>1, NewestUnique
    <2> QED  BY <1>3, <2>1, <2>2, <2>3
  <1> QED  BY <1>2, <1>3

\* Appending a batch to the ring of a sequence gives the ring of the longer one,
\* however long the batch is.
LEMMA RingStep ==
    ASSUME NEW seq \in Seq(Exposure), NEW batch \in Seq(Exposure),
           NEW l \in LedgerState, l.cursor = Len(seq), l.ring = RingOf(seq)
    PROVE  /\ RingAppended(l, batch) \in LedgerState
           /\ RingAppended(l, batch).ring = RingOf(seq \o batch)
           /\ RingAppended(l, batch).cursor = Len(seq \o batch)
           /\ RingAppended(l, batch).bits = l.bits
           /\ RingAppended(l, batch).epochs = l.epochs
           /\ RingAppended(l, batch).start = l.start
  <1> DEFINE m == Len(seq)
             n == Len(batch)
             all == seq \o batch
             Hits(s) == {k \in 1..n : k > n - Width /\ (l.cursor + k - 1) % Width = s}
             ring == [s \in Slots |->
                        IF Hits(s) = {} THEN l.ring[s]
                        ELSE <<batch[CHOOSE k \in Hits(s) : TRUE]>>]
  <1>1. /\ m \in Nat /\ n \in Nat /\ all \in Seq(Exposure) /\ Len(all) = m + n
        /\ \A k \in 1..m : all[k] = seq[k]
        /\ \A k \in 1..n : all[m + k] = batch[k]
        /\ Width \in Nat \ {0}
    BY FeedAssumption
  <1>0. PICK total \in Nat : total = m + n
    BY <1>1
  <1>2. RingAppended(l, batch) = [l EXCEPT !.ring = ring, !.cursor = @ + n]
    BY DEF RingAppended
  <1>3. ASSUME NEW s \in Slots  PROVE ring[s] = RingOf(all)[s]
    <2>1. CASE Hits(s) # {}
      <3> DEFINE hit == CHOOSE k \in Hits(s) : TRUE
      <3>1. hit \in Hits(s) /\ ring[s] = <<batch[hit]>>
        BY <2>1
      <3> HIDE DEF hit
      <3>2. m + hit \in Newest(s, total)
        BY <1>0, <1>1, <3>1 DEF Newest
      <3>3. RingOf(all)[s] = <<all[m + hit]>>
        BY <1>0, <1>1, <3>2, RingHolds
      <3> QED  BY <1>1, <3>1, <3>3
    <2>2. CASE Hits(s) = {}
      <3>1. ring[s] = RingOf(seq)[s]
        BY <2>2
      <3>2. ASSUME NEW k \in Newest(s, total)  PROVE k \in Newest(s, m) /\ k \in 1..m
        <4>1. k \in 1..total /\ k > total - Width /\ (k - 1) % Width = s
          BY <3>2 DEF Newest
        <4>2. CASE k > m
          <5>1. k - m \in 1..n /\ k - m > n - Width /\ m + (k - m) - 1 = k - 1
            BY <1>0, <1>1, <4>1, <4>2
          <5>2. k - m \in Hits(s)
            BY <4>1, <5>1
          <5> QED  BY <2>2, <5>2
        <4>3. CASE k <= m
          BY <1>0, <1>1, <4>1, <4>3 DEF Newest
        <4> QED  BY <1>1, <4>1, <4>2, <4>3
      <3>3. CASE Newest(s, total) # {}
        <4>1. PICK k \in Newest(s, total) : TRUE
          BY <3>3
        <4>2. RingOf(all)[s] = <<all[k]>>
          BY <1>0, <1>1, <4>1, RingHolds
        <4>3. RingOf(seq)[s] = <<seq[k]>>
          BY <3>2, <4>1, RingHolds
        <4> QED  BY <1>1, <3>1, <3>2, <4>1, <4>2, <4>3
      <3>4. CASE Newest(s, total) = {}
        <4>1. total < Width
          BY <1>0, <1>1, <3>4, NewestExists
        <4>2. Newest(s, m) = {}
          <5> SUFFICES ASSUME NEW k \in Newest(s, m)  PROVE FALSE
            OBVIOUS
          <5>1. k \in Newest(s, total)
            BY <1>0, <1>1, <4>1 DEF Newest
          <5> QED  BY <3>4, <5>1
        <4>3. RingOf(seq)[s] = <<>> /\ RingOf(all)[s] = <<>>
          BY <1>0, <1>1, <3>4, <4>2, RingHolds
        <4> QED  BY <3>1, <4>3
      <3> QED  BY <3>3, <3>4
    <2> QED  BY <2>1, <2>2
  <1>4. ring = RingOf(all) /\ RingOf(all) \in [Slots -> Seq(Exposure)]
    <2>1. \A s \in Slots : RingOf(all)[s] \in Seq(Exposure)
      BY <1>1, RingHolds
    <2>2. RingOf(all) = [s \in Slots |-> RingOf(all)[s]]
      <3> HIDE DEF all
      <3> QED  BY DEF RingOf
    <2>3. ring = [s \in Slots |-> ring[s]]
      OBVIOUS
    <2> HIDE DEF ring
    <2> QED  BY <1>3, <2>1, <2>2, <2>3
  <1> HIDE DEF ring, all
  <1>5. l.cursor + n = Len(all) /\ Len(all) \in Nat
    BY <1>1
  <1>6. RingAppended(l, batch) = [l EXCEPT !.ring = RingOf(all), !.cursor = Len(all)]
    BY <1>2, <1>4, <1>5
  <1>7. /\ l.bits \in [Places -> SUBSET Bits] /\ l.epochs \in [Places -> Int]
        /\ l.start \in Int /\ l.cursor \in Nat /\ l.ring \in [Slots -> Seq(Exposure)]
    BY DEF LedgerState
  <1>8. RingAppended(l, batch) \in LedgerState
    BY <1>4, <1>5, <1>6, <1>7 DEF LedgerState
  <1> QED  BY <1>6, <1>8 DEF LedgerState, all

-----------------------------------------------------------------------------
(* What an exposure does to the ledger.                                    *)

\* The fields of a ledger have their types.
LEMMA LedgerFields ==
    ASSUME NEW l \in LedgerState
    PROVE  /\ l.ring \in [Slots -> Seq(Exposure)] /\ l.cursor \in Nat
           /\ l.bits \in [Places -> SUBSET Bits] /\ l.epochs \in [Places -> Int]
           /\ l.start \in Int
  BY DEF LedgerState

\* The bits of a union are the bits of its parts.
LEMMA BitsFacts ==
    ASSUME NEW S \in SUBSET Items, NEW T \in SUBSET Items
    PROVE  /\ BitsOf(S) \in SUBSET Bits
           /\ BitsOf(S \cup T) = BitsOf(S) \cup BitsOf(T)
           /\ BitsOf({}) = {}
  BY FeedAssumption DEF BitsOf

\* The epoch takes its place, over what another epoch left there.
LEMMA AddedFacts ==
    ASSUME NEW l \in LedgerState, NEW e \in Nat, NEW S \in SUBSET Items
    PROVE  LET a == Added(l, e, S)
           IN /\ a \in LedgerState
              /\ a.ring = l.ring /\ a.cursor = l.cursor /\ a.start = l.start
              /\ a.epochs[e % Segments] = e
              /\ a.bits[e % Segments]
                     = (IF l.epochs[e % Segments] = e THEN l.bits[e % Segments] ELSE {})
                           \cup BitsOf(S)
              /\ \A p \in Places : p # e % Segments =>
                     a.epochs[p] = l.epochs[p] /\ a.bits[p] = l.bits[p]
  <1> DEFINE place == e % Segments
             old == IF l.epochs[place] = e THEN l.bits[place] ELSE {}
             bits == [l.bits EXCEPT ![place] = old \cup BitsOf(S)]
             epochs == [l.epochs EXCEPT ![place] = e]
  <1>1. place \in Places
    BY PlaceFacts
  <1>2. /\ l.ring \in [Slots -> Seq(Exposure)] /\ l.cursor \in Nat
        /\ l.bits \in [Places -> SUBSET Bits] /\ l.epochs \in [Places -> Int]
        /\ l.start \in Int
    BY LedgerFields
  <1>3. old \in SUBSET Bits /\ BitsOf(S) \in SUBSET Bits
    BY <1>1, <1>2, BitsFacts
  <1>4. bits \in [Places -> SUBSET Bits] /\ epochs \in [Places -> Int]
    BY <1>1, <1>2, <1>3
  <1>5. Added(l, e, S) = [l EXCEPT !.bits = bits, !.epochs = epochs]
    <2>1. CASE l.epochs[place] = e
      <3>1. Added(l, e, S) = [l EXCEPT !.bits[place] = @ \cup BitsOf(S)]
        BY <2>1 DEF Added, Rotated
      <3>2. epochs = l.epochs
        BY <1>1, <1>2, <2>1
      <3>3. [l EXCEPT !.bits[place] = @ \cup BitsOf(S)] = [l EXCEPT !.bits = bits]
        BY <1>2, <2>1 DEF LedgerState
      <3>4. [l EXCEPT !.bits = bits] = [l EXCEPT !.bits = bits, !.epochs = l.epochs]
        BY DEF LedgerState
      <3> QED  BY <3>1, <3>2, <3>3, <3>4
    <2>2. CASE l.epochs[place] # e
      <3>1. Rotated(l, e) = [l EXCEPT !.bits[place] = {}, !.epochs[place] = e]
        BY <2>2 DEF Rotated
      <3>2. Rotated(l, e) = [l EXCEPT !.bits = [l.bits EXCEPT ![place] = {}],
                                      !.epochs = epochs]
        BY <3>1 DEF LedgerState
      <3>3. Added(l, e, S) = [Rotated(l, e) EXCEPT !.bits[place] = @ \cup BitsOf(S)]
        BY DEF Added
      <3>4. [[l.bits EXCEPT ![place] = {}] EXCEPT ![place] = @ \cup BitsOf(S)] = bits
        BY <1>1, <1>2, <2>2
      <3>5. Rotated(l, e).bits = [l.bits EXCEPT ![place] = {}]
        BY <3>2 DEF LedgerState
      <3>6. Added(l, e, S) = [Rotated(l, e) EXCEPT !.bits = bits]
        BY <3>3, <3>4, <3>5
      <3>7. [Rotated(l, e) EXCEPT !.bits = bits] = [l EXCEPT !.bits = bits, !.epochs = epochs]
        BY <3>2 DEF LedgerState
      <3> QED  BY <3>6, <3>7
    <2> QED  BY <2>1, <2>2
  <1>6. /\ bits[place] = old \cup BitsOf(S) /\ epochs[place] = e
        /\ \A p \in Places : p # place => bits[p] = l.bits[p] /\ epochs[p] = l.epochs[p]
    BY <1>1, <1>2
  <1> HIDE DEF bits, epochs
  <1>7. Added(l, e, S) \in LedgerState
    BY <1>2, <1>4, <1>5 DEF LedgerState
  <1>8. LET a == Added(l, e, S)
        IN /\ a.ring = l.ring /\ a.cursor = l.cursor /\ a.start = l.start
           /\ a.bits = bits /\ a.epochs = epochs
    BY <1>5 DEF LedgerState
  <1> QED  BY <1>6, <1>7, <1>8

\* A page as a sequence of exposures.
LEMMA BatchFacts ==
    ASSUME NEW page \in Seq(Items), now \in Nat
    PROVE  LET batch == [k \in 1..Len(page) |-> [item |-> page[k], time |-> now]]
           IN /\ batch \in Seq(Exposure) /\ Len(batch) = Len(page)
              /\ \A k \in 1..Len(page) : batch[k].item = page[k] /\ batch[k].time = now
  <1> DEFINE batch == [k \in 1..Len(page) |-> [item |-> page[k], time |-> now]]
  <1>1. \A k \in 1..Len(page) : batch[k] \in Exposure
    BY DEF Exposure
  <1>2. Len(page) \in Nat /\ batch \in [1..Len(page) -> Exposure]
    BY <1>1
  <1>3. batch \in Seq(Exposure) /\ Len(batch) = Len(page)
    BY <1>2
  <1> QED  BY <1>3

\* A concatenation has the elements of both sequences.
LEMMA ConcatFacts ==
    ASSUME NEW R, NEW s \in Seq(R), NEW t \in Seq(R)
    PROVE  /\ s \o t \in Seq(R) /\ Len(s \o t) = Len(s) + Len(t)
           /\ \A k \in 1..Len(s) : (s \o t)[k] = s[k]
           /\ \A k \in 1..Len(t) : (s \o t)[Len(s) + k] = t[k]
           /\ DOMAIN s = 1..Len(s) /\ DOMAIN t = 1..Len(t)
           /\ DOMAIN (s \o t) = 1..(Len(s) + Len(t))
           /\ Len(s) \in Nat /\ Len(t) \in Nat
           /\ \A k \in 1..(Len(s) + Len(t)) :
                  \/ k \in 1..Len(s) /\ (s \o t)[k] = s[k]
                  \/ k - Len(s) \in 1..Len(t) /\ (s \o t)[k] = t[k - Len(s)]
  OBVIOUS

\* What a sequence shows is what one of its elements has.
LEMMA ShownFacts ==
    ASSUME NEW seq \in Seq(Exposure), NEW e
    PROVE  /\ \A i : i \in ShownIn(seq, e) <=>
                \E k \in 1..Len(seq) : Epoch(seq[k].time) = e /\ seq[k].item = i
           /\ ShownIn(seq, e) \in SUBSET Items
  <1>1. DOMAIN seq = 1..Len(seq) /\ \A k \in 1..Len(seq) : seq[k] \in Exposure
    OBVIOUS
  <1>2. \A x \in Exposure : x.item \in Items
    BY DEF Exposure
  <1> QED  BY <1>1, <1>2 DEF ShownIn

\* A longer history shows in an epoch what its two parts show.
LEMMA ShownTogether ==
    ASSUME NEW seq \in Seq(Exposure), NEW batch \in Seq(Exposure), NEW e
    PROVE  ShownIn(seq \o batch, e) = ShownIn(seq, e) \cup ShownIn(batch, e)
  <1>1. PICK all \in Seq(Exposure) : all = seq \o batch
    BY ConcatFacts
  <1>2. /\ Len(all) = Len(seq) + Len(batch) /\ Len(seq) \in Nat /\ Len(batch) \in Nat
        /\ \A k \in 1..Len(seq) : all[k] = seq[k]
        /\ \A k \in 1..Len(batch) : all[Len(seq) + k] = batch[k]
        /\ \A k \in 1..Len(all) :
                  \/ k \in 1..Len(seq) /\ all[k] = seq[k]
                  \/ k - Len(seq) \in 1..Len(batch) /\ all[k] = batch[k - Len(seq)]
    BY <1>1, ConcatFacts
  <1>3. ASSUME NEW i, i \in ShownIn(all, e)  PROVE i \in ShownIn(seq, e) \cup ShownIn(batch, e)
    <2>1. PICK k \in 1..Len(all) : Epoch(all[k].time) = e /\ all[k].item = i
      BY <1>3, ShownFacts
    <2>2. CASE k \in 1..Len(seq) /\ all[k] = seq[k]
      BY <2>1, <2>2, ShownFacts
    <2>3. CASE k - Len(seq) \in 1..Len(batch) /\ all[k] = batch[k - Len(seq)]
      <3>1. PICK j \in 1..Len(batch) : all[k] = batch[j]
        BY <2>3
      <3> QED  BY <2>1, <3>1, ShownFacts
    <2> QED  BY <1>2, <2>1, <2>2, <2>3
  <1>4. ASSUME NEW i, i \in ShownIn(seq, e)  PROVE i \in ShownIn(all, e)
    <2>1. PICK k \in 1..Len(seq) : Epoch(seq[k].time) = e /\ seq[k].item = i
      BY <1>4, ShownFacts
    <2>2. k \in 1..Len(all) /\ all[k] = seq[k]
      BY <1>2
    <2> QED  BY <2>1, <2>2, ShownFacts
  <1>5. ASSUME NEW i, i \in ShownIn(batch, e)  PROVE i \in ShownIn(all, e)
    <2>1. PICK k \in 1..Len(batch) : Epoch(batch[k].time) = e /\ batch[k].item = i
      BY <1>5, ShownFacts
    <2>2. PICK j \in 1..Len(all) : j = Len(seq) + k
      BY <1>2
    <2>3. all[j] = batch[k]
      BY <1>2, <2>2
    <2> QED  BY <2>1, <2>3, ShownFacts
  <1> QED  BY <1>1, <1>3, <1>4, <1>5

\* The items of a page are what its exposures show.
LEMMA PageShows ==
    ASSUME NEW page \in Seq(Items), NEW t \in Nat, NEW batch \in Seq(Exposure),
           Len(batch) = Len(page),
           \A k \in 1..Len(page) : batch[k].item = page[k] /\ batch[k].time = t
    PROVE  /\ ShownIn(batch, Epoch(t)) = {page[k] : k \in 1..Len(page)}
           /\ \A e : e # Epoch(t) => ShownIn(batch, e) = {}
  <1>1. \A i : i \in ShownIn(batch, Epoch(t)) <=> \E k \in 1..Len(page) : page[k] = i
    BY ShownFacts
  <1>2. ASSUME NEW e, e # Epoch(t), NEW i, i \in ShownIn(batch, e)  PROVE FALSE
    BY <1>2, ShownFacts
  <1> QED  BY <1>1, <1>2

\* The segments stay exact when the items of a page join their epoch.
LEMMA SegmentsStep ==
    ASSUME NEW l \in LedgerState, NEW seq \in Seq(Exposure), NEW rotated \in SUBSET Nat,
           NEW batch \in Seq(Exposure), NEW E \in Nat, NEW S \in SUBSET Items,
           SegmentsExact(l, seq, rotated),
           \A k \in DOMAIN seq : Epoch(seq[k].time) \in rotated,
           \A e \in rotated : e <= E,
           ShownIn(batch, E) = S,
           \A e : e # E => ShownIn(batch, e) = {}
    PROVE  SegmentsExact(Added(l, E, S), seq \o batch, rotated \cup {E})
  <1> DEFINE place == E % Segments
  <1>1. place \in Places
    BY PlaceFacts
  <1>2. PICK a \in LedgerState :
          /\ a = Added(l, E, S)
          /\ a.epochs[place] = E
          /\ a.bits[place]
                 = (IF l.epochs[place] = E THEN l.bits[place] ELSE {}) \cup BitsOf(S)
          /\ \A p \in Places : p # place =>
                 a.epochs[p] = l.epochs[p] /\ a.bits[p] = l.bits[p]
    BY AddedFacts
  <1>3. ASSUME NEW p \in Places
        PROVE  /\ EpochExact(a, rotated \cup {E}, p)
               /\ a.bits[p] = BitsOf(ShownIn(seq \o batch, a.epochs[p]))
    <2>1. EpochExact(l, rotated, p) /\ l.bits[p] = BitsOf(ShownIn(seq, l.epochs[p]))
      BY DEF SegmentsExact
    <2>2. CASE p = place
      <3>1. EpochExact(a, rotated \cup {E}, p)
        BY <1>2, <2>2 DEF EpochExact
      <3>2. l.epochs[p] # E => ShownIn(seq, E) = {}
        <4> SUFFICES ASSUME NEW k \in 1..Len(seq), Epoch(seq[k].time) = E
                     PROVE  l.epochs[p] = E
          BY ShownFacts
        <4>1. E \in rotated /\ E % Segments = p
          BY <2>2
        <4>2. l.epochs[p] \in rotated /\ E <= l.epochs[p]
          BY <2>1, <4>1 DEF EpochExact
        <4>3. l.epochs[p] <= E /\ l.epochs[p] \in Nat
          BY <4>2
        <4> QED  BY <4>2, <4>3
      <3>3. ShownIn(seq, E) \in SUBSET Items
        BY ShownFacts
      <3>4. a.bits[p] = BitsOf(ShownIn(seq, E)) \cup BitsOf(S)
        <4>1. CASE l.epochs[p] = E
          BY <1>2, <2>1, <2>2, <4>1
        <4>2. CASE l.epochs[p] # E
          BY <1>2, <2>2, <3>2, <3>3, <4>2, BitsFacts
        <4> QED  BY <4>1, <4>2
      <3>5. ShownIn(seq \o batch, E) = ShownIn(seq, E) \cup S
        BY ShownTogether
      <3>6. a.bits[p] = BitsOf(ShownIn(seq \o batch, E))
        BY <3>3, <3>4, <3>5, BitsFacts
      <3> QED  BY <1>2, <2>2, <3>1, <3>6
    <2>3. CASE p # place
      <3>1. a.epochs[p] = l.epochs[p] /\ a.bits[p] = l.bits[p]
        BY <1>2, <2>3
      <3>2. l.epochs[p] # E
        <4> SUFFICES ASSUME l.epochs[p] = E  PROVE FALSE
          OBVIOUS
        <4> QED  BY <2>1, <2>3 DEF EpochExact
      <3>3. ShownIn(seq \o batch, l.epochs[p]) = ShownIn(seq, l.epochs[p])
        <4>1. ShownIn(batch, l.epochs[p]) = {}
          BY <3>2
        <4>2. ShownIn(seq \o batch, l.epochs[p])
                  = ShownIn(seq, l.epochs[p]) \cup ShownIn(batch, l.epochs[p])
          BY ShownTogether
        <4> QED  BY <4>1, <4>2
      <3>4. EpochExact(a, rotated \cup {E}, p)
        BY <2>1, <2>3, <3>1 DEF EpochExact
      <3> QED  BY <2>1, <3>1, <3>3, <3>4
    <2> QED  BY <2>2, <2>3
  <1> QED  BY <1>2, <1>3 DEF SegmentsExact

\* A page is a sequence of items.
LEMMA PageFacts ==
    ASSUME NEW policy \in Policies, NEW page \in Pages(policy)
    PROVE  page \in Seq(Items)
  <1>1. PICK m \in 0..PageSize : page \in [1..m -> {i \in Items : ~Blocked(i, policy)}]
    BY DEF Pages
  <1>2. page \in [1..m -> Items]
    BY <1>1
  <1> QED  BY <1>2

\* The exposures of a tick keep what they leave in the ledger exact.
LEMMA ShowFacts ==
    ASSUME LedgerInv, now \in Nat, NEW page \in Seq(Items), NEW others \in BOOLEAN,
           Show(page, others)
    PROVE  /\ LedgerTypes' /\ RingExact' /\ ledger'.start = ledger.start
           /\ SegmentsExact(ledger', shown', rotations')
           /\ Dated(shown', rotations', now + 1)
  <1> DEFINE S == {page[k] : k \in 1..Len(page)}
             E == Epoch(now)
  <1>1. PICK batch \in Seq(Exposure) :
          /\ batch = [k \in 1..Len(page) |-> [item |-> page[k], time |-> now]]
          /\ Len(batch) = Len(page)
          /\ \A k \in 1..Len(page) : batch[k].item = page[k] /\ batch[k].time = now
    BY BatchFacts
  <1>2. /\ ledger \in LedgerState /\ shown \in Seq(Exposure) /\ rotations \in SUBSET Nat
        /\ ledger.cursor = Len(shown) /\ ledger.ring = RingOf(shown)
        /\ SegmentsExact(ledger, shown, rotations)
    BY DEF LedgerInv, LedgerTypes, RingExact
  <1>3. shown' = shown \o batch
    BY <1>1 DEF Show
  <1>4. /\ \A k \in DOMAIN shown : shown[k].time < now /\ Epoch(shown[k].time) \in rotations
        /\ \A e \in rotations : e <= E
    BY DEF LedgerInv, Dated
  <1>5. E \in Nat /\ S \in SUBSET Items /\ Len(page) \in Nat
    <2>1. E \in Nat
      BY EpochFacts
    <2>2. \A k \in 1..Len(page) : page[k] \in Items
      OBVIOUS
    <2> QED  BY <2>1, <2>2
  <1>6. Epoch(now + 1) \in Nat /\ E <= Epoch(now + 1)
    BY EpochFacts
  <1>7. ASSUME NEW k \in DOMAIN shown'
        PROVE  /\ shown'[k].time < now + 1
               /\ \/ Epoch(shown'[k].time) \in rotations
                  \/ Len(page) # 0 /\ Epoch(shown'[k].time) = E
    <2>1. \/ k \in 1..Len(shown) /\ shown'[k] = shown[k]
          \/ k - Len(shown) \in 1..Len(batch) /\ shown'[k] = batch[k - Len(shown)]
      BY <1>2, <1>3, ConcatFacts
    <2>2. CASE k \in 1..Len(shown) /\ shown'[k] = shown[k]
      <3>1. shown[k].time < now /\ Epoch(shown[k].time) \in rotations
        BY <1>2, <1>4, <2>2
      <3>2. shown[k] \in Exposure
        BY <1>2, <2>2
      <3>3. shown[k].time \in Nat
        BY <3>2 DEF Exposure
      <3> QED  BY <2>2, <3>1, <3>3
    <2>3. CASE k - Len(shown) \in 1..Len(batch) /\ shown'[k] = batch[k - Len(shown)]
      BY <1>1, <2>3
    <2> QED  BY <2>1, <2>2, <2>3
  <1>8. CASE S = {} /\ ~others
    <2>1. ledger' = ledger
      BY <1>8 DEF Show, Exposed
    <2>2. Len(page) = 0 /\ page = <<>>
      BY <1>5, <1>8
    <2>3. rotations' = rotations
      BY <1>8, <2>2 DEF Show
    <2>4. shown' = shown
      <3>1. batch = <<>>
        BY <1>1, <2>2
      <3> QED  BY <1>2, <1>3, <3>1
    <2>5. Dated(shown', rotations', now + 1)
      <3>1. \A k \in DOMAIN shown' : shown'[k].time < now + 1
                                     /\ Epoch(shown'[k].time) \in rotations'
        BY <1>7, <2>2, <2>3
      <3>2. \A e \in rotations' : e <= Epoch(now + 1)
        BY <1>2, <1>4, <1>5, <1>6, <2>3
      <3> QED  BY <3>1, <3>2 DEF Dated
    <2> QED  BY <1>2, <2>1, <2>3, <2>4, <2>5 DEF LedgerTypes, RingExact
  <1>9. CASE ~(S = {} /\ ~others)
    <2>1. PICK r \in LedgerState :
            /\ r = RingAppended(ledger, batch)
            /\ r.ring = RingOf(shown') /\ r.cursor = Len(shown')
            /\ r.bits = ledger.bits /\ r.epochs = ledger.epochs /\ r.start = ledger.start
      BY <1>1, <1>2, <1>3, RingStep
    <2>2. ledger' = Added(r, E, S)
      BY <1>1, <1>9, <2>1 DEF Show, Exposed
    <2>3. rotations' = rotations \cup {E}
      <3>1. page = <<>> => S = {}
        OBVIOUS
      <3> QED  BY <1>9, <3>1 DEF Show
    <2>4. SegmentsExact(r, shown, rotations)
      BY <1>2, <2>1 DEF SegmentsExact, EpochExact
    <2>5. /\ ShownIn(batch, E) = S
          /\ \A e : e # E => ShownIn(batch, e) = {}
      <3>1. /\ Len(batch) = Len(page)
            /\ \A k \in 1..Len(page) : batch[k].item = page[k] /\ batch[k].time = now
        BY <1>1
      <3> QED  BY <3>1, PageShows
    <2>6. SegmentsExact(ledger', shown', rotations')
      <3> HIDE DEF S, E
      <3>1. SegmentsExact(Added(r, E, S), shown \o batch, rotations \cup {E})
        BY <1>2, <1>4, <1>5, <2>4, <2>5, SegmentsStep
      <3> QED  BY <1>3, <2>2, <2>3, <3>1
    <2>7. /\ ledger' \in LedgerState
          /\ ledger'.ring = r.ring /\ ledger'.cursor = r.cursor /\ ledger'.start = r.start
      BY <1>5, <2>2, AddedFacts
    <2>8. LedgerTypes' /\ RingExact' /\ ledger'.start = ledger.start
      <3>1. shown' \in Seq(Exposure)
        BY <1>1, <1>2, <1>3, ConcatFacts
      <3>2. rotations' \subseteq Nat
        BY <1>2, <1>5, <2>3
      <3> QED  BY <2>1, <2>7, <3>1, <3>2 DEF LedgerTypes, RingExact, RingOf, Newest
    <2>9. Dated(shown', rotations', now + 1)
      <3>1. \A k \in DOMAIN shown' : shown'[k].time < now + 1
                                     /\ Epoch(shown'[k].time) \in rotations'
        BY <1>7, <2>3
      <3>2. \A e \in rotations' : e <= Epoch(now + 1)
        BY <1>2, <1>4, <1>5, <1>6, <2>3
      <3> QED  BY <3>1, <3>2 DEF Dated
    <2> QED  BY <2>6, <2>8, <2>9
  <1> QED  BY <1>8, <1>9

\* Opening a session writes its time, for sessions open in the order of time.
LEMMA StartFacts ==
    ASSUME NEW l \in LedgerState, NEW time \in Nat, l.start < time
    PROVE  LET s == SessionStarted(l, time)
           IN /\ s \in LedgerState /\ s.start = time
              /\ s.ring = l.ring /\ s.cursor = l.cursor
              /\ s.bits = l.bits /\ s.epochs = l.epochs
  <1>1. l.start \in Int /\ (time > l.start)
    BY LedgerFields
  <1>2. SessionStarted(l, time) = [l EXCEPT !.start = time]
    BY <1>1 DEF SessionStarted
  <1>3. [l EXCEPT !.start = time] \in LedgerState
    BY DEF LedgerState
  <1> QED  BY <1>2, <1>3 DEF LedgerState

\* A session starts after every session before.
LEMMA EntryLedger ==
    ASSUME SessionInv, LedgerInv, Entry
    PROVE  LedgerInv'
  <1>1. /\ phase = "entry" /\ phase' = "respond" /\ now' = now /\ journal' = journal
        /\ shown' = shown /\ rotations' = rotations
        /\ ledger' = IF request'.start THEN SessionStarted(ledger, now) ELSE ledger
    BY DEF Entry
  <1>2. /\ ledger \in LedgerState /\ shown \in Seq(Exposure) /\ rotations \subseteq Nat
        /\ SegmentsExact(ledger, shown, rotations) /\ Dated(shown, rotations, now)
        /\ ledger.cursor = Len(shown) /\ ledger.ring = RingOf(shown)
    BY DEF LedgerInv, LedgerTypes, RingExact
  <1>3. \/ ledger.start = -1 /\ \A j \in DOMAIN journal : ~journal[j].start
        \/ \E k \in DOMAIN journal : LatestStart(k) /\ ledger.start = journal[k].time
    BY <1>1 DEF LedgerInv, StartExact
  <1>4. now \in Nat
    BY JournalFacts
  <1>5. CASE request'.start
    <2>1. ledger.start < now
      BY <1>3, <1>4 DEF SessionInv, InOrder
    <2>2. /\ ledger' \in LedgerState /\ ledger'.start = now
          /\ ledger'.ring = ledger.ring /\ ledger'.cursor = ledger.cursor
          /\ ledger'.bits = ledger.bits /\ ledger'.epochs = ledger.epochs
      BY <1>1, <1>2, <1>4, <1>5, <2>1, StartFacts
    <2>3. LedgerTypes' /\ RingExact'
      BY <1>1, <1>2, <2>2 DEF LedgerTypes, RingExact, RingOf, Newest
    <2>4. StartExact'
      BY <1>1, <1>5, <2>2 DEF StartExact
    <2>5. SegmentsExact(ledger', shown', rotations')
      BY <1>1, <1>2, <2>2 DEF SegmentsExact, EpochExact
    <2> QED  BY <1>1, <1>2, <2>3, <2>4, <2>5
             DEF LedgerInv, SegmentsExact, EpochExact, BitsOf, ShownIn, Dated, Epoch
  <1>6. CASE ~request'.start
    <2>1. ledger' = ledger
      BY <1>1, <1>6
    <2>2. LedgerTypes' /\ RingExact'
      BY <1>1, <1>2, <2>1 DEF LedgerTypes, RingExact, RingOf, Newest
    <2>3. StartExact'
      BY <1>1, <1>3, <1>6, <2>1 DEF StartExact, LatestStart
    <2> QED  BY <1>1, <1>2, <2>1, <2>2, <2>3
             DEF LedgerInv, SegmentsExact, EpochExact, BitsOf, ShownIn, Dated, Epoch
  <1> QED  BY <1>5, <1>6

\* What an answer shows, and that it records the start of a session.
LEMMA AnswerLedger ==
    ASSUME SessionInv, LedgerInv, BrowseFeed \/ Respond
    PROVE  LedgerInv'
  <1>1. now \in Nat
    BY JournalFacts
  <1>2. \E page \in Seq(Items), others \in BOOLEAN : Show(page, others)
    <2>1. <<>> \in Seq(Items)
      OBVIOUS
    <2>2. CASE BrowseFeed
      <3>1. PICK policy \in Policies : \E page \in Pages(policy) : \E others \in BOOLEAN :
                Show(page, others)
        BY <2>2 DEF BrowseFeed
      <3> QED  BY <3>1, PageFacts
    <2>3. CASE Respond
      BY <2>1, <2>3 DEF Respond
    <2> QED  BY <2>2, <2>3
  <1>3. /\ LedgerTypes' /\ RingExact' /\ ledger'.start = ledger.start
        /\ SegmentsExact(ledger', shown', rotations')
        /\ Dated(shown', rotations', now + 1)
    BY <1>1, <1>2, ShowFacts
  <1>4. PICK outcome \in OutcomesOf(user, request.surface), end \in BOOLEAN :
            Record(outcome, end)
    BY AnswerShape
  <1>5. phase = "respond" /\ now' = now + 1 /\ phase' = "entry"
    BY AnswerShape
  <1>6. outcome \in Outcomes
    BY DEF OutcomesOf, Outcomes
  <1>7. PICK n \in Nat :
           /\ n = Len(journal) /\ DOMAIN journal = 1..n /\ DOMAIN journal' = 1..(n + 1)
           /\ \A i \in 1..n : journal'[i] = journal[i]
           /\ journal'[n + 1].time = now /\ journal'[n + 1].start = request.start
    <2>1. journal \in Seq(Served) /\ request \in Requests
      BY DEF SessionInv, SessionTypes
    <2>2. PICK n \in Nat : n = Len(journal)
      BY <2>1
    <2>3. /\ DOMAIN journal = 1..n /\ DOMAIN journal' = 1..(n + 1)
          /\ \A i \in 1..n : journal'[i] = journal[i]
          /\ journal'[n + 1] = [time |-> now, start |-> request.start,
                                surface |-> request.surface,
                                lineage |-> request.lineage,
                                outcome |-> outcome, end |-> end]
      BY <1>1, <1>4, <1>6, <2>1, <2>2, RecordFacts
    <2> QED  BY <2>2, <2>3
  <1>8. StartExact'
    <2>1. CASE request.start
      <3>1. ledger'.start = now
        BY <1>3, <1>5, <2>1 DEF LedgerInv, StartExact
      <3>2. LatestStart(n + 1)'
        BY <1>7, <2>1 DEF LatestStart
      <3>3. n + 1 \in DOMAIN journal'
        BY <1>7
      <3> QED  BY <1>5, <1>7, <3>1, <3>2, <3>3 DEF StartExact
    <2>2. CASE ~request.start
      <3>1. \/ ledger.start = -1 /\ \A j \in DOMAIN journal : ~journal[j].start
            \/ \E k \in DOMAIN journal : LatestStart(k) /\ ledger.start = journal[k].time
        BY <1>5, <2>2 DEF LedgerInv, StartExact
      <3>2. ~journal'[n + 1].start
        BY <1>7, <2>2
      <3>3. \A j \in DOMAIN journal' :
                j = n + 1 \/ (j \in DOMAIN journal /\ journal'[j] = journal[j])
        BY <1>7
      <3>4. ASSUME NEW k \in DOMAIN journal, LatestStart(k), ledger.start = journal[k].time
            PROVE  StartExact'
        <4>1. k \in DOMAIN journal' /\ journal'[k] = journal[k]
          BY <1>7
        <4>2. LatestStart(k)'
          BY <3>2, <3>3, <3>4, <4>1 DEF LatestStart
        <4> QED  BY <1>3, <1>5, <3>4, <4>1, <4>2 DEF StartExact
      <3>5. ASSUME ledger.start = -1, \A j \in DOMAIN journal : ~journal[j].start
            PROVE  StartExact'
        BY <1>3, <1>5, <3>2, <3>3, <3>5 DEF StartExact
      <3> QED  BY <3>1, <3>4, <3>5
    <2> QED  BY <2>1, <2>2
  <1> QED  BY <1>3, <1>5, <1>8
           DEF LedgerInv, SegmentsExact, EpochExact, BitsOf, ShownIn, Dated, Epoch

\* A tick without the user.
LEMMA PassLedger ==
    ASSUME SessionInv, LedgerInv, Pass
    PROVE  LedgerInv'
  <1>1. /\ phase = "respond" /\ phase' = "entry" /\ now' = now + 1 /\ journal' = journal
        /\ request = NoRequest
    BY DEF Pass, Tick, SessionInv, Asked
  <1>2. <<>> \in Seq(Items) /\ \E others \in BOOLEAN : Show(<<>>, others)
    BY DEF Pass
  <1>3. now \in Nat
    BY JournalFacts
  <1>4. /\ LedgerTypes' /\ RingExact' /\ ledger'.start = ledger.start
        /\ SegmentsExact(ledger', shown', rotations')
        /\ Dated(shown', rotations', now + 1)
    BY <1>2, <1>3, ShowFacts
  <1>5. StartExact'
    BY <1>1, <1>4 DEF LedgerInv, StartExact, NoRequest, LatestStart
  <1> QED  BY <1>1, <1>4, <1>5
           DEF LedgerInv, SegmentsExact, EpochExact, BitsOf, ShownIn, Dated, Epoch

-----------------------------------------------------------------------------
(* The rebuild, and the invariant of the ledger.                           *)

\* A greatest element is the maximum.
LEMMA MaximumIs ==
    ASSUME NEW S \in SUBSET Int, NEW x \in S, \A y \in S : y <= x
    PROVE  SetMax(S) = x
  <1>1. SetMax(S) \in S /\ \A y \in S : y <= SetMax(S)
    BY DEF SetMax
  <1>2. x \in Int /\ SetMax(S) \in Int
    BY <1>1
  <1>3. x <= SetMax(S) /\ SetMax(S) <= x
    BY <1>1
  <1> QED  BY <1>2, <1>3

\* The last epoch of a place in the log is the epoch its segment has.
LEMMA LastEpochIs ==
    ASSUME NEW l \in LedgerState, NEW p \in Places, rotations \subseteq Nat,
           EpochExact(l, rotations, p)
    PROVE  LastEpoch(p) = l.epochs[p]
  <1> DEFINE epochs == {e \in rotations : e % Segments = p}
  <1>1. CASE l.epochs[p] = -1 /\ \A e \in rotations : e % Segments # p
    BY <1>1 DEF LastEpoch
  <1>2. CASE /\ l.epochs[p] \in rotations
             /\ l.epochs[p] % Segments = p
             /\ \A e \in rotations : e % Segments = p => e <= l.epochs[p]
    <2>1. l.epochs[p] \in epochs /\ \A e \in epochs : e <= l.epochs[p]
      BY <1>2
    <2> HIDE DEF epochs
    <2>3. epochs \in SUBSET Int
      <3>1. \A e \in epochs : e \in rotations
        BY DEF epochs
      <3>2. \A e \in rotations : e \in Int
        OBVIOUS
      <3> QED  BY <3>1, <3>2
    <2>2. SetMax(epochs) = l.epochs[p]
      BY <2>1, <2>3, MaximumIs
    <2> QED  BY <2>1, <2>2 DEF LastEpoch, epochs
  <1> QED  BY <1>1, <1>2 DEF EpochExact

\* The last start in the journal is the start the ledger has.
LEMMA LastStartIs ==
    ASSUME SessionInv, LedgerInv, phase = "entry"
    PROVE  ledger.start = IF Starts = {} THEN -1 ELSE SetMax(Starts)
  <1>1. \A k \in DOMAIN journal : journal[k].time \in Nat /\ k \in Nat
    BY JournalFacts DEF Served
  <1>2. CASE ledger.start = -1 /\ \A j \in DOMAIN journal : ~journal[j].start
    BY <1>2 DEF Starts
  <1>3. ASSUME NEW k \in DOMAIN journal, LatestStart(k), ledger.start = journal[k].time
        PROVE  ledger.start = IF Starts = {} THEN -1 ELSE SetMax(Starts)
    <2>1. ledger.start \in Starts /\ Starts \in SUBSET Int
      BY <1>1, <1>3 DEF Starts, LatestStart
    <2>2. ASSUME NEW j \in DOMAIN journal, journal[j].start
          PROVE  journal[j].time <= journal[k].time
      <3>1. j <= k
        BY <1>3, <2>2 DEF LatestStart
      <3>2. j < k => journal[j].time < journal[k].time
        BY DEF SessionInv, InOrder
      <3> QED  BY <1>1, <3>1, <3>2
    <2>3. \A y \in Starts : y <= ledger.start
      BY <1>3, <2>2 DEF Starts
    <2>4. SetMax(Starts) = ledger.start
      BY <2>1, <2>3, MaximumIs
    <2> QED  BY <2>1, <2>4
  <1> QED  BY <1>2, <1>3 DEF LedgerInv, StartExact

\* The empty ledger is the one of an empty history.
LEMMA EmptyFacts ==
    /\ EmptyLedger \in LedgerState
    /\ EmptyLedger.cursor = 0 /\ EmptyLedger.ring = RingOf(<<>>)
    /\ EmptyLedger.start = -1
    /\ \A p \in Places : EmptyLedger.epochs[p] = -1 /\ EmptyLedger.bits[p] = {}
  <1>1. EmptyLedger \in LedgerState
    <2>1. [s \in Slots |-> <<>>] \in [Slots -> Seq(Exposure)]
      OBVIOUS
    <2>2. [p \in Places |-> {}] \in [Places -> SUBSET Bits]
      OBVIOUS
    <2>3. [p \in Places |-> -1] \in [Places -> Int]
      OBVIOUS
    <2> QED  BY <2>1, <2>2, <2>3 DEF EmptyLedger, LedgerState
  <1>2. \A s : Newest(s, Len(<<>>)) = {}
    BY DEF Newest
  <1>3. RingOf(<<>>) = [s \in Slots |-> <<>>]
    BY <1>2 DEF RingOf
  <1> QED  BY <1>1, <1>3 DEF EmptyLedger

\* The batch of a rebuild is the whole history.
LEMMA WholeHistory ==
    ASSUME NEW seq \in Seq(Exposure)
    PROVE  [k \in DOMAIN seq |-> [item |-> seq[k].item, time |-> seq[k].time]] = seq
  <1>1. \A x \in Exposure : [item |-> x.item, time |-> x.time] = x
    BY DEF Exposure
  <1>2. \A k \in DOMAIN seq : seq[k] \in Exposure
    OBVIOUS
  <1>3. [k \in DOMAIN seq |-> [item |-> seq[k].item, time |-> seq[k].time]]
            = [k \in DOMAIN seq |-> seq[k]]
    BY <1>1, <1>2
  <1> QED  BY <1>3

\* A rebuild finds the ledger that ingestion has kept.
LEMMA RebuildIsExact ==
    ASSUME SessionInv, LedgerInv, phase = "entry"
    PROVE  Rebuilt = ledger
  <1>1. /\ ledger \in LedgerState /\ shown \in Seq(Exposure) /\ rotations \subseteq Nat
        /\ SegmentsExact(ledger, shown, rotations)
        /\ ledger.cursor = Len(shown) /\ ledger.ring = RingOf(shown)
    BY DEF LedgerInv, LedgerTypes, RingExact
  <1>2. PICK ringed \in LedgerState :
          /\ ringed = RingAppended(EmptyLedger, shown)
          /\ ringed.ring = RingOf(shown) /\ ringed.cursor = Len(shown)
    <2>1. <<>> \in Seq(Exposure) /\ <<>> \o shown = shown /\ Len(<<>>) = 0
      BY <1>1
    <2>2. /\ RingAppended(EmptyLedger, shown) \in LedgerState
          /\ RingAppended(EmptyLedger, shown).ring = RingOf(<<>> \o shown)
          /\ RingAppended(EmptyLedger, shown).cursor = Len(<<>> \o shown)
      BY <1>1, <2>1, EmptyFacts, RingStep
    <2> QED  BY <2>1, <2>2
  <1>3. \A p \in Places : LastEpoch(p) = ledger.epochs[p]
    BY <1>1, LastEpochIs DEF SegmentsExact
  <1>4. \A p \in Places : ledger.bits[p] = BitsOf(ShownIn(shown, LastEpoch(p)))
    BY <1>1, <1>3 DEF SegmentsExact
  <1> DEFINE bits == [p \in Places |-> BitsOf(ShownIn(shown, LastEpoch(p)))]
             epochs == [p \in Places |-> LastEpoch(p)]
             start == IF Starts = {} THEN -1 ELSE SetMax(Starts)
  <1>5. bits = ledger.bits /\ epochs = ledger.epochs
    BY <1>1, <1>3, <1>4, LedgerFields
  <1>6. start = ledger.start
    BY LastStartIs
  <1>7. Rebuilt = [ringed EXCEPT !.bits = bits, !.epochs = epochs, !.start = start]
    BY <1>1, <1>2, WholeHistory DEF Rebuilt, ShownIn
  <1> HIDE DEF bits, epochs, start
  <1>8. Rebuilt = [ringed EXCEPT !.bits = ledger.bits, !.epochs = ledger.epochs,
                                 !.start = ledger.start]
    BY <1>5, <1>6, <1>7
  <1> QED  BY <1>1, <1>2, <1>8 DEF LedgerState

\* The initial states.
LEMMA InitLedger == Init => LedgerInv
  <1> SUFFICES ASSUME Init  PROVE LedgerInv
    OBVIOUS
  <1>1. /\ ledger = EmptyLedger /\ shown = <<>> /\ rotations = {} /\ journal = <<>>
        /\ now = 0 /\ phase = "entry"
    BY DEF Init
  <1>2. LedgerTypes /\ RingExact
    BY <1>1, EmptyFacts DEF LedgerTypes, RingExact
  <1>3. StartExact
    BY <1>1, EmptyFacts DEF StartExact
  <1>4. \A e : ShownIn(shown, e) = {}
    BY <1>1 DEF ShownIn
  <1>5. SegmentsExact(ledger, shown, rotations)
    BY <1>1, <1>4, EmptyFacts DEF SegmentsExact, EpochExact, BitsOf
  <1>6. Dated(shown, rotations, now)
    BY <1>1 DEF Dated
  <1> QED  BY <1>2, <1>3, <1>5, <1>6 DEF LedgerInv

\* Every step keeps the invariant of the ledger.
LEMMA StepLedger == SessionInv /\ LedgerInv /\ [Next]_vars => LedgerInv'
  <1> SUFFICES ASSUME SessionInv, LedgerInv, [Next]_vars  PROVE LedgerInv'
    OBVIOUS
  <1>1. CASE Entry
    BY <1>1, EntryLedger
  <1>2. CASE BrowseFeed \/ Respond
    BY <1>2, AnswerLedger
  <1>3. CASE Pass
    BY <1>3, PassLedger
  <1>4. CASE Rebuild \/ UNCHANGED vars
    <2>1. /\ now' = now /\ request' = request /\ phase' = phase /\ journal' = journal
          /\ shown' = shown /\ rotations' = rotations
      BY <1>4 DEF Rebuild, vars
    <2>2. ledger' = ledger
      BY <1>4, RebuildIsExact DEF Rebuild, vars
    <2> QED  BY <2>1, <2>2
             DEF LedgerInv, LedgerTypes, RingExact, RingOf, Newest, StartExact, LatestStart,
                 SegmentsExact, EpochExact, BitsOf, ShownIn, Dated, Epoch
  <1> QED  BY <1>1, <1>2, <1>3, <1>4 DEF Next

\* Every reachable state satisfies both invariants.
THEOREM LedgerInvariant == Spec => [](SessionInv /\ LedgerInv)
  BY InitSession, StepSession, InitLedger, StepLedger, PTL DEF Spec

\* A rebuild of the ledger from the event log is the ledger, between any ticks.
THEOREM FeedRebuildAgrees == Spec => []RebuildAgrees
  <1>1. SessionInv /\ LedgerInv => RebuildAgrees
    BY RebuildIsExact DEF RebuildAgrees
  <1> QED  BY <1>1, LedgerInvariant, PTL

\* Every variable keeps its type.
THEOREM FeedTyped == Spec => []TypeOK
  <1>1. SessionInv /\ LedgerInv => TypeOK
    BY DEF SessionInv, SessionTypes, LedgerInv, LedgerTypes, TypeOK
  <1> QED  BY <1>1, LedgerInvariant, PTL

-----------------------------------------------------------------------------
(* What the two filters read from the ledger.                              *)

\* A window covers at least one segment and no more than there are.
LEMMA RetainedFacts ==
    ASSUME NEW window \in Nat \ {0}
    PROVE  Retained(window) \in 1..Segments
  <1>1. Segments \in Nat \ {0} /\ SegmentTicks \in Nat \ {0}
    BY FeedAssumption
  <1>2. PICK w \in Nat : w = (window + SegmentTicks - 1) \div SegmentTicks
    BY <1>1
  <1> QED  BY <1>1, <1>2 DEF Retained, AtMost, AtLeast

\* What the segments of a window hold: all that was shown in it, and no more.
LEMMA SegmentsHold ==
    ASSUME NEW l \in LedgerState, NEW seq \in Seq(Exposure), NEW rotated \in SUBSET Nat,
           NEW time \in Nat, NEW window \in Nat \ {0},
           SegmentsExact(l, seq, rotated), Dated(seq, rotated, time)
    PROVE  UNION {l.bits[p] : p \in ActivePlaces(l, time, window)}
               = BitsOf({seq[k].item : k \in {k \in DOMAIN seq :
                            Epoch(seq[k].time) > Epoch(time) - Retained(window)}})
  <1> DEFINE recent == {k \in DOMAIN seq :
                            Epoch(seq[k].time) > Epoch(time) - Retained(window)}
  <1>1. PICK E \in Nat, W \in 1..Segments : E = Epoch(time) /\ W = Retained(window)
    BY EpochFacts, RetainedFacts
  <1>2. Segments \in Nat \ {0}
    BY FeedAssumption
  <1>3. /\ \A k \in DOMAIN seq : Epoch(seq[k].time) \in rotated
        /\ \A e \in rotated : e <= E
    BY <1>1 DEF Dated
  <1>4. ASSUME NEW p \in ActivePlaces(l, time, window), NEW b \in l.bits[p]
        PROVE  b \in BitsOf({seq[k].item : k \in recent})
    <2>1. p \in Places /\ l.epochs[p] > E - W
      BY <1>1 DEF ActivePlaces
    <2>2. b \in BitsOf(ShownIn(seq, l.epochs[p]))
      BY <2>1 DEF SegmentsExact
    <2>3. PICK i \in ShownIn(seq, l.epochs[p]) : b \in Locations[i]
      BY <2>2 DEF BitsOf
    <2>4. PICK k \in 1..Len(seq) : Epoch(seq[k].time) = l.epochs[p] /\ seq[k].item = i
      BY <2>3, ShownFacts
    <2>5. k \in recent
      BY <1>1, <2>1, <2>4
    <2> QED  BY <2>3, <2>4, <2>5 DEF BitsOf
  <1>5. ASSUME NEW b \in BitsOf({seq[k].item : k \in recent})
        PROVE  \E p \in ActivePlaces(l, time, window) : b \in l.bits[p]
    <2>1. PICK k \in recent : b \in Locations[seq[k].item]
      BY DEF BitsOf
    <2>2. PICK e \in rotated : e = Epoch(seq[k].time)
      BY <1>3, <2>1
    <2>3. e \in Nat /\ e > E - W /\ e <= E
      BY <1>1, <1>3, <2>1, <2>2
    <2>4. PICK p \in Places : p = e % Segments
      BY <2>3, PlaceFacts
    <2>5. /\ l.epochs[p] \in rotated /\ l.epochs[p] % Segments = p /\ e <= l.epochs[p]
          /\ l.bits[p] = BitsOf(ShownIn(seq, l.epochs[p]))
      BY <2>4 DEF SegmentsExact, EpochExact
    <2>6. PICK f \in Nat : f = l.epochs[p] /\ f <= E
      BY <1>3, <2>5
    <2>7. f = e
      <3>1. CASE e < f
        <4>1. f - e >= Segments
          BY <1>2, <2>3, <2>4, <2>5, <2>6, <3>1, FarApart
        <4>2. W \in Nat /\ W <= Segments
          BY <1>2
        <4> HIDE DEF recent
        <4> QED  BY <1>2, <2>3, <2>6, <4>1, <4>2
      <3> QED  BY <2>3, <2>5, <2>6, <3>1
    <2>8. seq[k].item \in ShownIn(seq, f)
      BY <2>1, <2>2, <2>7 DEF ShownIn
    <2>9. b \in l.bits[p]
      BY <2>1, <2>5, <2>6, <2>8 DEF BitsOf
    <2>10. p \in ActivePlaces(l, time, window)
      BY <1>1, <2>3, <2>4, <2>6, <2>7 DEF ActivePlaces
    <2> QED  BY <2>9, <2>10
  <1> QED  BY <1>4, <1>5

\* The rolling filter blocks what was shown in its window, up to its hashes, and
\* nothing older: for any number of segments, hash locations and histories.
THEOREM FeedFilterIsExact == Spec => []FilterIsExact
  <1>1. ASSUME SessionInv, LedgerInv  PROVE FilterIsExact
    <2> SUFFICES ASSUME NEW item \in Items, NEW window \in 1..(Segments * SegmentTicks + 1)
                 PROVE  RecentlyExposed(ledger, item, now, window)
                            <=> Locations[item] \subseteq BitsOf(
                                    {shown[k].item : k \in {k \in DOMAIN shown :
                                        Epoch(shown[k].time) > Epoch(now) - Retained(window)}})
      BY DEF FilterIsExact
    <2>1. /\ ledger \in LedgerState /\ shown \in Seq(Exposure) /\ rotations \in SUBSET Nat
          /\ SegmentsExact(ledger, shown, rotations) /\ Dated(shown, rotations, now)
      BY <1>1 DEF LedgerInv, LedgerTypes
    <2>2. now \in Nat
      BY <1>1, JournalFacts
    <2>3. window \in Nat \ {0}
      BY FeedAssumption
    <2>4. UNION {ledger.bits[p] : p \in ActivePlaces(ledger, now, window)}
               = BitsOf({shown[k].item : k \in {k \in DOMAIN shown :
                            Epoch(shown[k].time) > Epoch(now) - Retained(window)}})
      BY <2>1, <2>2, <2>3, SegmentsHold
    <2> QED  BY <2>4 DEF RecentlyExposed
  <1> QED  BY <1>1, LedgerInvariant, PTL

\* The start in the ledger is the start of the session that is open.
LEMMA StartIs ==
    ASSUME SessionInv, LedgerInv, phase = "respond", user.active
    PROVE  ledger.start = SessionStart
  <1>1. CASE request.start
    BY <1>1 DEF LedgerInv, StartExact, SessionStart
  <1>2. CASE ~request.start
    <2>1. ~Fresh
      BY <1>2 DEF SessionInv, Asked
    <2>2. 1 \in DOMAIN journal
      BY <2>1, JournalFacts
    <2>3. journal[1].start
      BY <2>2 DEF SessionInv, SessionsAreWhole
    <2>4. PICK k \in DOMAIN journal : LatestStart(k) /\ ledger.start = journal[k].time
      BY <1>2, <2>2, <2>3 DEF LedgerInv, StartExact
    <2> DEFINE starts == {j \in DOMAIN journal : journal[j].start}
    <2>5. k \in starts /\ \A j \in starts : j <= k
      BY <2>4 DEF LatestStart
    <2>6. starts \in SUBSET Int
      BY JournalFacts
    <2>7. SetMax(starts) = k
      <3> HIDE DEF starts
      <3> QED  BY <2>5, <2>6, MaximumIs
    <2> QED  BY <1>2, <2>4, <2>7 DEF SessionStart
  <1> QED  BY <1>1, <1>2

\* The session filter blocks what the session has shown, as far as the ring goes
\* back: for any ring and any history.
THEOREM FeedSessionFilterIsExact == Spec => []SessionFilterIsExact
  <1>1. ASSUME SessionInv, LedgerInv  PROVE SessionFilterIsExact
    <2> SUFFICES ASSUME phase = "respond", user.active, NEW item \in Items
                 PROVE  ExposedInSession(ledger, item, now)
                            <=> \E k \in DOMAIN shown :
                                    /\ k > Len(shown) - Width
                                    /\ shown[k].item = item
                                    /\ shown[k].time >= SessionStart
      BY DEF SessionFilterIsExact
    <2>1. /\ ledger.ring = RingOf(shown) /\ shown \in Seq(Exposure)
          /\ ledger.start = SessionStart
      BY <1>1, StartIs DEF LedgerInv, LedgerTypes, RingExact
    <2>2. PICK n \in Nat : n = Len(shown) /\ DOMAIN shown = 1..n
      BY <2>1
    <2>3. \A k \in DOMAIN shown : shown[k].time <= now
      <3> SUFFICES ASSUME NEW k \in DOMAIN shown  PROVE shown[k].time <= now
        OBVIOUS
      <3>1. shown[k] \in Exposure
        BY <2>1
      <3>2. shown[k].time \in Nat /\ now \in Nat /\ shown[k].time < now
        BY <1>1, <3>1, JournalFacts DEF Exposure, LedgerInv, Dated
      <3> QED  BY <3>2
    <2>4. ASSUME NEW s \in Slots, NEW j \in DOMAIN ledger.ring[s],
                 ledger.ring[s][j].item = item, ledger.ring[s][j].time >= ledger.start
          PROVE  \E k \in DOMAIN shown : /\ k > Len(shown) - Width
                                         /\ shown[k].item = item
                                         /\ shown[k].time >= SessionStart
      <3>1. Newest(s, n) # {}
        BY <2>1, <2>2, <2>4, RingHolds
      <3>2. PICK k \in Newest(s, n) : ledger.ring[s] = <<shown[k]>>
        BY <2>1, <2>2, <3>1, RingHolds
      <3>3. k \in DOMAIN shown /\ k > Len(shown) - Width
        BY <2>2 DEF Newest
      <3>4. ledger.ring[s][j] = shown[k]
        BY <2>4, <3>2
      <3> QED  BY <2>1, <2>4, <3>3, <3>4
    <2>5. ASSUME NEW k \in DOMAIN shown, k > Len(shown) - Width,
                 shown[k].item = item, shown[k].time >= SessionStart
          PROVE  ExposedInSession(ledger, item, now)
      <3>1. Width \in Nat \ {0} /\ k - 1 \in Nat
        BY <2>2, FeedAssumption
      <3>2. PICK s \in Slots : s = (k - 1) % Width
        BY <3>1, DivisionFacts DEF Slots
      <3>3. k \in Newest(s, n)
        BY <2>2, <2>5, <3>2 DEF Newest
      <3>4. ledger.ring[s] = <<shown[k]>>
        BY <2>1, <2>2, <3>3, RingHolds
      <3>5. 1 \in DOMAIN ledger.ring[s] /\ ledger.ring[s][1] = shown[k]
        BY <3>4
      <3> QED  BY <2>1, <2>3, <2>5, <3>5 DEF ExposedInSession
    <2> QED  BY <2>4, <2>5 DEF ExposedInSession
  <1> QED  BY <1>1, LedgerInvariant, PTL
================================================================================

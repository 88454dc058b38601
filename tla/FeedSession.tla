------------------------------ MODULE FeedSession ------------------------------
(***************************************************************************)
(* One user and what the platform shows in the Feed: the ticks of the      *)
(* kernel (engine.py) over the hidden session of the user and the exposure *)
(* ledger of the platform.  The entry batch reaches the ledger before the  *)
(* request is served, the response batch afterwards.                       *)
(***************************************************************************)
EXTENDS Integers, Sequences, FiniteSets

CONSTANTS Delays, ReactivationDelays,
          Items, Bits, Locations, Width, Segments, SegmentTicks,
          Windows,               \* feed_exposure_dedup_ticks of some policy
          PageSize,              \* bound: items of a page
          MaxTime                \* bound: ticks

ASSUME FeedAssumption ==
    /\ Delays \subseteq Nat \ {0}
    /\ ReactivationDelays \subseteq Nat \ {0}
    /\ Locations \in [Items -> SUBSET Bits]
    /\ Width \in Nat \ {0}
    /\ Segments \in Nat \ {0}
    /\ SegmentTicks \in Nat \ {0}
    /\ Windows \subseteq Nat \ {0}
    /\ PageSize \in Nat
    /\ MaxTime \in Nat

VARIABLES now, user, request, ledger,
          phase,
          journal,               \* the observable requests of the user
          shown,                 \* the Feed impressions of the user, in order
          rotations              \* the epochs in which anyone saw Feed items

INSTANCE UserSession
INSTANCE ExposureLedger

vars == <<now, user, request, ledger, phase, journal, shown, rotations>>

Served == [time : Nat, start : BOOLEAN, surface : Surfaces,
           lineage : Nat \cup {None}, outcome : Outcomes, end : BOOLEAN]

TypeOK ==
    /\ now \in 0..MaxTime
    /\ user \in UserState
    /\ request \in Requests
    /\ ledger \in LedgerState
    /\ phase \in {"entry", "respond"}
    /\ journal \in Seq(Served)
    /\ rotations \subseteq Nat

Init ==
    /\ now = 0
    /\ \E registered \in BOOLEAN : user = [NewUser EXCEPT !.registered = registered]
    /\ request = NoRequest
    /\ ledger = EmptyLedger
    /\ phase = "entry"
    /\ journal = <<>>
    /\ shown = <<>>
    /\ rotations = {}

-----------------------------------------------------------------------------
\* schedule, and the commit of its batch in the world and in the projection.
Entry ==
    /\ phase = "entry"
    /\ now < MaxTime
    /\ Arrive \/ GoOn \/ StayAway
    /\ ledger' = IF request'.start THEN SessionStarted(ledger, now) ELSE ledger
    /\ phase' = "respond"
    /\ UNCHANGED <<now, journal, shown, rotations>>

\* feed_exposure_dedup_ticks, where 0 is off, and feed_session_dedup.
Policies == [ticks : {0} \cup Windows, session : BOOLEAN]

Blocked(item, policy) ==
    \/ policy.ticks > 0 /\ RecentlyExposed(ledger, item, now, policy.ticks)
    \/ policy.session /\ ExposedInSession(ledger, item, now)

\* A page is a sequence of different items that the policy does not block.
Pages(policy) ==
    LET open == {i \in Items : ~Blocked(i, policy)}
    IN {p \in UNION {[1..n -> open] : n \in 0..PageSize} :
            \A j, k \in DOMAIN p : p[j] = p[k] => j = k}

\* The response batch; others may see Feed items in the same tick.
Show(page, others) ==
    /\ ledger' = Exposed(ledger, page, now, others)
    /\ shown' = shown \o [k \in 1..Len(page) |-> [item |-> page[k], time |-> now]]
    /\ rotations' = IF page = <<>> /\ ~others THEN rotations
                    ELSE rotations \cup {Epoch(now)}

Record(outcome, end) ==
    journal' = Append(journal,
        [time |-> now, start |-> request.start, surface |-> request.surface,
         lineage |-> request.lineage, outcome |-> outcome, end |-> end])

Tick ==
    /\ now' = now + 1
    /\ phase' = "entry"
    /\ request' = NoRequest

\* A request in the Feed.
BrowseFeed ==
    /\ phase = "respond" /\ user.active /\ request.surface = "feed"
    /\ \E policy \in Policies : \E page \in Pages(policy) : \E others \in BOOLEAN :
            Show(page, others)
    /\ \/ Stays("none") /\ Record("none", FALSE)
       \/ Leaves("none") /\ Record("none", TRUE)
    /\ Tick

\* A request on another surface.
Respond ==
    /\ phase = "respond" /\ user.active /\ request.surface # "feed"
    /\ \E others \in BOOLEAN : Show(<<>>, others)
    /\ \E outcome \in OutcomesOf(user, request.surface) :
        \/ Stays(outcome) /\ Record(outcome, FALSE)
        \/ Leaves(outcome) /\ Record(outcome, TRUE)
    /\ Tick

\* The user is away.
Pass ==
    /\ phase = "respond" /\ ~user.active
    /\ \E others \in BOOLEAN : Show(<<>>, others)
    /\ Tick
    /\ UNCHANGED <<user, journal>>

-----------------------------------------------------------------------------
(* rebuild_exposures: the ledger from the whole event log.                 *)

SetMax(S) == CHOOSE x \in S : \A y \in S : y <= x

Starts == {journal[k].time : k \in {k \in DOMAIN journal : journal[k].start}}

\* The last epoch that had a place, if any.
LastEpoch(p) ==
    LET epochs == {e \in rotations : e % Segments = p}
    IN IF epochs = {} THEN -1 ELSE SetMax(epochs)

Rebuilt ==
    LET batch == [k \in DOMAIN shown |-> [item |-> shown[k].item, time |-> shown[k].time]]
        ringed == RingAppended(EmptyLedger, batch)
        in(p) == {shown[k].item : k \in {k \in DOMAIN shown :
                                            Epoch(shown[k].time) = LastEpoch(p)}}
    IN [ringed EXCEPT
            !.bits = [p \in Places |-> BitsOf(in(p))],
            !.epochs = [p \in Places |-> LastEpoch(p)],
            !.start = IF Starts = {} THEN -1 ELSE SetMax(Starts)]

\* A launch that finds no ledger rebuilds it between two ticks.
Rebuild ==
    /\ phase = "entry"
    /\ ledger' = Rebuilt
    /\ UNCHANGED <<now, user, request, phase, journal, shown, rotations>>

Next == Entry \/ BrowseFeed \/ Respond \/ Pass \/ Rebuild

Spec == Init /\ [][Next]_vars

-----------------------------------------------------------------------------
(* Properties.                                                             *)

\* Sessions and searches are whole (schedule and the commits of session and
\* search): a session starts with the first request after the last one ended
\* and has a request in every tick until it ends; a reformulated search goes on
\* in the next request, twice at most, and what follows a search that succeeded
\* is a Feed request that carries its query, and no other does.
SessionsAreWhole ==
    \A k \in DOMAIN journal :
        LET this == journal[k]
            first == k = 1 \/ journal[k - 1].end
        IN /\ this.start <=> first
           /\ ~first =>
                /\ this.time = journal[k - 1].time + 1
                /\ journal[k - 1].outcome = "reformulate" => this.surface = "search"
           /\ this.lineage # None <=> ~first /\ journal[k - 1].outcome = "success"
           /\ this.lineage # None =>
                this.surface = "feed" /\ this.lineage = journal[k - 1].time
           /\ ~\E s \in {k - 2} \cap DOMAIN journal : \A i \in s..k :
                /\ journal[i].outcome = "reformulate"
                /\ i > s => ~journal[i].start

SessionStart ==
    IF request.start THEN now
    ELSE journal[SetMax({k \in DOMAIN journal : journal[k].start})].time

\* When a request is served, the session filter blocks exactly what was shown in
\* the Feed since the session began, as far as the ring reaches back: a session
\* never inherits from the last one and never loses its first page
\* (user_session_start_time and exposed_in_current_session).
SessionFilterIsExact ==
    phase = "respond" /\ user.active =>
        \A item \in Items :
            ExposedInSession(ledger, item, now)
                <=> \E k \in DOMAIN shown :
                        /\ k > Len(shown) - Width
                        /\ shown[k].item = item
                        /\ shown[k].time >= SessionStart

\* The rolling filter is exact up to its hashes: for every window it holds what
\* was shown since the first day of the window, nothing is lost when places are
\* reused and nothing older comes back (_rotate, contains_exposure).
FilterIsExact ==
    \A item \in Items, window \in 1..(Segments * SegmentTicks + 1) :
        RecentlyExposed(ledger, item, now, window)
            <=> Locations[item] \subseteq BitsOf(
                    {shown[k].item : k \in {k \in DOMAIN shown :
                        Epoch(shown[k].time) > Epoch(now) - Retained(window)}})

\* Keeping the ledger batch by batch or rebuilding it from the event log is the
\* same (ingest and rebuild_exposures).
RebuildAgrees == phase = "entry" => Rebuilt = ledger
=============================================================================

------------------------------ MODULE UserSession ------------------------------
(***************************************************************************)
(* The session of one user of the hidden world (world/runtime.py,          *)
(* world/dynamics/lifecycle.py and calendar.py): registration, arrivals,   *)
(* the surface of every request, the search that goes on over several      *)
(* requests, leaving, churn and reactivation.                              *)
(*                                                                         *)
(* A tick has two commits: the entry batch that schedule makes, and the    *)
(* response batch to what the user is shown.  schedule writes to the user  *)
(* before the entry batch is committed.                                    *)
(***************************************************************************)
EXTENDS Integers

CONSTANTS Delays,                \* ticks until the next return, in the instance
          ReactivationDelays     \* ticks until a churned user comes back

None == -1

\* A time that never comes.
Never == -2

Surfaces == {"feed", "search", "other"}

VARIABLES now,                   \* the tick
          user,                  \* hidden state of the user
          request                \* the request of this tick while it is open

UserState == [registered : BOOLEAN, active : BOOLEAN, churned : BOOLEAN,
              nextReturn : Nat, reactivation : Nat \cup {Never},
              followup : BOOLEAN,           \* search_followup_topic >= 0
              depth : 0..2,                 \* search_reformulation_depth
              feedPending : BOOLEAN,        \* post_search_feed_pending
              lastQuery : Nat \cup {None}]  \* last_search_query_id

Requests == [start : BOOLEAN, surface : Surfaces, lineage : Nat \cup {None}]

NoRequest == [start |-> FALSE, surface |-> "other", lineage |-> None]

NewUser == [registered |-> FALSE, active |-> FALSE, churned |-> FALSE,
            nextReturn |-> 0, reactivation |-> Never, followup |-> FALSE,
            depth |-> 0, feedPending |-> FALSE, lastQuery |-> None]

-----------------------------------------------------------------------------
(* The entry of a tick.                                                    *)

Reactivates(u) == u.churned /\ u.reactivation # Never /\ u.reactivation <= now

\* Registration waits for a signup time and a draw, the return of an idle user
\* for a draw; reactivation waits for nothing.
MayArrive(u) ==
    \/ ~u.registered
    \/ ~u.active /\ ~u.churned /\ u.nextReturn <= now
    \/ Reactivates(u)

PostSearchFeed(u) == u.feedPending /\ ~u.followup

\* A search that goes on comes before anything else.
SurfacesOf(u) ==
    IF u.followup THEN {"search"}
    ELSE IF PostSearchFeed(u) THEN {"feed"}
    ELSE Surfaces

\* What schedule has cleared and the commits of session and search open.
Entered(u, arrival, surface) ==
    [u EXCEPT
        !.registered = TRUE,
        !.active = TRUE,
        !.churned = @ /\ ~arrival,
        !.reactivation = IF arrival THEN Never ELSE @,
        !.followup = @ /\ surface # "search",
        !.feedPending = @ /\ ~PostSearchFeed(u),
        !.lastQuery = IF surface = "search" THEN now ELSE @]

RequestOf(u, arrival, surface) ==
    [start |-> arrival, surface |-> surface,
     lineage |-> IF PostSearchFeed(u) THEN u.lastQuery ELSE None]

Enters(arrival) ==
    \E surface \in SurfacesOf(user) :
        /\ request' = RequestOf(user, arrival, surface)
        /\ user' = Entered(user, arrival, surface)

\* The user opens a request, with or without a new session.
Arrive ==
    /\ MayArrive(user)
    /\ Enters(TRUE)

GoOn ==
    /\ user.active
    /\ Enters(FALSE)

\* No request in this tick.
StayAway ==
    /\ ~user.active
    /\ ~Reactivates(user)
    /\ request' = NoRequest
    /\ UNCHANGED user

-----------------------------------------------------------------------------
(* The response of a tick.                                                 *)

Outcomes == {"none", "success", "reformulate", "abandon"}

\* A search of which nothing was examined has no outcome.
OutcomesOf(u, surface) ==
    IF surface # "search" THEN {"none"}
    ELSE {"none", "success", IF u.depth < 2 THEN "reformulate" ELSE "abandon"}

Searched(u, outcome) ==
    CASE outcome = "none" -> u
      [] outcome = "success" ->
            [u EXCEPT !.feedPending = TRUE, !.followup = FALSE, !.depth = 0]
      [] outcome = "reformulate" -> [u EXCEPT !.followup = TRUE, !.depth = @ + 1]
      [] outcome = "abandon" -> [u EXCEPT !.followup = FALSE, !.depth = 0]

\* Seeded fault: what the search left behind survives the session.
LeftSearching(u, delay, reactivation) ==
    [u EXCEPT
        !.active = FALSE,
        !.churned = reactivation # None,
        !.reactivation = IF reactivation = None THEN Never ELSE reactivation,
        !.nextReturn = now + delay]

\* reactivation is None unless the user churns.
Left(u, delay, reactivation) ==
    [u EXCEPT
        !.active = FALSE,
        !.churned = reactivation # None,
        !.reactivation = IF reactivation = None THEN Never ELSE reactivation,
        !.nextReturn = now + delay,
        !.followup = FALSE,
        !.depth = 0,
        !.feedPending = FALSE]

Reactivations == {None, Never} \cup {now + d : d \in ReactivationDelays}

\* One batch: the outcome of the search is committed before the session closes.
SearchedAndLeft(u, outcome, delay, reactivation) ==
    Left(Searched(u, outcome), delay, reactivation)

Stays(outcome) == user' = Searched(user, outcome)

Leaves(outcome) ==
    \E delay \in Delays, reactivation \in Reactivations :
        user' = SearchedAndLeft(user, outcome, delay, reactivation)
=============================================================================

------------------------------ MODULE PostSupply ------------------------------
(***************************************************************************)
(* The posts of the twin: the hidden supply of the world                   *)
(* (world/supply.py), the catalog the platform projects from the events    *)
(* (platform/projection.py) and the item index of retrieval, which is only *)
(* refreshed now and then (platform/retrieval.py, platform/indexes).       *)
(*                                                                         *)
(* Every post exists from the start; those that were never published are   *)
(* the reserve.  Creators publish reserved posts, in the background or     *)
(* when a user posts, and pause after it; posts are moderated or deleted,  *)
(* creators leave.  Motivation and the random draws are choices.           *)
(***************************************************************************)
EXTENDS Integers, FiniteSets, FiniteSetsExt

CONSTANTS Items, Creators,
          Owner,                 \* the creator an item starts with
          Initial,               \* the items that are active at the start
          Risky,                 \* items that fail moderation
          Cooldown,              \* ticks a creator pauses after publishing
          Posts, PerTicks,       \* background: so many posts per so many ticks
          DeleteAfter,           \* age from which a post may be deleted
          ExitAfter,             \* inactivity from which a creator may leave
          RefreshInterval        \* ticks between two refreshes of the index

Never == -1

VARIABLES now, supply, catalog, index

SupplyState == [active : SUBSET Items,
                creator : [Items -> Creators],
                published : [Items -> Nat \cup {Never}],
                next : [Creators -> Nat],          \* creator_next_publish
                touched : [Creators -> Int],       \* last publish or feedback
                retained : SUBSET Creators]

\* What the platform knows of it.
CatalogState == [active : SUBSET Items,
                 creator : [Items -> Creators],
                 published : [Items -> Nat \cup {Never}]]

Index == [items : SUBSET Items, time : Int]

PublishedFrom(active) == [i \in Items |-> IF i \in active THEN 0 ELSE Never]

SupplyInit ==
    /\ supply = [active |-> Initial, creator |-> Owner,
                 published |-> PublishedFrom(Initial),
                 next |-> [c \in Creators |-> 0],
                 touched |-> [c \in Creators |-> -1],
                 retained |-> Creators]
    /\ catalog = [active |-> Initial, creator |-> Owner,
                  published |-> PublishedFrom(Initial)]
    /\ index = [items |-> {}, time |-> -1]

-----------------------------------------------------------------------------
(* What schedule decides.                                                  *)

AtMost(a, b) == IF a < b THEN a ELSE b

Reserve == {i \in Items \ supply.active : supply.published[i] = Never}

BackgroundCount == ((now + 1) * Posts) \div PerTicks - (now * Posts) \div PerTicks

CreatorsOf(items) == {supply.creator[i] : i \in items}

\* Seeded fault: the pause of the creator is not asked for.
BackgroundEligible(i) == supply.creator[i] \in supply.retained

MayPublish(i) ==
    /\ supply.creator[i] \in supply.retained
    /\ supply.next[supply.creator[i]] <= now

\* A pool of candidates is drawn; of every creator one of them is taken, as
\* many as are due.
BackgroundPosts ==
    LET eligible == {i \in Reserve : MayPublish(i)}
        pools == kSubset(AtMost(Cardinality(eligible), 4 * BackgroundCount), eligible)
        picks(pool) == kSubset(AtMost(BackgroundCount, Cardinality(CreatorsOf(pool))), pool)
    IN UNION {{s \in picks(pool) : Cardinality(CreatorsOf(s)) = Cardinality(s)} :
              pool \in pools}

Moderated == supply.active \cap Risky

\* Age in a tick is that of an item published by then.
Deletable == {i \in supply.active \ Risky : now - supply.published[i] >= DeleteAfter}

MayExit == {c \in supply.retained : now - supply.touched[c] >= ExitAfter}

-----------------------------------------------------------------------------
(* Commit and ingest of a batch: the posts with their creators, removals,  *)
(* exits and the creators whose items drew feedback.                       *)

\* posts is the set of items, by the function to their publishers.
Assigned(creator, posts, by) ==
    [i \in Items |-> IF i \in posts THEN by[i] ELSE creator[i]]

Stamped(published, posts) ==
    [i \in Items |-> IF i \in posts THEN now ELSE published[i]]

Publishers(posts, by) == {by[i] : i \in posts}

Published(s, posts, by) ==
    [s EXCEPT
        !.active = @ \cup posts,
        !.creator = Assigned(@, posts, by),
        !.published = Stamped(@, posts),
        !.touched = [c \in Creators |-> IF c \in Publishers(posts, by) THEN now ELSE @[c]],
        !.next = [c \in Creators |->
                    IF c \in Publishers(posts, by) THEN now + Cooldown[c] ELSE @[c]]]

\* The projection of the same batch.
Projected(c, posts, by, removed) ==
    [active |-> (c.active \cup posts) \ removed,
     creator |-> Assigned(c.creator, posts, by),
     published |-> Stamped(c.published, posts)]

SupplyEntry ==
    \E posts \in BackgroundPosts, deleted \in SUBSET Deletable, exits \in SUBSET MayExit :
        LET removed == Moderated \cup deleted
        IN /\ supply' = [Published(supply, posts, supply.creator) EXCEPT
                            !.active = @ \ removed,
                            !.retained = @ \ exits]
           /\ catalog' = Projected(catalog, posts, supply.creator, removed)

-----------------------------------------------------------------------------
(* Retrieval.                                                              *)

\* The incremental index only adds; it starts over when an item is gone.
Synced(active) == IF index.items \ active # {} THEN active ELSE index.items \cup active

RefreshDue == index.time < 0 \/ now - index.time >= RefreshInterval

\* Seeded fault: what the index returns is not asked whether it is active.
IndexedUnfiltered(items) == items

Indexed(items) == items \cap catalog.active

\* The items that requests can be answered with, where some may use the index.
\* The index is brought up to date before the first of them.
Retrieved(indexed) ==
    IF indexed THEN catalog.active \cup Indexed(index'.items) ELSE catalog.active

SupplyServe(indexed) ==
    /\ index' = IF indexed /\ RefreshDue
                THEN [items |-> Synced(catalog.active), time |-> now] ELSE index
    /\ UNCHANGED <<supply, catalog>>

-----------------------------------------------------------------------------
(* Posts of users.                                                         *)

\* An intent to post is a creator; several may be of one creator.
Ready(c) == c \in supply.retained /\ supply.next[c] <= now

Free == Reserve

\* Who gets which item: of the intents that are ready as many as the reserve
\* holds, every item once.
Allocations(intents) ==
    LET ready == {k \in DOMAIN intents : Ready(intents[k])}
        count == AtMost(Cardinality(ready), Cardinality(Free))
    IN UNION {{a \in [served -> Free] : \A j, k \in served : a[j] = a[k] => j = k} :
              served \in kSubset(count, ready)}

\* The response to a slate: the posts of users and feedback on what was shown.
SupplyRespond(intents, shown) ==
    \E a \in Allocations(intents) :
        LET posts == {a[k] : k \in DOMAIN a}
            by == [i \in posts |-> intents[CHOOSE k \in DOMAIN a : a[k] = i]]
            feedback == CreatorsOf(shown)
            after == Published(supply, posts, by)
        IN /\ supply' = [after EXCEPT
                            !.touched = [c \in Creators |->
                                IF c \in feedback THEN now ELSE @[c]]]
           /\ catalog' = Projected(catalog, posts, by, {})
           /\ UNCHANGED index
=============================================================================

# Formal models of the FID digital twin

This directory holds TLA+ models of the factual world of the recommender
laboratory (`fid_lab/simulation/digital_twin`): the persistent event log, the
launch protocols that extend the one factual history and its diagnostic forks,
the training dataset and the lanes that consume it, the registry of the models
trained on it, and, inside a tick, the sessions of users, what they were already
shown, the supply of posts, the ad budgets, the cascade that answers a request,
and the delayed outcomes that become labels. TLC checks them on small instances; TLAPS proves the most important
results for every instance. Paths below are relative to
`fid_lab/simulation/digital_twin` unless they start with `fid_lab/`, `docs/` or
`README.md`.

## 1. The system

The twin simulates users, items, merchants and a recommender. A *kernel* steps
a world and a platform tick by tick. Every business experiment ("launch") runs
a window of ticks on top of the last checkpoint of branch `main`, the single
factual history, and publishes four things: the events, the request partitions
that later train models, a checkpoint, and the new head of the branch. Nothing
spans these stores with a transaction; the protocols do it with the order of
their writes. A materialization job turns request partitions and events into a
frozen dataset with delayed labels; two lanes (active, candidate) train on it
and register versions, of which one is served.

| Component | State it keeps | Operations | Interacts through |
| --- | --- | --- | --- |
| Event log (`event_log.py`) | refs, hot batches, ids by event time, watermark; `event-log.json`, objects | append, validate, read, checkpoint_cursor, restore_cursor | kernel appends; checkpoint store saves and restores its cursor |
| Checkpoint store (`checkpoint/store.py`) | immutable, content addressed checkpoints | save, restore, is_ancestor | names its parent, holds the learning cursors |
| World branches (`checkpoint/branches.py`) | registry file: head, base, authority and status per branch | get, initialize_main, fork, advance, close, invalidate | compare-and-swap on the head |
| Request stream (`learning/request_stream.py`) | manifest by logical time, objects, staging directories | stage, commit_staged, abort_staged, reconcile_through, refs, read | launches write, materialization reads |
| Feed launch (`experiments/launch.py`) | ladder cursor in the checkpoint, journal of reviews | run_feed_launch | all of the above |
| Scenario launches (`scenarios/`, `experiments/cold_start_launch.py`, `feed_foundation.py`) | per-launch cursor: attempt, counts, completed | run_*_launch | the same stores |
| Retrieval ladder (`experiments/retrieval_ladder.py`) | cursor in the checkpoint: next route, active routes, pending review | run_retrieval_ladder | checkpoints and branches, on main or a fork |
| Collector (`experiments/factual_collection.py`) | none of its own | collect_factual_requests | the same stores |
| Training dataset (`observability/dataset.py`, `learning/request_materialization.py`) | partition directories, dataset manifest | append_full_flow_partition, verify, list | jobs write under a lock, the bus reads |
| Sample bus (`learning/sample_bus.py`) | one cursor file per lane | poll, commit | consumers of a lane share the cursor |
| Model registry (`learning/registry.py`) | records and aliases in `registry.json`, artifacts by content | register, shadow, review, promote, reject, load with fallback | trainers write under a lock, servers read without it |
| Kernel (`engine.py`) | simulated time, pending batch | step: entry batch, render, response batch | drives everything in a tick |
| User world (`world/runtime.py`, `world/dynamics/`) | hidden state of every user | schedule, respond, commit | events only |
| Content and ad supply (`world/supply.py`) | posts, creators, budgets, bids | schedule_*, commit | events only |
| Delayed outcomes (`world/delayed.py`) and stock (`world/supply.py`) | pending events by ingest time; inventory | due, acknowledge, schedule_from; restock, commit | world commit, twice per tick |
| Platform projection (`platform/projection.py`, `platform/state/`) | catalog, exposure rings and filters, ad accounts, counters | ingest, rebuild_exposures | events in, snapshots out |
| Retrieval and ad market (`platform/retrieval.py`, `platform/routes/`, `platform/markets/`) | item index | render of a request | projection in, slates out |
| Ranking cascade (`platform/ranking.py`, `exploration.py`, `runtime.py`) | none | rank, explore, render, log probabilities | candidates in, slate and trace out |
| Joiner (`samples/joiner.py`) | none | tasks, materialize | freezes labels at their maturity |

### What is hard

* **Crashes and exceptions between writes.** `event-log.json` is replaced on
  every append, long before the checkpoint exists; `commit_staged`, `save` and
  `advance` are three writes; an append to the dataset is two; an artifact is
  there before its record.
* **Several processes.** Nothing prevents two launches, two ladders, two jobs or
  two consumers of a lane from running at once. Some stores take a file lock,
  but only per operation, and decisions are made on state read long before.
* **Retries.** Attempts with other parameters share the staging directory and
  the logical times of the interrupted attempt; a review on hold goes on in
  another process.
* **Bounded memory.** The log forgets ids and batches below the watermark; the
  platform remembers exposures in a ring and in filters that are reused.
* **Two views of one fact.** World and projection keep posts, budgets and
  sessions separately and meet only in batches of events; the item index lags
  behind both; cells of an experiment sell the same budget unseen by each other.
* **Logged probabilities.** What is logged of a random choice is computed by
  formulas, what is shown by injections, diversity and limits; estimates divide
  by the first for the second.
* **Time boundaries.** Exact-match delivery, maturity windows that are tight
  against sums of delays, lateness against reporting lag, orders of keys.

The complete list, each at its line with the properties that cover it, is under
`hazards` in `PROJECT.json`.

## 2. Modules

| Module | Models | Checked through |
| --- | --- | --- |
| `ExactlyOnceLog` | what the log promises: a log that remembers everything | refined by `EventLog` |
| `EventLog` | the durable log, restarts, checkpoint and head | `MCEventLog` |
| `FactualStores` | operations of checkpoint store, branch head and request stream | through the next three |
| `AtomicHistory` | what a launch promises: a window and its requests, or nothing | refined by both launches |
| `FeedLaunch` | `run_feed_launch`, stores and shared event log | `MCFeedLaunch` |
| `ScenarioLaunch` | the reviewed launches, both orders of their writes | `MCScenarioLaunch` |
| `WorldBranches` | the registry of branches | through `RetrievalLadder` |
| `RetrievalLadder` | `run_retrieval_ladder` and operators on the branches | `MCRetrievalLadder` |
| `FullFlowDataset` | dataset and materialization jobs, over a request stream that launches change | through `SampleBus` |
| `SampleBus` | lanes and consumers on top of the dataset | `MCSampleBus` |
| `ServedVersions` | what the registry promises: a succession of versions | refined by `ModelRegistry` |
| `ModelRegistry` | versions, aliases, artifacts and servers | `MCModelRegistry` |
| `UserSession` | session, search chain and lifecycle of one user | through `FeedSession` |
| `ExposureLedger` | ring and segmented filter of what a user was shown | through `FeedSession` |
| `FeedSession` | the ticks of one user and the two exposure filters | `MCFeedSession` |
| `PostSupply` | posts, creators, catalog and item index | through `SupplyTick` |
| `AdMarket` | budgets, bids, allocation to cells, bill | through `SupplyTick` |
| `SupplyTick` | the ticks of the kernel over posts and ads | `MCSupplyTick` |
| `RequestCascade` | one Feed request from the routes to the trace | `MCRequestCascade` |
| `OutcomeQueue` | delayed outcomes, stock, maturity | `MCOutcomeQueue` |
| `EventLogProofs`, `FeedLaunchProofs`, `ScenarioLaunchProofs`, `OutcomeQueueProofs`, `FeedSessionProofs`, `SupplyTickProofs` | theorems about the module they are named after and those it is composed of | tlapm |
| `LearningProofs` | theorems about `SampleBus`, `FullFlowDataset` and `ModelRegistry` | tlapm |
| `RetrievalProofs` | theorems about `RetrievalLadder`, `WorldBranches` and `RequestCascade` | tlapm |

Operators commented "Seeded fault" are variants of the operator that follows
them with a plausible bug; no specification uses them. Each property is
shown to notice one of them (`mutants` in `PROJECT.json`).

### How state and actions correspond to the code

**EventLog.** A partition is `[ids, ingest]`; the kernel only admits batches
whose rows all carry the tick as ingest time (`engine.py`), so one number is
enough. Objects are content addressed and never deleted: a partition stands for
its digest. `refs`, `events`, `ingestWm`, `hot`, `known` are `_partition_refs`,
`_events`, `_ingest_watermark`, `_batches` and the ids of `_ids_by_event_time`;
`disk` is `event-log.json`. `draft` is the cursor inside a checkpoint that was
saved but is not yet the head, `head` the cursor inside the head. An event
time is a function of the id, as ids are hashes of the event. `AppendBatch` is
the whole of `append`: validation, the object, eviction and the manifest.
`Restore` is `restore_cursor`, `restore_partitions` and the manifest write.

**FactualStores.** A checkpoint names its parent and is content addressed, so it
*is* its lineage: the sequence of windows since the burn-in. A run is a function
of its parent, the launch and the parameters (`variant`); this makes "the same
content" and "another content at the same time" what the hashes make of them in
the code. Window `w` covers the logical times between checkpoints `w-1` and `w`;
`Quiet` windows ticks stage nothing. `staging` holds what is below `staging/`;
`InDirectory` says which files share a transaction directory, which is named
after launch and parent but not after the parameters.

**FeedLaunch.** One action per write or read of shared state, in the order of
`run_feed_launch`; `pc` is the position in it. `Fail` is any exception in the
try block (handler: `Abort`); `CommitRaises`, `AdvanceRaises`, `RestoreRaises`
and `GateRaises` are the refusals the code itself makes. `Crash` may leave some
staged files already moved to `objects/`. `eventDisk` stands for
`event-log.json` as `EventLog` describes it: a tick of a lineage.

**ScenarioLaunch.** The same stores; the event log of these launches lives in
the checkpoint. `CommitEarly` launches (cold start, feed dedup) publish before
the analysis, the others after. `Completed` is the cursor flag.

**WorldBranches, RetrievalLadder.** `branches` is `world-branches.json`, each
operation one step under its lock; `status`, `authority`, `base` and `head` are
the fields of a record. A checkpoint is again its lineage, here of reviewed
windows that carry the learning cursor: next route, active routes and the
pending review. `Resume` reads the head without looking at its status, `Review`
is `_run_one_review` up to the saved checkpoint, `AdvanceHead` the
compare-and-swap. `Stop` is the end of the loop, an exception or a crash: nothing
but the checkpoint survives either way. The cursor is that of the ladder only; that
its window drops what other launches had completed (`retrieval_ladder.py:658`), the
A/A steps (707-731) and the additive score of the publish queue of ranker
version 0 are left out.

**FullFlowDataset, SampleBus.** The content of a partition depends on the
watermark its labels were joined at and on the requests, so `installed` and `listed`
map event times to both. `stream` is the manifest of the request stream: `Publish`,
`MoveHead` and `Withdraw` are commit, advance and the reconciliation of the next
open, with one launch at a time. Two attempts at a window have requests at the same
times; which attempt they are of is the number of `failures` before it. A job opens
the head in `Begin` and reads the whole manifest later, in `ReadStream`, uncut:
what a failed launch left and what came after the head are in it. Its loop goes
through the times in the order of the manifest file, which is written with sorted
keys (`request_stream.py:339`): `keyRank` is that order of the keys as strings, fixed
by the digits of the times and chosen at the start. It is also the order of the
dataset manifest and of the lanes. `Predates` is the refusal of a request that is later
than the head the job opened (`observability/contracts.py:59`), which ends the job
after what it appended before. `Install` and `List` are the two writes of one append,
made under the dataset lock; `Resume` and `Conflict` the two outcomes when the
directory exists. `OneWatermarkPerWidth` and `LanesFollowTime` speak of times whose
keys sort as they do; the other properties hold either way. A consumer polls a
batch and commits its refs one by one, each commit re-reading the dataset.

**ModelRegistry.** `models` and `aliases` are `registry.json`, a version is the
position of its record. `files` are the artifacts, named after their content:
two versions with one content share a file. `ReadActive`, `OpenActive`,
`ReadFallback` and `OpenFallback` are the four unlocked reads of
`load_active_with_fallback`. `Damage` and `Repair` stand for the loss and the
re-registration of bytes, which the digest check detects.

**UserSession, ExposureLedger, FeedSession.** `user` holds the hidden flags of
one user that `schedule`, the entry commit and the response commit write; draws
and rates are choices. `ledger` is the row of that user in the exposure ring and
in the segmented filter; an item is the set of its hash positions, which may
coincide. The epochs of segments are shared by all users, so `others` says
whether anybody else saw Feed items in the tick. `Entry` is schedule, world
commit and ingest of the entry batch; `BrowseFeed`, `Respond` and `Pass` serve
from the projection after it and commit the response. `Rebuild` is
`rebuild_exposures` from the journal of everything shown.

**PostSupply, AdMarket, SupplyTick.** `supply` and `market` are hidden,
`catalog` and `priced` what the projection makes of the same batches, `index`
the item index with its age. `Entry`, `Serve` and `Respond` are the three parts
of a tick. In `Serve` the cells of an experiment render one after the other from
one snapshot: `sold[a][c]` is what cell `c` sells of advertiser `a`, bounded by
its share of the budget. The world bills in `Respond`.

**RequestCascade.** `request` is the policy and the recalled row, `stages` what
the cascade made of it: the rows of items that `RankedStages` carries and what is
logged. Rows keep their width as the tensors do; a place without item is `None`.
`Retrieve` chooses what the routes return and fuses it, `Rank` is the whole of
`rank`, `Render` and `Backfill` are the two outcomes of `enforce_ad_budget`,
`Refuse` its exception (the capacity of a cell is in `AdMarket`; here it
may or may not suffice). Draws are hashes of the request and therefore equally
likely: a draw is a permutation of the candidates, or one eligible new video.
Probabilities are numerators over a common denominator (`Base`, `SlateBase`), so
equality is exact. A learned ranker or a linear formula is a fixed order of
items (`Merit`); version 0 keeps the order of its row.

**OutcomeQueue.** A journey is one cart or ad click; which of the two is chosen
when it starts. Stock is counted in half
units (order 0.04 = 2, refund 0.02 = 1): `floor(25 * inventory)` is `stock \div
2`, and restock, order and refund move it exactly as the code does in exact
arithmetic. Rounding of 32-bit floats is not modelled. A tick commits twice
(`engine.py`): entry, then response.

## 3. Runs

| Run | Question | Bounds | Result |
| --- | --- | --- | --- |
| `event_log` | is the bounded, crash-prone log an exactly-once log? | 4 ids at times 0,1,1,2; lateness 1; 3 partitions | 8 156 states, holds |
| `feed_launch` | are launches atomic when one process runs at a time, and can an interruption block the ladder? | 2 launches with a predecessor, 2 variants, windows of 2 ticks, 2 exceptions, 2 crashes | 14 475 states, holds (with fairness) |
| `feed_launch_race` | which order and which requests survive two processes, and how is a window lost? | same ladder, 2 symmetric processes, 1 exception, 1 crash | 482 329 states, holds |
| `scenario_launch` | are reviewed launches atomic, clean and concluded? | 2 launches, one per order, 2 attempts | 171 212 states, holds (with fairness) |
| `scenario_launch_race` | do attempt limit and conclusion survive a race? | same launches, 2 symmetric processes, no exceptions or crashes | 1 300 910 states, holds |
| `retrieval_ladder` | are reviews whole, and do heads only grow, whatever crashes, resumes, forks and races there are? | 2 symmetric processes, main and one fork, 2 routes, 2 attempts, lineages of 3 windows | 120 439 states, holds |
| `sample_bus` | does the dataset hold factual history under one watermark, consumed once, in order and never passed over? | 3 times in 2 windows, 2 orders of their keys, 1 failed launch, 2 jobs, 2 consumers of a lane, 1 crash | 376 898 states, holds (with fairness) |
| `model_registry` | does a succession of promotions stay one chain, and is only what was promoted served? | 3 versions over 2 contents, 1 server | 319 116 states, holds |
| `outcome_queue` | can orders oversell? are outcomes delivered, in order, in time, before their label is frozen? | 2 symmetric journeys, each a cart or an ad click, 1 item, 8 ticks | 329 235 states, holds |
| `feed_session` | are sessions and searches whole, and do the filters block what they should? | 1 user, 3 items over 3 shared bits, ring of 2, 2 segments of 1 tick, 4 ticks | 988 798 states, holds |
| `supply_tick` | are only live posts shown, pauses kept and ads billed in full? | 2 creators, 4 posts, 1 advertiser, 2 cells, index refreshed every 2 ticks, 4 ticks | 929 371 states, holds |
| `request_cascade` | is the trace valid, the slate full, and the log of probabilities exact? | 6 items, 3 routes of 2 places, rows of 5, 4, 3 and 2, 6 policies | 62 883 states, holds |

Why the bounds are enough. The log needs two simultaneous events (an id set
with more than one member), one that is still admissible late and one that is
not, and a restart between any two steps. A ladder needs a predecessor relation
and a variant that fails it; two variants make a retry with other content, two
crashes a crash during the recovery from a crash; one `Quiet` tick makes a
window with a gap. Races need two processes. The retrieval ladder needs a review
that is held once and concluded at the last attempt after another one was
concluded, which are three windows, and one fork that can be taken anywhere on
them. The bus needs a job that starts after another was interrupted and the head
moved, another that reads the requests of an attempt that fails and is repeated, a
window of two times whose keys sort either way, and two consumers that share a
cursor; lanes do not see each other, and the theorems are about any number. The
registry needs a second and a third promotion (the fallback moves on) and two
versions with one artifact. In `feed_session` every pair of items covers the bits
of the third, so false positives occur; four ticks reuse both segments and
overflow the ring; a session can end and another begin. In `supply_tick` a post can
be published, shown and deleted between two refreshes of the index, a creator
can publish in both halves of a tick, leave and be in the reserve; a budget of
three sells to two cells at either bid. In `request_cascade` the routes overlap,
leave gaps and return two ads, no candidate at all occurs, every row is shorter
than the one before, both creators and kinds repeat, and cold start occurs with
rankers that keep the order of the row and with one that does not; rates are
halves, and cold start is never certain. The gap between the places of a row
outweighs the penalties of a slate of two, as it does in the code for up to three
like items before a place; longer slates of one creator and one kind reorder a
random slate. The outcome queue keeps the proportions of the code: a day of two
ticks, and maturities exactly at the sums of the delays.
All bounds are constants: `MaxTime`, `MaxPartitions`, `MaxFailures`,
`MaxCrashes`, `MaxWindows`, `MaxVersions`, `PageSize`, `MaxIntents`,
`MaxAds` (`MaxAttempts` is the code's own limit of attempts).

Symmetry is used only where no definition tells the values apart and no liveness
is checked: the processes of the racing runs and of `retrieval_ladder`, the
contents of `model_registry` and the two journeys of `outcome_queue`.
`outcome_queue`, `feed_session` and `supply_tick` switch the deadlock check off
because their clock ends at `MaxTime`, `request_cascade` because a request ends; everywhere else something can always go on.

The type invariants (`TypeOK` of each module, `RegistryTypeOK`), `DedupeIsExact`, `EventsCountRows`,
`ExactlyOnce`, `DiagnosticsStayApart` and `JournalIsHistory` are not listed in runs where they are proved.

**Fairness.** A started process takes its next step (weak fairness of `Step`):
it is sequential code that waits only for file locks held for one operation. The
operator starts every launch again and again (strong fairness of `ReadHead`,
since the process may be busy with another launch in between), in
`feed_launch` with the parameters chosen for the launch, because a ladder
whose operator insists on parameters that never pass is rightly stuck. Exceptions
and crashes are never forced and are bounded. Consumers of
the bus keep running; nothing is asked of the jobs, so lanes catch up with
whatever the dataset lists even if no job ever takes another step. The launch
models have no one who closes or invalidates `main` (`advance` refuses then,
`branches.py:148`): their liveness presupposes that it stays active. The
retrieval ladder, the registry and the ticks state no fairness and no liveness: a ladder may
be held for ever by an operator who never resumes it.

## 4. Where code and documents disagree

All runs hold. The deviations below are part of the models; the properties are
stated so that they hold of the code as it is, and say so where they are weaker
than a document.

1. README.md:30 says failed launch attempts cannot publish training partitions.
   `run_feed_launch` aborts only the staging directory; an exception in `save` or
   `advance` leaves the committed partitions in the manifest until some process
   opens the stream. `OrphansAreOneAttempt` bounds what is left. The scenario
   launches reconcile in their handlers, and `FailedAttemptsUnpublished` holds for
   them.
2. A process that read the head before another one advanced it unpublishes the
   partitions of the new head (`reconcile_through`, `request_stream.py:237`), and may
   then commit those of its own window at the same times. The compare-and-swap refuses
   it, but these times are no later than the new head, so no reconciliation with that
   head removes them: the requests of a refused attempt stay in the place of those
   that happened, against README.md:30. `LostToStaleHeads` says that a window is lost in this way only, and
   `AttemptsOnHistory` that what takes its place is whole and ran on the history.
3. A job that dies between moving the directory and writing the manifest leaves a
   partition that every retry reports as "resumed" and that is never listed.
4. Partitions are ordered by key strings, so event time 10 comes before 9: those of
   one watermark in the lanes (`observability/dataset.py:229`) and all of them in the
   stream manifest (`request_stream.py:339`), hence in the loop of a job. A job that
   opened the head at 9 installs 9; one that starts when the head is at 11 installs 10
   and 11 before it is refused at 9, so labels of two watermarks are in one dataset,
   and again at 99 and 999. `OneWatermarkPerWidth` is what remains. A job
   that finds requests later than its head fails at them (`observability/contracts.py:59`)
   with everything of an earlier key appended.
5. The dedup window is rounded to whole calendar segments
   (`platform/state/exposure_bloom.py:140`): a window of one day forgets at
   midnight. `FilterIsExact` states what the rounding gives.
6. docs/launch-reviews/2026-08-25-v4-world-checkpoint-retrieval-mainline.md:30
   says that heads advance by compare-and-swap, "so concurrent or cross-branch
   updates fail closed". The head does; `event-log.json` is rewritten by every
   append before the compare-and-swap decides, so the loser of two concurrent
   launches leaves a file from which the winner's head cannot be restored.
   `HeadRecoverable` is therefore checked and proved for one process.
7. docs/launch-reviews/README.md:13 speaks of exact propensities of the cold
   start exploration. They are exact for a fine ranker that keeps the order of
   the row. Under a learned or linear one the drawn video can win a place before
   the last, where 1.0 is logged for it; and an item that diversity moves because
   of the injection is logged as certain. The mixture of the random policy, whose
   propensity docs/launch-reviews/2026-08-25-v4-world-checkpoint-retrieval-mainline.md:18
   calls exact too, is exact with one recalled ad; with two, one of them is always
   blocked, which the uniform formula ignores. And the random slate goes through the
   diversity of `platform/ranking.py:670` with a gap of 1 between places: from the
   fifth place on (the default shows eight) an item with four like it before it,
   of one creator and kind, pays 4 * 0.26 and falls behind the next one. Then
   several permutations give one slate, while the logged probability is that of one
   permutation. TLC shows it with six candidates, five of them alike, one
   route and `ExposeK = 5`. `Identified` names these three conditions.
8. `cold_start_exploration_rate` demands the cold start route
   (`platform/ranking.py:111`), but the ladder gives that route the weight 0
   (`experiments/retrieval_ladder.py:145`), and routes without weight are left
   out of the fusion (`platform/retrieval.py:393`): the ladder's exploration at
   rate 0.05 never finds an eligible video. One of the six policies has these weights.
9. `platform/ranking.py:107` accepts a cold start rate of 1.0, but with a learned
   fine ranker such a request can be refused: a drawn video that takes an earlier
   place by its score, and pushes a like item out by the diversity penalties, leaves
   the last place as it was, and for that place `targeted_position_probability`
   (`platform/routes/cold_start_exploration.py:121`) logs 1 - rate = 0, which the
   slate contract (`contracts.py:170`) does not accept. TLC shows it when one policy
   of `MCPolicies` gets `coldRate |-> Whole` and the new video a high merit and the
   creator of an older post; a theorem of `TraceIsValid` needs `coldRate < Whole`.
10. The retrieval ladder never opens the request stream, so it does not reconcile it:
   a window of the ladder on top of what a failed launch left (item 1) moves the head
   past those times, and from then on the requests of the failed attempt count as
   history and may be trained on. `TrainedOnHistory` counts as history what is
   published up to the head when the head gets there. It has one launch at a
   time, so item 2 is outside it.

## 5. Proofs

Every invariant of the runs, every action property and every refinement is a
theorem: it holds for all values of the constants, not only for those of the
instance. Each module first proves one
inductive invariant (`... => []IInv`, which contains type correctness) and
derives the properties from it. Every inductive invariant was checked by TLC
on the instance of its run before it was proved.

**EventLogProofs.** `IInv` adds to the types that the memory is exact
(`MemoryExact`: the stored partitions are pairwise disjoint and in ingest order, the
count is their rows, hot window and ids are what the watermark keeps of them) and
that the files agree with it (`FilesAgree`: draft, head and disk are cuts of one valid
stream). Both are needed: without the files, nothing is known after a restart.
From it follow the safety properties of the run and, step by step, the
refinement of `ExactlyOnceLog`. `ReadIsExact` needs no invariant: the bounds of a
partition, whatever it holds, justify skipping it. Assumed: `EventLogAssumption`,
`NoneAssumption`.

**FeedLaunchProofs** (any number of processes). The ladder is not inductive by
itself: the gate is evaluated long before the advance. `GateHeld` says that the
verdict holds *for the base* of every process between gate and advance, and the
compare-and-swap makes base and head the same at the advance. `Advanced` carries a
finished launch to its review. `BasesOnHistory` says that every process works on a
checkpoint of the history, which needs that the head is never replaced; with it and the
comparison of contents in `commit_staged`, what the stream holds of a window
is one whole attempt on the history (`AttemptsOnHistory`), although processes share
times and staging directories and reconcile behind each other's back. Then a
window can leave the stream only when a process opens it with an earlier head
(`LostToStaleHeads`): a process with that head or a later one keeps it.
Its last part assumes that one process runs (`OneProcess`). `AtHead`: the head does not
move under the process; `Written`: a finished window is on disk until the head
has moved to it; `Pending`: before the commit nothing lies beyond the head, after
it exactly the committed window. They give `HeadRecoverable`,
`OrphansAreOneAttempt` and the refinement of `AtomicHistory`: `Advance` is the
only visible step. The hypothesis is necessary (deviation 6 above).

**ScenarioLaunchProofs.** For any number of processes `GateHeld` carries the answer of
the gate to the advance: a process that runs a window runs it for a launch that
was not complete in its base, and the compare-and-swap makes base and head the same.
Hence `ReviewsConclude`, although nobody locks the cursor of a review.
`AttemptsOnHistory` holds as for the feed launches. With one process
(`OneProcess`) `Pending` says for each step, in either order of the writes, what
lies beyond the head, and `Orphans` that between two attempts nothing does
except the window of a launch in `CommitEarly`: that is the inductive form of
`FailedAttemptsUnpublished`. The refinement of `AtomicHistory` follows as above;
`Advance` is the only visible step.

**RetrievalProofs, the ladder** (any number of processes and forks, ladders of any
length, all properties of the run). A lineage is `Sound` when all its windows are
whole *and* its cursor says so: the
next route, the active routes and the pending review are those of the windows.
Wholeness of a new window follows only from the cursor of the one before, which
is why the cursor is part of the invariant. It holds of every head and of every
lineage a process works on, even those that never become a head.

**LearningProofs** (any times, orders of keys, failed launches, jobs, lanes, consumers,
contents, versions and servers; the safety properties of `sample_bus` and all of
`model_registry`). The requests up to the head are published and stay (`Past`), so
what a job has read of the times its watermark covers is history (`Faithful`), however
much more it has read; only that is ever put in place, which gives `TrainedOnHistory`.
What the watermark of a job covers and the job has not left is in place with the
job's labels (`Credited`), and a partition is in place only with everything of an earlier
key that its watermark covers, at the same watermark (`Covered`, `NoGap`). Of two
times whose keys sort as they do the later partition's watermark covers both:
`OneWatermarkPerWidth`. Between the two writes of an append one job has the lock,
and its partition is in place, not listed, and before nothing in place that follows it in time
and key (`Listing`): hence `AlwaysVerifies`, wherever a job dies. A lane has
consumed what is listed (`ConsumedListed`) and nothing twice (`NoneTwice`): a commit
extends the cursor by the first pending partition, whatever other consumers did
since the poll. `LanesFollowTime` needs that nothing left out precedes in time and
key what was consumed (`RestIsLater`), which listing keeps because of `Listing`.
Promotions form a chain: the link from a promoted version to the one it
replaced is injective, and the active version is nobody's predecessor. Only with
the whole chain in the invariant does "the fallback is the predecessor of the
active version" survive the next promotion. A server between two unlocked reads
holds a version that was promoted once, and what was promoted once stays so.

**OutcomeQueueProofs.** `IInv` bounds every pending outcome by the horizon of its
kind counted from the request of its journey, and the orders pending on an item
by the shelf. Assumed: `QueueAssumption`, and `MaturityAssumption` for
`MatureLabelsFinal`: it holds for the factual profile of 96 ticks a day and fails
below 15, where the fixed delays outgrow the refund window. A second invariant,
`ReportedInTime`, gives `DeliveredInTime` under `LagAssumption`. `FunnelInv` adds to
`Funnel` that every outcome has a request and that what was delivered was due, so
that no outcome is both pending and delivered.

**FeedSessionProofs** (any delays, ring, segments, hash locations, windows and
histories; all properties of the run). The session part of the invariant relates the flags
of the user to the last request of the journal in both halves of a tick: between
two ticks they are those of its outcome (`Carried`), within a tick they are used up
and the open request has what they ask for (`Asked`), and nothing of them survives
the session (`Rested`). The ledger part states what the ledger *is*: the ring holds, slot by slot, the
newest exposures of the history (`RingExact`, for batches wider than the ring too),
every segment the bits of the last epoch that had its place (`SegmentsExact`), and
the start is the time of the latest request that opened a session (`StartExact`).
Ingestion keeps it and a rebuild computes it, so `RebuildAgrees` and
the exactness of both filters follow; that two epochs of one place are at least
`Segments` apart excludes what is older than the window.

**SupplyTickProofs** (any items, creators, advertisers, cells, prices and refresh
periods; all properties of the run). The catalog follows the world and what is shown is
taken from it while the tick is rendered (`CatalogFollows`): `ServesLive`, however old the index
is. The next post of a creator is a pause after the last one, whichever half of a tick
it came from (`PausesRecorded`): `CooldownKept`. From the entry of a tick on the platform knows
the budgets of the world (`PricesFollow`) and no cell sells more than its share
(`SoldWithin`); then `FullyBilled` is arithmetic of floors, for any cells whose shares
divide the traffic (`SharesAssumption`).
The sums are folds over finite sets; that a fold adds up element by element is
proved from the well-founded order of the naturals, since the library's induction
theorems cannot be instantiated.

**RetrievalProofs, the cascade** (any items, creators, scores, widths, routes and
policies). The rows of a request are built by recursion over places, on sets of
sequences (`Leading`) and on slates (`DiversifiedTop`), and a recursive function
is a choice: first it must exist. `Climb` is induction along the numbers from the
well-founded order (the library's induction theorems cannot be instantiated), `Iteration`
iterates any function with it, and `LeadIs` and `SlateIs` solve the two recursions.
Then `LeadFacts` (different items, as many as asked), `TopFacts` and `SlateFacts`
(the slate, place by place: no item twice, one ad, a gap only when nothing may
follow) hold for every row, `InjectFull` says that the injection
of a new video keeps a slate full, and fusion and draws return rows
of different items. `CascadeInv` collects it: the stages are nested, the slate is
full, the logged admissions lie between 0 and 1. It implies `SlateIsFull`. That
what is shown had a positive probability (`PossibleInv`, and with it `TraceIsValid`)
needs `NeverCertain`: no policy draws a new video with certainty. The
hypothesis is necessary (item 9 of section 4) and holds for the rates the
repository uses (0.05 and 0.10). `CascadeAssumption` also says that a route returns an item once: each is a
`topk`, a rotation or an index search over different candidates.

**RetrievalProofs, the propensities** (`PropensitiesAreExact`; no assumption beyond
`CascadeAssumption`, and the conditions of `Identified` are those of the property). The
logged numbers are closed formulas, the property compares them with a count of
draws, so the proof counts, in three steps.

- *Sequences.* `Fibres` (a set that a function divides into equal parts) is
  proved by induction on finite sets and gives `ArrangedCount` (there are n! / (n - k)!
  sequences of k of n items: the factorial of `Combinatorics` is a recursive function,
  and `FactorialIs` shows that it exists), `StartingCount` (how many continue a given
  beginning), and, with a bijection that swaps two items, `PlacedCount` (an item is at a
  place in one n-th of them) and `AmongCount` (it is among the first m in m n-ths).
- *Slates.* The counts are of permutations, the log is about slates, so each slate
  must come from the beginning of its permutation. `SlateInOrder` is where
  `Identified` is needed: with one ad and few items alike (`Unlike`), diversity keeps the
  order of a row whose neighbours are `PriorityGap` apart. `RandomGiven` follows for
  a permutation and `ColdGiven` for a new video: under a ranker that keeps the
  order it is put last in each of the three stages and moves nothing else.
- *Shares.* `MixtureExact` and `ColdExact` compare what is logged with the shares of the
  draws, for every item in each stage, every position and the slate, with
  `DeterministicExact` for the requests that draw nothing.

Only model-checked: liveness (`LadderCompletes`, `EveryLaunchConcludes`,
`NothingStarves`), which is out of the prover's reach.

## 6. Not modelled

The map covers a small share of the repository, and most of the rest has no
protocol to model: tensors, embeddings, scores, behaviour and random draws (a
draw is a choice here, equally likely where its probability is logged); training of networks and offline studies; reports.
Also abstracted: hashing and serialisation (content is identity); checkpoint
migration between code versions; the metrics and decisions of reviews (constants
`Passes`, `Concludes`, `Outcomes`); disk corruption, which the code detects with digests and refuses
(except for artifacts, where a server must survive it).
The older laboratories (`fid_lab/feed_loop`, `evolution`, `training`, `online`,
`launches`, ...) do not touch the factual world.

## 7. Plan

Done, in this order: event log, feed launch, scenario launches, dataset and bus,
outcome queue, branches and retrieval ladder, registry, user sessions and
exposures, supply and ads, the request cascade, and the proofs above. Left:

1. What samples the joiner makes of a trace (`samples/joiner.py`) and the
   surfaces other than the Feed in the cascade.
2. Registry and bus composed: a version names the cursor it was trained up to.

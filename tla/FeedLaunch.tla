----------------------------- MODULE FeedLaunch -----------------------------
(***************************************************************************)
(* run_feed_launch (experiments/launch.py): one process runs one window of *)
(* the factual world under an experiment and publishes it.  It reads the   *)
(* head, restores its checkpoint, steps the world tick by tick, staging    *)
(* the requests of each tick while the event log is persisted in place,    *)
(* then commits the staged requests, saves a checkpoint, moves the head    *)
(* and writes the immutable review.  Exceptions abort the attempt; the     *)
(* process may also die between any two writes.                            *)
(*                                                                         *)
(* The event log is the durable one of EventLog.  Its content after tick k *)
(* of a window is determined by the lineage, so [work, tick] stands for    *)
(* the whole of event-log.json.                                            *)
(***************************************************************************)
EXTENDS FactualStores

CONSTANTS Runners,
          Predecessor,     \* launch -> predecessor_launch_id, or None
          Passes,          \* <<launch, variant>> whose review decides "pass"
          Chosen,          \* launch -> the variant the operator insists on
          MaxFailures,     \* bound: exceptions raised by the environment
          MaxCrashes,      \* bound: processes that die
          None

ASSUME LaunchAssumption ==
    /\ Launches # {} /\ Variants # {}
    /\ Predecessor \in [Launches -> Launches \cup {None}]
    /\ Passes \subseteq (Launches \X Variants)
    /\ Chosen \in [Launches -> Variants]
    /\ None \notin Launches
    /\ MaxFailures \in Nat
    /\ MaxCrashes \in Nat

VARIABLES runner,          \* the state of each process
          eventDisk,       \* event-log.json
          journal,         \* launch-journal/: checkpoints with a review
          failures, crashes

local == <<runner, failures, crashes>>
vars == <<stores, local, eventDisk, journal>>

Steps == {"idle", "opening", "gate", "window", "commit",
          "save", "advance", "review"}

RunnerState == [pc : Steps, base : Lineages, launch : Launches,
                variant : Variants, tick : 0..Ticks]

Position == [work : Lineages, tick : 0..Ticks]

TypeOK ==
    /\ StoresTypeOK
    /\ runner \in [Runners -> RunnerState]
    /\ eventDisk \in Position
    /\ journal \subseteq Lineages
    /\ failures \in Nat
    /\ crashes \in Nat

-----------------------------------------------------------------------------
\* Seeded fault: the window runs on a new world, not on the parent's.
WorkFromScratch(r) == <<[launch |-> runner[r].launch,
                         variant |-> runner[r].variant]>>

Work(r) == Append(runner[r].base, [launch |-> runner[r].launch,
                                   variant |-> runner[r].variant])

Reviewed(c) == {c[i].launch : i \in DOMAIN c}
Passed(c) == {c[i].launch : i \in {i \in DOMAIN c :
                                    <<c[i].launch, c[i].variant>> \in Passes}}

\* The persisted event stream begins with the one recorded in checkpoint c.
Covers(disk, c) ==
    /\ IsAncestor(c, disk.work)
    /\ Len(c) = Len(disk.work) => disk.tick = Ticks

\* Seeded fault: the review of the launch itself is not looked up.
AdmittedAgain(c, l) == Predecessor[l] # None => Predecessor[l] \in Passed(c)

Admitted(c, l) ==
    /\ l \notin Reviewed(c)
    /\ Predecessor[l] # None => Predecessor[l] \in Passed(c)

Idle == [pc |-> "idle", base |-> <<>>, launch |-> CHOOSE l \in Launches : TRUE,
         variant |-> CHOOSE v \in Variants : TRUE, tick |-> 0]

Goto(r, step) == runner' = [runner EXCEPT ![r].pc = step]

Exit(r) == runner' = [runner EXCEPT ![r] = Idle]

-----------------------------------------------------------------------------
\* branches.get("main")
ReadHead(r, l, v) ==
    /\ runner[r].pc = "idle"
    /\ runner' = [runner EXCEPT ![r] = [pc |-> "opening", base |-> head,
                                        launch |-> l, variant |-> v, tick |-> 0]]
    /\ UNCHANGED <<stores, eventDisk, journal, failures, crashes>>

\* store.restore: the log is rewound to the checkpoint, on disk too.
Restore(r) ==
    /\ runner[r].pc = "opening"
    /\ Covers(eventDisk, runner[r].base)
    /\ eventDisk' = [work |-> runner[r].base, tick |-> Ticks]
    /\ Goto(r, "gate")
    /\ UNCHANGED <<stores, journal, failures, crashes>>

RestoreRaises(r) ==
    /\ runner[r].pc = "opening"
    /\ ~Covers(eventDisk, runner[r].base)
    /\ Exit(r)
    /\ UNCHANGED <<stores, eventDisk, journal, failures, crashes>>

\* The launch is reviewed already, or its predecessor has not passed.
GateRaises(r) ==
    /\ runner[r].pc = "gate"
    /\ ~Admitted(runner[r].base, runner[r].launch)
    /\ Exit(r)
    /\ UNCHANGED <<stores, eventDisk, journal, failures, crashes>>

\* stream.reconcile_through(restored.ref.logical_time)
OpenStream(r) ==
    /\ runner[r].pc = "gate"
    /\ Admitted(runner[r].base, runner[r].launch)
    /\ ReconcileThrough(runner[r].base)
    /\ Goto(r, "window")
    /\ UNCHANGED <<head, saved, staging, eventDisk, journal, failures, crashes>>

\* One iteration of _execute_window: kernel.step appends to the event log,
\* and the requests of the tick, if any, are staged.
RunTick(r) ==
    LET k == runner[r].tick + 1
    IN /\ runner[r].pc = "window"
       /\ runner[r].tick < Ticks
       /\ eventDisk' = [work |-> Work(r), tick |-> k]
       /\ Stage(Work(r), k)
       /\ runner' = [runner EXCEPT ![r].tick = k,
                                   ![r].pc = IF k = Ticks THEN "commit"
                                             ELSE "window"]
       /\ UNCHANGED <<head, saved, stream, journal, failures, crashes>>

Commit(r) ==
    /\ runner[r].pc = "commit"
    /\ CommitStaged(runner[r].base, runner[r].launch, Work(r))
    /\ Goto(r, "save")
    /\ UNCHANGED <<head, saved, eventDisk, journal, failures, crashes>>

Save(r) ==
    /\ runner[r].pc = "save"
    /\ SaveCheckpoint(Work(r))
    /\ Goto(r, "advance")
    /\ UNCHANGED <<head, stream, staging, eventDisk, journal, failures, crashes>>

Advance(r) ==
    /\ runner[r].pc = "advance"
    /\ AdvanceMain(runner[r].base, Work(r))
    /\ Goto(r, "review")
    /\ UNCHANGED <<saved, stream, staging, eventDisk, journal, failures, crashes>>

\* _write_review: a review already there must say the same.
WriteReview(r) ==
    /\ runner[r].pc = "review"
    /\ journal' = IF \E c \in journal : c[Len(c)].launch = runner[r].launch
                  THEN journal ELSE journal \cup {Work(r)}
    /\ Exit(r)
    /\ UNCHANGED <<stores, eventDisk, failures, crashes>>

\* except: stream.abort_staged(transaction_id); raise
Abort(r) ==
    /\ AbortStaged(runner[r].base, runner[r].launch)
    /\ Exit(r)
    /\ UNCHANGED <<head, saved, stream, eventDisk, journal, crashes>>

\* commit_staged finds a staged file missing or another content published.
CommitRaises(r) ==
    /\ runner[r].pc = "commit"
    /\ ~Committable(Work(r))
    /\ Abort(r)
    /\ UNCHANGED failures

\* The head moved since it was read.
AdvanceRaises(r) ==
    /\ runner[r].pc = "advance"
    /\ ~CanAdvance(runner[r].base, Work(r))
    /\ Abort(r)
    /\ UNCHANGED failures

\* Anything in the try block may fail: a full disk, an invalid batch.
Fail(r) ==
    /\ runner[r].pc \in {"window", "commit", "save", "advance"}
    /\ failures < MaxFailures
    /\ failures' = failures + 1
    /\ Abort(r)

\* The process dies; inside commit_staged some staged files have already been
\* moved to objects/ while the manifest is still the old one.
Crash(r) ==
    /\ runner[r].pc # "idle"
    /\ crashes < MaxCrashes
    /\ crashes' = crashes + 1
    /\ Exit(r)
    /\ \E moved \in SUBSET (staging \cap Files(Work(r))) :
           /\ moved # {} => runner[r].pc = "commit"
           /\ staging' = staging \ moved
    /\ UNCHANGED <<head, saved, stream, eventDisk, journal, failures>>

Init ==
    /\ StoresInit
    /\ runner = [r \in Runners |-> Idle]
    /\ eventDisk = [work |-> <<>>, tick |-> Ticks]
    /\ journal = {}
    /\ failures = 0 /\ crashes = 0

Step(r) == \/ Restore(r) \/ RestoreRaises(r)
           \/ GateRaises(r) \/ OpenStream(r)
           \/ RunTick(r)
           \/ Commit(r) \/ CommitRaises(r)
           \/ Save(r)
           \/ Advance(r) \/ AdvanceRaises(r)
           \/ WriteReview(r)

Next == \E r \in Runners :
            \/ \E l \in Launches, v \in Variants : ReadHead(r, l, v)
            \/ Step(r)
            \/ Fail(r)
            \/ Crash(r)

Spec == Init /\ [][Next]_vars

\* A started process takes its next step; the operator starts every launch of
\* the ladder again and again, in the variant Chosen for it.
FairSpec ==
    /\ Spec
    /\ \A r \in Runners : WF_vars(Step(r))
    /\ \A r \in Runners, l \in Launches : SF_vars(ReadHead(r, l, Chosen[l]))

(***************************************************************************)
(* Properties.                                                             *)
(***************************************************************************)

\* A factual world runs each launch at most once, and only after a window in
\* which its predecessor passed.  The gate is evaluated on a checkpoint read
\* before the window; the compare-and-swap keeps the verdict true at the end.
LadderOrder ==
    \A i \in DOMAIN head :
        /\ \A j \in DOMAIN head : head[i].launch = head[j].launch => i = j
        /\ Predecessor[head[i].launch] # None =>
               \E j \in 1..(i - 1) :
                   /\ head[j].launch = Predecessor[head[i].launch]
                   /\ <<head[j].launch, head[j].variant>> \in Passes

\* The requests of the history disappear in one way only: a window of the head
\* goes when a process opens the stream (reconcile_through) with a head that it
\* read before the window became history, a process whose own window the
\* compare-and-swap will refuse.  Failed attempts, retries, aborts and crashes
\* of any number of processes never take it, nor does one that read the
\* window's own checkpoint.
LostToStaleHeads ==
    [][\A i \in DOMAIN head :
        Files(SubSeq(head, 1, i)) \subseteq stream =>
            \/ Files(SubSeq(head, 1, i)) \subseteq stream'
            \/ \E r \in Runners : /\ runner[r].pc = "gate"
                                  /\ Len(runner[r].base) < i
                                  /\ IsAncestor(runner[r].base, head)]_vars

\* Every review in the journal describes a window of the factual history.
JournalIsHistory == \A c \in journal : c # <<>> /\ IsAncestor(c, head)

\* Beyond the head there is nothing, or one whole attempt on the head: the
\* partitions left by a process that stopped after its commit.
OrphansAreOneAttempt ==
    LET beyond == {p \in stream : Len(p.work) > Len(head)}
    IN \A p \in beyond : /\ beyond = Files(p.work)
                         /\ Len(p.work) = Len(head) + 1
                         /\ IsAncestor(head, p.work)

\* The checkpoint main points at can be restored: event-log.json still starts
\* with its stream although every attempt rewrites that file in place.
HeadRecoverable == Covers(eventDisk, head)

\* Launches are atomic: the history and the request partitions up to the head
\* change together or not at all.
Atomic == INSTANCE AtomicHistory
            WITH WindowFiles <- Files,
                 history <- head,
                 published <- {p \in stream : Len(p.work) <= Len(head)}

ImplementsAtomicHistory == Atomic!Spec

\* Every launch whose predecessors pass is eventually part of the history: no
\* interruption leaves files behind that block the retries for good.
LadderCompletes ==
    \A l \in Launches :
        (Predecessor[l] # None => Predecessor[l] \in Passed(head))
            ~> l \in Reviewed(head)
=============================================================================

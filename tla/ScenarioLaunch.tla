--------------------------- MODULE ScenarioLaunch ---------------------------
(***************************************************************************)
(* The launches that are reviewed over several windows: commerce, search   *)
(* and ads (scenarios/, with launch_runtime.py), cold start and feed dedup *)
(* (experiments/), on the same stores as FeedLaunch but with the event log *)
(* inside the checkpoint instead of in a shared file.  An attempt          *)
(* runs one window; its review either concludes the launch or holds it for *)
(* another attempt, at most MaxAttempts in all.                            *)
(*                                                                         *)
(* Two orders occur in the code.  Commerce, search and ads analyse the     *)
(* window before they commit its requests; cold start and feed dedup (the  *)
(* CommitEarly launches) commit first.  Unlike the feed launch, both       *)
(* reconcile the stream with the checkpoint they started from when a step  *)
(* after the analysis raises; nothing catches what the analysis raises.    *)
(***************************************************************************)
EXTENDS FactualStores

CONSTANTS Runners,
          CommitEarly,     \* launches that commit before the analysis
          Concludes,       \* <<launch, variant>> whose review is not "hold"
          MaxAttempts,     \* maximum_attempts
          MaxFailures,     \* bound: exceptions raised by the environment
          MaxCrashes       \* bound: processes that die

ASSUME ScenarioAssumption ==
    /\ Launches # {} /\ Variants # {}
    /\ CommitEarly \subseteq Launches
    /\ Concludes \subseteq (Launches \X Variants)
    /\ MaxAttempts \in Nat \ {0}
    /\ MaxFailures \in Nat
    /\ MaxCrashes \in Nat

VARIABLES runner, failures, crashes

vars == <<stores, runner, failures, crashes>>

Steps == {"idle", "opening", "window", "commit", "analysis",
          "save", "advance", "cleanup"}

RunnerState == [pc : Steps, base : Lineages, launch : Launches,
                variant : Variants, tick : 0..Ticks]

TypeOK ==
    /\ StoresTypeOK
    /\ runner \in [Runners -> RunnerState]
    /\ failures \in Nat
    /\ crashes \in Nat

-----------------------------------------------------------------------------
Work(r) == Append(runner[r].base, [launch |-> runner[r].launch,
                                   variant |-> runner[r].variant])

Attempts(c, l) == {i \in DOMAIN c : c[i].launch = l}

\* Seeded fault: one attempt too many.
CompletedLater(c, l) ==
    \E i \in Attempts(c, l) :
        /\ \A j \in Attempts(c, l) : j <= i
        /\ \/ <<l, c[i].variant>> \in Concludes
           \/ Cardinality(Attempts(c, l)) > MaxAttempts

\* The cursor of the launch says "completed": its last attempt concluded, or
\* was the last one allowed.
Completed(c, l) ==
    \E i \in Attempts(c, l) :
        /\ \A j \in Attempts(c, l) : j <= i
        /\ \/ <<l, c[i].variant>> \in Concludes
           \/ Cardinality(Attempts(c, l)) >= MaxAttempts

Idle == [pc |-> "idle", base |-> <<>>, launch |-> CHOOSE l \in Launches : TRUE,
         variant |-> CHOOSE v \in Variants : TRUE, tick |-> 0]

Goto(r, step) == runner' = [runner EXCEPT ![r].pc = step]

Exit(r) == runner' = [runner EXCEPT ![r] = Idle]

Early(r) == runner[r].launch \in CommitEarly

-----------------------------------------------------------------------------
\* registry.get and store.restore; the checkpoint itself is immutable.
ReadHead(r, l, v) ==
    /\ runner[r].pc = "idle"
    /\ runner' = [runner EXCEPT ![r] = [pc |-> "opening", base |-> head,
                                        launch |-> l, variant |-> v, tick |-> 0]]
    /\ UNCHANGED <<stores, failures, crashes>>

\* The launch is complete.  The ads launch (open_factual_launch) reconciles the
\* stream before this is found out, the others would after.
GateRaises(r) ==
    /\ runner[r].pc = "opening"
    /\ Completed(runner[r].base, runner[r].launch)
    /\ stream' = stream \/ ReconcileThrough(runner[r].base)
    /\ Exit(r)
    /\ UNCHANGED <<head, saved, staging, failures, crashes>>

OpenStream(r) ==
    /\ runner[r].pc = "opening"
    /\ ~Completed(runner[r].base, runner[r].launch)
    /\ ReconcileThrough(runner[r].base)
    /\ Goto(r, "window")
    /\ UNCHANGED <<head, saved, staging, failures, crashes>>

RunTick(r) ==
    LET k == runner[r].tick + 1
    IN /\ runner[r].pc = "window"
       /\ runner[r].tick < Ticks
       /\ Stage(Work(r), k)
       /\ runner' = [runner EXCEPT ![r].tick = k,
                                   ![r].pc = IF k < Ticks THEN "window"
                                             ELSE IF Early(r) THEN "commit"
                                             ELSE "analysis"]
       /\ UNCHANGED <<head, saved, stream, failures, crashes>>

\* Metrics, decision and cursor of the window.
Analyse(r) ==
    /\ runner[r].pc = "analysis"
    /\ Goto(r, IF Early(r) THEN "save" ELSE "commit")
    /\ UNCHANGED <<stores, failures, crashes>>

Commit(r) ==
    /\ runner[r].pc = "commit"
    /\ CommitStaged(runner[r].base, runner[r].launch, Work(r))
    /\ Goto(r, IF Early(r) THEN "analysis" ELSE "save")
    /\ UNCHANGED <<head, saved, failures, crashes>>

Save(r) ==
    /\ runner[r].pc = "save"
    /\ SaveCheckpoint(Work(r))
    /\ Goto(r, "advance")
    /\ UNCHANGED <<head, stream, staging, failures, crashes>>

Advance(r) ==
    /\ runner[r].pc = "advance"
    /\ AdvanceMain(runner[r].base, Work(r))
    /\ Exit(r)
    /\ UNCHANGED <<saved, stream, staging, failures, crashes>>

\* The handlers of the try blocks.  A CommitEarly launch that raises after its
\* commit has no staging directory left to abort.
Handler(r) ==
    /\ IF Early(r) /\ runner[r].pc \in {"save", "advance"}
       THEN UNCHANGED staging
       ELSE AbortStaged(runner[r].base, runner[r].launch)
    /\ IF runner[r].pc = "window" /\ ~Early(r) THEN Exit(r)
       ELSE Goto(r, "cleanup")
    /\ UNCHANGED <<head, saved, stream, crashes>>

CommitRaises(r) ==
    /\ runner[r].pc = "commit"
    /\ ~Committable(Work(r))
    /\ Handler(r)
    /\ UNCHANGED failures

AdvanceRaises(r) ==
    /\ runner[r].pc = "advance"
    /\ ~CanAdvance(runner[r].base, Work(r))
    /\ Handler(r)
    /\ UNCHANGED failures

Fail(r) ==
    /\ runner[r].pc \in {"window", "commit", "save", "advance"}
    /\ failures < MaxFailures
    /\ failures' = failures + 1
    /\ Handler(r)

\* No handler surrounds the analysis.
AnalysisFails(r) ==
    /\ runner[r].pc = "analysis"
    /\ failures < MaxFailures
    /\ failures' = failures + 1
    /\ Exit(r)
    /\ UNCHANGED <<stores, crashes>>

\* Seeded fault: the handler does not reconcile.
CleanupForgets(r) ==
    /\ runner[r].pc = "cleanup"
    /\ Exit(r)
    /\ UNCHANGED <<stores, failures, crashes>>

\* The second half of the handler: reconcile_through the restored checkpoint.
Cleanup(r) ==
    /\ runner[r].pc = "cleanup"
    /\ ReconcileThrough(runner[r].base)
    /\ Exit(r)
    /\ UNCHANGED <<head, saved, staging, failures, crashes>>

\* As in FeedLaunch.
Crash(r) ==
    /\ runner[r].pc # "idle"
    /\ crashes < MaxCrashes
    /\ crashes' = crashes + 1
    /\ Exit(r)
    /\ \E moved \in SUBSET (staging \cap Files(Work(r))) :
           /\ moved # {} => runner[r].pc = "commit"
           /\ staging' = staging \ moved
    /\ UNCHANGED <<head, saved, stream, failures>>

Init ==
    /\ StoresInit
    /\ runner = [r \in Runners |-> Idle]
    /\ failures = 0 /\ crashes = 0

Step(r) == \/ GateRaises(r) \/ OpenStream(r)
           \/ RunTick(r)
           \/ Analyse(r)
           \/ Commit(r) \/ CommitRaises(r)
           \/ Save(r)
           \/ Advance(r) \/ AdvanceRaises(r)
           \/ Cleanup(r)

Next == \E r \in Runners :
            \/ \E l \in Launches, v \in Variants : ReadHead(r, l, v)
            \/ Step(r)
            \/ Fail(r) \/ AnalysisFails(r)
            \/ Crash(r)

Spec == Init /\ [][Next]_vars

\* A started process takes its next step; the operator starts every launch
\* again and again.
FairSpec ==
    /\ Spec
    /\ \A r \in Runners : WF_vars(Step(r))
    /\ \A r \in Runners, l \in Launches :
           SF_vars(\E v \in Variants : ReadHead(r, l, v))

(***************************************************************************)
(* Properties.                                                             *)
(***************************************************************************)

\* No window of a launch follows the one that concluded it, and there are at
\* most MaxAttempts of them, although the cursor was read windows earlier.
ReviewsConclude ==
    \A l \in Launches :
        /\ Cardinality(Attempts(head, l)) <= MaxAttempts
        /\ \A i, j \in Attempts(head, l) :
               i < j => <<l, head[i].variant>> \notin Concludes

\* The partitions of history windows and the history change together.
Atomic == INSTANCE AtomicHistory
            WITH WindowFiles <- Files,
                 history <- head,
                 published <- {p \in stream : Len(p.work) <= Len(head)}

ImplementsAtomicHistory == Atomic!Spec

\* An attempt that ended with an exception leaves nothing in the stream,
\* except that of a CommitEarly launch whose analysis raised.
FailedAttemptsUnpublished ==
    crashes = 0 /\ (\A r \in Runners : runner[r].pc = "idle")
        => \A p \in stream :
               Len(p.work) > Len(head) => p.work[Len(p.work)].launch \in CommitEarly

\* Every launch is eventually concluded: held launches are attempted again,
\* and what an interrupted attempt left behind does not block the next one.
EveryLaunchConcludes ==
    \A l \in Launches : <>Completed(head, l)
=============================================================================

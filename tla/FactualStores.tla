---------------------------- MODULE FactualStores ----------------------------
(***************************************************************************)
(* The three file stores a factual launch publishes through: immutable     *)
(* checkpoints and the head of branch main (checkpoint/store.py and        *)
(* branches.py), and the request stream with its staging directories       *)
(* (learning/request_stream.py).  FeedLaunch and ScenarioLaunch put their  *)
(* protocols on top of these operations.                                   *)
(*                                                                         *)
(* Checkpoints are content addressed and name their parent, so a           *)
(* checkpoint is its lineage: the sequence of launch windows run since the *)
(* burn-in.  A run of a launch is determined by its parent checkpoint, the *)
(* launch and a variant (the code revision and the parameters it was       *)
(* started with), so <<parent, launch, variant>> stands for everything it  *)
(* produces.  Every window takes Ticks logical times; window w of a        *)
(* lineage holds the times after checkpoint w - 1 up to checkpoint w.      *)
(***************************************************************************)
EXTENDS Integers, Sequences, FiniteSets

CONSTANTS Launches, Variants,
          Ticks,           \* ticks of one window
          Quiet            \* <<window, tick>> pairs in which no user asks

ASSUME StoresAssumption ==
    /\ Ticks \in Nat \ {0}
    /\ Quiet \subseteq (Nat \X Nat)

VARIABLES head,            \* the checkpoint main points at
          saved,           \* the checkpoints in refs/
          stream,          \* the partitions in request-stream.json
          staging          \* the files below staging/

stores == <<head, saved, stream, staging>>

Entry == [launch : Launches, variant : Variants]
Lineages == Seq(Entry)

\* A request partition: tick "tick" of the last window of lineage "work".
Partitions == [work : Lineages, tick : 1..Ticks]

Parent(c) == SubSeq(c, 1, Len(c) - 1)

IsAncestor(c, d) == Len(c) <= Len(d) /\ \A i \in 1..Len(c) : c[i] = d[i]

StoresTypeOK ==
    /\ head \in Lineages
    /\ saved \subseteq Lineages
    /\ stream \subseteq Partitions
    /\ staging \subseteq Partitions

StoresInit ==
    /\ head = <<>>
    /\ saved = {<<>>}
    /\ stream = {}
    /\ staging = {}

-----------------------------------------------------------------------------
\* What one attempt publishes: a partition for each tick with requests.
Files(work) ==
    {[work |-> work, tick |-> k] :
        k \in {k \in 1..Ticks : <<Len(work), k>> \notin Quiet}}

SameTime(p, q) == Len(p.work) = Len(q.work) /\ p.tick = q.tick

\* staging/<launch>-<parent>: attempts of one launch on one parent share it.
InDirectory(p, base, launch) ==
    /\ Len(p.work) = Len(base) + 1
    /\ IsAncestor(base, p.work)
    /\ p.work[Len(p.work)].launch = launch

Stage(work, k) ==
    staging' = staging \cup {p \in Files(work) : p.tick = k}

Committable(work) ==
    /\ Files(work) \subseteq staging
    /\ \A p \in Files(work), q \in stream : SameTime(p, q) => p = q

AbortStaged(base, launch) ==
    staging' = {p \in staging : ~InDirectory(p, base, launch)}

\* Seeded fault: everything found in the directory is published.
CommitDirectory(base, launch, work) ==
    /\ Committable(work)
    /\ stream' = stream \cup {p \in staging : InDirectory(p, base, launch)}
    /\ AbortStaged(base, launch)

\* One manifest replacement publishes the set, then the directory goes.
CommitStaged(base, launch, work) ==
    /\ Committable(work)
    /\ stream' = stream \cup Files(work)
    /\ AbortStaged(base, launch)

\* Seeded faults: the last window is unpublished too, or nothing is.
ReconcileBefore(c) == stream' = {p \in stream : Len(p.work) < Len(c)}
ReconcileNothing(c) == stream' = stream

ReconcileThrough(c) ==
    stream' = {p \in stream : Len(p.work) <= Len(c)}

SaveCheckpoint(c) == saved' = saved \cup {c}

\* Seeded fault: the head is not compared.
CanAdvanceBlindly(expected, c) == c \in saved

\* advance: compare-and-swap of the head to one of its direct children.  That
\* main must be active too is left out: here no one closes or invalidates it.
\* WorldBranches has the status.
CanAdvance(expected, c) ==
    /\ c \in saved
    /\ head = expected
    /\ Len(c) = Len(head) + 1
    /\ IsAncestor(head, c)

AdvanceMain(expected, c) ==
    /\ CanAdvance(expected, c)
    /\ head' = c

(***************************************************************************)
(* What the launches are held to, however many processes run them.         *)
(***************************************************************************)

\* What the stream holds of a window is one whole attempt, and the attempt ran
\* on a checkpoint of the factual history.  Attempts of several processes may
\* share a staging directory and the times of the window, and one may open the
\* stream with a head read long ago while another publishes.
AttemptsOnHistory ==
    \A p \in stream :
        /\ {q \in stream : Len(q.work) = Len(p.work)} = Files(p.work)
        /\ IsAncestor(Parent(p.work), head)
=============================================================================

---------------------------- MODULE RetrievalLadder ----------------------------
(***************************************************************************)
(* run_retrieval_ladder (experiments/retrieval_ladder.py) on the branches  *)
(* of a world: a process burns a new world in or resumes the head of a     *)
(* branch, then reviews one retrieval route after the other, each over one *)
(* or more experiment windows.  After every window it saves a checkpoint   *)
(* whose cursor says how far the ladder is, and moves the head of its      *)
(* branch.  Operators fork, close and invalidate branches meanwhile.       *)
(***************************************************************************)
EXTENDS Integers, Sequences, FiniteSets

CONSTANTS Main, Diagnostics,
          Runners,
          Rungs,                 \* length of route_ladder
          MaxAttempts,           \* max_attempts_per_review
          Outcomes,              \* what the analysis of a window can say
          MaxWindows             \* bound: windows of a lineage

ASSUME LadderAssumption ==
    /\ Main \notin Diagnostics
    /\ Rungs \in Nat \ {0}
    /\ MaxAttempts \in Nat \ {0}
    /\ Outcomes \subseteq {"promote", "reject", "hold"}
    /\ MaxWindows \in Nat

Decisions == {"promote", "reject", "hold", "stop_inconclusive"}

\* The learning cursor of a checkpoint: a review that must go on, if any.
Pending == [route : 1..Rungs, start : Nat, attempt : Nat, windows : Nat]
NoPending == [route |-> 1, start |-> 0, attempt |-> 0, windows |-> 0]

\* One window: the review it ends with and the cursor saved with it.
Window == [route : 1..Rungs, start : Nat, attempt : Nat, windows : Nat,
           decision : Decisions,
           next : Nat, active : SUBSET (1..Rungs), pending : Pending]

VARIABLES branches,
          runner                 \* the state of each process

INSTANCE WorldBranches

vars == <<branches, runner>>

Steps == {"idle", "initialize", "review", "advance"}

RunnerState == [pc : Steps, name : Names, work : Lineages]

TypeOK ==
    /\ BranchesTypeOK
    /\ runner \in [Runners -> RunnerState]

Init ==
    /\ BranchesInit
    /\ runner = [r \in Runners |-> [pc |-> "idle", name |-> Main, work |-> <<>>]]

-----------------------------------------------------------------------------
(* The cursor of a lineage and the window a review adds to it.             *)

NextRoute(c) == IF c = <<>> THEN 0 ELSE c[Len(c)].next
ActiveRoutes(c) == IF c = <<>> THEN {} ELSE c[Len(c)].active
PendingReview(c) == IF c = <<>> THEN NoPending ELSE c[Len(c)].pending

IsPending(c) == PendingReview(c).attempt > 0

\* Seeded fault: a resumed review starts its analysis over.
StartTimeForgotten(c) == Len(c) + 1

StartTime(c) == IF IsPending(c) THEN PendingReview(c).start ELSE Len(c) + 1

Attempt(c) == PendingReview(c).attempt + 1

\* hold at the last attempt is a verdict.
Verdict(c, d) ==
    IF d = "hold" /\ Attempt(c) >= MaxAttempts THEN "stop_inconclusive" ELSE d

WindowAfter(c, d) ==
    LET verdict == Verdict(c, d)
        route == NextRoute(c) + 1
        hold == verdict = "hold"
        windows == PendingReview(c).windows + 1
    IN [route |-> route,
        start |-> StartTime(c),
        attempt |-> Attempt(c),
        windows |-> windows,
        decision |-> verdict,
        next |-> IF hold THEN NextRoute(c) ELSE NextRoute(c) + 1,
        active |-> ActiveRoutes(c) \cup (IF verdict = "promote" THEN {route} ELSE {}),
        pending |-> IF hold
                    THEN [route |-> route, start |-> StartTime(c),
                          attempt |-> Attempt(c), windows |-> windows]
                    ELSE NoPending]

-----------------------------------------------------------------------------
(* One process.                                                            *)

Goto(r, step) == runner' = [runner EXCEPT ![r].pc = step]

Idle == [pc |-> "idle", name |-> Main, work |-> <<>>]

Quit(r) == runner' = [runner EXCEPT ![r] = Idle]

Begin(r, step, name, c) ==
    runner' = [runner EXCEPT ![r] = [pc |-> step, name |-> name, work |-> c]]

\* A new world, if the process finds no branch main.
BurnIn(r) ==
    /\ runner[r].pc = "idle"
    /\ Main \notin Registered
    /\ Begin(r, "initialize", Main, <<>>)
    /\ UNCHANGED branches

Initialize(r) ==
    /\ runner[r].pc = "initialize"
    /\ InitializeMain(runner[r].work)
    /\ Goto(r, "review")

\* Someone else initialized main and has already moved on.
InitializeRaises(r) ==
    /\ runner[r].pc = "initialize"
    /\ ~CanInitialize(runner[r].work)
    /\ Quit(r)
    /\ UNCHANGED branches

\* The head of the branch is read once; its status is not looked at.
Resume(r, b) ==
    /\ runner[r].pc = "idle"
    /\ b \in Registered
    /\ Begin(r, "review", b, branches[b].head)
    /\ UNCHANGED branches

\* The window ends with its checkpoint saved.  Its cursor holds nothing but the
\* ladder, so what other launches had completed is forgotten; no action here
\* reads that.
Review(r, d) ==
    /\ runner[r].pc = "review"
    /\ NextRoute(runner[r].work) < Rungs
    /\ Len(runner[r].work) < MaxWindows
    /\ runner' = [runner EXCEPT
                    ![r].pc = "advance",
                    ![r].work = Append(@, WindowAfter(@, d))]
    /\ UNCHANGED branches

Parent(c) == SubSeq(c, 1, Len(c) - 1)

\* A review on hold ends the process.
AdvanceHead(r) ==
    /\ runner[r].pc = "advance"
    /\ Advance(runner[r].name, Parent(runner[r].work), runner[r].work)
    /\ IF IsPending(runner[r].work) THEN Quit(r) ELSE Goto(r, "review")

AdvanceRaises(r) ==
    /\ runner[r].pc = "advance"
    /\ ~CanAdvance(runner[r].name, Parent(runner[r].work), runner[r].work)
    /\ Quit(r)
    /\ UNCHANGED branches

\* The ladder is finished, max_reviews is reached, an exception or a crash.
Stop(r) ==
    /\ runner[r].pc # "idle"
    /\ Quit(r)
    /\ UNCHANGED branches

-----------------------------------------------------------------------------
(* The operator.                                                           *)

Cuts(c) == {SubSeq(c, 1, n) : n \in 0..Len(c)}

\* Checkpoints an operator may name: those of the branches and what some
\* process has saved and not published yet.
Known == (UNION {Cuts(branches[b].head) : b \in Registered})
            \cup {runner[r].work : r \in Runners}

ForkBranch(b, d) ==
    /\ \E c \in Known : Fork(b, d, c)
    /\ UNCHANGED runner

Close(b) == SetStatus(b, "closed") /\ UNCHANGED runner

Invalidate(b) == SetStatus(b, "invalid") /\ UNCHANGED runner

Step(r) ==
    \/ BurnIn(r) \/ Initialize(r) \/ InitializeRaises(r)
    \/ \E b \in Names : Resume(r, b)
    \/ \E d \in Outcomes : Review(r, d)
    \/ AdvanceHead(r) \/ AdvanceRaises(r)
    \/ Stop(r)

Next ==
    \/ \E r \in Runners : Step(r)
    \/ \E b \in Names : Close(b) \/ Invalidate(b)
    \/ \E b \in Names, d \in Diagnostics : ForkBranch(b, d)

Spec == Init /\ [][Next]_vars

-----------------------------------------------------------------------------
(* Properties.                                                             *)

\* The reviews of a lineage are whole: routes are reviewed in order, one is
\* concluded before the next begins, the windows a review was analysed over
\* are exactly those of its attempts, and the baseline has the routes that
\* were promoted.
WholeReview(c, i) ==
    LET w == c[i]
    IN /\ w.start \in 1..i
       /\ w.windows = i - w.start + 1
       /\ w.attempt = w.windows
       /\ w.attempt <= MaxAttempts
       /\ w.decision = "hold" => w.attempt < MaxAttempts
       /\ \A j \in w.start..(i - 1) : c[j].route = w.route /\ c[j].decision = "hold"
       /\ w.start > 1 => c[w.start - 1].route = w.route - 1
       /\ w.start > 1 => c[w.start - 1].decision # "hold"
       /\ w.active = {c[j].route : j \in {j \in 1..i : c[j].decision = "promote"}}

\* Whatever crashes, resumes, forks and races there are, the reviews on every
\* branch are whole (_run_one_review with its pending cursor, the resume of
\* the head and the compare-and-swap of advance).
ReviewsAreWhole ==
    \A b \in Registered : \A i \in 1..Len(branches[b].head) :
        WholeReview(branches[b].head, i)

\* A branch is never dropped or cut back, and once it is closed or invalid its
\* head stays where it is and nothing makes the branch active again.
HeadsOnlyExtend ==
    [][\A b \in Registered :
        /\ b \in Registered'
        /\ branches'[b].base = branches[b].base
        /\ IsAncestor(branches[b].head, branches'[b].head)
        /\ branches[b].status # "active" =>
              /\ branches'[b].head = branches[b].head
              /\ branches'[b].status # "active"]_vars
=============================================================================

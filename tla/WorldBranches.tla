----------------------------- MODULE WorldBranches -----------------------------
(***************************************************************************)
(* The registry of world branches (checkpoint/branches.py) over the        *)
(* immutable checkpoints of the store: branch main is the factual history, *)
(* the others are diagnostic forks of it.  Every operation reads and       *)
(* replaces world-branches.json under one file lock, so each is one step.  *)
(*                                                                         *)
(* A checkpoint names its parent and is content addressed: it is the       *)
(* sequence of what was run on top of the burn-in.  Checkpoints are never  *)
(* deleted and only those that were saved are named here, so the store     *)
(* needs no state of its own.                                              *)
(***************************************************************************)
EXTENDS Integers, Sequences, FiniteSets

CONSTANTS Main, Diagnostics,     \* the names of branches
          Window                 \* what one saved run adds to a lineage

Names == {Main} \cup Diagnostics

VARIABLE branches                \* world-branches.json

Lineages == Seq(Window)

Statuses == {"active", "closed", "invalid"}

Branch == [status : Statuses, base : Lineages, head : Lineages,
           source : Names, authority : BOOLEAN]

BranchesTypeOK ==
    /\ DOMAIN branches \subseteq Names
    /\ branches = [b \in DOMAIN branches |-> branches[b]]
    /\ \A b \in DOMAIN branches : branches[b] \in Branch

IsAncestor(c, d) == Len(c) <= Len(d) /\ \A i \in 1..Len(c) : c[i] = d[i]

BranchesInit == branches = <<>>

Registered == DOMAIN branches

-----------------------------------------------------------------------------
WithBranch(name, record) ==
    [b \in Registered \cup {name} |-> IF b = name THEN record ELSE branches[b]]

MainAt(c) == [status |-> "active", base |-> c, head |-> c,
              source |-> Main, authority |-> TRUE]

\* initialize_main: creates main, or finds it at the same checkpoint.
CanInitialize(c) == Main \in Registered => branches[Main].head = c

InitializeMain(c) ==
    /\ CanInitialize(c)
    /\ branches' = IF Main \in Registered THEN branches
                   ELSE WithBranch(Main, MainAt(c))

ForkOf(source, c) ==
    [status |-> "active", base |-> c, head |-> c,
     source |-> source, authority |-> FALSE]

OnBranch(source, c) == IsAncestor(c, branches[source].head)

\* fork: the status of the source plays no part.
Fork(source, name, c) ==
    /\ name \notin Registered
    /\ source \in Registered
    /\ OnBranch(source, c)
    /\ branches' = WithBranch(name, ForkOf(source, c))

\* Seeded fault: the status is not compared.
CanAdvanceAnyStatus(name, expected, c) ==
    /\ name \in Registered
    /\ branches[name].head = expected
    /\ Len(c) = Len(expected) + 1
    /\ IsAncestor(expected, c)

\* advance: compare-and-swap of an active head to one of its direct children.
CanAdvance(name, expected, c) ==
    /\ name \in Registered
    /\ branches[name].status = "active"
    /\ branches[name].head = expected
    /\ Len(c) = Len(expected) + 1
    /\ IsAncestor(expected, c)

Advance(name, expected, c) ==
    /\ CanAdvance(name, expected, c)
    /\ branches' = [branches EXCEPT ![name].head = c]

\* close and invalidate: whatever the status was, except that main is never
\* invalid.
SetStatus(name, status) ==
    /\ name \in Registered
    /\ status = "invalid" => name # Main
    /\ branches' = [branches EXCEPT ![name].status = status]

-----------------------------------------------------------------------------
\* Only main is factual, and every fork stays a descendant of a checkpoint
\* of the branch it was taken from.
DiagnosticsStayApart ==
    /\ \A b \in Registered :
        /\ branches[b].authority <=> b = Main
        /\ IsAncestor(branches[b].base, branches[b].head)
        /\ branches[b].source \in Registered
        /\ IsAncestor(branches[b].base, branches[branches[b].source].head)
    /\ Main \in Registered => branches[Main].status # "invalid"
=============================================================================

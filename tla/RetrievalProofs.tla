---------------------------- MODULE RetrievalProofs ----------------------------
(***************************************************************************)
(* Theorems about retrieval.  The ladder: which routes are promoted, on    *)
(* the branches of a world, for any number of processes, diagnostic        *)
(* branches, routes and attempts.  The cascade: what a request that the    *)
(* promoted routes answer shows and logs, for any items, scores, widths,   *)
(* routes and policies.                                                    *)
(***************************************************************************)
EXTENDS RetrievalLadder, RequestCascade,
        SequenceTheorems, FiniteSetTheorems, FunctionTheorems, WellFoundedInduction, TLAPS

-----------------------------------------------------------------------------
(* Lineages.                                                               *)

\* The order of lineages.
LEMMA AncestorReflexive ==
    ASSUME NEW c \in Lineages
    PROVE  IsAncestor(c, c)
  BY DEF IsAncestor, Lineages

LEMMA AncestorTransitive ==
    ASSUME NEW c \in Lineages, NEW d \in Lineages, NEW e \in Lineages,
           IsAncestor(c, d), IsAncestor(d, e)
    PROVE  IsAncestor(c, e)
  BY DEF IsAncestor, Lineages

\* A cut is an ancestor.
LEMMA CutFacts ==
    ASSUME NEW c \in Lineages, NEW n \in 0..Len(c)
    PROVE  /\ SubSeq(c, 1, n) \in Lineages
           /\ Len(SubSeq(c, 1, n)) = n
           /\ \A i \in 1..n : SubSeq(c, 1, n)[i] = c[i]
  BY SubSeqProperties DEF Lineages

LEMMA AppendFacts ==
    ASSUME NEW c \in Lineages, NEW w \in Window
    PROVE  /\ Append(c, w) \in Lineages
           /\ Len(Append(c, w)) = Len(c) + 1
           /\ \A i \in 1..Len(c) : Append(c, w)[i] = c[i]
           /\ Append(c, w)[Len(c) + 1] = w
           /\ IsAncestor(c, Append(c, w))
  BY AppendProperties DEF Lineages, IsAncestor

-----------------------------------------------------------------------------
(* The registry of branches.                                               *)

\* No branch is dropped or cut back, and only an active one moves.
Extends ==
    \A b \in Registered :
        /\ b \in Registered'
        /\ branches'[b].base = branches[b].base
        /\ IsAncestor(branches[b].head, branches'[b].head)
        /\ branches[b].status # "active" =>
              /\ branches'[b].head = branches[b].head
              /\ branches'[b].status # "active"

\* What an operation does to the heads: they stay, or one of them is c.
Moved(c) ==
    \A b \in Registered' :
        \/ b \in Registered /\ branches'[b].head = branches[b].head
        \/ branches'[b].head = c

Sane == BranchesTypeOK /\ DiagnosticsStayApart

LEMMA BranchFacts ==
    ASSUME BranchesTypeOK, NEW b \in Registered
    PROVE  /\ b \in Names /\ branches[b] \in Branch
           /\ branches[b].head \in Lineages /\ branches[b].base \in Lineages
           /\ branches[b].source \in Names
  BY DEF BranchesTypeOK, Registered, Branch

\* A new name.
LEMMA WithBranchFacts ==
    ASSUME BranchesTypeOK, NEW name \in Names, NEW record \in Branch,
           name \notin Registered, branches' = WithBranch(name, record)
    PROVE  /\ BranchesTypeOK'
           /\ Registered' = Registered \cup {name}
           /\ branches'[name] = record
           /\ \A b \in Registered : branches'[b] = branches[b]
  BY DEF BranchesTypeOK, WithBranch, Registered

\* A change of one record.
LEMMA ReplacedFacts ==
    ASSUME BranchesTypeOK, NEW name \in Registered, NEW record \in Branch,
           branches' = [branches EXCEPT ![name] = record]
    PROVE  /\ BranchesTypeOK'
           /\ Registered' = Registered
           /\ branches'[name] = record
           /\ \A b \in Registered : b # name => branches'[b] = branches[b]
  BY DEF BranchesTypeOK, Registered

LEMMA SameBranches ==
    ASSUME Sane, UNCHANGED branches, NEW c
    PROVE  Sane' /\ Extends /\ Moved(c)
  <1>1. Sane'
    BY DEF Sane, BranchesTypeOK, DiagnosticsStayApart, Registered
  <1>2. Registered' = Registered
    BY DEF Registered
  <1>3. Extends
    <2> SUFFICES ASSUME NEW b \in Registered
                 PROVE  IsAncestor(branches[b].head, branches[b].head)
      BY <1>2 DEF Extends
    <2> QED  BY BranchFacts, AncestorReflexive DEF Sane
  <1> QED  BY <1>1, <1>2, <1>3 DEF Moved

LEMMA InitializeKeeps ==
    ASSUME Sane, NEW c \in Lineages, InitializeMain(c)
    PROVE  Sane' /\ Extends /\ Moved(c)
  <1>1. CASE Main \in Registered
    BY <1>1, SameBranches DEF InitializeMain
  <1>2. CASE Main \notin Registered
    <2>1. MainAt(c) \in Branch /\ Main \in Names
      BY DEF MainAt, Branch, Statuses, Names
    <2>2. branches' = WithBranch(Main, MainAt(c))
      BY <1>2 DEF InitializeMain
    <2>3. /\ BranchesTypeOK' /\ Registered' = Registered \cup {Main}
          /\ branches'[Main] = MainAt(c)
          /\ \A b \in Registered : branches'[b] = branches[b]
      BY <1>2, <2>1, <2>2, WithBranchFacts DEF Sane
    <2>4. Extends
      BY <2>3, BranchFacts, AncestorReflexive DEF Extends, Sane
    <2>5. DiagnosticsStayApart'
      <3>1. \A b \in Registered :
              /\ branches'[b].authority <=> b = Main
              /\ IsAncestor(branches'[b].base, branches'[b].head)
              /\ branches'[b].source \in Registered'
              /\ IsAncestor(branches'[b].base, branches'[branches'[b].source].head)
        BY <2>3 DEF Sane, DiagnosticsStayApart
      <3>2. /\ branches'[Main].authority /\ branches'[Main].base = c
            /\ branches'[Main].head = c /\ branches'[Main].source = Main
            /\ branches'[Main].status = "active" /\ IsAncestor(c, c)
        BY <2>3, AncestorReflexive DEF MainAt
      <3> QED  BY <2>3, <3>1, <3>2 DEF DiagnosticsStayApart
    <2>6. Moved(c)
      BY <2>3 DEF Moved, MainAt
    <2> QED  BY <2>3, <2>4, <2>5, <2>6 DEF Sane
  <1> QED  BY <1>1, <1>2

LEMMA ForkKeeps ==
    ASSUME Sane, NEW source \in Names, NEW name \in Diagnostics,
           NEW c \in Lineages, Fork(source, name, c)
    PROVE  Sane' /\ Extends /\ Moved(c)
  <1>1. name \notin Registered /\ source \in Registered /\ name # Main
        /\ IsAncestor(c, branches[source].head) /\ name \in Names
    BY LadderAssumption DEF Fork, OnBranch, Names
  <1>2. ForkOf(source, c) \in Branch
    BY DEF ForkOf, Branch, Statuses
  <1>3. /\ BranchesTypeOK' /\ Registered' = Registered \cup {name}
        /\ branches'[name] = ForkOf(source, c)
        /\ \A b \in Registered : branches'[b] = branches[b]
    BY <1>1, <1>2, WithBranchFacts DEF Sane, Fork
  <1>4. Extends
    BY <1>3, BranchFacts, AncestorReflexive DEF Extends, Sane
  <1>5. DiagnosticsStayApart'
    <2>1. \A b \in Registered :
            /\ branches'[b].authority <=> b = Main
            /\ IsAncestor(branches'[b].base, branches'[b].head)
            /\ branches'[b].source \in Registered'
            /\ IsAncestor(branches'[b].base, branches'[branches'[b].source].head)
      BY <1>3 DEF Sane, DiagnosticsStayApart
    <2>2. /\ ~branches'[name].authority /\ branches'[name].base = c
          /\ branches'[name].head = c /\ branches'[name].source = source
          /\ IsAncestor(c, c)
      BY <1>3, AncestorReflexive DEF ForkOf
    <2>3. Main \in Registered' => branches'[Main].status # "invalid"
      BY <1>1, <1>3 DEF Sane, DiagnosticsStayApart
    <2> QED  BY <1>1, <1>3, <2>1, <2>2, <2>3 DEF DiagnosticsStayApart
  <1>6. Moved(c)
    BY <1>3 DEF Moved, ForkOf
  <1> QED  BY <1>3, <1>4, <1>5, <1>6 DEF Sane

LEMMA AdvanceKeeps ==
    ASSUME Sane, NEW name \in Names, NEW expected \in Lineages,
           NEW c \in Lineages, Advance(name, expected, c)
    PROVE  Sane' /\ Extends /\ Moved(c)
  <1>1. /\ name \in Registered /\ branches[name].head = expected
        /\ branches[name].status = "active" /\ IsAncestor(expected, c)
    BY DEF Advance, CanAdvance
  <1> DEFINE record == [branches[name] EXCEPT !.head = c]
  <1>2. /\ record \in Branch /\ record.head = c
        /\ record.base = branches[name].base /\ record.source = branches[name].source
        /\ record.status = branches[name].status
        /\ record.authority = branches[name].authority
    BY <1>1, BranchFacts DEF Branch, Sane
  <1>3. branches' = [branches EXCEPT ![name] = record]
    BY DEF Advance
  <1> HIDE DEF record
  <1>4. /\ BranchesTypeOK' /\ Registered' = Registered
        /\ branches'[name] = record
        /\ \A b \in Registered : b # name => branches'[b] = branches[b]
    BY <1>1, <1>2, <1>3, ReplacedFacts DEF Sane
  <1>5. \A b \in Registered :
            /\ IsAncestor(branches[b].head, branches'[b].head)
            /\ branches'[b].base = branches[b].base
            /\ branches'[b].source = branches[b].source
            /\ branches'[b].status = branches[b].status
            /\ branches'[b].authority = branches[b].authority
            /\ branches'[b].head \in Lineages
    BY <1>1, <1>2, <1>4, BranchFacts, AncestorReflexive DEF Sane
  <1>6. Extends
    BY <1>1, <1>4, <1>5 DEF Extends
  <1>7. DiagnosticsStayApart'
    <2>1. ASSUME NEW b \in Registered, NEW d \in Registered,
                 IsAncestor(branches[b].base, branches[d].head)
          PROVE  IsAncestor(branches'[b].base, branches'[d].head)
      BY <1>5, <2>1, BranchFacts, AncestorTransitive DEF Sane
    <2> QED  BY <1>4, <1>5, <2>1 DEF Sane, DiagnosticsStayApart
  <1>8. Moved(c)
    BY <1>2, <1>4 DEF Moved
  <1> QED  BY <1>4, <1>6, <1>7, <1>8 DEF Sane

LEMMA SetStatusKeeps ==
    ASSUME Sane, NEW name \in Names, NEW status \in {"closed", "invalid"},
           SetStatus(name, status), NEW c
    PROVE  Sane' /\ Extends /\ Moved(c)
  <1>1. name \in Registered /\ (status = "invalid" => name # Main)
    BY DEF SetStatus
  <1> DEFINE record == [branches[name] EXCEPT !.status = status]
  <1>2. /\ record \in Branch /\ record.head = branches[name].head
        /\ record.base = branches[name].base /\ record.source = branches[name].source
        /\ record.status = status
        /\ record.authority = branches[name].authority
    BY <1>1, BranchFacts DEF Branch, Statuses, Sane
  <1>3. branches' = [branches EXCEPT ![name] = record]
    BY DEF SetStatus
  <1> HIDE DEF record
  <1>4. /\ BranchesTypeOK' /\ Registered' = Registered
        /\ branches'[name] = record
        /\ \A b \in Registered : b # name => branches'[b] = branches[b]
    BY <1>1, <1>2, <1>3, ReplacedFacts DEF Sane
  <1>5. \A b \in Registered :
            /\ branches'[b].head = branches[b].head
            /\ branches'[b].base = branches[b].base
            /\ branches'[b].source = branches[b].source
            /\ branches'[b].authority = branches[b].authority
    BY <1>2, <1>4
  <1>6. Extends
    <2>1. \A b \in Registered : IsAncestor(branches[b].head, branches[b].head)
      BY BranchFacts, AncestorReflexive DEF Sane
    <2> QED  BY <1>2, <1>4, <1>5, <2>1 DEF Extends
  <1>7. DiagnosticsStayApart'
    <2>1. Main \in Registered' => branches'[Main].status # "invalid"
      BY <1>1, <1>2, <1>4 DEF Sane, DiagnosticsStayApart
    <2> QED  BY <1>4, <1>5, <2>1 DEF Sane, DiagnosticsStayApart
  <1>8. Moved(c)
    BY <1>4, <1>5 DEF Moved
  <1> QED  BY <1>4, <1>6, <1>7, <1>8 DEF Sane

-----------------------------------------------------------------------------
(* The reviews of a lineage.                                               *)

\* The cursor saved with a window says where the ladder is.
CursorOf(w) ==
    IF w.decision = "hold"
    THEN /\ w.next = w.route - 1
         /\ w.pending = [route |-> w.route, start |-> w.start,
                         attempt |-> w.attempt, windows |-> w.windows]
    ELSE w.next = w.route /\ w.pending = NoPending

Sound(c) == \A i \in 1..Len(c) : WholeReview(c, i) /\ CursorOf(c[i])

LEMMA WindowFacts ==
    ASSUME NEW c \in Lineages, NEW i \in 1..Len(c)
    PROVE  /\ c[i] \in Window
           /\ c[i].route \in 1..Rungs /\ c[i].start \in Nat
           /\ c[i].attempt \in Nat /\ c[i].windows \in Nat
           /\ c[i].decision \in Decisions /\ c[i].next \in Nat
           /\ c[i].active \in SUBSET (1..Rungs) /\ c[i].pending \in Pending
  <1>1. c[i] \in Window
    BY DEF Lineages
  <1> QED  BY <1>1 DEF Window

\* A window is whole or not by what precedes it.
LEMMA WholeIsLocal ==
    ASSUME NEW c \in Lineages, NEW d \in Lineages, NEW i \in Nat \ {0},
           i <= Len(c), i <= Len(d), \A j \in 1..i : d[j] = c[j],
           WholeReview(c, i)
    PROVE  WholeReview(d, i)
  <1>1. i \in 1..i /\ d[i] = c[i]
    OBVIOUS
  <1>2. c[i].start \in 1..i
    BY DEF WholeReview
  <1>3. \A j \in c[i].start..(i - 1) : j \in 1..i /\ d[j] = c[j]
    BY <1>2
  <1>4. c[i].start > 1 => d[c[i].start - 1] = c[c[i].start - 1]
    BY <1>2
  <1>5. {d[j].route : j \in {j \in 1..i : d[j].decision = "promote"}}
            = {c[j].route : j \in {j \in 1..i : c[j].decision = "promote"}}
    <2>1. {j \in 1..i : d[j].decision = "promote"}
              = {j \in 1..i : c[j].decision = "promote"}
      OBVIOUS
    <2> QED  BY <2>1
  <1> QED  BY <1>1, <1>2, <1>3, <1>4, <1>5 DEF WholeReview

LEMMA CutIsSound ==
    ASSUME NEW c \in Lineages, Sound(c), NEW n \in 0..Len(c)
    PROVE  SubSeq(c, 1, n) \in Lineages /\ Sound(SubSeq(c, 1, n))
  <1> DEFINE d == SubSeq(c, 1, n)
  <1>1. d \in Lineages /\ Len(d) = n /\ \A i \in 1..n : d[i] = c[i]
    BY CutFacts
  <1> HIDE DEF d
  <1>2. ASSUME NEW i \in 1..n
        PROVE  WholeReview(d, i) /\ CursorOf(d[i])
    <2>1. WholeReview(c, i) /\ CursorOf(c[i])
      BY DEF Sound, Lineages
    <2>2. /\ i \in Nat \ {0} /\ i <= Len(c) /\ i <= Len(d)
          /\ \A j \in 1..i : d[j] = c[j]
      BY <1>1 DEF Lineages
    <2> QED  BY <1>1, <2>1, <2>2, WholeIsLocal
  <1>3. Sound(d)
    BY <1>1, <1>2 DEF Sound
  <1> QED  BY <1>1, <1>3 DEF d

\* Where the cursor of a sound lineage stands.
LEMMA CursorFacts ==
    ASSUME NEW c \in Lineages, Sound(c), NextRoute(c) < Rungs
    PROVE  /\ PendingReview(c) \in Pending /\ NextRoute(c) \in Nat
           /\ ActiveRoutes(c) \in SUBSET (1..Rungs)
           /\ IsPending(c) =>
                /\ Len(c) > 0 /\ c[Len(c)].decision = "hold"
                /\ PendingReview(c) = [route |-> c[Len(c)].route,
                                       start |-> c[Len(c)].start,
                                       attempt |-> c[Len(c)].attempt,
                                       windows |-> c[Len(c)].windows]
                /\ NextRoute(c) = c[Len(c)].route - 1
           /\ ~IsPending(c) =>
                /\ PendingReview(c) = NoPending
                /\ Len(c) = 0 => NextRoute(c) = 0
                /\ Len(c) > 0 => /\ c[Len(c)].decision # "hold"
                                 /\ NextRoute(c) = c[Len(c)].route
  <1>1. CASE c = <<>>
    BY <1>1, LadderAssumption
       DEF PendingReview, NextRoute, ActiveRoutes, IsPending, NoPending, Pending
  <1>2. CASE c # <<>>
    <2>1. Len(c) \in 1..Len(c) /\ Len(c) > 0
      BY <1>2 DEF Lineages
    <2> DEFINE w == c[Len(c)]
    <2>2. /\ PendingReview(c) = w.pending /\ NextRoute(c) = w.next
          /\ ActiveRoutes(c) = w.active
      BY <1>2 DEF PendingReview, NextRoute, ActiveRoutes
    <2>3. /\ w.route \in 1..Rungs /\ w.start \in Nat /\ w.attempt \in Nat
          /\ w.windows \in Nat /\ w.next \in Nat
          /\ w.active \in SUBSET (1..Rungs) /\ w.pending \in Pending
      BY <2>1, WindowFacts
    <2>4. CursorOf(w) /\ w.start \in 1..Len(c) /\ w.attempt = Len(c) - w.start + 1
      BY <2>1 DEF Sound, WholeReview
    <2> HIDE DEF w
    <2>5. CASE w.decision = "hold"
      <3>1. w.pending = [route |-> w.route, start |-> w.start,
                         attempt |-> w.attempt, windows |-> w.windows]
            /\ w.next = w.route - 1
        BY <2>4, <2>5 DEF CursorOf
      <3>2. w.pending.attempt > 0
        BY <2>1, <2>3, <2>4, <3>1
      <3> QED  BY <2>1, <2>2, <2>3, <2>5, <3>1, <3>2 DEF IsPending, w
    <2>6. CASE w.decision # "hold"
      <3>1. w.pending = NoPending /\ w.next = w.route
        BY <2>4, <2>6 DEF CursorOf
      <3> QED  BY <2>1, <2>2, <2>3, <2>6, <3>1 DEF IsPending, NoPending, w
    <2> QED  BY <2>5, <2>6
  <1> QED  BY <1>1, <1>2

\* The window a review adds, by whether it goes on with an earlier one.
LEMMA NewWindowFacts ==
    ASSUME NEW c \in Lineages, Sound(c), NextRoute(c) < Rungs,
           NEW d \in Outcomes
    PROVE  LET w == WindowAfter(c, d)
           IN /\ w \in Window /\ CursorOf(w)
              /\ w.start \in 1..(Len(c) + 1)
              /\ w.windows = Len(c) + 1 - w.start + 1
              /\ w.attempt = w.windows /\ w.attempt <= MaxAttempts
              /\ w.decision = "hold" => w.attempt < MaxAttempts
              /\ w.active = ActiveRoutes(c) \cup
                    (IF w.decision = "promote" THEN {w.route} ELSE {})
              /\ w.start <= Len(c) => w.start = c[Len(c)].start
                                      /\ w.route = c[Len(c)].route
                                      /\ c[Len(c)].decision = "hold"
              /\ w.start = Len(c) + 1 /\ Len(c) > 0 =>
                    w.route = c[Len(c)].route + 1 /\ c[Len(c)].decision # "hold"
  <1> DEFINE w == WindowAfter(c, d)
             p == PendingReview(c)
             verdict == Verdict(c, d)
             route == NextRoute(c) + 1
  <1>0. Len(c) \in Nat /\ MaxAttempts \in Nat \ {0} /\ Rungs \in Nat \ {0}
    BY LadderAssumption DEF Lineages
  <1>1. p \in Pending /\ NextRoute(c) \in Nat /\ ActiveRoutes(c) \in SUBSET (1..Rungs)
    BY CursorFacts
  <1>2. p.start \in Nat /\ p.attempt \in Nat /\ p.windows \in Nat /\ route \in 1..Rungs
    BY <1>0, <1>1 DEF Pending
  <1>3. /\ verdict \in Decisions
        /\ verdict = "hold" => p.attempt + 1 < MaxAttempts
    BY <1>0, <1>2, LadderAssumption DEF Verdict, Attempt, Decisions
  <1>4. /\ IsPending(c) =>
              /\ Len(c) \in 1..Len(c) /\ c[Len(c)].decision = "hold"
              /\ p.start = c[Len(c)].start /\ p.attempt = c[Len(c)].attempt
              /\ p.windows = c[Len(c)].windows /\ route = c[Len(c)].route
              /\ p.start \in 1..Len(c) /\ p.windows = Len(c) - p.start + 1
              /\ p.attempt = p.windows /\ p.attempt < MaxAttempts
        /\ ~IsPending(c) => p.attempt = 0 /\ p.windows = 0
    <2>1. CASE IsPending(c)
      <3>1. /\ Len(c) \in 1..Len(c) /\ c[Len(c)].decision = "hold"
            /\ p = [route |-> c[Len(c)].route, start |-> c[Len(c)].start,
                    attempt |-> c[Len(c)].attempt, windows |-> c[Len(c)].windows]
            /\ NextRoute(c) = c[Len(c)].route - 1
        BY <1>0, <2>1, CursorFacts
      <3>2. WholeReview(c, Len(c))
        BY <3>1 DEF Sound
      <3>3. c[Len(c)].route \in Nat
        BY <3>1, WindowFacts
      <3> QED  BY <2>1, <3>1, <3>2, <3>3 DEF WholeReview
    <2>2. CASE ~IsPending(c)
      BY <2>2, CursorFacts DEF NoPending
    <2> QED  BY <2>1, <2>2
  <1>5. /\ StartTime(c) = IF IsPending(c) THEN p.start ELSE Len(c) + 1
        /\ StartTime(c) \in 1..(Len(c) + 1)
        /\ p.windows + 1 = Len(c) + 1 - StartTime(c) + 1
        /\ p.attempt + 1 = p.windows + 1 /\ p.attempt + 1 <= MaxAttempts
    BY <1>0, <1>2, <1>4 DEF StartTime
  <1>6. /\ w.route = route /\ w.start = StartTime(c)
        /\ w.attempt = p.attempt + 1 /\ w.windows = p.windows + 1
        /\ w.decision = verdict
        /\ w.next = IF verdict = "hold" THEN NextRoute(c) ELSE NextRoute(c) + 1
        /\ w.active = ActiveRoutes(c) \cup (IF verdict = "promote" THEN {route} ELSE {})
        /\ w.pending = IF verdict = "hold"
                       THEN [route |-> route, start |-> StartTime(c),
                             attempt |-> p.attempt + 1, windows |-> p.windows + 1]
                       ELSE NoPending
    BY DEF WindowAfter, Attempt
  <1>7. w \in Window
    <2>1. w.pending \in Pending
      <3>1. [route |-> route, start |-> StartTime(c),
             attempt |-> p.attempt + 1, windows |-> p.windows + 1] \in Pending
        <4> HIDE DEF p, route, w, verdict
        <4>1. StartTime(c) \in 1..(Len(c) + 1)
          BY <1>5
        <4>2. StartTime(c) \in Nat
          BY <1>0, <4>1
        <4>3. /\ route \in 1..Rungs
              /\ p.attempt + 1 \in Nat /\ p.windows + 1 \in Nat
          BY <1>2
        <4> QED  BY <4>2, <4>3 DEF Pending
      <3>2. NoPending \in Pending
        BY <1>0 DEF Pending, NoPending
      <3> HIDE DEF w, p, verdict, route
      <3> QED  BY <1>6, <3>1, <3>2
    <2>2. w.active \in SUBSET (1..Rungs) /\ w.next \in Nat /\ w.route \in 1..Rungs
      BY <1>1, <1>2, <1>6
    <2>3. w.start \in Nat /\ w.attempt \in Nat /\ w.windows \in Nat
      <3> HIDE DEF w, p, route, verdict
      <3>1. StartTime(c) \in 1..(Len(c) + 1)
        BY <1>5
      <3>2. StartTime(c) \in Nat
        BY <1>0, <3>1
      <3>3. p.attempt + 1 \in Nat /\ p.windows + 1 \in Nat
        BY <1>2
      <3>4. w.start = StartTime(c) /\ w.attempt = p.attempt + 1
            /\ w.windows = p.windows + 1
        BY <1>6
      <3> QED  BY <3>2, <3>3, <3>4
    <2>4. w = [route |-> w.route, start |-> w.start, attempt |-> w.attempt,
               windows |-> w.windows, decision |-> w.decision, next |-> w.next,
               active |-> w.active, pending |-> w.pending]
      BY DEF WindowAfter
    <2> HIDE DEF w
    <2> QED  BY <1>3, <1>6, <2>1, <2>2, <2>3, <2>4 DEF Window
  <1>8. CursorOf(w)
    <2> HIDE DEF w, verdict, p
    <2> QED  BY <1>1, <1>6 DEF CursorOf
  <1>9. /\ w.start <= Len(c) => w.start = c[Len(c)].start
                                /\ w.route = c[Len(c)].route
                                /\ c[Len(c)].decision = "hold"
        /\ w.start = Len(c) + 1 /\ Len(c) > 0 =>
              w.route = c[Len(c)].route + 1 /\ c[Len(c)].decision # "hold"
    <2>1. CASE IsPending(c)
      <3> HIDE DEF w
      <3> QED  BY <1>0, <1>4, <1>5, <1>6, <2>1
    <2>2. CASE ~IsPending(c)
      <3>1. Len(c) > 0 => c[Len(c)].decision # "hold" /\ NextRoute(c) = c[Len(c)].route
        BY <2>2, CursorFacts
      <3> HIDE DEF w
      <3> QED  BY <1>0, <1>5, <1>6, <2>2, <3>1
    <2> QED  BY <2>1, <2>2
  <1> HIDE DEF w, verdict, p
  <1>10. /\ w.start \in 1..(Len(c) + 1) /\ w.windows = Len(c) + 1 - w.start + 1
         /\ w.attempt = w.windows /\ w.attempt <= MaxAttempts
         /\ w.decision = "hold" => w.attempt < MaxAttempts
         /\ w.active = ActiveRoutes(c) \cup
               (IF w.decision = "promote" THEN {w.route} ELSE {})
    BY <1>3, <1>5, <1>6
  <1> QED  BY <1>7, <1>8, <1>9, <1>10 DEF w

\* A review keeps the lineage sound.
LEMMA ReviewIsSound ==
    ASSUME NEW c \in Lineages, Sound(c), NextRoute(c) < Rungs,
           NEW d \in Outcomes
    PROVE  /\ Append(c, WindowAfter(c, d)) \in Lineages
           /\ Sound(Append(c, WindowAfter(c, d)))
           /\ IsAncestor(c, Append(c, WindowAfter(c, d)))
  <1> DEFINE w == WindowAfter(c, d)
             e == Append(c, w)
             n == Len(c) + 1
  <1>0. Len(c) \in Nat /\ n \in Nat /\ n \in 1..n
    BY DEF Lineages
  <1>1. /\ w \in Window /\ CursorOf(w) /\ w.start \in 1..n
        /\ w.windows = n - w.start + 1 /\ w.attempt = w.windows
        /\ w.attempt <= MaxAttempts /\ (w.decision = "hold" => w.attempt < MaxAttempts)
        /\ w.active = ActiveRoutes(c) \cup
              (IF w.decision = "promote" THEN {w.route} ELSE {})
        /\ w.start <= Len(c) => w.start = c[Len(c)].start
                                /\ w.route = c[Len(c)].route
                                /\ c[Len(c)].decision = "hold"
        /\ w.start = n /\ Len(c) > 0 =>
              w.route = c[Len(c)].route + 1 /\ c[Len(c)].decision # "hold"
    BY NewWindowFacts
  <1> HIDE DEF w
  <1>2. /\ e \in Lineages /\ Len(e) = n /\ e[n] = w /\ IsAncestor(c, e)
        /\ \A i \in 1..Len(c) : e[i] = c[i]
    BY <1>1, AppendFacts
  <1> HIDE DEF e
  <1>3. ASSUME NEW i \in 1..Len(c)
        PROVE  WholeReview(e, i) /\ CursorOf(e[i])
    <2>1. WholeReview(c, i) /\ CursorOf(c[i])
      BY DEF Sound
    <2>2. /\ i \in Nat \ {0} /\ i <= Len(c) /\ i <= Len(e)
          /\ \A j \in 1..i : e[j] = c[j]
      BY <1>0, <1>2
    <2> QED  BY <1>2, <2>1, <2>2, WholeIsLocal
  <1>4. WholeReview(e, n)
    <2>1. w.active = {e[j].route : j \in {j \in 1..n : e[j].decision = "promote"}}
      <3> DEFINE old == {e[j].route : j \in {j \in 1..Len(c) : e[j].decision = "promote"}}
      <3>1. ActiveRoutes(c) = old
        <4>1. CASE Len(c) = 0
          <5>1. c = <<>>
            BY <4>1 DEF Lineages
          <5> QED  BY <4>1, <5>1 DEF ActiveRoutes
        <4>2. CASE Len(c) > 0
          <5>1. WholeReview(e, Len(c)) /\ ActiveRoutes(c) = c[Len(c)].active
                /\ e[Len(c)] = c[Len(c)]
            BY <1>0, <1>2, <1>3, <4>2 DEF ActiveRoutes
          <5> QED  BY <5>1 DEF WholeReview
        <4> QED  BY <1>0, <4>1, <4>2
      <3>2. {e[j].route : j \in {j \in 1..n : e[j].decision = "promote"}}
                = old \cup (IF w.decision = "promote" THEN {w.route} ELSE {})
        <4>1. 1..n = 1..Len(c) \cup {n}
          BY <1>0
        <4> HIDE DEF n
        <4> QED  BY <1>2, <4>1
      <3> QED  BY <1>1, <3>1, <3>2
    <2>2. CASE w.start = n
      <3>1. \A j \in w.start..(n - 1) : FALSE
        BY <1>0, <2>2
      <3>2. w.start > 1 => /\ Len(c) > 0 /\ w.start - 1 = Len(c)
                           /\ e[Len(c)] = c[Len(c)]
                           /\ c[Len(c)].route \in Nat
        BY <1>0, <1>2, <2>2, WindowFacts
      <3>3. w.start > 1 => /\ e[w.start - 1].route = w.route - 1
                           /\ e[w.start - 1].decision # "hold"
        BY <1>1, <2>2, <3>2
      <3> QED  BY <1>1, <1>2, <2>1, <3>1, <3>3 DEF WholeReview
    <2>3. CASE w.start # n
      <3>1. /\ Len(c) \in 1..Len(c) /\ w.start \in 1..Len(c)
            /\ e[Len(c)].start = w.start /\ e[Len(c)].route = w.route
            /\ e[Len(c)].decision = "hold"
        BY <1>0, <1>1, <1>2, <2>3
      <3>2. WholeReview(e, Len(c))
        BY <1>3, <3>1
      <3>3. \A j \in w.start..(n - 1) : e[j].route = w.route /\ e[j].decision = "hold"
        <4> SUFFICES ASSUME NEW j \in w.start..(n - 1)
                     PROVE  e[j].route = w.route /\ e[j].decision = "hold"
          OBVIOUS
        <4>1. CASE j = Len(c)
          BY <3>1, <4>1
        <4>2. CASE j # Len(c)
          <5>1. j \in w.start..(Len(c) - 1)
            BY <1>0, <3>1, <4>2
          <5> QED  BY <3>1, <3>2, <5>1 DEF WholeReview
        <4> QED  BY <4>1, <4>2
      <3>4. w.start > 1 => /\ e[w.start - 1].route = w.route - 1
                           /\ e[w.start - 1].decision # "hold"
        BY <3>1, <3>2 DEF WholeReview
      <3> QED  BY <1>1, <1>2, <2>1, <3>3, <3>4 DEF WholeReview
    <2> QED  BY <2>2, <2>3
  <1>5. Sound(e)
    <2> SUFFICES ASSUME NEW i \in 1..Len(e)
                 PROVE  WholeReview(e, i) /\ CursorOf(e[i])
      BY DEF Sound
    <2>1. i \in 1..Len(c) \/ i = n
      BY <1>0, <1>2
    <2> HIDE DEF n
    <2> QED  BY <1>1, <1>2, <1>3, <1>4, <2>1
  <1> QED  BY <1>2, <1>5 DEF e, w

-----------------------------------------------------------------------------
(* The state machine.                                                      *)

\* What every process has read or saved is the lineage of real reviews.
IInv ==
    /\ TypeOK
    /\ DiagnosticsStayApart
    /\ \A b \in Registered : Sound(branches[b].head)
    /\ \A r \in Runners : Sound(runner[r].work)

LEMMA RunnerFacts ==
    ASSUME IInv, NEW r \in Runners
    PROVE  /\ runner[r] \in RunnerState /\ runner[r].pc \in Steps
           /\ runner[r].name \in Names
           /\ runner[r].work \in Lineages /\ Sound(runner[r].work)
  BY DEF IInv, TypeOK, RunnerState

LEMMA HeadFacts ==
    ASSUME IInv, NEW b \in Registered
    PROVE  /\ b \in Names /\ branches[b].head \in Lineages
           /\ Sound(branches[b].head)
  BY BranchFacts DEF IInv, TypeOK

LEMMA EmptyIsSound ==
    <<>> \in Lineages /\ Sound(<<>>)
  BY DEF Lineages, Sound

\* A process changes its own state only.
LEMMA OneRunner ==
    ASSUME IInv, NEW r \in Runners, NEW s \in RunnerState, Sound(s.work),
           runner' = [runner EXCEPT ![r] = s]
    PROVE  /\ runner' \in [Runners -> RunnerState]
           /\ \A q \in Runners : Sound(runner'[q].work)
  <1>1. runner' \in [Runners -> RunnerState]
        /\ \A q \in Runners : runner'[q] = IF q = r THEN s ELSE runner[q]
    BY DEF IInv, TypeOK
  <1> QED  BY <1>1 DEF IInv

\* The state of the registry and of the processes, put together.
LEMMA Together ==
    ASSUME IInv, Sane', Extends, NEW c \in Lineages, Sound(c), Moved(c),
           runner' \in [Runners -> RunnerState],
           \A q \in Runners : Sound(runner'[q].work)
    PROVE  IInv' /\ Extends
  <1>1. \A b \in Registered' : Sound(branches'[b].head)
    BY HeadFacts DEF Moved
  <1>2. TypeOK' /\ DiagnosticsStayApart'
    BY DEF Sane, TypeOK
  <1> QED  BY <1>1, <1>2 DEF IInv

\* Only the state of a process changes.
LEMMA RunnerStep ==
    ASSUME IInv, NEW r \in Runners, NEW s \in RunnerState, Sound(s.work),
           runner' = [runner EXCEPT ![r] = s], UNCHANGED branches
    PROVE  IInv' /\ Extends
  <1>1. Sane' /\ Extends /\ Moved(<<>>)
    BY SameBranches DEF IInv, TypeOK, Sane
  <1> QED  BY <1>1, OneRunner, EmptyIsSound, Together

\* The registry changes; the process that changed it goes on or quits.
LEMMA RegistryStep ==
    ASSUME IInv, Sane', Extends, NEW c \in Lineages, Sound(c), Moved(c),
           NEW r \in Runners, NEW s \in RunnerState, Sound(s.work),
           runner' = [runner EXCEPT ![r] = s]
    PROVE  IInv' /\ Extends
  BY OneRunner, Together

LEMMA OperatorStep ==
    ASSUME IInv, Sane', Extends, NEW c \in Lineages, Sound(c), Moved(c),
           UNCHANGED runner
    PROVE  IInv' /\ Extends
  <1>1. /\ runner' \in [Runners -> RunnerState]
        /\ \A q \in Runners : Sound(runner'[q].work)
    BY DEF IInv, TypeOK
  <1> QED  BY <1>1, Together

-----------------------------------------------------------------------------
(* One step of a process.                                                  *)

LEMMA IdleFacts ==
    Idle \in RunnerState /\ Sound(Idle.work)
  BY EmptyIsSound DEF Idle, RunnerState, Steps, Names

LEMMA QuitStep ==
    ASSUME IInv, NEW r \in Runners, Quit(r), UNCHANGED branches
    PROVE  IInv' /\ Extends
  BY IdleFacts, RunnerStep DEF Quit

LEMMA BeginStep ==
    ASSUME IInv, NEW r \in Runners, NEW step \in Steps, NEW name \in Names,
           NEW c \in Lineages, Sound(c),
           Begin(r, step, name, c), UNCHANGED branches
    PROVE  IInv' /\ Extends
  <1> DEFINE s == [pc |-> step, name |-> name, work |-> c]
  <1>1. s \in RunnerState /\ s.work = c /\ s.pc = step
    BY DEF RunnerState
  <1>2. runner' = [runner EXCEPT ![r] = s]
    BY DEF Begin
  <1> HIDE DEF s
  <1> QED  BY <1>1, <1>2, RunnerStep

\* A process as it goes on with a review.
LEMMA GotoReview ==
    ASSUME IInv, NEW r \in Runners, Goto(r, "review")
    PROVE  \E s \in RunnerState : /\ Sound(s.work)
                                  /\ runner' = [runner EXCEPT ![r] = s]
  <1> DEFINE s == [runner[r] EXCEPT !.pc = "review"]
  <1>1. s \in RunnerState /\ s.work = runner[r].work /\ s.pc = "review"
    BY RunnerFacts DEF RunnerState, Steps
  <1>2. runner' = [runner EXCEPT ![r] = s]
    BY DEF Goto
  <1> HIDE DEF s
  <1>3. Sound(s.work)
    BY <1>1, RunnerFacts
  <1> QED  BY <1>1, <1>2, <1>3

LEMMA InitializeStep ==
    ASSUME IInv, NEW r \in Runners, Initialize(r)
    PROVE  IInv' /\ Extends
  <1>1. runner[r].work \in Lineages /\ Sound(runner[r].work)
    BY RunnerFacts
  <1>2. Sane' /\ Extends /\ Moved(runner[r].work)
    BY <1>1, InitializeKeeps DEF Initialize, IInv, TypeOK, Sane
  <1>3. PICK s \in RunnerState : /\ Sound(s.work)
                                 /\ runner' = [runner EXCEPT ![r] = s]
    BY GotoReview DEF Initialize
  <1> QED  BY <1>1, <1>2, <1>3, RegistryStep DEF Initialize

LEMMA ReviewStep ==
    ASSUME IInv, NEW r \in Runners, NEW d \in Outcomes, Review(r, d)
    PROVE  IInv' /\ Extends
  <1> DEFINE c == Append(runner[r].work, WindowAfter(runner[r].work, d))
             s == [runner[r] EXCEPT !.pc = "advance", !.work = c]
  <1>1. c \in Lineages /\ Sound(c)
    BY RunnerFacts, ReviewIsSound DEF Review
  <1>2. runner' = [runner EXCEPT ![r] = s]
    BY DEF Review
  <1> HIDE DEF c
  <1>3. s \in RunnerState /\ s.work = c /\ s.pc = "advance"
    BY <1>1, RunnerFacts DEF RunnerState, Steps
  <1> HIDE DEF s
  <1> QED  BY <1>1, <1>2, <1>3, RunnerStep DEF Review

LEMMA AdvanceStep ==
    ASSUME IInv, NEW r \in Runners, AdvanceHead(r)
    PROVE  IInv' /\ Extends
  <1> DEFINE c == runner[r].work
  <1>1. c \in Lineages /\ Sound(c) /\ runner[r].name \in Names
    BY RunnerFacts
  <1>2. Advance(runner[r].name, Parent(c), c)
    BY DEF AdvanceHead
  <1>3. Parent(c) \in Lineages
    <2>1. branches[runner[r].name].head = Parent(c) /\ runner[r].name \in Registered
      BY <1>2 DEF Advance, CanAdvance
    <2> QED  BY <2>1, HeadFacts
  <1>4. Sane' /\ Extends /\ Moved(c)
    BY <1>1, <1>2, <1>3, AdvanceKeeps DEF IInv, TypeOK, Sane
  <1>5. \E s \in RunnerState : /\ Sound(s.work)
                               /\ runner' = [runner EXCEPT ![r] = s]
    <2>1. CASE IsPending(c)
      BY <2>1, IdleFacts DEF AdvanceHead, Quit
    <2>2. CASE ~IsPending(c)
      BY <2>2, GotoReview DEF AdvanceHead
    <2> QED  BY <2>1, <2>2
  <1>6. PICK s \in RunnerState : /\ Sound(s.work)
                                 /\ runner' = [runner EXCEPT ![r] = s]
    BY <1>5
  <1> HIDE DEF c
  <1> QED  BY <1>1, <1>4, <1>6, RegistryStep

LEMMA ResumeStep ==
    ASSUME IInv, NEW r \in Runners, NEW b \in Names, Resume(r, b)
    PROVE  IInv' /\ Extends
  <1>1. branches[b].head \in Lineages /\ Sound(branches[b].head)
    BY HeadFacts DEF Resume
  <1>2. "review" \in Steps
    BY DEF Steps
  <1> QED  BY <1>1, <1>2, BeginStep DEF Resume

LEMMA BurnInStep ==
    ASSUME IInv, NEW r \in Runners, BurnIn(r)
    PROVE  IInv' /\ Extends
  <1>1. "initialize" \in Steps /\ Main \in Names
    BY DEF Steps, Names
  <1> QED  BY <1>1, EmptyIsSound, BeginStep DEF BurnIn

-----------------------------------------------------------------------------
(* One step of the operator.                                               *)

\* What an operator may name is the lineage of real reviews.
LEMMA KnownFacts ==
    ASSUME IInv, NEW c \in Known
    PROVE  c \in Lineages /\ Sound(c)
  <1>1. CASE \E r \in Runners : c = runner[r].work
    BY <1>1, RunnerFacts
  <1>2. CASE \E b \in Registered : c \in Cuts(branches[b].head)
    <2>1. PICK b \in Registered : c \in Cuts(branches[b].head)
      BY <1>2
    <2>2. PICK n \in 0..Len(branches[b].head) : c = SubSeq(branches[b].head, 1, n)
      BY <2>1 DEF Cuts
    <2> QED  BY <2>2, HeadFacts, CutIsSound
  <1> QED  BY <1>1, <1>2 DEF Known

LEMMA ForkStep ==
    ASSUME IInv, NEW b \in Names, NEW d \in Diagnostics, ForkBranch(b, d)
    PROVE  IInv' /\ Extends
  <1>1. PICK c \in Known : Fork(b, d, c)
    BY DEF ForkBranch
  <1>2. c \in Lineages /\ Sound(c)
    BY KnownFacts
  <1>3. Sane' /\ Extends /\ Moved(c)
    BY <1>1, <1>2, ForkKeeps DEF IInv, TypeOK, Sane
  <1> QED  BY <1>2, <1>3, OperatorStep DEF ForkBranch

LEMMA StatusStep ==
    ASSUME IInv, NEW b \in Names, Close(b) \/ Invalidate(b)
    PROVE  IInv' /\ Extends
  <1>1. Sane' /\ Extends /\ Moved(<<>>)
    BY SetStatusKeeps DEF Close, Invalidate, IInv, TypeOK, Sane
  <1> QED  BY <1>1, EmptyIsSound, OperatorStep DEF Close, Invalidate

-----------------------------------------------------------------------------
LEMMA InitHolds ==
    ASSUME Init
    PROVE  IInv
  <1>1. Registered = {} /\ BranchesTypeOK
    BY DEF Init, BranchesInit, Registered, BranchesTypeOK
  <1>2. runner \in [Runners -> RunnerState]
    BY DEF Init, RunnerState, Steps, Names, Lineages
  <1>3. \A r \in Runners : Sound(runner[r].work)
    BY EmptyIsSound DEF Init
  <1> QED  BY <1>1, <1>2, <1>3 DEF IInv, TypeOK, DiagnosticsStayApart

LEMMA StepHolds ==
    ASSUME IInv, [Next]_vars
    PROVE  IInv' /\ Extends
  <1>1. ASSUME NEW r \in Runners, Step(r)
        PROVE  IInv' /\ Extends
    <2>1. CASE BurnIn(r)
      BY <2>1, BurnInStep
    <2>2. CASE Initialize(r)
      BY <2>2, InitializeStep
    <2>3. CASE InitializeRaises(r) \/ AdvanceRaises(r) \/ Stop(r)
      BY <2>3, QuitStep DEF InitializeRaises, AdvanceRaises, Stop
    <2>4. ASSUME NEW b \in Names, Resume(r, b)
          PROVE  IInv' /\ Extends
      BY <2>4, ResumeStep
    <2>5. ASSUME NEW d \in Outcomes, Review(r, d)
          PROVE  IInv' /\ Extends
      BY <2>5, ReviewStep
    <2>6. CASE AdvanceHead(r)
      BY <2>6, AdvanceStep
    <2> QED  BY <1>1, <2>1, <2>2, <2>3, <2>4, <2>5, <2>6 DEF Step
  <1>2. ASSUME NEW b \in Names, Close(b) \/ Invalidate(b)
        PROVE  IInv' /\ Extends
    BY <1>2, StatusStep
  <1>3. ASSUME NEW b \in Names, NEW d \in Diagnostics, ForkBranch(b, d)
        PROVE  IInv' /\ Extends
    BY <1>3, ForkStep
  <1>4. CASE UNCHANGED vars
    <2>1. Sane' /\ Extends /\ Moved(<<>>)
      BY <1>4, SameBranches DEF vars, IInv, TypeOK, Sane
    <2> QED  BY <1>4, <2>1, EmptyIsSound, OperatorStep DEF vars
  <1> QED  BY <1>1, <1>2, <1>3, <1>4 DEF Next

\* The inductive invariant: every lineage a branch or a process holds is one
\* of whole reviews with the cursor that belongs to it.
THEOREM LadderInvariant == Spec => []IInv
  <1>1. Init => IInv
    BY InitHolds
  <1>2. IInv /\ [Next]_vars => IInv'
    BY StepHolds
  <1> QED  BY <1>1, <1>2, PTL DEF Spec

\* Branches and processes keep their types.
THEOREM LadderTyped == Spec => []TypeOK
  <1>1. IInv => TypeOK
    BY DEF IInv
  <1> QED  BY <1>1, LadderInvariant, PTL

\* Whatever crashes, resumes, forks and races there are, the reviews on every
\* branch are whole (run_retrieval_ladder).
THEOREM LadderReviewsWhole == Spec => []ReviewsAreWhole
  <1>1. IInv => ReviewsAreWhole
    BY DEF IInv, ReviewsAreWhole, Sound
  <1> QED  BY <1>1, LadderInvariant, PTL

\* Only main is factual and every fork descends from where it was taken
\* (WorldBranchRegistry).
THEOREM LadderDiagnosticsApart == Spec => []DiagnosticsStayApart
  <1>1. IInv => DiagnosticsStayApart
    BY DEF IInv
  <1> QED  BY <1>1, LadderInvariant, PTL

\* Heads only move to children, and only on active branches (advance).
THEOREM LadderHeadsExtend == Spec => HeadsOnlyExtend
  <1>1. IInv /\ [Next]_vars => [Extends]_vars
    BY StepHolds
  <1>2. Spec => [][Extends]_vars
    BY <1>1, LadderInvariant, PTL DEF Spec
  <1> QED  BY <1>2, PTL DEF HeadsOnlyExtend, Extends

-----------------------------------------------------------------------------
(* Induction along the places of a row.                                    *)

\* A set of naturals has a least element.
LEMMA LeastNat ==
    ASSUME NEW T, T \subseteq Nat, T # {}
    PROVE  \E n \in T : \A m \in T : n <= m
  <1> DEFINE R == {p \in Nat \X Nat : p[1] < p[2]}
  <1>1. IsWellFoundedOn(R, Nat)
    BY NatLessThanWellFounded DEF OpToRel
  <1> HIDE DEF R
  <1>2. PICK n \in T : \A m \in T : ~ (<<m, n>> \in R)
    BY <1>1, WFMin
  <1>3. \A m \in T : ~ (m < n)
    BY <1>2 DEF R
  <1> QED  BY <1>3

\* A set that holds 0 and with every number below k the next one holds 0..k.
LEMMA Climb ==
    ASSUME NEW k \in Nat, NEW T, 0 \in T,
           \A n \in 0..(k - 1) : n \in T => n + 1 \in T
    PROVE  \A n \in 0..k : n \in T
  <1> SUFFICES ASSUME NEW j \in (0..k) \ T PROVE FALSE
    OBVIOUS
  <1> DEFINE Out == (0..k) \ T
  <1>0. Out \subseteq Nat /\ Out # {}
    OBVIOUS
  <1>1. PICK n \in Out : \A m \in Out : n <= m
    <2> HIDE DEF Out
    <2> QED  BY <1>0, LeastNat
  <1>2. n # 0 /\ n - 1 \in 0..(k - 1) /\ n - 1 \in T /\ n = (n - 1) + 1
    BY <1>1
  <1> QED  BY <1>1, <1>2

\* f applies g again and again to a.
Iterates(f, g, a, k, D) ==
    f \in [0..k -> D] /\ f[0] = a /\ \A n \in 1..k : f[n] = g[f[n - 1]]

\* A function can be iterated k times.
LEMMA Iteration ==
    ASSUME NEW k \in Nat, NEW D, NEW a \in D, NEW g \in [D -> D]
    PROVE  \E f : Iterates(f, g, a, k, D)
  <1> DEFINE Good(m, f) == /\ f \in [0..m -> D] /\ f[0] = a
                           /\ \A n \in 1..m : f[n] = g[f[n - 1]]
             T == {m \in 0..k : \E f : Good(m, f)}
  <1>1. 0 \in T
    <2>1. Good(0, [n \in 0..0 |-> a])
      OBVIOUS
    <2> HIDE DEF Good
    <2> QED  BY <2>1
  <1>2. \A m \in 0..(k - 1) : m \in T => m + 1 \in T
    <2> SUFFICES ASSUME NEW m \in 0..(k - 1), m \in T PROVE m + 1 \in T
      OBVIOUS
    <2>1. PICK f : Good(m, f)
      OBVIOUS
    <2> DEFINE h == [n \in 0..(m + 1) |-> IF n = m + 1 THEN g[f[m]] ELSE f[n]]
    <2>2. f[m] \in D /\ g[f[m]] \in D
      BY <2>1
    <2>3. h \in [0..(m + 1) -> D] /\ h[0] = a
      BY <2>1, <2>2
    <2>4. \A n \in 1..(m + 1) : h[n] = g[h[n - 1]]
      BY <2>1
    <2>5. Good(m + 1, h)
      BY <2>3, <2>4
    <2> HIDE DEF Good, h
    <2> QED  BY <2>5
  <1> HIDE DEF T
  <1>3. k \in T
    BY <1>1, <1>2, Climb
  <1>4. PICK f : Good(k, f)
    BY <1>3 DEF T
  <1> QED  BY <1>4 DEF Iterates

-----------------------------------------------------------------------------
(* The best of a set.                                                      *)

\* A finite set with integral scores has a best element.
LEMMA HasBest ==
    ASSUME NEW S, IsFiniteSet(S), S # {}, NEW score, \A i \in S : score[i] \in Int
    PROVE  Best(S, score) # {}
  <1> SUFFICES ASSUME Best(S, score) = {} PROVE FALSE
    OBVIOUS
  <1> DEFINE Bad == {U \in SUBSET S : U # {} /\ Best(U, score) = {}}
             T == {Cardinality(U) : U \in Bad}
  <1>1. \A U \in Bad : IsFiniteSet(U) /\ Cardinality(U) \in Nat
    BY FS_Subset, FS_CardinalityType
  <1>2. T \subseteq Nat /\ T # {}
    BY <1>1
  <1>3. PICK U \in Bad : \A V \in Bad : Cardinality(U) <= Cardinality(V)
    <2>1. PICK n \in T : \A m \in T : n <= m
      BY <1>2, LeastNat
    <2> QED  BY <2>1
  <1>4. PICK x \in U : TRUE
    OBVIOUS
  <1>5. /\ Cardinality(U \ {x}) = Cardinality(U) - 1
        /\ Cardinality(U) \in Nat
    BY <1>1, <1>4, FS_RemoveElement
  <1>6. U \ {x} \notin Bad
    BY <1>1, <1>3, <1>5
  <1>7. CASE U \ {x} = {}
    <2>1. x \in Best(U, score)
      BY <1>7, <1>4 DEF Best
    <2> QED  BY <2>1
  <1>8. CASE U \ {x} # {}
    <2>1. PICK y \in Best(U \ {x}, score) : TRUE
      BY <1>6, <1>8
    <2>2. /\ y \in U /\ score[x] \in Int /\ score[y] \in Int
          /\ \A j \in U : j # x => score[y] >= score[j]
          /\ \A j \in U : score[j] \in Int
      BY <2>1, <1>4 DEF Best
    <2>3. CASE score[x] >= score[y]
      <3>1. x \in Best(U, score)
        BY <2>2, <2>3, <1>4 DEF Best
      <3> QED  BY <3>1
    <2>4. CASE ~ (score[x] >= score[y])
      <3>1. y \in Best(U, score)
        BY <2>2, <2>4, <1>4 DEF Best
      <3> QED  BY <3>1
    <2> QED  BY <2>3, <2>4
  <1> QED  BY <1>7, <1>8

-----------------------------------------------------------------------------
(* Rows.                                                                   *)

\* What a stage hands on: items of what it was given, none of them twice.
IsRow(row, k, from) == row \in RowOf(k) /\ Distinct(row) /\ Held(row) \subseteq from

\* The constants of the cascade.
LEMMA ConstantFacts ==
    /\ Ads \subseteq Items /\ ColdVideos \subseteq Items /\ None \notin Items
    /\ \A i \in ColdVideos : i \notin Ads
    /\ RouteK \in Nat \ {0} /\ RecallK \in Nat \ {0} /\ CoarseK \in Nat \ {0}
    /\ FineK \in Nat \ {0} /\ ExposeK \in Nat \ {0}
    /\ FineK >= ExposeK /\ CoarseK >= FineK /\ RecallK >= RouteK
    /\ Whole \in Nat \ {0} /\ Merit \in [Items -> Int]
  BY CascadeAssumption

\* The items of a row, and their places.
LEMMA RowFacts ==
    ASSUME NEW k \in Nat, NEW row \in RowOf(k)
    PROVE  /\ DOMAIN row = 1..k
           /\ \A p \in 1..k : row[p] \in Items \cup {None}
           /\ \A i : i \in Held(row) <=> i \in Items /\ \E p \in 1..k : row[p] = i
           /\ Held(row) \subseteq Items
           /\ \A i \in Held(row) : PlaceOf(row, i) \in 1..k /\ row[PlaceOf(row, i)] = i
           /\ IsFiniteSet(Held(row)) /\ Cardinality(Held(row)) \in Nat
           /\ Cardinality(Held(row)) <= k
  <1>1. DOMAIN row = 1..k /\ \A p \in 1..k : row[p] \in Items \cup {None}
    BY DEF RowOf
  <1>2. Range(row) = {row[p] : p \in 1..k}
    BY <1>1 DEF Range
  <1>3. \A i : i \in Held(row) <=> i \in Items /\ \E p \in 1..k : row[p] = i
    BY <1>1, <1>2, ConstantFacts DEF Held
  <1>4. \A i \in Held(row) : PlaceOf(row, i) \in 1..k /\ row[PlaceOf(row, i)] = i
    <2> SUFFICES ASSUME NEW i \in Held(row)
                 PROVE  PlaceOf(row, i) \in 1..k /\ row[PlaceOf(row, i)] = i
      OBVIOUS
    <2>1. \E p \in DOMAIN row : row[p] = i
      BY <1>1, <1>3
    <2> QED  BY <2>1, <1>1 DEF PlaceOf
  <1>5. /\ IsFiniteSet(Held(row)) /\ Cardinality(Held(row)) \in Nat
        /\ Cardinality(Held(row)) <= k
    <2> DEFINE S == 1..k
               f == [p \in S |-> row[p]]
               T == {f[p] : p \in S}
    <2>1. IsFiniteSet(S) /\ Cardinality(S) = k
      BY FS_Interval
    <2>2. f \in Surjection(S, T)
      BY DEF Surjection
    <2>3. IsFiniteSet(T) /\ Cardinality(T) <= k
      <3> HIDE DEF f, T, S
      <3> QED  BY <2>1, <2>2, FS_Surjection
    <2>4. Held(row) \subseteq T
      BY <1>2 DEF Held
    <2> QED  BY <2>1, <2>3, <2>4, FS_Subset, FS_CardinalityType
  <1> QED  BY <1>1, <1>3, <1>4, <1>5

\* What a ranker gives the items of a row.
LEMMA ScoresTyped ==
    ASSUME NEW k \in Nat, NEW row \in RowOf(k), NEW version
    PROVE  \A i \in Held(row) : Scores(version, row)[i] \in Int
  BY RowFacts, ConstantFacts DEF Scores, PriorityGap

-----------------------------------------------------------------------------
(* The leading items of a set.                                             *)

IsLead(lead, S, k, score) ==
    lead = [n \in 0..k |->
               IF n = 0 THEN {<<>>}
               ELSE UNION {{Append(s, i) : i \in Best(S \ Range(s), score)} : s \in lead[n - 1]}]

\* Round by round: every sequence grows by a best item of those it lacks.
Rounds(lead, S, k, score) ==
    /\ \A t : t \in lead[0] <=> t = <<>>
    /\ \A n \in 0..(k - 1) : \A u :
           u \in lead[n + 1] <=> \E t \in lead[n] : \E i \in Best(S \ Range(t), score) :
                                    u = Append(t, i)

\* The recursion has a solution, on sets of sequences.
LEMMA LeadIs ==
    ASSUME NEW S, NEW k \in Nat, NEW score
    PROVE  \E lead : Leading(S, k, score) = lead[k] /\ Rounds(lead, S, k, score)
  <1> DEFINE D == SUBSET Seq(S)
             Longer(X) == UNION {{Append(s, i) : i \in Best(S \ Range(s), score)} : s \in X}
             g == [X \in D |-> Longer(X)]
             L == CHOOSE lead : IsLead(lead, S, k, score)
  <1>1. {<<>>} \in D
    OBVIOUS
  <1>2. \A X \in D : Longer(X) \in D
    <2>1. ASSUME NEW X \in D, NEW s \in X, NEW i \in Best(S \ Range(s), score)
          PROVE  Append(s, i) \in Seq(S)
      <3>1. s \in Seq(S) /\ i \in S
        BY DEF Best
      <3> QED  BY <3>1
    <2>2. ASSUME NEW X \in D, NEW t \in Longer(X) PROVE t \in Seq(S)
      <3>1. PICK s \in X : \E i \in Best(S \ Range(s), score) : t = Append(s, i)
        OBVIOUS
      <3> HIDE DEF D, Longer
      <3> QED  BY <2>1, <3>1
    <2>3. \A X \in D : Longer(X) \subseteq Seq(S)
      <3> HIDE DEF D, Longer
      <3> QED  BY <2>2
    <2> HIDE DEF Longer
    <2> QED  BY <2>3
  <1>3. g \in [D -> D]
    BY <1>2
  <1>4. PICK f \in [0..k -> D] : f[0] = {<<>>} /\ \A n \in 1..k : f[n] = g[f[n - 1]]
    <2>1. \E f : Iterates(f, g, {<<>>}, k, D)
      <3> HIDE DEF g, D
      <3> QED  BY <1>1, <1>3, Iteration
    <2> HIDE DEF g, D
    <2> QED  BY <2>1 DEF Iterates
  <1>5. f = [n \in 0..k |-> IF n = 0 THEN {<<>>} ELSE Longer(f[n - 1])]
    <2>1. ASSUME NEW n \in 1..k PROVE g[f[n - 1]] = Longer(f[n - 1])
      <3>1. n - 1 \in 0..k
        OBVIOUS
      <3>2. f[n - 1] \in D
        <4> HIDE DEF D
        <4> QED  BY <1>4, <3>1
      <3> HIDE DEF Longer, D
      <3> QED  BY <3>2
    <2>2. \A n \in 1..k : f[n] = Longer(f[n - 1])
      <3> HIDE DEF g, Longer, D
      <3> QED  BY <1>4, <2>1
    <2>3. f = [n \in 0..k |-> f[n]]
      <3> HIDE DEF D
      <3> QED  BY <1>4
    <2> HIDE DEF g, Longer, D
    <2> QED  BY <1>4, <2>2, <2>3
  <1>6. IsLead(f, S, k, score)
    BY <1>5 DEF IsLead
  <1>7. IsLead(L, S, k, score)
    BY <1>6
  <1>8. Leading(S, k, score) = L[k]
    BY DEF Leading, IsLead
  <1>9. L[0] = {<<>>}
    BY <1>7 DEF IsLead
  <1>10. \A n \in 0..(k - 1) : L[n + 1] = Longer(L[n])
    <2> SUFFICES ASSUME NEW n \in 0..(k - 1) PROVE L[n + 1] = Longer(L[n])
      OBVIOUS
    <2>1. n + 1 \in 0..k /\ n + 1 # 0 /\ (n + 1) - 1 = n
      OBVIOUS
    <2> HIDE DEF L
    <2> QED  BY <1>7, <2>1 DEF IsLead
  <1> HIDE DEF L
  <1>11. Rounds(L, S, k, score)
    <2>2. \A t : t \in L[0] <=> t = <<>>
      BY <1>9
    <2>3. ASSUME NEW n \in 0..(k - 1), NEW u
          PROVE  u \in L[n + 1] <=> \E t \in L[n] : \E i \in Best(S \ Range(t), score) :
                                         u = Append(t, i)
      <3>1. L[n + 1] = Longer(L[n])
        BY <1>10
      <3>2. u \in Longer(L[n]) <=> \E t \in L[n] : \E i \in Best(S \ Range(t), score) :
                                         u = Append(t, i)
        OBVIOUS
      <3> HIDE DEF Longer
      <3> QED  BY <3>1, <3>2
    <2> QED  BY <2>2, <2>3 DEF Rounds
  <1> QED  BY <1>8, <1>11

\* It leads k different items of the set.
LEMMA LeadFacts ==
    ASSUME NEW S, NEW k \in Nat, NEW score, NEW s \in Leading(S, k, score)
    PROVE  /\ s \in Seq(S) /\ Len(s) = k
           /\ \A p, q \in 1..k : s[p] = s[q] => p = q
  <1> DEFINE Fine(t, n) == /\ t \in Seq(S) /\ Len(t) = n
                           /\ \A p, q \in 1..n : t[p] = t[q] => p = q
  <1>1. PICK lead : Leading(S, k, score) = lead[k] /\ Rounds(lead, S, k, score)
    BY LeadIs
  <1> DEFINE T == {n \in 0..k : \A t \in lead[n] : Fine(t, n)}
  <1>2. 0 \in T
    <2>1. \A t \in lead[0] : t = <<>>
      BY <1>1 DEF Rounds
    <2>2. Fine(<<>>, 0)
      OBVIOUS
    <2> HIDE DEF Fine
    <2>3. \A t \in lead[0] : Fine(t, 0)
      BY <2>1, <2>2
    <2>4. 0 \in 0..k
      OBVIOUS
    <2> QED  BY <2>3, <2>4
  <1>3. \A n \in 0..(k - 1) : n \in T => n + 1 \in T
    <2> HIDE DEF Fine
    <2> SUFFICES ASSUME NEW n \in 0..(k - 1), \A t \in lead[n] : Fine(t, n),
                        NEW u \in lead[n + 1]
                 PROVE  Fine(u, n + 1)
      OBVIOUS
    <2> USE DEF Fine
    <2>1. PICK t \in lead[n] : \E i \in Best(S \ Range(t), score) : u = Append(t, i)
      BY <1>1 DEF Rounds
    <2>2. PICK i \in S \ Range(t) : u = Append(t, i)
      BY <2>1 DEF Best
    <2>3. t \in Seq(S) /\ Len(t) = n /\ \A p, q \in 1..n : t[p] = t[q] => p = q
      OBVIOUS
    <2>4. /\ u \in Seq(S) /\ Len(u) = n + 1
          /\ u[n + 1] = i /\ \A p \in 1..n : u[p] = t[p]
      BY <2>2, <2>3
    <2>5. \A p \in 1..n : t[p] # i
      BY <2>2, <2>3 DEF Range
    <2>6. \A p, q \in 1..(n + 1) : u[p] = u[q] => p = q
      <3> SUFFICES ASSUME NEW p \in 1..(n + 1), NEW q \in 1..(n + 1), u[p] = u[q]
                   PROVE  p = q
        OBVIOUS
      <3>1. CASE p \in 1..n /\ q \in 1..n
        BY <3>1, <2>3, <2>4
      <3>2. CASE p \in 1..n /\ q = n + 1
        BY <3>2, <2>4, <2>5
      <3>3. CASE p = n + 1 /\ q \in 1..n
        BY <3>3, <2>4, <2>5
      <3> QED  BY <3>1, <3>2, <3>3
    <2> QED  BY <2>4, <2>6
  <1> HIDE DEF T
  <1>4. k \in T
    BY <1>2, <1>3, Climb
  <1> QED  BY <1>1, <1>4 DEF T

\* There is one, of every length up to the size of the set.
LEMMA LeadExists ==
    ASSUME NEW S, IsFiniteSet(S), NEW k \in Nat, k <= Cardinality(S),
           NEW score, \A i \in S : score[i] \in Int
    PROVE  Leading(S, k, score) # {}
  <1>1. PICK lead : Leading(S, k, score) = lead[k] /\ Rounds(lead, S, k, score)
    BY LeadIs
  <1> DEFINE T == {n \in 0..k : \E t \in lead[n] : Len(t) = n /\ t \in Seq(S)}
  <1>2. 0 \in T
    <2>1. <<>> \in lead[0]
      BY <1>1 DEF Rounds
    <2> DEFINE e == <<>>
    <2>2. e \in lead[0] /\ Len(e) = 0 /\ e \in Seq(S) /\ 0 \in 0..k
      BY <2>1
    <2> HIDE DEF e
    <2> QED  BY <2>2
  <1>3. \A n \in 0..(k - 1) : n \in T => n + 1 \in T
    <2> SUFFICES ASSUME NEW n \in 0..(k - 1), n \in T PROVE n + 1 \in T
      OBVIOUS
    <2>1. PICK t \in lead[n] : Len(t) = n /\ t \in Seq(S)
      OBVIOUS
    <2>2. S \ Range(t) # {}
      <3> DEFINE P == 1..n
                 f == [p \in P |-> t[p]]
                 R == {f[p] : p \in P}
      <3>1. IsFiniteSet(P) /\ Cardinality(P) = n
        BY FS_Interval
      <3>2. f \in Surjection(P, R)
        BY DEF Surjection
      <3>3. IsFiniteSet(R) /\ Cardinality(R) <= n
        <4> HIDE DEF f, R, P
        <4> QED  BY <3>1, <3>2, FS_Surjection
      <3>4. Range(t) = R
        BY <2>1 DEF Range
      <3>5. ASSUME S \subseteq R PROVE FALSE
        <4> HIDE DEF R
        <4>1. Cardinality(S) <= Cardinality(R) /\ Cardinality(R) \in Nat
          BY <3>3, <3>5, FS_Subset, FS_CardinalityType
        <4>2. Cardinality(S) \in Nat
          BY FS_CardinalityType
        <4> QED  BY <4>1, <4>2, <3>3
      <3> QED  BY <3>4, <3>5
    <2>3. IsFiniteSet(S \ Range(t))
      BY FS_Subset
    <2>4. PICK i \in Best(S \ Range(t), score) : TRUE
      BY <2>2, <2>3, HasBest
    <2>5. i \in S
      BY DEF Best
    <2>6. Append(t, i) \in Seq(S) /\ Len(Append(t, i)) = n + 1
      BY <2>1, <2>5
    <2>7. Append(t, i) \in lead[n + 1]
      BY <1>1, <2>4 DEF Rounds
    <2> HIDE DEF T
    <2>8. n + 1 \in 0..k
      OBVIOUS
    <2> QED  BY <2>6, <2>7, <2>8 DEF T
  <1> HIDE DEF T
  <1>4. k \in T
    BY <1>2, <1>3, Climb
  <1> QED  BY <1>1, <1>4 DEF T

\* Padded to the width of a stage it is a row of these items.
LEMMA RowOfSeq ==
    ASSUME NEW S, S \subseteq Items, NEW k \in Nat, NEW s \in Seq(S),
           \A p, q \in 1..Len(s) : s[p] = s[q] => p = q
    PROVE  /\ IsRow(Row(s, k), k, S)
           /\ Held(Row(s, k)) = {s[p] : p \in {q \in 1..Len(s) : q <= k}}
  <1> DEFINE row == Row(s, k)
  <1>1. /\ row \in [1..k -> S \cup {None}]
        /\ \A p \in 1..k : row[p] = IF p <= Len(s) THEN s[p] ELSE None
    BY DEF Row
  <1>2. \A p \in 1..Len(s) : s[p] \in S /\ s[p] # None
    BY ConstantFacts
  <1>3. row \in RowOf(k) /\ DOMAIN row = 1..k
    BY <1>1 DEF RowOf
  <1> HIDE DEF row
  <1>4. Distinct(row)
    BY <1>1, <1>2, <1>3 DEF Distinct
  <1>5. Held(row) = {s[p] : p \in {q \in 1..Len(s) : q <= k}}
    <2>1. ASSUME NEW i \in Held(row)
          PROVE  i \in {s[p] : p \in {q \in 1..Len(s) : q <= k}}
      <3>1. PICK p \in DOMAIN row : row[p] = i /\ i # None
        BY DEF Held, Range
      <3> QED  BY <3>1, <1>1, <1>3
    <2>2. ASSUME NEW p \in 1..Len(s), p <= k PROVE s[p] \in Held(row)
      <3>1. p \in 1..k /\ row[p] = s[p] /\ s[p] \in Items
        BY <2>2, <1>1, <1>2
      <3> QED  BY <3>1, <1>3, RowFacts
    <2> QED  BY <2>1, <2>2
  <1>6. Held(row) \subseteq S
    BY <1>5, <1>2
  <1> QED  BY <1>3, <1>4, <1>5, <1>6 DEF row, IsRow

LEMMA AtMostIs ==
    ASSUME NEW a \in Nat, NEW b \in Nat
    PROVE  AtMost(a, b) \in Nat /\ AtMost(a, b) <= a /\ AtMost(a, b) <= b
  BY DEF AtMost

\* A ranking stage hands on different items of the row before it.
LEMMA TopFacts ==
    ASSUME NEW m \in Nat, NEW row \in RowOf(m), NEW k \in Nat,
           NEW score, \A i \in Held(row) : score[i] \in Int
    PROVE  IsRow(Top(row, score, k), k, Held(row))
  <1> DEFINE n == AtMost(k, Cardinality(Held(row)))
             s == CHOOSE t \in Leading(Held(row), n, score) : TRUE
  <1>1. /\ Held(row) \subseteq Items /\ IsFiniteSet(Held(row))
        /\ Cardinality(Held(row)) \in Nat
    BY RowFacts
  <1>2. n \in Nat /\ n <= Cardinality(Held(row))
    BY <1>1, AtMostIs
  <1> HIDE DEF n
  <1>3. s \in Leading(Held(row), n, score)
    BY <1>1, <1>2, LeadExists
  <1>4. Top(row, score, k) = Row(s, k)
    BY DEF Top, n
  <1> HIDE DEF s
  <1>5. s \in Seq(Held(row)) /\ \A p, q \in 1..Len(s) : s[p] = s[q] => p = q
    BY <1>2, <1>3, LeadFacts
  <1> QED  BY <1>1, <1>4, <1>5, RowOfSeq

-----------------------------------------------------------------------------
(* The slate.                                                              *)

Places == Items \cup {None}

LEMMA SlateGrows ==
    ASSUME NEW S, NEW s \in Seq(S), NEW x \in S
    PROVE  /\ Append(s, x) \in Seq(S) /\ Len(Append(s, x)) = Len(s) + 1
           /\ \A p \in 1..Len(s) : Append(s, x)[p] = s[p]
           /\ Append(s, x)[Len(s) + 1] = x
           /\ Range(Append(s, x)) = Range(s) \cup {x}
  <1> DEFINE t == Append(s, x)
  <1>1. /\ t \in Seq(S) /\ Len(t) = Len(s) + 1
        /\ \A p \in 1..Len(s) : t[p] = s[p]
        /\ t[Len(s) + 1] = x
    OBVIOUS
  <1>2. DOMAIN t = 1..(Len(s) + 1) /\ DOMAIN s = 1..Len(s) /\ Len(s) \in Nat
    BY <1>1
  <1> HIDE DEF t
  <1>3. Range(t) = Range(s) \cup {x}
    <2>1. ASSUME NEW y \in Range(t) PROVE y \in Range(s) \cup {x}
      <3>1. PICK p \in 1..(Len(s) + 1) : t[p] = y
        BY <1>2 DEF Range
      <3>2. CASE p \in 1..Len(s)
        BY <3>1, <3>2, <1>1, <1>2 DEF Range
      <3>3. CASE p = Len(s) + 1
        BY <3>1, <3>3, <1>1
      <3> QED  BY <3>2, <3>3, <1>2
    <2>2. ASSUME NEW p \in 1..Len(s) PROVE s[p] \in Range(t)
      <3>1. p \in DOMAIN t /\ t[p] = s[p]
        BY <1>1, <1>2
      <3> QED  BY <3>1 DEF Range
    <2>3. x \in Range(t)
      <3>1. Len(s) + 1 \in DOMAIN t
        BY <1>2
      <3> QED  BY <3>1, <1>1 DEF Range
    <2>4. Range(s) = {s[p] : p \in 1..Len(s)}
      BY <1>2 DEF Range
    <2> QED  BY <2>1, <2>2, <2>3, <2>4
  <1> QED  BY <1>1, <1>3 DEF t

\* What looks like an item is counted.
LEMMA AlikeTyped ==
    ASSUME NEW prior \in Seq(Places), NEW i, NEW of
    PROVE  Alike(prior, i, of) \in Nat
  <1> DEFINE A == {p \in DOMAIN prior : prior[p] # None /\ of[prior[p]] = of[i]}
  <1>1. DOMAIN prior = 1..Len(prior) /\ Len(prior) \in Nat
    OBVIOUS
  <1>2. IsFiniteSet(DOMAIN prior)
    BY <1>1, FS_Interval
  <1>3. A \subseteq DOMAIN prior
    OBVIOUS
  <1> HIDE DEF A
  <1>4. Cardinality(A) \in Nat
    BY <1>2, <1>3, FS_Subset, FS_CardinalityType
  <1> QED  BY <1>4 DEF Alike, A

\* The next item of a slate is one that may follow.
LEMMA FollowerFacts ==
    ASSUME NEW m \in Nat, NEW row \in RowOf(m), NEW score, \A i \in Held(row) : score[i] \in Int,
           NEW prior \in Seq(Places), Open(row, prior) # {}
    PROVE  Follower(row, score, prior) \in Open(row, prior)
  <1> DEFINE O == Open(row, prior)
             value == Adjusted(row, score, prior)
             B == Best(O, value)
             N == {PlaceOf(row, i) : i \in B}
  <1>1. O \subseteq Held(row) /\ IsFiniteSet(O)
    BY RowFacts, FS_Subset DEF Open
  <1>2. \A i \in O : value[i] \in Int
    BY <1>1, AlikeTyped DEF Adjusted, CreatorPenalty, KindPenalty
  <1> HIDE DEF O, value
  <1>3. B # {}
    BY <1>1, <1>2, HasBest DEF O
  <1>4. B \subseteq O
    BY DEF Best
  <1> HIDE DEF B
  <1>5. N \subseteq Nat /\ N # {}
    BY <1>1, <1>3, <1>4, RowFacts
  <1>6. PICK n \in N : \A k \in N : n <= k
    <2> HIDE DEF N
    <2> QED  BY <1>5, LeastNat
  <1>7. \E i \in B : \A j \in B : PlaceOf(row, i) <= PlaceOf(row, j)
    BY <1>6
  <1>8. Follower(row, score, prior) \in B
    BY <1>7 DEF Follower, B, O, value
  <1> QED  BY <1>4, <1>8 DEF O

NextPlace(row, score, prior) ==
    IF Open(row, prior) = {} THEN None ELSE Follower(row, score, prior)

LEMMA NextPlaceTyped ==
    ASSUME NEW m \in Nat, NEW row \in RowOf(m), NEW score, \A i \in Held(row) : score[i] \in Int,
           NEW prior \in Seq(Places)
    PROVE  NextPlace(row, score, prior) \in Held(row) \cup {None}
  BY FollowerFacts DEF NextPlace, Open

IsSlate(slate, row, score) ==
    slate = [p \in 0..ExposeK |->
                IF p = 0 THEN <<>>
                ELSE Append(slate[p - 1], IF Open(row, slate[p - 1]) = {} THEN None
                                          ELSE Follower(row, score, slate[p - 1]))]

\* The recursion has a solution, on sequences of items.
LEMMA SlateIs ==
    ASSUME NEW m \in Nat, NEW row \in RowOf(m), NEW score, \A i \in Held(row) : score[i] \in Int
    PROVE  \E slate :
               /\ DiversifiedTop(row, score) = slate[ExposeK]
               /\ slate[0] = <<>>
               /\ \A n \in 0..(ExposeK - 1) :
                      slate[n + 1] = Append(slate[n], NextPlace(row, score, slate[n]))
  <1> DEFINE D == Seq(Places)
             Longer(s) == Append(s, NextPlace(row, score, s))
             g == [s \in D |-> Longer(s)]
             L == CHOOSE slate : IsSlate(slate, row, score)
             a == <<>>
  <1>0. ExposeK \in Nat
    BY ConstantFacts
  <1>1. a \in D
    OBVIOUS
  <1>2. \A s \in D : Longer(s) \in D
    <2> SUFFICES ASSUME NEW s \in D PROVE Append(s, NextPlace(row, score, s)) \in Seq(Places)
      OBVIOUS
    <2>1. NextPlace(row, score, s) \in Places
      BY NextPlaceTyped, RowFacts DEF Places
    <2> QED  BY <2>1
  <1> HIDE DEF D, Longer, a
  <1>3. g \in [D -> D]
    BY <1>2
  <1>4. PICK f \in [0..ExposeK -> D] : f[0] = a /\ \A n \in 1..ExposeK : f[n] = g[f[n - 1]]
    <2> HIDE DEF g
    <2>1. \E f : Iterates(f, g, a, ExposeK, D)
      BY <1>0, <1>1, <1>3, Iteration
    <2> QED  BY <2>1 DEF Iterates
  <1>5. \A n \in 1..ExposeK : f[n] = Longer(f[n - 1])
    <2> SUFFICES ASSUME NEW n \in 1..ExposeK PROVE f[n] = Longer(f[n - 1])
      OBVIOUS
    <2>1. n - 1 \in 0..ExposeK
      BY <1>0
    <2>2. f[n - 1] \in D
      BY <2>1
    <2> QED  BY <2>2, <1>4
  <1>6. f = [p \in 0..ExposeK |-> IF p = 0 THEN a ELSE Longer(f[p - 1])]
    <2>1. f = [p \in 0..ExposeK |-> f[p]]
      OBVIOUS
    <2>2. \A p \in 0..ExposeK : f[p] = IF p = 0 THEN a ELSE Longer(f[p - 1])
      BY <1>0, <1>4, <1>5
    <2> HIDE DEF g
    <2> QED  BY <2>1, <2>2, Zenon
  <1>7. IsSlate(f, row, score)
    BY <1>6 DEF IsSlate, Longer, NextPlace, a
  <1>8. IsSlate(L, row, score)
    BY <1>7
  <1>9. DiversifiedTop(row, score) = L[ExposeK]
    BY DEF DiversifiedTop, IsSlate
  <1> HIDE DEF L
  <1>10. L[0] = <<>>
    BY <1>0, <1>8 DEF IsSlate
  <1>11. \A n \in 0..(ExposeK - 1) : L[n + 1] = Append(L[n], NextPlace(row, score, L[n]))
    <2> SUFFICES ASSUME NEW n \in 0..(ExposeK - 1)
                 PROVE  L[n + 1] = Append(L[n], NextPlace(row, score, L[n]))
      OBVIOUS
    <2>1. n + 1 \in 0..ExposeK /\ n + 1 # 0 /\ (n + 1) - 1 = n
      BY <1>0
    <2> QED  BY <1>8, <2>1 DEF IsSlate, NextPlace
  <1> QED  BY <1>9, <1>10, <1>11

\* A slate shows one ad at most.
OneAd(slate) ==
    \A p, q \in DOMAIN slate : slate[p] \in Ads /\ slate[q] \in Ads => p = q

\* A place is empty only when ads are all that is left.
Filled(slate, row) == None \in Range(slate) => Held(row) \ Held(slate) \subseteq Ads

IsFull(slate, row) == IsRow(slate, ExposeK, Held(row)) /\ OneAd(slate) /\ Filled(slate, row)

\* The first n places of a slate.
Begun(s, n, row) ==
    /\ s \in Seq(Places) /\ Len(s) = n
    /\ \A p \in 1..n : s[p] \in Held(row) \cup {None}
    /\ \A p, q \in 1..n : s[p] = s[q] => p = q \/ s[p] = None
    /\ \A p, q \in 1..n : s[p] \in Ads /\ s[q] \in Ads => p = q
    /\ \A p \in 1..n : s[p] = None => Open(row, s) = {}

LEMMA BegunGrows ==
    ASSUME NEW m \in Nat, NEW row \in RowOf(m), NEW score, \A i \in Held(row) : score[i] \in Int,
           NEW n \in Nat, NEW s, Begun(s, n, row)
    PROVE  Begun(Append(s, NextPlace(row, score, s)), n + 1, row)
  <1> DEFINE x == NextPlace(row, score, s)
             t == Append(s, x)
  <1>1. s \in Seq(Places) /\ Len(s) = n
    BY DEF Begun
  <1>2. x \in Held(row) \cup {None} /\ x \in Places
    BY <1>1, NextPlaceTyped, RowFacts DEF Places
  <1>3. /\ t \in Seq(Places) /\ Len(t) = n + 1
        /\ \A p \in 1..n : t[p] = s[p]
        /\ t[n + 1] = x
        /\ Range(t) = Range(s) \cup {x}
    <2> HIDE DEF x
    <2> QED  BY <1>1, <1>2, SlateGrows
  <1>4. DOMAIN s = 1..n
    BY <1>1
  <1>5. \A p \in 1..(n + 1) : p \in 1..n \/ p = n + 1
    OBVIOUS
  <1>6. None \notin Held(row) /\ None \notin Ads
    BY ConstantFacts DEF Held
  <1>7. CASE Open(row, s) = {}
    <2>1. x = None
      BY <1>7 DEF NextPlace
    <2>2. Open(row, t) = {}
      BY <1>7, <2>1, <1>3, <1>6 DEF Open
    <2> HIDE DEF x, t
    <2>3. Begun(t, n + 1, row)
      BY <2>1, <2>2, <1>1, <1>2, <1>3, <1>5, <1>6 DEF Begun
    <2> QED  BY <2>3 DEF t, x
  <1>8. CASE Open(row, s) # {}
    <2>1. x \in Open(row, s)
      BY <1>1, <1>8, FollowerFacts DEF NextPlace
    <2>2. x \in Held(row) /\ x \notin Range(s) /\ (x \in Ads => Range(s) \cap Ads = {})
      BY <2>1 DEF Open
    <2>3. \A p \in 1..n : s[p] \in Range(s)
      BY <1>4 DEF Range
    <2>4. \A p \in 1..n : s[p] # None
      BY <1>8 DEF Begun
    <2> HIDE DEF x, t
    <2>5. \A p \in 1..n : s[p] # x /\ ~ (s[p] \in Ads /\ x \in Ads)
      BY <2>2, <2>3
    <2>6. \A p \in 1..(n + 1) : t[p] # None /\ t[p] \in Held(row)
      BY <2>2, <2>4, <1>3, <1>5, <1>6 DEF Begun
    <2>7. \A p, q \in 1..(n + 1) : t[p] = t[q] => p = q
      BY <2>4, <2>5, <1>3, <1>5 DEF Begun
    <2>8. \A p, q \in 1..(n + 1) : t[p] \in Ads /\ t[q] \in Ads => p = q
      BY <2>5, <1>3, <1>5 DEF Begun
    <2>9. Begun(t, n + 1, row)
      BY <2>6, <2>7, <2>8, <1>3 DEF Begun
    <2> QED  BY <2>9 DEF t, x
  <1> QED  BY <1>7, <1>8

\* Diversity shows different items of the row, one ad at most, and leaves a gap only
\* where nothing but ads is left.
LEMMA SlateFacts ==
    ASSUME NEW m \in Nat, NEW row \in RowOf(m), NEW score, \A i \in Held(row) : score[i] \in Int
    PROVE  IsFull(DiversifiedTop(row, score), row)
  <1>0. ExposeK \in Nat
    BY ConstantFacts
  <1>1. PICK slate :
            /\ DiversifiedTop(row, score) = slate[ExposeK]
            /\ slate[0] = <<>>
            /\ \A n \in 0..(ExposeK - 1) :
                   slate[n + 1] = Append(slate[n], NextPlace(row, score, slate[n]))
    BY SlateIs
  <1> DEFINE T == {n \in 0..ExposeK : Begun(slate[n], n, row)}
             s == slate[ExposeK]
  <1>2. 0 \in T
    <2>1. Begun(<<>>, 0, row)
      BY DEF Begun
    <2> QED  BY <2>1, <1>0, <1>1
  <1>3. \A n \in 0..(ExposeK - 1) : n \in T => n + 1 \in T
    <2> SUFFICES ASSUME NEW n \in 0..(ExposeK - 1), n \in T PROVE n + 1 \in T
      OBVIOUS
    <2>1. n \in Nat /\ n + 1 \in 0..ExposeK /\ Begun(slate[n], n, row)
      BY <1>0
    <2>2. Begun(slate[n + 1], n + 1, row)
      BY <2>1, <1>1, BegunGrows
    <2> QED  BY <2>1, <2>2
  <1>4. Begun(s, ExposeK, row)
    <2> HIDE DEF T
    <2>1. ExposeK \in T
      BY <1>0, <1>2, <1>3, Climb
    <2> QED  BY <2>1 DEF T
  <1> HIDE DEF s
  <1>5. s \in [1..ExposeK -> Places] /\ DOMAIN s = 1..ExposeK
    BY <1>0, <1>4 DEF Begun
  <1>6. s \in RowOf(ExposeK) /\ Distinct(s) /\ OneAd(s)
    BY <1>4, <1>5 DEF RowOf, Places, Distinct, OneAd, Begun
  <1>7. Held(s) \subseteq Held(row)
    BY <1>4, <1>5 DEF Held, Range, Begun
  <1>8. Filled(s, row)
    <2> SUFFICES ASSUME None \in Range(s), NEW i \in Held(row), i \notin Held(s)
                 PROVE  i \in Ads
      BY DEF Filled
    <2>1. Open(row, s) = {}
      BY <1>4, <1>5 DEF Begun, Range
    <2>2. i \notin Range(s)
      BY DEF Held
    <2> QED  BY <2>1, <2>2 DEF Open
  <1> QED  BY <1>1, <1>6, <1>7, <1>8 DEF IsFull, IsRow, s

-----------------------------------------------------------------------------
(* Exploration.                                                            *)

\* A video put last displaces at most the item that was there.
LEMMA InjectFacts ==
    ASSUME NEW k \in Nat \ {0}, NEW from, NEW row, IsRow(row, k, from), NEW item \in Items
    PROVE  /\ IsRow(InjectLast(row, item), k, from \cup {item})
           /\ item \in Held(InjectLast(row, item))
  <1>1. /\ row \in RowOf(k) /\ Distinct(row) /\ Held(row) \subseteq from
        /\ DOMAIN row = 1..k /\ item # None
    BY RowFacts, ConstantFacts DEF IsRow
  <1>2. CASE item \in Held(row)
    BY <1>1, <1>2 DEF InjectLast, IsRow
  <1>3. CASE item \notin Held(row)
    <2> DEFINE new == [row EXCEPT ![k] = item]
    <2>1. Len(row) = k
      BY <1>1 DEF RowOf
    <2>2. InjectLast(row, item) = new
      BY <1>3, <2>1 DEF InjectLast
    <2>3. /\ new \in RowOf(k) /\ DOMAIN new = 1..k /\ new[k] = item
          /\ \A p \in 1..k : p # k => new[p] = row[p]
      BY <1>1 DEF RowOf
    <2> HIDE DEF new
    <2>4. \A p \in 1..k : row[p] # item
      BY <1>1, <1>3 DEF Held, Range
    <2>5. Distinct(new)
      BY <1>1, <2>3, <2>4 DEF Distinct
    <2>6. Held(new) \subseteq from \cup {item}
      BY <1>1, <2>3 DEF Held, Range
    <2>7. item \in Held(new)
      BY <1>1, <2>3 DEF Held, Range
    <2> QED  BY <2>2, <2>3, <2>5, <2>6, <2>7 DEF IsRow
  <1> QED  BY <1>2, <1>3

\* A slate stays full: a video of the row is either shown or takes the last place.
LEMMA InjectFull ==
    ASSUME NEW m \in Nat, NEW row \in RowOf(m), NEW slate, IsFull(slate, row),
           NEW item \in Held(row) \ Ads
    PROVE  IsFull(InjectLast(slate, item), row)
  <1>1. /\ ExposeK \in Nat \ {0} /\ item \in Items /\ item # None
        /\ slate \in RowOf(ExposeK) /\ DOMAIN slate = 1..ExposeK
    BY RowFacts, ConstantFacts DEF IsFull, IsRow
  <1>2. IsRow(InjectLast(slate, item), ExposeK, Held(row))
    <2>1. Held(row) \cup {item} = Held(row)
      OBVIOUS
    <2> QED  BY <1>1, <2>1, InjectFacts DEF IsFull
  <1>3. CASE item \in Held(slate)
    BY <1>3 DEF InjectLast, IsFull
  <1>4. CASE item \notin Held(slate)
    <2> DEFINE new == [slate EXCEPT ![ExposeK] = item]
    <2>1. Len(slate) = ExposeK
      BY <1>1 DEF RowOf
    <2>2. InjectLast(slate, item) = new
      BY <1>4, <2>1 DEF InjectLast
    <2>3. /\ DOMAIN new = 1..ExposeK /\ new[ExposeK] = item
          /\ \A p \in 1..ExposeK : p # ExposeK => new[p] = slate[p]
      BY <1>1
    <2> HIDE DEF new
    <2>4. OneAd(new)
      BY <1>1, <2>3 DEF IsFull, OneAd
    <2>5. None \notin Range(slate)
      BY <1>4 DEF IsFull, Filled
    <2>6. None \notin Range(new)
      BY <1>1, <2>3, <2>5 DEF Range
    <2> QED  BY <1>2, <2>2, <2>4, <2>6 DEF IsFull, Filled
  <1> QED  BY <1>3, <1>4

\* Rows that are handed on from stage to stage.
Nested(s, r) ==
    /\ IsRow(s.coarse, CoarseK, Held(r.recall.item))
    /\ IsRow(s.fine, FineK, Held(s.coarse))
    /\ IsFull(s.exposed, s.fine)

\* What retrieval hands to the rankers.
IsRecall(recall) ==
    IsRow(recall.item, RecallK, Items) /\ recall.cold \subseteq Held(recall.item)

IsRequest(r) == r.policy \in Policies /\ IsRecall(r.recall)

\* Fusion returns an item once, whatever routes brought it.
LEMMA FusionFacts ==
    ASSUME NEW policy \in Policies, NEW rows,
           \A r \in Routes : rows[r] \in RowOf(RouteK),
           NEW recall \in ReciprocalRankFusion(policy, rows)
    PROVE  IsRecall(recall)
  <1> DEFINE merged == {i \in Items : Hits(policy, rows, i) # {}}
             score == [i \in merged |-> MapThenSumSet(
                         LAMBDA h : policy.weights[h[1]] * Contribution[h[2]],
                         Hits(policy, rows, i))]
             cold == {i \in merged : \E k \in 1..RouteK :
                                         <<ColdRoute, k>> \in Hits(policy, rows, i)}
             n == AtMost(RecallK, Cardinality(merged))
  <1>1. IsFiniteSet(merged) /\ Cardinality(merged) \in Nat
    <2> DEFINE P == Routes \X (1..RouteK)
               f == [h \in P |-> rows[h[1]][h[2]]]
               R == {f[h] : h \in P}
    <2>1. IsFiniteSet(P)
      <3>1. IsFiniteSet(1..RouteK) /\ IsFiniteSet(Routes)
        BY ConstantFacts, CascadeAssumption, FS_Interval
      <3> QED  BY <3>1, FS_Product
    <2>2. f \in Surjection(P, R)
      BY DEF Surjection
    <2>3. IsFiniteSet(R)
      <3> HIDE DEF f, P, R
      <3> QED  BY <2>1, <2>2, FS_Surjection
    <2>4. merged \subseteq R
      <3> SUFFICES ASSUME NEW i \in merged PROVE i \in R
        OBVIOUS
      <3>1. PICK h \in P : rows[h[1]][h[2]] = i
        BY DEF Hits
      <3> QED  BY <3>1
    <2> HIDE DEF R, merged
    <2> QED  BY <2>3, <2>4, FS_Subset, FS_CardinalityType
  <1>2. PICK s \in Leading(merged, n, score) :
            recall = [item |-> Row(s, RecallK), cold |-> cold \cap Range(s)]
    BY DEF ReciprocalRankFusion
  <1>3. n \in Nat /\ n <= RecallK /\ merged \subseteq Items /\ RecallK \in Nat
    BY <1>1, ConstantFacts, AtMostIs
  <1> HIDE DEF merged, score, cold, n
  <1>4. /\ s \in Seq(merged) /\ Len(s) = n
        /\ \A p, q \in 1..n : s[p] = s[q] => p = q
    BY <1>3, LeadFacts
  <1>5. /\ IsRow(Row(s, RecallK), RecallK, merged)
        /\ Held(Row(s, RecallK)) = {s[p] : p \in {q \in 1..Len(s) : q <= RecallK}}
    BY <1>3, <1>4, RowOfSeq
  <1>6. Range(s) \subseteq Held(Row(s, RecallK))
    BY <1>3, <1>4, <1>5 DEF Range
  <1>7. IsRow(Row(s, RecallK), RecallK, Items)
    BY <1>3, <1>5 DEF IsRow
  <1>8. recall.item = Row(s, RecallK) /\ recall.cold \subseteq Range(s)
    BY <1>2
  <1> QED  BY <1>6, <1>7, <1>8 DEF IsRecall

\* A single route is handed on with its gaps.
LEMMA SingleFacts ==
    ASSUME NEW policy \in Policies, NEW rows, NEW r \in Routes,
           rows[r] \in RowOf(RouteK), Distinct(rows[r]),
           NEW recall \in SingleRoute(policy, rows, r)
    PROVE  IsRecall(recall)
  <1> DEFINE row == [k \in 1..RecallK |->
                        IF k <= RouteK /\ Kept(policy, rows, r, k) THEN rows[r][k] ELSE None]
  <1>1. recall.item = row /\ recall.cold \subseteq Held(row)
    <2>1. recall = [item |-> row, cold |-> IF r = ColdRoute THEN Held(row) ELSE {}]
      BY Zenon DEF SingleRoute
    <2> HIDE DEF row
    <2> QED  BY <2>1
  <1>2. DOMAIN rows[r] = 1..RouteK /\ \A k \in 1..RouteK : rows[r][k] \in Items \cup {None}
    BY DEF RowOf
  <1>3. RecallK \in Nat /\ RouteK \in Nat /\ RouteK <= RecallK
    BY ConstantFacts
  <1>4. row \in RowOf(RecallK) /\ DOMAIN row = 1..RecallK
    BY <1>2, <1>3 DEF RowOf
  <1>5. \A k \in 1..RecallK : row[k] # None => k \in 1..RouteK /\ row[k] = rows[r][k]
    BY <1>3
  <1> HIDE DEF row
  <1>6. Distinct(row)
    BY <1>2, <1>4, <1>5 DEF Distinct
  <1>7. Held(row) \subseteq Items
    BY <1>3, <1>4, RowFacts
  <1> QED  BY <1>1, <1>4, <1>6, <1>7 DEF IsRecall, IsRow

LEMMA RecallFacts ==
    ASSUME NEW policy \in Policies, NEW rows, \A r \in Routes : rows[r] \in RouteRows[r],
           NEW recall \in Recalls(policy, rows)
    PROVE  IsRecall(recall)
  <1>1. \A r \in Routes : rows[r] \in RowOf(RouteK) /\ Distinct(rows[r])
    BY CascadeAssumption
  <1>2. CASE Cardinality(policy.routes) = 1
    <2> DEFINE r == CHOOSE x \in policy.routes : TRUE
    <2>1. policy.routes \subseteq Routes /\ policy.routes # {}
      BY CascadeAssumption DEF Policy
    <2>2. r \in Routes
      BY <2>1
    <2>3. recall \in SingleRoute(policy, rows, r)
      BY <1>2 DEF Recalls
    <2> HIDE DEF r
    <2> QED  BY <1>1, <2>2, <2>3, SingleFacts
  <1>3. CASE Cardinality(policy.routes) # 1
    BY <1>1, <1>3, FusionFacts DEF Recalls
  <1> QED  BY <1>2, <1>3

-----------------------------------------------------------------------------
(* The stages.                                                             *)

LEMMA DeterministicNested ==
    ASSUME NEW r, IsRequest(r)
    PROVE  Nested(Deterministic(r), r)
  <1> DEFINE recall == r.recall.item
             coarse == Top(recall, Scores(r.policy.coarse, recall), CoarseK)
             score == Scores(r.policy.fine, coarse)
             fine == Top(coarse, score, FineK)
             exposed == DiversifiedTop(fine, score)
  <1>1. /\ Deterministic(r).coarse = coarse /\ Deterministic(r).fine = fine
        /\ Deterministic(r).exposed = exposed
    BY DEF Deterministic
  <1>2. recall \in RowOf(RecallK) /\ RecallK \in Nat /\ CoarseK \in Nat /\ FineK \in Nat
    BY ConstantFacts DEF IsRequest, IsRecall, IsRow
  <1> HIDE DEF recall
  <1>3. IsRow(coarse, CoarseK, Held(recall))
    BY <1>2, ScoresTyped, TopFacts
  <1>4. coarse \in RowOf(CoarseK)
    BY <1>3 DEF IsRow
  <1> HIDE DEF coarse
  <1>5. \A i \in Held(coarse) : score[i] \in Int
    BY <1>2, <1>4, ScoresTyped
  <1> HIDE DEF score
  <1>6. IsRow(fine, FineK, Held(coarse))
    BY <1>2, <1>4, <1>5, TopFacts
  <1>7. fine \in RowOf(FineK) /\ \A i \in Held(fine) : score[i] \in Int
    BY <1>5, <1>6 DEF IsRow
  <1> HIDE DEF fine
  <1>8. IsFull(exposed, fine)
    BY <1>2, <1>7, SlateFacts
  <1> HIDE DEF exposed
  <1> QED  BY <1>1, <1>3, <1>6, <1>8 DEF Nested, recall

\* A new video is carried through the three stages.
LEMMA ColdNested ==
    ASSUME NEW r, IsRequest(r), NEW item \in EligibleCold(r, Deterministic(r))
    PROVE  Nested(WithColdItem(r, Deterministic(r), item), r)
  <1> DEFINE det == Deterministic(r)
             recall == r.recall.item
             coarse == InjectLast(det.coarse, item)
             score == Scores(r.policy.fine, coarse)
             top == Top(coarse, score, FineK)
             fine == InjectLast(top, item)
             shown == DiversifiedTop(fine, score)
             exposed == InjectLast(shown, item)
             new == WithColdItem(r, det, item)
  <1>1. new.coarse = coarse /\ new.fine = fine /\ new.exposed = exposed
    BY DEF WithColdItem
  <1>2. CoarseK \in Nat \ {0} /\ FineK \in Nat \ {0}
    BY ConstantFacts
  <1>3. item \in Held(recall) /\ item \in Items /\ item \notin Ads
    BY ConstantFacts DEF EligibleCold, IsRequest, IsRecall
  <1>4. IsRow(det.coarse, CoarseK, Held(recall))
    BY DeterministicNested DEF Nested
  <1> HIDE DEF det, recall
  <1>5. IsRow(coarse, CoarseK, Held(recall)) /\ item \in Held(coarse)
    <2>1. Held(recall) \cup {item} = Held(recall)
      BY <1>3
    <2>2. /\ IsRow(coarse, CoarseK, Held(recall) \cup {item})
          /\ item \in Held(coarse)
      BY <1>2, <1>3, <1>4, InjectFacts
    <2> QED  BY <2>1, <2>2
  <1>6. coarse \in RowOf(CoarseK)
    BY <1>5 DEF IsRow
  <1> HIDE DEF coarse
  <1>7. \A i \in Held(coarse) : score[i] \in Int
    BY <1>2, <1>6, ScoresTyped
  <1> HIDE DEF score
  <1>8. IsRow(top, FineK, Held(coarse))
    BY <1>2, <1>6, <1>7, TopFacts
  <1> HIDE DEF top
  <1>9. IsRow(fine, FineK, Held(coarse)) /\ item \in Held(fine)
    <2>1. Held(coarse) \cup {item} = Held(coarse)
      BY <1>5
    <2>2. IsRow(fine, FineK, Held(coarse) \cup {item}) /\ item \in Held(fine)
      BY <1>2, <1>3, <1>8, InjectFacts
    <2> QED  BY <2>1, <2>2
  <1>10. fine \in RowOf(FineK) /\ \A i \in Held(fine) : score[i] \in Int
    BY <1>7, <1>9 DEF IsRow
  <1> HIDE DEF fine
  <1>11. IsFull(shown, fine)
    BY <1>2, <1>10, SlateFacts
  <1> HIDE DEF shown
  <1>12. IsFull(exposed, fine)
    BY <1>2, <1>3, <1>9, <1>10, <1>11, InjectFull
  <1> HIDE DEF exposed, new
  <1>13. Nested(new, r)
    BY <1>1, <1>5, <1>9, <1>12 DEF Nested, recall
  <1> QED  BY <1>13 DEF new, det

\* A random slate is cut from one permutation.
LEMMA RandomNested ==
    ASSUME NEW r, IsRequest(r), ~ (r.policy.coldRate > 0),
           NEW pick \in Picks(r, Deterministic(r))
    PROVE  Nested(RandomSlate(pick), r)
  <1> DEFINE held == Held(r.recall.item)
             n == AtMost(CoarseK, Cardinality(held))
             coarse == Row(pick, CoarseK)
             fine == Row(pick, FineK)
             score == Scores(0, fine)
             new == RandomSlate(pick)
  <1>1. /\ CoarseK \in Nat /\ FineK \in Nat /\ FineK <= CoarseK /\ RecallK \in Nat
        /\ held \subseteq Items /\ Cardinality(held) \in Nat
    BY ConstantFacts, RowFacts DEF IsRequest, IsRecall, IsRow
  <1>2. pick \in Leading(held, n, [i \in held |-> 0])
    BY DEF Picks
  <1> HIDE DEF held
  <1>3. n \in Nat
    BY <1>1, AtMostIs
  <1>4. /\ pick \in Seq(held)
        /\ \A p, q \in 1..Len(pick) : pick[p] = pick[q] => p = q
    BY <1>2, <1>3, LeadFacts
  <1>5. /\ IsRow(coarse, CoarseK, held)
        /\ Held(coarse) = {pick[p] : p \in {q \in 1..Len(pick) : q <= CoarseK}}
        /\ IsRow(fine, FineK, held)
        /\ Held(fine) = {pick[p] : p \in {q \in 1..Len(pick) : q <= FineK}}
    BY <1>1, <1>4, RowOfSeq
  <1>6. new.coarse = coarse /\ new.fine = fine /\ new.exposed = DiversifiedTop(fine, score)
    BY DEF RandomSlate
  <1> HIDE DEF coarse, fine, new
  <1>7. Held(fine) \subseteq Held(coarse)
    BY <1>1, <1>5
  <1>8. IsRow(fine, FineK, Held(coarse)) /\ fine \in RowOf(FineK)
    BY <1>5, <1>7 DEF IsRow
  <1>9. \A i \in Held(fine) : score[i] \in Int
    BY <1>1, <1>8, ScoresTyped
  <1> HIDE DEF score
  <1>10. IsFull(DiversifiedTop(fine, score), fine)
    BY <1>1, <1>8, <1>9, SlateFacts
  <1>11. Nested(new, r)
    BY <1>5, <1>6, <1>8, <1>10 DEF Nested, held
  <1> QED  BY <1>11 DEF new

\* Whatever is drawn, the stages are nested.
LEMMA RankedNested ==
    ASSUME NEW r, IsRequest(r), NEW d \in Draws(r, Deterministic(r))
    PROVE  Nested(Ranked(r, Deterministic(r), d), r)
  <1>1. CASE ~ d.randomized
    BY <1>1, DeterministicNested DEF Ranked
  <1>2. CASE d.randomized
    <2>1. d.pick \in Picks(r, Deterministic(r))
      BY <1>2 DEF Draws
    <2>2. CASE r.policy.coldRate > 0
      <3>1. PICK i \in EligibleCold(r, Deterministic(r)) : d.pick = <<i>>
        BY <2>1, <2>2 DEF Picks
      <3>2. d.pick[1] = i
        BY <3>1
      <3> QED  BY <1>2, <2>2, <3>2, ColdNested DEF Ranked
    <2>3. CASE ~ (r.policy.coldRate > 0)
      BY <1>2, <2>1, <2>3, RandomNested DEF Ranked
    <2> QED  BY <2>2, <2>3
  <1>3. d.randomized \in BOOLEAN
    BY DEF Draws
  <1> QED  BY <1>1, <1>2, <1>3

-----------------------------------------------------------------------------
(* What is logged.                                                         *)

LEMMA TimesMonotone ==
    ASSUME NEW a \in Nat, NEW b \in Nat, NEW x \in Nat, NEW y \in Nat, a <= x, b <= y
    PROVE  /\ a * b \in Nat /\ x * y \in Nat
           /\ a * b <= x * y
  <1>1. a * b \in Nat /\ x * b \in Nat /\ x * y \in Nat
    OBVIOUS
  <1>2. (x - a) \in Nat /\ (y - b) \in Nat
    OBVIOUS
  <1>3. (x - a) * b \in Nat /\ x * (y - b) \in Nat
    BY <1>2
  <1>4. (x - a) * b = x * b - a * b /\ x * (y - b) = x * y - x * b
    OBVIOUS
  <1> QED  BY <1>1, <1>3, <1>4

LEMMA MaxOne ==
    ASSUME NEW x \in Nat
    PROVE  Max({1, x}) \in Nat \ {0} /\ Max({1, x}) >= x
  <1>1. \E y \in {1, x} : \A z \in {1, x} : y >= z
    OBVIOUS
  <1>2. Max({1, x}) \in {1, x} /\ \A z \in {1, x} : Max({1, x}) >= z
    BY <1>1, Zenon DEF Max
  <1> QED  BY <1>2

\* Cold start is not certain.
NeverCertain == \A p \in Policies : p.coldRate < Whole

LEMMA PolicyFacts ==
    ASSUME NEW p \in Policies
    PROVE  /\ p.rate \in Nat /\ p.rate <= Whole
           /\ p.coldRate \in Nat /\ p.coldRate <= Whole
           /\ p.rate = 0 \/ p.coldRate = 0
           /\ Whole \in Nat \ {0}
  BY CascadeAssumption DEF Policy

\* The denominators.
LEMMA BaseFacts ==
    ASSUME NEW r, IsRequest(r)
    PROVE  LET det == Deterministic(r) IN
           /\ IsFiniteSet(Held(r.recall.item)) /\ Candidates(r) \in Nat
           /\ IsFiniteSet(EligibleCold(r, det)) /\ EqualDraws(r, det) \in Nat
           /\ Base(r, det) \in Nat \ {0}
           /\ r.policy.coldRate > 0 => EqualDraws(r, det) <= Base(r, det)
           /\ ~ (r.policy.coldRate > 0) => Candidates(r) <= Base(r, det)
  <1> DEFINE det == Deterministic(r)
             held == Held(r.recall.item)
  <1>1. IsFiniteSet(held) /\ Cardinality(held) \in Nat
    BY ConstantFacts, RowFacts DEF IsRequest, IsRecall, IsRow
  <1>2. EligibleCold(r, det) \subseteq held
    BY DEF EligibleCold, IsRequest, IsRecall
  <1> HIDE DEF det
  <1>3. IsFiniteSet(EligibleCold(r, det)) /\ EqualDraws(r, det) \in Nat
    BY <1>1, <1>2, FS_Subset, FS_CardinalityType DEF EqualDraws
  <1>4. Candidates(r) \in Nat
    BY <1>1 DEF Candidates
  <1>5. CASE r.policy.coldRate > 0
    BY <1>1, <1>3, <1>4, <1>5, MaxOne DEF Base, det
  <1>6. CASE ~ (r.policy.coldRate > 0)
    BY <1>1, <1>3, <1>4, <1>6, MaxOne DEF Base, det
  <1> QED  BY <1>5, <1>6

\* What is logged for a candidate and a stage is a probability.
LEMMA AdmissionFacts ==
    ASSUME NEW r, IsRequest(r), NEW chosen, Held(chosen) \subseteq Held(r.recall.item), NEW i
    PROVE  LET det == Deterministic(r) IN
           Within(Admission(r, det, chosen, i), 0, Whole * Base(r, det))
  <1> DEFINE det == Deterministic(r)
             B == Base(r, det)
             W == Whole
             rate == r.policy.rate
             held == Cardinality(Held(chosen))
             E == EligibleCold(r, det)
             S == SupportedRate(r, det)
             out == Cardinality(E \ Held(chosen))
  <1>1. /\ rate \in Nat /\ rate <= W /\ W \in Nat \ {0}
        /\ r.policy.coldRate \in Nat /\ r.policy.coldRate <= W
    BY PolicyFacts DEF IsRequest
  <1>2. /\ IsFiniteSet(Held(r.recall.item)) /\ Candidates(r) \in Nat
        /\ IsFiniteSet(E) /\ EqualDraws(r, det) \in Nat /\ B \in Nat \ {0}
        /\ r.policy.coldRate > 0 => EqualDraws(r, det) <= B
        /\ ~ (r.policy.coldRate > 0) => Candidates(r) <= B
    BY BaseFacts
  <1> HIDE DEF det, B, W
  <1>3. W * B \in Nat /\ W <= W * B
    BY <1>1, <1>2, TimesMonotone
  <1>4. CASE r.policy.coldRate > 0
    <2>1. S \in Nat /\ S <= W
      BY <1>1 DEF SupportedRate
    <2>2. out \in Nat /\ out <= B
      <3>1. out \in Nat /\ out <= Cardinality(E)
        <4> HIDE DEF E
        <4> QED  BY <1>2, FS_Subset, FS_CardinalityType
      <3> QED  BY <3>1, <1>2, <1>4 DEF EqualDraws
    <2> HIDE DEF S, out
    <2>3. S * out \in Nat /\ S * out <= W * B
      BY <1>1, <1>2, <2>1, <2>2, TimesMonotone
    <2>4. Admission(r, det, chosen, i)
              = IF i \in Held(chosen)
                THEN W * B - S * out * Indicator(i = Last(chosen))
                ELSE S * Indicator(i \in E \ Held(chosen))
      BY <1>4 DEF Admission, TargetedAdmission, W, B, S, out
    <2>5. \A c : Indicator(c) \in {0, 1}
      BY DEF Indicator
    <2>6. PICK u \in {0, 1} : u = Indicator(i = Last(chosen))
      BY <2>5
    <2>7. PICK v \in {0, 1} : v = Indicator(i \in E \ Held(chosen))
      BY <2>5
    <2>8. S * out * u \in {0, S * out} /\ S * v \in {0, S}
      BY <2>1, <2>2, <2>3
    <2>9. CASE i \in Held(chosen)
      <3>1. Admission(r, det, chosen, i) = W * B - S * out * u
        BY <2>4, <2>6, <2>9
      <3> QED  BY <3>1, <2>3, <2>8, <1>3 DEF Within, W, B, det
    <2>10. CASE i \notin Held(chosen)
      <3>1. Admission(r, det, chosen, i) = S * v
        BY <2>4, <2>7, <2>10
      <3> QED  BY <3>1, <2>1, <2>8, <1>1, <1>3 DEF Within, W, B, det
    <2> QED  BY <2>9, <2>10
  <1>5. CASE ~ (r.policy.coldRate > 0)
    <2>1. held \in Nat /\ held <= B
      <3>1. held \in Nat /\ held <= Candidates(r)
        BY <1>2, FS_Subset, FS_CardinalityType DEF Candidates
      <3> QED  BY <3>1, <1>2, <1>5
    <2> HIDE DEF held
    <2>2. rate * held \in Nat /\ rate * held <= rate * B /\ rate * B \in Nat
      BY <1>1, <1>2, <2>1, TimesMonotone
    <2>3. (W - rate) * B \in Nat /\ (W - rate) * B = W * B - rate * B
      BY <1>1, <1>2
    <2>4. Admission(r, det, chosen, i)
              = rate * held + (W - rate) * B * Indicator(i \in Held(chosen))
      BY <1>5 DEF Admission, MixtureAdmission, W, B, held
    <2>5. Indicator(i \in Held(chosen)) \in {0, 1}
      BY DEF Indicator
    <2>6. PICK u \in {0, 1} : u = Indicator(i \in Held(chosen))
      BY <2>5
    <2>7. (W - rate) * B * u \in {0, (W - rate) * B}
      BY <2>3
    <2> DEFINE x == (W - rate) * B * u
               y == rate * held
    <2>8. Admission(r, det, chosen, i) = y + x
      BY <2>4, <2>6
    <2>9. x \in Nat /\ x <= W * B - rate * B /\ y \in Nat /\ y <= rate * B
      BY <1>3, <2>2, <2>3, <2>7
    <2> HIDE DEF x, y
    <2>10. 0 <= y + x /\ y + x <= W * B
      BY <2>2, <2>9, <1>3
    <2> QED  BY <2>8, <2>10 DEF Within, W, B, det
  <1> QED  BY <1>4, <1>5

\* What is logged for a place that shows an item is the probability of something
\* possible.
LEMMA PositionFacts ==
    ASSUME NeverCertain, NEW r, IsRequest(r), NEW d \in Draws(r, Deterministic(r)),
           NEW p \in 1..ExposeK, Ranked(r, Deterministic(r), d).exposed[p] # None
    PROVE  LET det == Deterministic(r) IN
           Within(LoggedPosition(r, det, Ranked(r, det, d).exposed, p), 1, Whole * Base(r, det))
  <1> DEFINE det == Deterministic(r)
             B == Base(r, det)
             W == Whole
             slate == Ranked(r, det, d).exposed
             rate == r.policy.rate
             S == SupportedRate(r, det)
             same == slate[p] = det.exposed[p]
             logged == LoggedPosition(r, det, slate, p)
  <1>1. /\ rate \in Nat /\ rate <= W /\ W \in Nat \ {0}
        /\ r.policy.coldRate \in Nat /\ r.policy.coldRate < W
    BY PolicyFacts DEF IsRequest, NeverCertain
  <1>2. B \in Nat \ {0}
    BY BaseFacts
  <1>3. ~ d.randomized => same
    BY DEF Ranked
  <1>4. d.randomized => d.pick \in Picks(r, det) /\ Rate(r) > 0
    BY DEF Draws
  <1> HIDE DEF det, B, W, slate
  <1>5. W * B \in Nat /\ W <= W * B
    BY <1>1, <1>2, TimesMonotone
  <1>6. slate[p] # None
    BY DEF slate, det
  <1>7. CASE r.policy.coldRate > 0
    <2>1. S \in Nat /\ S < W
      BY <1>1 DEF SupportedRate
    <2>2. ~ same => S > 0
      <3> SUFFICES ASSUME ~ same PROVE S > 0
        OBVIOUS
      <3>1. d.pick \in Picks(r, det)
        BY <1>3, <1>4
      <3>2. EligibleCold(r, det) # {}
        BY <3>1, <1>7 DEF Picks
      <3> QED  BY <3>2, <1>7 DEF SupportedRate
    <2>3. logged = IF p = ExposeK THEN IF same THEN (W - S) * B ELSE S ELSE W * B
      BY <1>6, <1>7 DEF LoggedPosition, TargetedPosition, TargetedLast, W, B, same
    <2> HIDE DEF S, same, logged
    <2>4. W - S \in Nat /\ W - S <= W /\ W - S >= 1
      BY <1>1, <2>1
    <2>5. (W - S) * B \in Nat /\ (W - S) * B <= W * B
      BY <1>1, <1>2, <2>4, TimesMonotone
    <2>6. 1 * 1 <= (W - S) * B
      BY <1>2, <2>4, TimesMonotone
    <2>7. Within(logged, 1, W * B)
      BY <1>1, <1>5, <2>1, <2>2, <2>3, <2>5, <2>6 DEF Within
    <2> QED  BY <2>7 DEF logged, slate, W, B, det
  <1>8. CASE ~ (r.policy.coldRate > 0)
    <2>1. rate = 0 => same
      BY <1>3, <1>4, <1>8 DEF Rate
    <2> DEFINE u == Indicator(same)
    <2>2. u \in {0, 1} /\ (same => u = 1)
      BY DEF Indicator
    <2>3. logged = rate + (W - rate) * B * u
      BY <1>6, <1>8 DEF LoggedPosition, MixturePosition, W, B, same
    <2> HIDE DEF u, same, logged
    <2>4. rate * B \in Nat /\ rate * 1 <= rate * B
      BY <1>1, <1>2, TimesMonotone
    <2>5. (W - rate) * B = W * B - rate * B /\ (W - rate) * B \in Nat
      BY <1>1, <1>2
    <2> DEFINE x == (W - rate) * B
    <2>6. x * u \in {0, x} /\ (u = 1 => x * u = x)
      BY <2>2, <2>5
    <2>7. logged = rate + x * u
      BY <2>3
    <2>8. x \in Nat /\ x = W * B - rate * B
      BY <2>5
    <2> HIDE DEF x
    <2>9. Within(logged, 1, W * B)
      <3>1. CASE rate = 0
        <4>1. logged = W * B
          BY <3>1, <2>1, <2>2, <2>6, <2>7, <2>8, <1>1, <1>2, <1>5
        <4> QED  BY <4>1, <1>1, <1>5 DEF Within
      <3>2. CASE rate # 0
        <4>1. x * u \in Nat /\ x * u <= x
          BY <2>6, <2>8
        <4> DEFINE y == x * u
                   z == rate * B
        <4>2. y \in Nat /\ y <= x /\ z \in Nat /\ rate <= z /\ x = W * B - z
              /\ logged = rate + y
          BY <4>1, <2>4, <2>7, <2>8, <1>1
        <4> HIDE DEF y, z
        <4> QED  BY <4>2, <3>2, <1>1, <1>5, <2>8 DEF Within
      <3> QED  BY <3>1, <3>2
    <2> QED  BY <2>9 DEF logged, slate, W, B, det
  <1> QED  BY <1>7, <1>8

-----------------------------------------------------------------------------
(* The inductive invariant.                                                *)

\* From the ranking on: the rows are nested, the slate is full, a random slate has
\* a rate, and the logged admissions are probabilities.
Served(s, r) ==
    /\ s = [coarse |-> s.coarse, fine |-> s.fine, exposed |-> s.exposed,
            randomized |-> s.randomized, logged |-> s.logged]
    /\ Nested(s, r)
    /\ s.randomized => Rate(r) > 0
    /\ \A i \in Held(r.recall.item) :
           LET one == Whole * Base(r, Deterministic(r)) IN
           /\ Within(s.logged.coarse[i], 0, one)
           /\ Within(s.logged.fine[i], 0, one)
           /\ Within(s.logged.candidate[i], 0, one)

\* What is shown had a probability.
ShownPossible(s, r) ==
    \A p \in 1..ExposeK : s.exposed[p] # None =>
        Within(s.logged.position[p], 1, Whole * Base(r, Deterministic(r)))

CascadeInv ==
    /\ phase \in {"open", "recalled", "ranked", "rendered", "refused"}
    /\ phase # "open" => IsRequest(request)
    /\ phase \in {"ranked", "rendered", "refused"} => Served(stages, request)

PossibleInv == phase \in {"ranked", "rendered", "refused"} => ShownPossible(stages, request)

\* What Rank writes for a draw.
Outcome(r, d) ==
    LET det == Deterministic(r)
        ranked == Ranked(r, det, d)
    IN [coarse |-> ranked.coarse, fine |-> ranked.fine, exposed |-> ranked.exposed,
        randomized |-> d.randomized, logged |-> Logged(r, det, ranked.exposed)]

LEMMA RankServes ==
    ASSUME NEW r, IsRequest(r), NEW d \in Draws(r, Deterministic(r))
    PROVE  Served(Outcome(r, d), r)
  <1> DEFINE det == Deterministic(r)
             ranked == Ranked(r, det, d)
             s == Outcome(r, d)
             one == Whole * Base(r, det)
  <1>1. /\ s = [coarse |-> s.coarse, fine |-> s.fine, exposed |-> s.exposed,
                randomized |-> s.randomized, logged |-> s.logged]
        /\ s.coarse = ranked.coarse /\ s.fine = ranked.fine /\ s.exposed = ranked.exposed
        /\ s.randomized = d.randomized /\ s.logged = Logged(r, det, ranked.exposed)
    BY DEF Outcome
  <1>2. Nested(ranked, r) /\ Nested(det, r)
    BY RankedNested, DeterministicNested
  <1>3. s.randomized => Rate(r) > 0
    BY <1>1 DEF Draws
  <1> HIDE DEF det, ranked, s, one
  <1>4. Nested(s, r)
    BY <1>1, <1>2 DEF Nested
  <1>5. /\ Held(det.coarse) \subseteq Held(r.recall.item)
        /\ Held(det.fine) \subseteq Held(r.recall.item)
        /\ Held(det.exposed) \subseteq Held(r.recall.item)
    BY <1>2 DEF Nested, IsRow, IsFull
  <1>6. ASSUME NEW i \in Held(r.recall.item)
        PROVE  /\ Within(s.logged.coarse[i], 0, one)
               /\ Within(s.logged.fine[i], 0, one)
               /\ Within(s.logged.candidate[i], 0, one)
    <2>1. /\ s.logged.coarse[i] = Admission(r, det, det.coarse, i)
          /\ s.logged.fine[i] = Admission(r, det, det.fine, i)
          /\ s.logged.candidate[i] = Admission(r, det, det.exposed, i)
      BY <1>1, <1>6 DEF Logged
    <2>2. /\ Within(Admission(r, det, det.coarse, i), 0, one)
          /\ Within(Admission(r, det, det.fine, i), 0, one)
          /\ Within(Admission(r, det, det.exposed, i), 0, one)
      BY <1>5, AdmissionFacts DEF det, one
    <2> QED  BY <2>1, <2>2
  <1>7. Served(s, r)
    BY <1>1, <1>3, <1>4, <1>6 DEF Served, one, det
  <1> QED  BY <1>7 DEF s

LEMMA RankPossible ==
    ASSUME NeverCertain, NEW r, IsRequest(r), NEW d \in Draws(r, Deterministic(r))
    PROVE  ShownPossible(Outcome(r, d), r)
  <1> DEFINE det == Deterministic(r)
             slate == Ranked(r, det, d).exposed
             s == Outcome(r, d)
  <1>1. s.exposed = slate /\ s.logged = Logged(r, det, slate)
    BY DEF Outcome
  <1>2. ASSUME NEW p \in 1..ExposeK, slate[p] # None
        PROVE  Within(LoggedPosition(r, det, slate, p), 1, Whole * Base(r, det))
    BY <1>2, PositionFacts
  <1> HIDE DEF det, slate, s
  <1>3. \A p \in 1..ExposeK : s.logged.position[p] = LoggedPosition(r, det, slate, p)
    BY <1>1 DEF Logged
  <1>4. ShownPossible(s, r)
    BY <1>1, <1>2, <1>3 DEF ShownPossible, det
  <1> QED  BY <1>4 DEF s

\* Replacing an ad keeps the slate full and shows only what was ranked.
LEMMA BackfillServes ==
    ASSUME NEW r, IsRequest(r), NEW s, Served(s, r), NEW p \in AdPlaces(s.exposed)
    PROVE  /\ Served(Backfilled(r, s, p), r)
           /\ ShownPossible(s, r) => ShownPossible(Backfilled(r, s, p), r)
  <1> DEFINE e == s.exposed
             fine == s.fine
             organic == Held(fine) \ (Ads \cup Held(e))
             score == Scores(r.policy.fine, s.coarse)
             best == CHOOSE i \in organic : \A j \in organic : score[i] >= score[j]
             x == IF organic = {} THEN None ELSE best
             new == [e EXCEPT ![p] = x]
             b == Backfilled(r, s, p)
  <1>1. /\ b.coarse = s.coarse /\ b.fine = fine /\ b.exposed = new
        /\ b.randomized = s.randomized /\ b.logged = s.logged
        /\ b = [coarse |-> b.coarse, fine |-> b.fine, exposed |-> b.exposed,
                randomized |-> b.randomized, logged |-> b.logged]
    <2>1. s = [coarse |-> s.coarse, fine |-> fine, exposed |-> e,
               randomized |-> s.randomized, logged |-> s.logged]
      BY DEF Served
    <2>2. b = [s EXCEPT !.exposed[p] = x]
      BY DEF Backfilled
    <2> HIDE DEF b, x, e, fine
    <2>3. b = [s EXCEPT !.exposed = [s.exposed EXCEPT ![p] = x]]
      BY <2>2
    <2>4. b = [coarse |-> s.coarse, fine |-> fine, exposed |-> [e EXCEPT ![p] = x],
               randomized |-> s.randomized, logged |-> s.logged]
      BY <2>1, <2>3 DEF e, fine
    <2> QED  BY <2>4 DEF e
  <1>2. /\ IsFull(e, fine) /\ IsRow(fine, FineK, Held(s.coarse))
        /\ IsRow(s.coarse, CoarseK, Held(r.recall.item))
    BY DEF Served, Nested
  <1>3. /\ e \in RowOf(ExposeK) /\ DOMAIN e = 1..ExposeK /\ p \in 1..ExposeK /\ e[p] \in Ads
        /\ Held(fine) \subseteq Items /\ IsFiniteSet(Held(fine))
        /\ \A i \in Held(fine) : score[i] \in Int
    <2>1. ExposeK \in Nat /\ FineK \in Nat /\ CoarseK \in Nat
      BY ConstantFacts
    <2>2. e \in RowOf(ExposeK) /\ fine \in RowOf(FineK) /\ s.coarse \in RowOf(CoarseK)
          /\ Held(fine) \subseteq Held(s.coarse)
      BY <1>2 DEF IsFull, IsRow
    <2>3. DOMAIN e = 1..ExposeK /\ Held(fine) \subseteq Items /\ IsFiniteSet(Held(fine))
      <3> HIDE DEF e, fine
      <3> QED  BY <2>1, <2>2, RowFacts
    <2>4. p \in 1..ExposeK /\ e[p] \in Ads
      BY <2>3 DEF AdPlaces
    <2>5. \A i \in Held(fine) : score[i] \in Int
      BY <2>1, <2>2, ScoresTyped
    <2> QED  BY <2>2, <2>3, <2>4, <2>5
  <1> HIDE DEF e, fine, score, b
  <1>4. organic # {} => best \in organic
    <2> SUFFICES ASSUME organic # {} PROVE best \in organic
      OBVIOUS
    <2>1. IsFiniteSet(organic) /\ \A i \in organic : score[i] \in Int
      BY <1>3, FS_Subset
    <2>2. Best(organic, score) # {}
      <3> HIDE DEF organic
      <3> QED  BY <2>1, HasBest
    <2>3. \E i \in organic : \A j \in organic : score[i] >= score[j]
      BY <2>2 DEF Best
    <2> HIDE DEF organic
    <2> QED  BY <2>3
  <1> HIDE DEF best
  <1>5. /\ x # None => x \in Held(fine) /\ x \notin Ads /\ x \notin Held(e) /\ organic # {}
        /\ x = None <=> organic = {}
        /\ None \notin Ads /\ None \notin Items
    BY <1>3, <1>4, ConstantFacts
  <1>6. x \in Items \cup {None} /\ x \notin Ads
    BY <1>3, <1>5
  <1> HIDE DEF x
  <1>7. /\ new \in RowOf(ExposeK) /\ DOMAIN new = 1..ExposeK /\ new[p] = x
        /\ \A q \in 1..ExposeK : q # p => new[q] = e[q]
    BY <1>3, <1>6 DEF RowOf
  <1> HIDE DEF new
  <1>8. \A q \in 1..ExposeK : e[q] # None => e[q] \in Held(e)
    BY <1>3 DEF Held, Range
  <1>9. Distinct(new)
    BY <1>2, <1>3, <1>5, <1>7, <1>8 DEF IsFull, IsRow, Distinct
  <1>10. Held(new) \subseteq Held(fine)
    <2> SUFFICES ASSUME NEW q \in 1..ExposeK, new[q] # None PROVE new[q] \in Held(fine)
      BY <1>7 DEF Held, Range
    <2> QED  BY <1>2, <1>5, <1>7, <1>8 DEF IsFull, IsRow
  <1>11. OneAd(new)
    BY <1>2, <1>3, <1>6, <1>7 DEF IsFull, OneAd
  <1>12. Filled(new, fine)
    <2> SUFFICES ASSUME None \in Range(new), NEW i \in Held(fine), i \notin Held(new)
                 PROVE  i \in Ads
      BY DEF Filled
    <2>1. CASE organic = {}
      <3>1. i \in Ads \/ i \in Held(e)
        BY <2>1
      <3>2. ASSUME i \in Held(e) PROVE i = e[p]
        <4>1. PICK q \in 1..ExposeK : e[q] = i
          BY <1>3, <3>2 DEF Held, Range
        <4>2. i # None
          BY <3>2 DEF Held
        <4>3. q = p
          BY <1>7, <4>1, <4>2 DEF Held, Range
        <4> QED  BY <4>1, <4>3
      <3> QED  BY <3>1, <3>2, <1>3
    <2>2. CASE organic # {}
      <3>1. None \in Range(e)
        BY <2>2, <1>3, <1>5, <1>7 DEF Range
      <3>2. Held(fine) \ Held(e) \subseteq Ads
        BY <3>1, <1>2 DEF IsFull, Filled
      <3> QED  BY <2>2, <3>2
    <2> QED  BY <2>1, <2>2
  <1>13. IsFull(new, fine)
    BY <1>7, <1>9, <1>10, <1>11, <1>12 DEF IsFull, IsRow
  <1>14. Nested(b, r)
    BY <1>1, <1>2, <1>13 DEF Nested
  <1>15. Served(b, r)
    BY <1>1, <1>14 DEF Served
  <1>16. ShownPossible(s, r) => ShownPossible(b, r)
    <2> SUFFICES ASSUME ShownPossible(s, r), NEW q \in 1..ExposeK, b.exposed[q] # None
                 PROVE  Within(b.logged.position[q], 1, Whole * Base(r, Deterministic(r)))
      BY DEF ShownPossible
    <2>1. e[q] # None
      BY <1>1, <1>3, <1>5, <1>7
    <2> QED  BY <2>1, <1>1 DEF ShownPossible, e
  <1> QED  BY <1>15, <1>16 DEF b

-----------------------------------------------------------------------------
(* The theorems.                                                           *)

LEMMA CascadeInitial == CascadeInit => CascadeInv /\ PossibleInv
  BY DEF CascadeInit, CascadeInv, PossibleInv

LEMMA RetrieveStep ==
    ASSUME Retrieve
    PROVE  IsRequest(request') /\ phase' = "recalled"
  <1>1. PICK policy \in Policies :
            \E rows \in {f \in [Routes -> UNION Range(RouteRows)] :
                            \A r \in Routes : f[r] \in RouteRows[r]} :
            \E recall \in Recalls(policy, rows) :
                 request' = [policy |-> policy, recall |-> recall]
    BY DEF Retrieve
  <1>2. PICK rows : /\ \A r \in Routes : rows[r] \in RouteRows[r]
                    /\ \E recall \in Recalls(policy, rows) :
                           request' = [policy |-> policy, recall |-> recall]
    BY <1>1
  <1>3. PICK recall \in Recalls(policy, rows) :
            request' = [policy |-> policy, recall |-> recall]
    BY <1>2
  <1>4. IsRecall(recall)
    BY <1>2, RecallFacts
  <1> QED  BY <1>3, <1>4 DEF IsRequest, Retrieve

LEMMA RankStep ==
    ASSUME Rank
    PROVE  \E d \in Draws(request, Deterministic(request)) : stages' = Outcome(request, d)
  BY Zenon DEF Rank, Outcome

LEMMA BackfillStep ==
    ASSUME Backfill
    PROVE  \E p \in AdPlaces(stages.exposed) : stages' = Backfilled(request, stages, p)
  BY DEF Backfill

\* Every step keeps the rows nested and the slate full.
LEMMA CascadeStep ==
    ASSUME CascadeInv, [CascadeNext]_cascadeVars
    PROVE  CascadeInv'
  <1>1. CASE Retrieve
    BY <1>1, RetrieveStep DEF CascadeInv
  <1>2. CASE Rank
    <2>1. PICK d \in Draws(request, Deterministic(request)) : stages' = Outcome(request, d)
      BY <1>2, RankStep
    <2>2. IsRequest(request)
      BY <1>2 DEF CascadeInv, Rank
    <2>3. Served(stages', request)
      BY <2>1, <2>2, RankServes
    <2>4. phase' = "ranked" /\ request' = request
      BY <1>2 DEF Rank
    <2> QED  BY <2>2, <2>3, <2>4 DEF CascadeInv
  <1>3. CASE Render
    BY <1>3 DEF CascadeInv, Render
  <1>4. CASE Backfill
    <2>1. PICK p \in AdPlaces(stages.exposed) : stages' = Backfilled(request, stages, p)
      BY <1>4, BackfillStep
    <2>2. IsRequest(request) /\ Served(stages, request)
      BY <1>4 DEF CascadeInv, Backfill
    <2>3. Served(stages', request)
      BY <2>1, <2>2, BackfillServes
    <2>4. phase' = "rendered" /\ request' = request
      BY <1>4 DEF Backfill
    <2> QED  BY <2>2, <2>3, <2>4 DEF CascadeInv
  <1>5. CASE Refuse
    BY <1>5 DEF CascadeInv, Refuse
  <1>6. CASE UNCHANGED cascadeVars
    BY <1>6 DEF CascadeInv, cascadeVars
  <1> QED  BY <1>1, <1>2, <1>3, <1>4, <1>5, <1>6 DEF CascadeNext

\* What is shown keeps its probability.
LEMMA PossibleStep ==
    ASSUME NeverCertain, CascadeInv, PossibleInv, [CascadeNext]_cascadeVars
    PROVE  PossibleInv'
  <1>1. CASE Retrieve
    BY <1>1, RetrieveStep DEF PossibleInv
  <1>2. CASE Rank
    <2>1. PICK d \in Draws(request, Deterministic(request)) : stages' = Outcome(request, d)
      BY <1>2, RankStep
    <2>2. IsRequest(request)
      BY <1>2 DEF CascadeInv, Rank
    <2>3. ShownPossible(stages', request)
      BY <2>1, <2>2, RankPossible
    <2>4. request' = request
      BY <1>2 DEF Rank
    <2> QED  BY <2>3, <2>4 DEF PossibleInv
  <1>3. CASE Render
    BY <1>3 DEF PossibleInv, Render
  <1>4. CASE Backfill
    <2>1. PICK p \in AdPlaces(stages.exposed) : stages' = Backfilled(request, stages, p)
      BY <1>4, BackfillStep
    <2>2. IsRequest(request) /\ Served(stages, request) /\ ShownPossible(stages, request)
      BY <1>4 DEF CascadeInv, PossibleInv, Backfill
    <2>3. ShownPossible(stages', request)
      BY <2>1, <2>2, BackfillServes
    <2>4. request' = request
      BY <1>4 DEF Backfill
    <2> QED  BY <2>3, <2>4 DEF PossibleInv
  <1>5. CASE Refuse
    BY <1>5 DEF PossibleInv, Refuse
  <1>6. CASE UNCHANGED cascadeVars
    BY <1>6 DEF PossibleInv, cascadeVars
  <1> QED  BY <1>1, <1>2, <1>3, <1>4, <1>5, <1>6 DEF CascadeNext

\* From the ranking on, whatever is retrieved, drawn, injected or replaced, the stages
\* are rows of different items, each out of the one before it, and the logged
\* admissions lie between 0 and 1.
THEOREM CascadeInvariant == CascadeSpec => []CascadeInv
  BY CascadeInitial, CascadeStep, PTL DEF CascadeSpec

\* A slate that is rendered shows one ad at most and has a gap only where nothing but
\* ads is left in the fine row (ranking.py _diversified_top, ads.py _backfill_organic).
THEOREM SlatesAreFull == CascadeSpec => []SlateIsFull
  <1>1. CascadeInv => SlateIsFull
    <2> SUFFICES ASSUME CascadeInv, phase = "rendered"
                 PROVE  /\ Cardinality(AdPlaces(stages.exposed)) <= 1
                        /\ None \in Range(stages.exposed) =>
                               Held(stages.fine) \ Held(stages.exposed) \subseteq Ads
      BY DEF SlateIsFull
    <2>1. OneAd(stages.exposed) /\ Filled(stages.exposed, stages.fine)
      BY DEF CascadeInv, Served, Nested, IsFull
    <2> DEFINE A == AdPlaces(stages.exposed)
    <2>2. \A p, q \in A : p = q
      BY <2>1 DEF OneAd, AdPlaces
    <2> HIDE DEF A
    <2>3. Cardinality(A) <= 1
      <3>1. CASE A = {}
        <4>1. Cardinality(A) = 0
          BY <3>1, FS_EmptySet
        <4> QED  BY <4>1
      <3>2. CASE A # {}
        <4>1. PICK p \in A : A = {p}
          BY <2>2, <3>2
        <4>2. Cardinality(A) = 1
          BY <4>1, FS_Singleton
        <4> QED  BY <4>2
      <3> QED  BY <3>1, <3>2
    <2> QED  BY <2>1, <2>3 DEF Filled, A
  <1> QED  BY <1>1, CascadeInvariant, PTL

\* If cold start is never certain, every trace of a rendered slate passes its own
\* validation (samples/contracts.py, contracts.py): also what is shown had a positive
\* probability of at most 1 at its place.
THEOREM TracesAreValid == NeverCertain => (CascadeSpec => []TraceIsValid)
  <1> SUFFICES ASSUME NeverCertain PROVE CascadeSpec => []TraceIsValid
    OBVIOUS
  <1>1. CascadeInv /\ PossibleInv => TraceIsValid
    <2> SUFFICES ASSUME CascadeInv, PossibleInv, phase = "rendered"
                 PROVE  TraceIsValid
      BY DEF TraceIsValid
    <2>1. IsRequest(request) /\ Served(stages, request) /\ ShownPossible(stages, request)
      BY DEF CascadeInv, PossibleInv
    <2>2. /\ Distinct(request.recall.item) /\ Distinct(stages.coarse)
          /\ Distinct(stages.fine) /\ Distinct(stages.exposed)
          /\ Held(stages.coarse) \subseteq Held(request.recall.item)
          /\ Held(stages.fine) \subseteq Held(stages.coarse)
          /\ Held(stages.exposed) \subseteq Held(stages.fine)
      BY <2>1 DEF IsRequest, IsRecall, Served, Nested, IsFull, IsRow
    <2> QED  BY <2>1, <2>2 DEF TraceIsValid, Served, ShownPossible
  <1>2. CascadeInv /\ PossibleInv /\ [CascadeNext]_cascadeVars => CascadeInv' /\ PossibleInv'
    BY CascadeStep, PossibleStep
  <1> QED  BY <1>1, <1>2, CascadeInitial, PTL DEF CascadeSpec

-----------------------------------------------------------------------------
(* Counting.                                                               *)

\* What a function takes to b.
Fibre(A, f, b) == {a \in A : f[a] = b}

\* A set that a function divides into parts of the same size.
LEMMA Fibres ==
    ASSUME NEW A, NEW B, IsFiniteSet(B), NEW f \in [A -> B], NEW c \in Nat,
           \A b \in B : /\ IsFiniteSet(Fibre(A, f, b))
                        /\ Cardinality(Fibre(A, f, b)) = c
    PROVE  IsFiniteSet(A) /\ Cardinality(A) = Cardinality(B) * c
  <1> DEFINE Part(b) == Fibre(A, f, b)
             G == [b \in B |-> CHOOSE g : g \in Bijection(Part(b), 1..c)]
             h == [a \in A |-> <<f[a], G[f[a]][a]>>]
  <1>1. \A b \in B : G[b] \in Bijection(Part(b), 1..c)
    <2> SUFFICES ASSUME NEW b \in B
                 PROVE  \E g : g \in Bijection(Part(b), 1..c)
      OBVIOUS
    <2>1. IsFiniteSet(1..c) /\ Cardinality(1..c) = c
      BY FS_Interval
    <2>2. IsFiniteSet(Part(b)) /\ Cardinality(Part(b)) = c
      OBVIOUS
    <2> HIDE DEF Part
    <2> QED  BY <2>1, <2>2, FS_SameCardinalityBij DEF ExistsBijection
  <1>2. \A b \in B : /\ \A a \in Part(b) : G[b][a] \in 1..c
                     /\ \A a, d \in Part(b) : G[b][a] = G[b][d] => a = d
                     /\ \A n \in 1..c : \E a \in Part(b) : G[b][a] = n
    <2> HIDE DEF Part, G
    <2> QED  BY <1>1 DEF Bijection, Injection, Surjection, IsInjective
  <1> HIDE DEF G
  <1>3. \A a \in A : f[a] \in B /\ a \in Part(f[a])
    BY DEF Fibre
  <1>4. h \in [A -> B \X (1..c)]
    <2> HIDE DEF Part
    <2> QED  BY <1>2, <1>3
  <1>5. ASSUME NEW a \in A, NEW d \in A, h[a] = h[d]
        PROVE  a = d
    <2>1. f[a] = f[d] /\ G[f[a]][a] = G[f[d]][d]
      BY <1>5
    <2> HIDE DEF Part, h
    <2> QED  BY <2>1, <1>2, <1>3
  <1>6. ASSUME NEW b \in B, NEW n \in 1..c
        PROVE  \E a \in A : h[a] = <<b, n>>
    <2>1. PICK a \in Part(b) : G[b][a] = n
      BY <1>2
    <2>2. a \in A /\ f[a] = b
      BY DEF Fibre
    <2> HIDE DEF Part
    <2> QED  BY <2>1, <2>2
  <1>7. h \in Bijection(A, B \X (1..c))
    <2> HIDE DEF h
    <2>1. h \in Injection(A, B \X (1..c))
      BY <1>4, <1>5 DEF Injection, IsInjective
    <2>2. h \in Surjection(A, B \X (1..c))
      <3>1. \A z \in B \X (1..c) : \E a \in A : h[a] = z
        <4> SUFFICES ASSUME NEW z \in B \X (1..c) PROVE \E a \in A : h[a] = z
          OBVIOUS
        <4>1. PICK b \in B, n \in 1..c : z = <<b, n>>
          OBVIOUS
        <4> QED  BY <1>6, <4>1
      <3> HIDE DEF Part
      <3> QED  BY <1>4, <3>1, Zenon DEF Surjection
    <2> QED  BY <2>1, <2>2 DEF Bijection
  <1>8. IsFiniteSet(1..c) /\ Cardinality(1..c) = c
    BY FS_Interval
  <1>9. IsFiniteSet(B \X (1..c)) /\ Cardinality(B \X (1..c)) = Cardinality(B) * c
    BY <1>8, FS_Product
  <1>10. ExistsBijection(B \X (1..c), A)
    <2> HIDE DEF h
    <2> QED  BY <1>7, Fun_ExistsBijSymmetric DEF ExistsBijection
  <1> QED  BY <1>9, <1>10, FS_Bijection

\* Sets that map onto each other one to one have the same size.
LEMMA SameSize ==
    ASSUME NEW A, NEW B, IsFiniteSet(A), NEW f \in [A -> B],
           \A a, d \in A : f[a] = f[d] => a = d,
           \A b \in B : \E a \in A : f[a] = b
    PROVE  IsFiniteSet(B) /\ Cardinality(B) = Cardinality(A)
  <1>1. f \in Bijection(A, B)
    BY DEF Bijection, Injection, Surjection, IsInjective
  <1> QED  BY <1>1, FS_Bijection DEF ExistsBijection

\* The sequences of k different items of S.
Arranged(S, k) == Leading(S, k, [i \in S |-> 0])

IsArranged(s, S, k) ==
    s \in Seq(S) /\ Len(s) = k /\ \A p, q \in 1..k : s[p] = s[q] => p = q

\* With equal scores every sequence of different items leads.
LEMMA ArrangedIs ==
    ASSUME NEW S, NEW k \in Nat
    PROVE  \A s : s \in Arranged(S, k) <=> IsArranged(s, S, k)
  <1> DEFINE score == [i \in S |-> 0]
  <1>1. \A s \in Arranged(S, k) : IsArranged(s, S, k)
    BY LeadFacts DEF Arranged, IsArranged
  <1>2. PICK lead : Leading(S, k, score) = lead[k] /\ Rounds(lead, S, k, score)
    BY LeadIs
  <1>3. \A T \in SUBSET S : Best(T, score) = T
    BY DEF Best
  <1> HIDE DEF score
  <1> DEFINE T == {n \in 0..k : \A s : IsArranged(s, S, n) => s \in lead[n]}
  <1>4. 0 \in T
    <2>1. \A s : IsArranged(s, S, 0) => s = <<>>
      BY DEF IsArranged
    <2> QED  BY <1>2, <2>1 DEF Rounds
  <1>5. \A n \in 0..(k - 1) : n \in T => n + 1 \in T
    <2> SUFFICES ASSUME NEW n \in 0..(k - 1), n \in T, NEW s, IsArranged(s, S, n + 1)
                 PROVE  s \in lead[n + 1]
      OBVIOUS
    <2> DEFINE t == [p \in 1..n |-> s[p]]
               x == s[n + 1]
    <2>1. s \in Seq(S) /\ Len(s) = n + 1 /\ n \in Nat
      BY DEF IsArranged
    <2>2. t \in Seq(S) /\ Len(t) = n /\ x \in S
      BY <2>1
    <2>3. s = Append(t, x)
      BY <2>1, <2>2
    <2>4. \A p, q \in 1..(n + 1) : s[p] = s[q] => p = q
      BY DEF IsArranged
    <2>5. IsArranged(t, S, n)
      BY <2>1, <2>2, <2>4 DEF IsArranged
    <2>6. x \notin Range(t)
      BY <2>1, <2>4 DEF Range
    <2> HIDE DEF t, x
    <2>7. t \in lead[n]
      BY <2>5
    <2>8. x \in Best(S \ Range(t), score)
      BY <1>3, <2>2, <2>6
    <2> QED  BY <1>2, <2>3, <2>7, <2>8 DEF Rounds
  <1>6. k \in T
    <2> HIDE DEF T
    <2> QED  BY <1>4, <1>5, Climb
  <1> QED  BY <1>1, <1>2, <1>6 DEF Arranged, score

\* The first m places of a sequence.
Start(s, m) == [p \in 1..m |-> s[p]]

\* The beginning of a sequence of different items is one.
LEMMA StartFacts ==
    ASSUME NEW S, NEW k \in Nat, NEW m \in 0..k, NEW s, IsArranged(s, S, k)
    PROVE  /\ IsArranged(Start(s, m), S, m)
           /\ \A p \in 1..m : Start(s, m)[p] = s[p]
  <1>1. s \in Seq(S) /\ Len(s) = k /\ m \in Nat /\ \A p \in 1..m : p \in 1..k
    BY DEF IsArranged
  <1>2. Start(s, m) \in Seq(S) /\ Len(Start(s, m)) = m
    BY <1>1 DEF Start
  <1> QED  BY <1>1, <1>2 DEF Start, IsArranged

\* A sequence can be continued by every item it lacks.
Continued(S, X, k) == {u \in Arranged(S, k + 1) : Start(u, k) \in X}

\* There is one longer sequence for each item a sequence lacks.
LEMMA ContinuedFacts ==
    ASSUME NEW S, IsFiniteSet(S), NEW k \in Nat, k < Cardinality(S),
           NEW X, IsFiniteSet(X), X \subseteq Arranged(S, k)
    PROVE  /\ IsFiniteSet(Continued(S, X, k))
           /\ Cardinality(Continued(S, X, k)) = Cardinality(X) * (Cardinality(S) - k)
  <1> DEFINE Y == Continued(S, X, k)
             f == [u \in Y |-> Start(u, k)]
             c == Cardinality(S) - k
  <1>1. Cardinality(S) \in Nat /\ c \in Nat
    BY FS_CardinalityType
  <1>2. f \in [Y -> X]
    BY DEF Continued
  <1>3. ASSUME NEW t \in X
        PROVE  IsFiniteSet(Fibre(Y, f, t)) /\ Cardinality(Fibre(Y, f, t)) = c
    <2> DEFINE P == Fibre(Y, f, t)
               R == S \ Range(t)
               g == [i \in R |-> Append(t, i)]
    <2>1. t \in Seq(S) /\ Len(t) = k /\ \A p, q \in 1..k : t[p] = t[q] => p = q
      BY ArrangedIs DEF IsArranged
    <2>2. IsFiniteSet(1..k) /\ Cardinality(1..k) = k
      BY FS_Interval
    <2>3. IsFiniteSet(Range(t)) /\ Cardinality(Range(t)) = k
      <3>1. /\ t \in [1..k -> Range(t)]
            /\ \A i \in Range(t) : \E p \in 1..k : t[p] = i
        BY <2>1 DEF Range
      <3> QED  BY <2>1, <2>2, <3>1, SameSize
    <2>4. Range(t) \subseteq S
      BY <2>1 DEF Range
    <2>5. IsFiniteSet(R) /\ Cardinality(R) = c
      <3>1. S \cap Range(t) = Range(t)
        BY <2>4
      <3> QED  BY <2>3, <3>1, FS_Difference
    <2>6. ASSUME NEW i \in R
          PROVE  /\ Append(t, i) \in P
                 /\ Append(t, i)[k + 1] = i
      <3> DEFINE u == Append(t, i)
      <3>1. /\ u \in Seq(S) /\ Len(u) = k + 1
            /\ \A p \in 1..k : u[p] = t[p]
            /\ u[k + 1] = i
        BY <2>1
      <3>2. \A p \in 1..k : t[p] # i
        BY <2>1 DEF Range
      <3>3. \A p \in 1..(k + 1) : p \in 1..k \/ p = k + 1
        OBVIOUS
      <3> HIDE DEF u
      <3>4. IsArranged(u, S, k + 1)
        BY <2>1, <3>1, <3>2, <3>3 DEF IsArranged
      <3>5. u \in Arranged(S, k + 1)
        BY <3>4, ArrangedIs
      <3>6. Start(u, k) = t
        BY <2>1, <3>1 DEF Start
      <3> QED  BY <3>1, <3>5, <3>6 DEF Continued, Fibre, u
    <2>7. ASSUME NEW u \in P
          PROVE  \E i \in R : u = Append(t, i)
      <3>1. u \in Arranged(S, k + 1) /\ Start(u, k) = t
        BY DEF Continued, Fibre
      <3>2. /\ u \in Seq(S) /\ Len(u) = k + 1
            /\ \A p, q \in 1..(k + 1) : u[p] = u[q] => p = q
        BY <3>1, ArrangedIs DEF IsArranged
      <3>3. \A p \in 1..k : t[p] = u[p]
        BY <3>1 DEF Start
      <3>4. u[k + 1] \in S /\ u[k + 1] \notin Range(t)
        BY <2>1, <3>2, <3>3 DEF Range
      <3>5. u = Append(t, u[k + 1])
        BY <2>1, <3>2, <3>3
      <3> QED  BY <3>4, <3>5
    <2> HIDE DEF P, R, f
    <2>8. g \in [R -> P]
      BY <2>6
    <2>9. \A i, j \in R : g[i] = g[j] => i = j
      BY <2>6
    <2>10. \A u \in P : \E i \in R : g[i] = u
      BY <2>7
    <2> HIDE DEF g
    <2>11. IsFiniteSet(P) /\ Cardinality(P) = c
      BY <2>5, <2>8, <2>9, <2>10, SameSize
    <2> QED  BY <2>11 DEF P
  <1> HIDE DEF Y, f, c
  <1>4. IsFiniteSet(Y) /\ Cardinality(Y) = Cardinality(X) * c
    BY <1>1, <1>2, <1>3, Fibres
  <1> QED  BY <1>4 DEF Y, c

IsFactorial(g) == g = [n \in Nat |-> IF n = 0 THEN 1 ELSE n * g[n - 1]]

\* The recursion of the factorial has a solution.
LEMMA FactorialIs ==
    /\ factorial[0] = 1
    /\ \A n \in Nat : factorial[n] \in Nat \ {0} /\ factorial[n + 1] = (n + 1) * factorial[n]
  <1> DEFINE D == Nat \X (Nat \ {0})
             g == [x \in D |-> <<x[1] + 1, (x[1] + 1) * x[2]>>]
             a == <<0, 1>>
             F(k) == CHOOSE f : Iterates(f, g, a, k, D)
             G == [k \in Nat |-> F(k)[k][2]]
  <1>1. a \in D
    OBVIOUS
  <1>2. g \in [D -> D]
    <2>1. \A x \in D : /\ x[1] + 1 \in Nat
                       /\ (x[1] + 1) * x[2] \in Nat \ {0}
      <3> SUFFICES ASSUME NEW y \in Nat, NEW z \in Nat \ {0}
                   PROVE  (y + 1) * z \in Nat \ {0}
        OBVIOUS
      <3>1. y * z \in Nat
        OBVIOUS
      <3>2. (y + 1) * z = y * z + z
        OBVIOUS
      <3> QED  BY <3>1, <3>2
    <2> QED  BY <2>1
  <1> HIDE DEF D
  <1>3. \A k \in Nat : Iterates(F(k), g, a, k, D)
    <2> SUFFICES ASSUME NEW k \in Nat PROVE \E f : Iterates(f, g, a, k, D)
      OBVIOUS
    <2> HIDE DEF g, a
    <2> QED  BY <1>1, <1>2, Iteration
  <1>4. \A k \in Nat : F(k) \in [0..k -> D] /\ F(k)[0] = a /\ \A n \in 1..k : F(k)[n] = g[F(k)[n - 1]]
    <2> HIDE DEF F, g, a
    <2> QED  BY <1>3 DEF Iterates
  <1> HIDE DEF F
  <1>5. ASSUME NEW k \in Nat
        PROVE  \A n \in 0..k : F(k + 1)[n] = F(k)[n]
    <2> DEFINE low == F(k)
               high == F(k + 1)
               T == {n \in 0..k : high[n] = low[n]}
    <2>0. /\ low[0] = a /\ high[0] = a
          /\ \A n \in 1..k : low[n] = g[low[n - 1]]
          /\ \A n \in 1..(k + 1) : high[n] = g[high[n - 1]]
      <3>1. k + 1 \in Nat
        OBVIOUS
      <3> HIDE DEF g, a
      <3> QED  BY <1>4, <3>1
    <2> HIDE DEF low, high
    <2>1. 0 \in T
      BY <2>0
    <2>2. \A n \in 0..(k - 1) : n \in T => n + 1 \in T
      <3> SUFFICES ASSUME NEW n \in 0..(k - 1), high[n] = low[n]
                   PROVE  high[n + 1] = low[n + 1] /\ n + 1 \in 0..k
        OBVIOUS
      <3>1. n + 1 \in 1..k /\ n + 1 \in 1..(k + 1) /\ (n + 1) - 1 = n
        OBVIOUS
      <3> HIDE DEF g
      <3> QED  BY <2>0, <3>1
    <2> HIDE DEF T
    <2>3. \A n \in 0..k : n \in T
      BY <2>1, <2>2, Climb
    <2> QED  BY <2>3 DEF T, low, high
  <1>6. \A k \in Nat : F(k)[k] \in D /\ F(k + 1)[k + 1] = g[F(k)[k]]
    <2> SUFFICES ASSUME NEW k \in Nat
                 PROVE  F(k)[k] \in D /\ F(k + 1)[k + 1] = g[F(k)[k]]
      OBVIOUS
    <2>1. k \in 0..k /\ k + 1 \in 1..(k + 1) /\ (k + 1) - 1 = k /\ k + 1 \in Nat
      OBVIOUS
    <2> HIDE DEF g
    <2>2. F(k + 1)[k] = F(k)[k]
      BY <1>5, <2>1
    <2> QED  BY <1>4, <2>1, <2>2
  <1> USE DEF D
  <1>7. \A k \in Nat : F(k)[k][1] = k
    <2> DEFINE Low(k) == {n \in 0..k : F(n)[n][1] = n}
    <2> SUFFICES ASSUME NEW k \in Nat PROVE k \in Low(k)
      OBVIOUS
    <2>1. 0 \in Low(k)
      <3>1. F(0)[0] = a
        BY <1>4
      <3> QED  BY <3>1
    <2>2. \A n \in 0..(k - 1) : n \in Low(k) => n + 1 \in Low(k)
      <3> SUFFICES ASSUME NEW n \in 0..(k - 1), F(n)[n][1] = n
                   PROVE  F(n + 1)[n + 1][1] = n + 1
        OBVIOUS
      <3>1. F(n)[n] \in D /\ F(n + 1)[n + 1] = g[F(n)[n]]
        BY <1>6
      <3>2. g[F(n)[n]][1] = F(n)[n][1] + 1
        BY <3>1
      <3> HIDE DEF g
      <3> QED  BY <3>1, <3>2
    <2>3. \A n \in 0..k : n \in Low(k)
      <3> DEFINE T == Low(k)
      <3>1. 0 \in T /\ \A n \in 0..(k - 1) : n \in T => n + 1 \in T
        BY <2>1, <2>2
      <3> HIDE DEF T
      <3>2. \A n \in 0..k : n \in T
        BY <3>1, Climb
      <3> QED  BY <3>2 DEF T
    <2> QED  BY <2>3
  <1>8. G[0] = 1
    <2>1. F(0)[0] = a
      BY <1>4
    <2> QED  BY <2>1
  <1>9. \A k \in Nat : G[k] \in Nat \ {0} /\ G[k + 1] = (k + 1) * G[k]
    <2> SUFFICES ASSUME NEW k \in Nat
                 PROVE  G[k] \in Nat \ {0} /\ G[k + 1] = (k + 1) * G[k]
      OBVIOUS
    <2>1. F(k)[k] \in D /\ F(k + 1)[k + 1] = g[F(k)[k]] /\ F(k)[k][1] = k
      BY <1>6, <1>7
    <2>2. g[F(k)[k]][2] = (F(k)[k][1] + 1) * F(k)[k][2]
      BY <2>1
    <2>3. G[k] = F(k)[k][2] /\ G[k + 1] = F(k + 1)[k + 1][2]
      OBVIOUS
    <2>4. F(k)[k][2] \in Nat \ {0}
      BY <2>1
    <2> HIDE DEF g, G, D
    <2> QED  BY <2>1, <2>2, <2>3, <2>4
  <1> HIDE DEF G
  <1>10. IsFactorial(G)
    <2>1. DOMAIN G = Nat /\ G = [n \in Nat |-> G[n]]
      BY DEF G
    <2>2. \A n \in Nat : G[n] = IF n = 0 THEN 1 ELSE n * G[n - 1]
      <3> SUFFICES ASSUME NEW n \in Nat, n # 0 PROVE G[n] = n * G[n - 1]
        BY <1>8
      <3>1. n - 1 \in Nat /\ (n - 1) + 1 = n
        OBVIOUS
      <3> QED  BY <1>9, <3>1
    <2> QED  BY <2>1, <2>2 DEF IsFactorial
  <1>11. IsFactorial(factorial)
    <2>1. factorial = CHOOSE h : IsFactorial(h)
      BY DEF factorial, IsFactorial
    <2> QED  BY <1>10, <2>1
  <1>12. factorial[0] = 1
    BY <1>11 DEF IsFactorial
  <1>13. \A n \in Nat : factorial[n + 1] = (n + 1) * factorial[n]
    <2> SUFFICES ASSUME NEW n \in Nat PROVE factorial[n + 1] = (n + 1) * factorial[n]
      OBVIOUS
    <2>1. n + 1 \in Nat /\ n + 1 # 0 /\ (n + 1) - 1 = n
      OBVIOUS
    <2> QED  BY <1>11, <2>1 DEF IsFactorial
  <1>14. \A k \in Nat : factorial[k] = G[k]
    <2> SUFFICES ASSUME NEW k \in Nat PROVE factorial[k] = G[k]
      OBVIOUS
    <2> DEFINE T == {n \in 0..k : factorial[n] = G[n]}
    <2>1. 0 \in T /\ \A n \in 0..(k - 1) : n \in T => n + 1 \in T
      BY <1>8, <1>9, <1>12, <1>13
    <2> HIDE DEF T
    <2>2. \A n \in 0..k : n \in T
      BY <2>1, Climb
    <2> QED  BY <2>2 DEF T
  <1> QED  BY <1>9, <1>12, <1>13, <1>14

\* The arrangements of k items that start with t.
Starting(S, k, t) == {u \in Arranged(S, k) : Start(u, Len(t)) = t}

Continuations(S, m, k, c) ==
    \A t \in Arranged(S, m) :
        IsFiniteSet(Starting(S, k, t)) /\ Cardinality(Starting(S, k, t)) = c

\* Whatever the first items, there are equally many ways to go on.
LEMMA ContinuationsExist ==
    ASSUME NEW S, IsFiniteSet(S), NEW m \in Nat, NEW k \in Nat, m <= k, k <= Cardinality(S)
    PROVE  \E c \in Nat : /\ Continuations(S, m, k, c)
                          /\ c * factorial[Cardinality(S) - k] = factorial[Cardinality(S) - m]
  <1> DEFINE n == Cardinality(S)
             Good(j, c) == /\ Continuations(S, m, m + j, c)
                           /\ c * factorial[n - (m + j)] = factorial[n - m]
             T == {j \in 0..(k - m) : \E c \in Nat : Good(j, c)}
  <1>0. n \in Nat
    BY FS_CardinalityType
  <1> HIDE DEF n
  <1>1. 0 \in T
    <2>1. Continuations(S, m, m, 1)
      <3>1. ASSUME NEW t \in Arranged(S, m)
            PROVE  Starting(S, m, t) = {t}
        <4>1. IsArranged(t, S, m) /\ Len(t) = m
          BY ArrangedIs DEF IsArranged
        <4>2. \A u \in Arranged(S, m) : Start(u, m) = u
          <5> SUFFICES ASSUME NEW u \in Arranged(S, m) PROVE Start(u, m) = u
            OBVIOUS
          <5>1. u \in Seq(S) /\ Len(u) = m
            BY ArrangedIs DEF IsArranged
          <5> QED  BY <5>1 DEF Start
        <4> QED  BY <4>1, <4>2 DEF Starting
      <3>2. \A t : IsFiniteSet({t}) /\ Cardinality({t}) = 1
        BY FS_Singleton
      <3> QED  BY <3>1, <3>2 DEF Continuations
    <2>2. factorial[n - m] \in Nat /\ m + 0 = m
      BY <1>0, FactorialIs DEF n
    <2>3. 1 * factorial[n - m] = factorial[n - m]
      BY <2>2
    <2>4. Good(0, 1)
      BY <2>1, <2>2, <2>3
    <2> HIDE DEF Good
    <2> QED  BY <2>4
  <1>2. \A j \in 0..((k - m) - 1) : j \in T => j + 1 \in T
    <2> SUFFICES ASSUME NEW j \in 0..((k - m) - 1), j \in T PROVE j + 1 \in T
      OBVIOUS
    <2>1. PICK c \in Nat : Good(j, c)
      OBVIOUS
    <2> DEFINE h == m + j
               d == c * (n - h)
    <2>2. /\ h \in Nat /\ h < n /\ h + 1 = m + (j + 1) /\ m <= h /\ m \in 0..h
          /\ n - h \in Nat /\ n - (h + 1) \in Nat /\ n - h = (n - (h + 1)) + 1
      BY <1>0 DEF n
    <2>3. Continuations(S, m, h, c) /\ c * factorial[n - h] = factorial[n - m]
      BY <2>1
    <2> HIDE DEF h
    <2>4. ASSUME NEW t \in Arranged(S, m)
          PROVE  /\ IsFiniteSet(Starting(S, h + 1, t))
                 /\ Cardinality(Starting(S, h + 1, t)) = d
      <3> DEFINE X == Starting(S, h, t)
      <3>1. IsFiniteSet(X) /\ Cardinality(X) = c /\ X \subseteq Arranged(S, h)
        BY <2>3 DEF Continuations, Starting
      <3>2. Len(t) = m
        BY ArrangedIs DEF IsArranged
      <3>3. ASSUME NEW u \in Arranged(S, h + 1)
            PROVE  Start(u, m) = t <=> Start(u, h) \in X
        <4>1. IsArranged(u, S, h + 1) /\ h + 1 \in Nat /\ h \in 0..(h + 1)
          BY <2>2, ArrangedIs
        <4>2. Start(u, h) \in Arranged(S, h)
          BY <2>2, <4>1, StartFacts, ArrangedIs
        <4>3. Start(Start(u, h), m) = Start(u, m)
          BY <2>2 DEF Start
        <4> QED  BY <3>2, <4>2, <4>3 DEF Starting
      <3>4. Starting(S, h + 1, t) = Continued(S, X, h)
        <4> HIDE DEF X
        <4> QED  BY <3>2, <3>3 DEF Starting, Continued
      <3> HIDE DEF X
      <3> QED  BY <2>2, <3>1, <3>4, ContinuedFacts DEF n
    <2>5. Continuations(S, m, h + 1, d)
      <3> HIDE DEF d
      <3> QED  BY <2>4 DEF Continuations
    <2>6. d \in Nat /\ d * factorial[n - (h + 1)] = factorial[n - m]
      <3> DEFINE x == n - (h + 1)
      <3>1. x \in Nat /\ n - h = x + 1
        BY <2>2
      <3> HIDE DEF x
      <3>2. factorial[x] \in Nat /\ factorial[x + 1] = (x + 1) * factorial[x]
        BY <3>1, FactorialIs
      <3>3. \A f \in Nat : (c * (x + 1)) * f = c * ((x + 1) * f)
        BY <3>1
      <3>4. c * factorial[x + 1] = factorial[n - m]
        BY <2>3, <3>1
      <3>5. d = c * (x + 1) /\ d \in Nat
        BY <3>1
      <3> HIDE DEF d
      <3>6. d * factorial[x] = factorial[n - m]
        BY <3>2, <3>3, <3>4, <3>5
      <3> QED  BY <3>5, <3>6 DEF x
    <2>7. Good(j + 1, d)
      BY <2>2, <2>5, <2>6
    <2> HIDE DEF Good, d
    <2> QED  BY <2>6, <2>7
  <1>3. k - m \in T
    <2>1. k - m \in Nat
      OBVIOUS
    <2> HIDE DEF T
    <2> QED  BY <1>1, <1>2, <2>1, Climb
  <1>4. PICK c \in Nat : Good(k - m, c)
    BY <1>3
  <1>5. m + (k - m) = k
    OBVIOUS
  <1> QED  BY <1>4, <1>5 DEF n

\* How many arrangements of k items there are.
LEMMA ArrangedCount ==
    ASSUME NEW S, IsFiniteSet(S), NEW k \in Nat, k <= Cardinality(S)
    PROVE  /\ IsFiniteSet(Arranged(S, k)) /\ Cardinality(Arranged(S, k)) \in Nat \ {0}
           /\ Cardinality(Arranged(S, k)) * factorial[Cardinality(S) - k]
                = factorial[Cardinality(S)]
  <1>1. Cardinality(S) \in Nat /\ Cardinality(S) - 0 = Cardinality(S) /\ 0 \in Nat /\ 0 <= k
    BY FS_CardinalityType
  <1>2. PICK c \in Nat : /\ Continuations(S, 0, k, c)
                         /\ c * factorial[Cardinality(S) - k] = factorial[Cardinality(S)]
    BY <1>1, ContinuationsExist
  <1>3. <<>> \in Arranged(S, 0)
    <2>1. IsArranged(<<>>, S, 0)
      BY DEF IsArranged
    <2>2. 0 \in Nat
      OBVIOUS
    <2> QED  BY <2>1, <2>2, ArrangedIs
  <1>4. Starting(S, k, <<>>) = Arranged(S, k)
    <2>1. \A u : Start(u, 0) = <<>>
      BY DEF Start
    <2> QED  BY <2>1 DEF Starting
  <1>5. IsFiniteSet(Arranged(S, k)) /\ Cardinality(Arranged(S, k)) = c
    BY <1>2, <1>3, <1>4 DEF Continuations
  <1>6. c # 0
    <2>1. factorial[Cardinality(S)] # 0 /\ factorial[Cardinality(S) - k] \in Nat
      BY <1>1, FactorialIs
    <2> QED  BY <1>2, <2>1
  <1> QED  BY <1>2, <1>5, <1>6

\* The share of the arrangements that start alike.
LEMMA StartingCount ==
    ASSUME NEW S, IsFiniteSet(S), NEW m \in Nat, NEW k \in Nat, m <= k, k <= Cardinality(S),
           NEW t \in Arranged(S, m)
    PROVE  /\ IsFiniteSet(Starting(S, k, t)) /\ Cardinality(Starting(S, k, t)) \in Nat
           /\ Cardinality(Arranged(S, k))
                = Cardinality(Arranged(S, m)) * Cardinality(Starting(S, k, t))
  <1> DEFINE A == Arranged(S, k)
             B == Arranged(S, m)
             f == [u \in A |-> Start(u, m)]
  <1>1. PICK c \in Nat : Continuations(S, m, k, c)
    BY ContinuationsExist
  <1>2. IsFiniteSet(B)
    BY FS_CardinalityType, ArrangedCount
  <1>3. f \in [A -> B]
    <2>1. \A u \in A : Start(u, m) \in B
      BY StartFacts, ArrangedIs
    <2> QED  BY <2>1
  <1>4. ASSUME NEW b \in B
        PROVE  IsFiniteSet(Fibre(A, f, b)) /\ Cardinality(Fibre(A, f, b)) = c
    <2>1. Len(b) = m
      BY ArrangedIs DEF IsArranged
    <2>2. Fibre(A, f, b) = Starting(S, k, b)
      BY <2>1 DEF Fibre, Starting
    <2> QED  BY <1>1, <2>2 DEF Continuations
  <1> HIDE DEF A, B, f
  <1>5. Cardinality(A) = Cardinality(B) * c
    BY <1>2, <1>3, <1>4, Fibres
  <1>6. IsFiniteSet(Starting(S, k, t)) /\ Cardinality(Starting(S, k, t)) = c
    BY <1>1 DEF Continuations
  <1> QED  BY <1>5, <1>6 DEF A, B

\* The arrangements of k items with i at place p.
Placed(S, k, p, i) == {s \in Arranged(S, k) : s[p] = i}

\* The sequence with two items swapped.
Swapped(s, k, i, j) ==
    [q \in 1..k |-> IF s[q] = i THEN j ELSE IF s[q] = j THEN i ELSE s[q]]

\* Swapping two items everywhere keeps the items of a sequence different.
LEMMA SwappedFacts ==
    ASSUME NEW S, NEW k \in Nat, NEW i \in S, NEW j \in S, NEW p \in 1..k,
           NEW s \in Placed(S, k, p, i)
    PROVE  /\ Swapped(s, k, i, j) \in Placed(S, k, p, j)
           /\ Swapped(Swapped(s, k, i, j), k, j, i) = s
  <1> DEFINE t == Swapped(s, k, i, j)
             u == Swapped(t, k, j, i)
  <1>1. s[p] = i /\ IsArranged(s, S, k)
    BY ArrangedIs DEF Placed
  <1>2. s \in Seq(S) /\ Len(s) = k /\ \A a, b \in 1..k : s[a] = s[b] => a = b
    BY <1>1 DEF IsArranged
  <1>3. \A q \in 1..k : s[q] \in S
    BY <1>2
  <1>4. \A q \in 1..k : t[q] = IF s[q] = i THEN j ELSE IF s[q] = j THEN i ELSE s[q]
    BY DEF Swapped
  <1>5. t \in Seq(S) /\ Len(t) = k
    <2>1. t \in [1..k -> S]
      BY <1>3 DEF Swapped
    <2> HIDE DEF t
    <2> QED  BY <2>1
  <1> HIDE DEF t
  <1>6. \A a, b \in 1..k : t[a] = t[b] => a = b
    BY <1>2, <1>4
  <1>7. t \in Placed(S, k, p, j)
    <2>1. IsArranged(t, S, k)
      BY <1>5, <1>6 DEF IsArranged
    <2>2. t[p] = j
      BY <1>1, <1>4
    <2> QED  BY <2>1, <2>2, ArrangedIs DEF Placed
  <1>8. u = s
    <2>1. u = [q \in 1..k |-> u[q]] /\ s = [q \in 1..k |-> s[q]]
      BY <1>2 DEF Swapped
    <2>2. \A q \in 1..k : u[q] = IF t[q] = j THEN i ELSE IF t[q] = i THEN j ELSE t[q]
      BY DEF Swapped
    <2> HIDE DEF u
    <2>3. \A q \in 1..k : u[q] = s[q]
      BY <2>2, <1>4
    <2> QED  BY <2>1, <2>3
  <1> QED  BY <1>7, <1>8 DEF t

\* Every item is at a place of as many arrangements as every other.
LEMMA PlacedCount ==
    ASSUME NEW S, IsFiniteSet(S), NEW k \in Nat, k <= Cardinality(S),
           NEW p \in 1..k, NEW i \in S
    PROVE  /\ IsFiniteSet(Placed(S, k, p, i)) /\ Cardinality(Placed(S, k, p, i)) \in Nat
           /\ Cardinality(S) * Cardinality(Placed(S, k, p, i)) = Cardinality(Arranged(S, k))
  <1> DEFINE A == Arranged(S, k)
             f == [s \in A |-> s[p]]
             c == Cardinality(Placed(S, k, p, i))
  <1>1. IsFiniteSet(A)
    BY ArrangedCount
  <1>2. \A j : IsFiniteSet(Placed(S, k, p, j)) /\ Cardinality(Placed(S, k, p, j)) \in Nat
    <2> SUFFICES ASSUME NEW j
                 PROVE  IsFiniteSet(Placed(S, k, p, j)) /\ Cardinality(Placed(S, k, p, j)) \in Nat
      OBVIOUS
    <2>1. Placed(S, k, p, j) \subseteq A
      BY DEF Placed
    <2> QED  BY <1>1, <2>1, FS_Subset, FS_CardinalityType
  <1>3. ASSUME NEW j \in S
        PROVE  Cardinality(Placed(S, k, p, j)) = c
    <2> DEFINE X == Placed(S, k, p, i)
               Y == Placed(S, k, p, j)
               g == [s \in X |-> Swapped(s, k, i, j)]
    <2>1. g \in [X -> Y]
      BY SwappedFacts
    <2>2. ASSUME NEW s \in X, NEW t \in X, g[s] = g[t] PROVE s = t
      <3>1. Swapped(s, k, i, j) = Swapped(t, k, i, j)
        BY <2>2
      <3>2. Swapped(Swapped(s, k, i, j), k, j, i) = s /\ Swapped(Swapped(t, k, i, j), k, j, i) = t
        BY SwappedFacts
      <3> QED  BY <3>1, <3>2
    <2>3. ASSUME NEW t \in Y PROVE \E s \in X : g[s] = t
      <3>1. Swapped(t, k, j, i) \in X /\ Swapped(Swapped(t, k, j, i), k, i, j) = t
        BY SwappedFacts
      <3> QED  BY <3>1
    <2>4. IsFiniteSet(X)
      BY <1>2
    <2> HIDE DEF X, Y, g
    <2>5. Cardinality(Y) = Cardinality(X)
      BY <2>1, <2>2, <2>3, <2>4, SameSize
    <2> QED  BY <2>5 DEF X, Y
  <1>4. f \in [A -> S]
    <2>1. \A s \in A : s[p] \in S
      BY ArrangedIs DEF IsArranged
    <2> QED  BY <2>1
  <1>5. ASSUME NEW j \in S
        PROVE  IsFiniteSet(Fibre(A, f, j)) /\ Cardinality(Fibre(A, f, j)) = c
    <2>1. Fibre(A, f, j) = Placed(S, k, p, j)
      BY DEF Fibre, Placed
    <2> HIDE DEF c
    <2> QED  BY <1>2, <1>3, <2>1
  <1>6. c \in Nat
    BY <1>2
  <1> HIDE DEF A, f, c
  <1>7. Cardinality(A) = Cardinality(S) * c
    BY <1>4, <1>5, <1>6, Fibres
  <1> QED  BY <1>2, <1>7 DEF A, c

\* The arrangements of k items with i among the first m.
Among(S, k, m, i) == {s \in Arranged(S, k) : \E p \in 1..m : s[p] = i}

\* An item is among the first m of k places in m of n parts of the sequences.
LEMMA AmongCount ==
    ASSUME NEW S, IsFiniteSet(S), NEW k \in Nat, k <= Cardinality(S), NEW m \in 0..k, NEW i \in S
    PROVE  /\ IsFiniteSet(Among(S, k, m, i)) /\ Cardinality(Among(S, k, m, i)) \in Nat
           /\ Cardinality(S) * Cardinality(Among(S, k, m, i)) = m * Cardinality(Arranged(S, k))
  <1> DEFINE A == Among(S, k, m, i)
             f == [s \in A |-> CHOOSE p \in 1..m : s[p] = i]
             n == Cardinality(S)
             a == Cardinality(Arranged(S, k))
  <1>0. n \in Nat /\ a \in Nat /\ m \in Nat
    BY FS_CardinalityType, ArrangedCount
  <1>1. \A s \in A : f[s] \in 1..m /\ s[f[s]] = i
    BY DEF Among
  <1>2. \A s \in A : \A p, q \in 1..m : s[p] = s[q] => p = q
    BY ArrangedIs DEF Among, IsArranged
  <1>3. f \in [A -> 1..m]
    BY <1>1
  <1>4. ASSUME NEW p \in 1..m
        PROVE  Fibre(A, f, p) = Placed(S, k, p, i)
    <2>1. \A s \in A : f[s] = p <=> s[p] = i
      <3> HIDE DEF A, f
      <3> QED  BY <1>1, <1>2
    <2>2. \A s \in Arranged(S, k) : s[p] = i => s \in A
      BY DEF Among
    <2>3. A \subseteq Arranged(S, k)
      BY DEF Among
    <2> HIDE DEF A, f
    <2> QED  BY <2>1, <2>2, <2>3 DEF Fibre, Placed
  <1>5. IsFiniteSet(1..m) /\ Cardinality(1..m) = m
    BY FS_Interval
  <1> HIDE DEF n, a
  <1>6. CASE m = 0
    <2>1. A = {}
      BY <1>6 DEF Among
    <2>2. IsFiniteSet(A) /\ Cardinality(A) = 0
      BY <2>1, FS_EmptySet
    <2>3. n * 0 = 0 /\ 0 * a = 0
      BY <1>0
    <2> QED  BY <2>2, <2>3, <1>6 DEF n, a
  <1>7. CASE m # 0
    <2> DEFINE c == Cardinality(Placed(S, k, 1, i))
    <2>1. \A p \in 1..m : /\ IsFiniteSet(Placed(S, k, p, i))
                          /\ Cardinality(Placed(S, k, p, i)) \in Nat
                          /\ n * Cardinality(Placed(S, k, p, i)) = a
      <3>1. \A p \in 1..m : p \in 1..k
        BY <1>0
      <3> QED  BY <3>1, PlacedCount DEF n, a
    <2>2. 1 \in 1..m /\ n # 0
      <3>1. S # {}
        OBVIOUS
      <3> QED  BY <1>0, <1>7, <3>1, FS_EmptySet DEF n
    <2>3. \A p \in 1..m : Cardinality(Placed(S, k, p, i)) = c
      <3>1. c \in Nat /\ n * c = a
        BY <2>1, <2>2
      <3>2. \A d \in Nat : n * d = n * c => d = c
        BY <1>0, <2>2, <3>1
      <3> HIDE DEF c
      <3> QED  BY <2>1, <3>1, <3>2
    <2>4. c \in Nat /\ n * c = a
      BY <2>1, <2>2
    <2> HIDE DEF c, A, f
    <2>5. IsFiniteSet(A) /\ Cardinality(A) = m * c
      <3> DEFINE B == 1..m
      <3>1. \A p \in B : IsFiniteSet(Fibre(A, f, p)) /\ Cardinality(Fibre(A, f, p)) = c
        BY <1>4, <2>1, <2>3
      <3>2. f \in [A -> B] /\ IsFiniteSet(B) /\ Cardinality(B) = m
        BY <1>3, <1>5
      <3> HIDE DEF B
      <3>3. IsFiniteSet(A) /\ Cardinality(A) = Cardinality(B) * c
        BY <2>4, <3>1, <3>2, Fibres
      <3> QED  BY <3>2, <3>3
    <2>6. n * (m * c) = m * (n * c) /\ m * c \in Nat
      BY <1>0, <2>4
    <2> QED  BY <2>4, <2>5, <2>6 DEF A, n, a
  <1> QED  BY <1>6, <1>7

-----------------------------------------------------------------------------
(* Rows without gaps.                                                      *)

\* Rows with the same places are the same row.
LEMMA EqualRows ==
    ASSUME NEW k, NEW f, NEW g, f \in RowOf(k), g \in RowOf(k), \A p \in 1..k : f[p] = g[p]
    PROVE  f = g
  <1>1. f = [p \in 1..k |-> f[p]] /\ g = [p \in 1..k |-> g[p]]
    BY DEF RowOf
  <1> QED  BY <1>1

\* A row of k places that begins with a sequence of n different items and is empty
\* behind it.
IsPacked(row, k, t, n, S) ==
    /\ row \in RowOf(k) /\ Distinct(row) /\ Held(row) \subseteq S
    /\ \A p \in 1..k : row[p] = IF p <= n THEN t[p] ELSE None
    /\ \A p \in 1..n : t[p] \in S /\ t[p] \in Items /\ t[p] # None
    /\ AtMost(k, n) \in 0..k /\ AtMost(k, n) \in 0..n
    /\ \A i : i \in Held(row) <=> \E p \in 1..AtMost(k, n) : i = t[p]
    /\ IsFiniteSet(Held(row)) /\ Cardinality(Held(row)) = AtMost(k, n)
    /\ \A p \in 1..AtMost(k, n) : PlaceOf(row, t[p]) = p

\* The beginning of a sequence of different items is a row without gaps.
LEMMA PackedFacts ==
    ASSUME NEW S, S \subseteq Items, NEW n \in Nat, NEW t, IsArranged(t, S, n), NEW k \in Nat
    PROVE  IsPacked(Row(t, k), k, t, n, S)
  <1> DEFINE row == Row(t, k)
             h == AtMost(k, n)
  <1>1. t \in Seq(S) /\ Len(t) = n /\ \A p, q \in 1..n : t[p] = t[q] => p = q
    BY DEF IsArranged
  <1>2. h \in Nat /\ \A p \in Nat : p <= h <=> p <= k /\ p <= n
    BY DEF AtMost
  <1>3. IsRow(row, k, S) /\ Held(row) = {t[p] : p \in {q \in 1..Len(t) : q <= k}}
    BY <1>1, RowOfSeq
  <1>4. \A p \in 1..k : row[p] = IF p <= n THEN t[p] ELSE None
    BY <1>1 DEF Row
  <1>5. \A p \in 1..n : t[p] \in S /\ t[p] \in Items /\ t[p] # None
    BY <1>1, ConstantFacts
  <1>6. h \in 0..k /\ h \in 0..n
    BY <1>2
  <1> HIDE DEF h
  <1>7. 1..h = {q \in 1..Len(t) : q <= k}
    BY <1>1, <1>2
  <1>8. \A i : i \in Held(row) <=> \E p \in 1..h : i = t[p]
    BY <1>3, <1>7
  <1> HIDE DEF row
  <1>9. IsFiniteSet(Held(row)) /\ Cardinality(Held(row)) = h
    <2> DEFINE f == [p \in 1..h |-> t[p]]
    <2>1. f \in [1..h -> Held(row)]
      BY <1>8
    <2>2. \A p, q \in 1..h : f[p] = f[q] => p = q
      BY <1>1, <1>6
    <2>3. \A i \in Held(row) : \E p \in 1..h : f[p] = i
      BY <1>8
    <2>4. IsFiniteSet(1..h) /\ Cardinality(1..h) = h
      BY <1>2, FS_Interval
    <2> HIDE DEF f
    <2> QED  BY <2>1, <2>2, <2>3, <2>4, SameSize
  <1>10. ASSUME NEW p \in 1..h
         PROVE  PlaceOf(row, t[p]) = p
    <2>1. p \in 1..k /\ p \in 1..n /\ DOMAIN row = 1..k
      BY <1>3, <1>6, RowFacts DEF IsRow
    <2>2. row[p] = t[p]
      BY <1>4, <2>1
    <2>3. \A q \in 1..k : row[q] = t[p] => q = p
      BY <1>1, <1>4, <1>5, <2>1
    <2> QED  BY <2>1, <2>2, <2>3 DEF PlaceOf
  <1> QED  BY <1>3, <1>4, <1>5, <1>6, <1>8, <1>9, <1>10 DEF row, h, IsRow, IsPacked

\* A ranking stage hands on a row without gaps.
LEMMA TopIs ==
    ASSUME NEW m \in Nat, NEW row \in RowOf(m), NEW k \in Nat,
           NEW score, \A i \in Held(row) : score[i] \in Int
    PROVE  \E t : /\ IsArranged(t, Held(row), AtMost(k, Cardinality(Held(row))))
                  /\ Top(row, score, k) = Row(t, k)
  <1> DEFINE n == AtMost(k, Cardinality(Held(row)))
             s == CHOOSE t \in Leading(Held(row), n, score) : TRUE
  <1>1. IsFiniteSet(Held(row)) /\ Cardinality(Held(row)) \in Nat
    BY RowFacts
  <1>2. n \in Nat /\ n <= Cardinality(Held(row))
    BY <1>1, AtMostIs
  <1> HIDE DEF n
  <1>3. s \in Leading(Held(row), n, score)
    BY <1>1, <1>2, LeadExists
  <1>4. Top(row, score, k) = Row(s, k)
    BY DEF Top, n
  <1> HIDE DEF s
  <1>5. IsArranged(s, Held(row), n)
    BY <1>2, <1>3, LeadFacts DEF IsArranged
  <1> QED  BY <1>4, <1>5 DEF n

\* Version 0 keeps the order of the row.
LEMMA OrderTop ==
    ASSUME NEW S, S \subseteq Items, NEW n \in Nat, NEW t, IsArranged(t, S, n),
           NEW m \in Nat, NEW k \in 0..m
    PROVE  Top(Row(t, m), Scores(0, Row(t, m)), k) = Row(t, k)
  <1> DEFINE row == Row(t, m)
             H == Held(row)
             score == Scores(0, row)
             h == AtMost(m, n)
             e == AtMost(k, Cardinality(H))
             s == CHOOSE u \in Leading(H, e, score) : TRUE
  <1>1. /\ row \in RowOf(m)
        /\ h \in 0..m /\ h \in 0..n
        /\ \A i : i \in H <=> \E p \in 1..h : i = t[p]
        /\ IsFiniteSet(H) /\ Cardinality(H) = h
        /\ \A p \in 1..h : PlaceOf(row, t[p]) = p
        /\ H \subseteq Items
    <2>1. /\ row \in RowOf(m) /\ H \subseteq S
          /\ h \in 0..m /\ h \in 0..n
          /\ \A i : i \in H <=> \E p \in 1..h : i = t[p]
          /\ IsFiniteSet(H) /\ Cardinality(H) = h
          /\ \A p \in 1..h : PlaceOf(row, t[p]) = p
      <3>1. IsPacked(row, m, t, n, S)
        BY PackedFacts
      <3> HIDE DEF row, h
      <3> QED  BY <3>1 DEF IsPacked, h
    <2> QED  BY <2>1
  <1>2. \A p, q \in 1..n : t[p] = t[q] => p = q
    BY DEF IsArranged
  <1>3. \A p \in 1..h : score[t[p]] = -100 * p
    BY <1>1 DEF Scores, PriorityGap
  <1>4. k \in Nat /\ e \in Nat /\ e <= h /\ \A p \in 1..k : p <= e <=> p <= n
    BY <1>1 DEF AtMost
  <1>5. \A i \in H : score[i] \in Int
    BY <1>1, <1>3
  <1> HIDE DEF score, h, e, row
  <1>6. Leading(H, e, score) # {}
    BY <1>1, <1>4, <1>5, LeadExists
  <1>7. PICK lead : Leading(H, e, score) = lead[e] /\ Rounds(lead, H, e, score)
    BY <1>4, LeadIs
  <1>71. \A j \in 0..(e - 1) : \A v \in lead[j + 1] :
            \E u \in lead[j] : \E i \in Best(H \ Range(u), score) : v = Append(u, i)
    <2> HIDE DEF H, s
    <2> QED  BY <1>7 DEF Rounds
  <1> DEFINE Like(u, j) == u \in Seq(H) /\ Len(u) = j /\ \A p \in 1..j : u[p] = t[p]
             T == {j \in 0..e : \A u \in lead[j] : Like(u, j)}
  <1>8. 0 \in T
    <2>1. \A u \in lead[0] : u = <<>>
      BY <1>7 DEF Rounds
    <2>2. Like(<<>>, 0)
      OBVIOUS
    <2> HIDE DEF Like
    <2> QED  BY <2>1, <2>2, <1>4
  <1>9. \A j \in 0..(e - 1) : j \in T => j + 1 \in T
    <2> HIDE DEF Like
    <2> SUFFICES ASSUME NEW j \in 0..(e - 1), \A u \in lead[j] : Like(u, j),
                        NEW v \in lead[j + 1]
                 PROVE  Like(v, j + 1)
      BY <1>4
    <2> HIDE DEF H, s
    <2>1. PICK u \in lead[j] : \E i \in Best(H \ Range(u), score) : v = Append(u, i)
      BY <1>71
    <2>2. PICK i \in Best(H \ Range(u), score) : v = Append(u, i)
      BY <2>1
    <2>3. u \in Seq(H) /\ Len(u) = j /\ \A p \in 1..j : u[p] = t[p]
      BY DEF Like
    <2>4. j \in Nat /\ j + 1 \in 1..h /\ \A p \in 1..j : p \in 1..h
      BY <1>1, <1>4
    <2>5. Range(u) = {t[p] : p \in 1..j}
      BY <2>3 DEF Range
    <2>6. t[j + 1] \in H \ Range(u)
      BY <1>1, <1>2, <2>4, <2>5
    <2>7. i \in H /\ i \notin Range(u) /\ score[i] >= score[t[j + 1]]
      BY <2>2, <2>6 DEF Best
    <2>8. PICK q \in 1..h : i = t[q]
      BY <1>1, <2>7
    <2>9. ~ (q \in 1..j)
      BY <2>5, <2>7, <2>8
    <2>10. -100 * q >= -100 * (j + 1)
      BY <1>3, <2>4, <2>7, <2>8
    <2>11. q = j + 1
      BY <2>4, <2>9, <2>10, <1>1
    <2>12. /\ v \in Seq(H) /\ Len(v) = j + 1
           /\ \A p \in 1..j : v[p] = u[p]
           /\ v[j + 1] = i
      BY <2>2, <2>3, <2>7
    <2> QED  BY <2>3, <2>4, <2>8, <2>11, <2>12 DEF Like
  <1>10. e \in T
    <2> HIDE DEF T
    <2> QED  BY <1>4, <1>8, <1>9, Climb
  <1>11. Like(s, e)
    <2>1. s \in Leading(H, e, score)
      BY <1>6
    <2> HIDE DEF s, Like
    <2> QED  BY <1>7, <1>10, <2>1
  <1>12. Top(row, score, k) = Row(s, k)
    BY DEF Top, e
  <1> HIDE DEF s, T
  <1>13. Row(s, k) = Row(t, k)
    <2>1. Len(t) = n /\ Len(s) = e
      BY <1>11 DEF IsArranged
    <2>2. \A p \in 1..k : Row(s, k)[p] = Row(t, k)[p]
      BY <1>4, <1>11, <2>1 DEF Row
    <2>3. Row(t, k) = [p \in 1..k |-> Row(t, k)[p]] /\ Row(s, k) = [p \in 1..k |-> Row(s, k)[p]]
      BY DEF Row
    <2> QED  BY <2>2, <2>3
  <1> QED  BY <1>12, <1>13 DEF score, row

\* How many of a set look like an item, as far as a slate can show them.
Likes(held, i, of) == AtMost(ExposeK - 1, Cardinality({j \in held \ {i} : of[j] = of[i]}))

\* No item looks like so many others that a place of the row makes up for it.
Calm(held) ==
    \A i \in held : CreatorPenalty * Likes(held, i, CreatorOf)
                    + KindPenalty * Likes(held, i, KindOf) <= PriorityGap

\* No more items of a slate look like an item than items of the request do.
LEMMA AlikeBound ==
    ASSUME NEW held, IsFiniteSet(held), NEW i \in held, NEW of,
           NEW n \in Nat, n < ExposeK, NEW prior, IsArranged(prior, held \ {i}, n)
    PROVE  /\ Alike(prior, i, of) \in Nat /\ Likes(held, i, of) \in Nat
           /\ Alike(prior, i, of) <= Likes(held, i, of)
  <1> DEFINE P == {p \in DOMAIN prior : prior[p] # None /\ of[prior[p]] = of[i]}
             Q == {j \in held \ {i} : of[j] = of[i]}
             f == [p \in P |-> prior[p]]
  <1>0. ExposeK \in Nat
    BY ConstantFacts
  <1>1. /\ prior \in Seq(held \ {i}) /\ Len(prior) = n /\ DOMAIN prior = 1..n
        /\ \A p, q \in 1..n : prior[p] = prior[q] => p = q
    BY DEF IsArranged
  <1>2. IsFiniteSet(1..n) /\ Cardinality(1..n) = n
    BY FS_Interval
  <1>3. P \subseteq 1..n
    BY <1>1
  <1>4. IsFiniteSet(P) /\ Cardinality(P) \in Nat /\ Cardinality(P) <= n
    BY <1>2, <1>3, FS_Subset, FS_CardinalityType
  <1>5. IsFiniteSet(Q) /\ Cardinality(Q) \in Nat
    BY FS_Subset, FS_CardinalityType
  <1>6. f \in Injection(P, Q)
    <2>1. \A p \in P : prior[p] \in Q
      BY <1>1
    <2>2. \A p, q \in P : prior[p] = prior[q] => p = q
      BY <1>1, <1>3
    <2> HIDE DEF P, Q
    <2> QED  BY <2>1, <2>2 DEF Injection, IsInjective
  <1> HIDE DEF P, Q, f
  <1>7. Cardinality(P) <= Cardinality(Q)
    BY <1>5, <1>6, FS_Injection
  <1>8. Alike(prior, i, of) = Cardinality(P)
    BY DEF Alike, P
  <1>9. Likes(held, i, of) = AtMost(ExposeK - 1, Cardinality(Q))
    BY DEF Likes, Q
  <1> QED  BY <1>0, <1>4, <1>5, <1>7, <1>8, <1>9 DEF AtMost

\* The slate so far is the beginning of the row.
Follows(u, j, t, n) ==
    u \in Seq(Places) /\ Len(u) = j /\ \A p \in 1..j : u[p] = IF p <= n THEN t[p] ELSE None

\* Every place of a sequence is worth more than looking alike costs.
Steady(score, t, n) ==
    /\ \A p \in 1..n : score[t[p]] \in Int
    /\ \A p, q \in 1..n : p < q => score[t[p]] - score[t[q]] >= PriorityGap

OneAdIn(t, n) == \A p, q \in 1..n : t[p] \in Ads /\ t[q] \in Ads => p = q

\* The next place of a slate that keeps the order of a row.
LEMMA NextInOrder ==
    ASSUME NEW S, S \subseteq Items, IsFiniteSet(S), Calm(S),
           NEW n \in Nat, NEW t, IsArranged(t, S, n), NEW m \in Nat, ExposeK <= m, NEW score,
           Steady(score, t, AtMost(m, n)), OneAdIn(t, n),
           NEW j \in 0..(ExposeK - 1), NEW u, Follows(u, j, t, n)
    PROVE  NextPlace(Row(t, m), score, u) = IF j + 1 <= n THEN t[j + 1] ELSE None
  <1> DEFINE row == Row(t, m)
             H == Held(row)
             h == AtMost(m, n)
             O == Open(row, u)
             value == Adjusted(row, score, u)
             B == Best(O, value)
  <1> USE DEF Steady, OneAdIn
  <1>0. ExposeK \in Nat /\ j \in Nat /\ None \notin Items /\ Ads \subseteq Items
    BY ConstantFacts
  <1>1. IsPacked(row, m, t, n, S)
    BY PackedFacts
  <1> HIDE DEF row
  <1>2. /\ h \in 0..m /\ h \in 0..n
        /\ \A i : i \in H <=> \E p \in 1..h : i = t[p]
        /\ \A p \in 1..h : PlaceOf(row, t[p]) = p
        /\ \A p \in 1..n : t[p] \in S /\ t[p] \in Items /\ t[p] # None
    BY <1>1 DEF IsPacked
  <1>3. \A p \in Nat : p <= h <=> p <= m /\ p <= n
    BY DEF AtMost
  <1>4. t \in Seq(S) /\ Len(t) = n /\ \A p, q \in 1..n : t[p] = t[q] => p = q
    BY DEF IsArranged
  <1>5. u \in Seq(Places) /\ Len(u) = j /\ DOMAIN u = 1..j
        /\ \A p \in 1..j : u[p] = IF p <= n THEN t[p] ELSE None
    BY DEF Follows
  <1>6. \A i : i \in Range(u) <=> \E p \in 1..j : u[p] = i
    BY <1>5 DEF Range
  <1> HIDE DEF h
  <1>7. CASE j + 1 <= n
    <2>1. j + 1 \in 1..h /\ \A p \in 1..j : p \in 1..h /\ u[p] = t[p]
      BY <1>0, <1>2, <1>3, <1>5, <1>7
    <2>2. \A i \in Range(u) : \E p \in 1..j : i = t[p]
      BY <1>6, <2>1
    <2>3. ASSUME NEW i \in O
          PROVE  \E q \in (j + 1)..h : i = t[q]
      <3>1. i \in H /\ i \notin Range(u)
        BY DEF Open
      <3>2. PICK q \in 1..h : i = t[q]
        BY <1>2, <3>1
      <3>3. ~ (q \in 1..j)
        BY <1>6, <2>1, <3>1, <3>2
      <3> QED  BY <3>2, <3>3, <1>0, <1>2
    <2>4. t[j + 1] \in O
      <3>1. t[j + 1] \in H
        BY <1>2, <2>1
      <3>2. \A p \in 1..j : t[p] # t[j + 1]
        BY <1>2, <1>4, <2>1
      <3>3. t[j + 1] \notin Range(u)
        BY <2>2, <3>2
      <3>4. t[j + 1] \in Ads => Range(u) \cap Ads = {}
        <4> SUFFICES ASSUME t[j + 1] \in Ads, NEW i \in Range(u), i \in Ads PROVE FALSE
          OBVIOUS
        <4>1. PICK p \in 1..j : i = t[p]
          BY <2>2
        <4>2. p \in 1..n /\ j + 1 \in 1..n /\ p # j + 1
          BY <1>2, <2>1
        <4> QED  BY <4>1, <4>2
      <3> QED  BY <3>1, <3>3, <3>4 DEF Open
    <2> DEFINE penalty(i) == CreatorPenalty * Alike(u, i, CreatorOf) + KindPenalty * Alike(u, i, KindOf)
    <2>5. ASSUME NEW i \in O
          PROVE  penalty(i) \in Nat /\ penalty(i) <= PriorityGap
      <3>1. i \in S /\ i \notin Range(u)
        <4>1. PICK q \in (j + 1)..h : i = t[q]
          BY <2>3
        <4>2. q \in 1..n
          BY <1>0, <1>2
        <4> QED  BY <4>1, <4>2, <1>2 DEF Open
      <3>2. IsArranged(u, S \ {i}, j)
        <4>1. \A p \in 1..j : u[p] \in S \ {i}
          BY <1>2, <1>6, <2>1, <3>1
        <4>2. u \in Seq(S \ {i})
          BY <1>0, <1>5, <4>1
        <4>3. \A p, q \in 1..j : u[p] = u[q] => p = q
          BY <1>2, <1>4, <2>1
        <4> QED  BY <1>5, <4>2, <4>3 DEF IsArranged
      <3>3. j < ExposeK
        BY <1>0
      <3>4. \A of : /\ Alike(u, i, of) \in Nat /\ Likes(S, i, of) \in Nat
                    /\ Alike(u, i, of) <= Likes(S, i, of)
        BY <1>0, <3>1, <3>2, <3>3, AlikeBound
      <3>5. CreatorPenalty * Likes(S, i, CreatorOf) + KindPenalty * Likes(S, i, KindOf) <= PriorityGap
        BY <3>1 DEF Calm
      <3> QED  BY <3>4, <3>5 DEF CreatorPenalty, KindPenalty, PriorityGap
    <2>6. \A i \in O : value[i] = score[i] - penalty(i)
      <3>1. \A i \in O : value[i] = score[i] - CreatorPenalty * Alike(u, i, CreatorOf)
                                             - KindPenalty * Alike(u, i, KindOf)
        BY DEF Adjusted
      <3> SUFFICES ASSUME NEW i \in O PROVE value[i] = score[i] - penalty(i)
        OBVIOUS
      <3>2. Alike(u, i, CreatorOf) \in Nat /\ Alike(u, i, KindOf) \in Nat
        BY <1>5, AlikeTyped
      <3>3. score[i] \in Int
        <4>1. PICK q \in (j + 1)..h : i = t[q]
          BY <2>3
        <4> QED  BY <4>1, <1>0, <1>2 DEF h
      <3> HIDE DEF value, O
      <3> QED  BY <3>1, <3>2, <3>3 DEF CreatorPenalty, KindPenalty
    <2> HIDE DEF penalty, value, O
    <2>7. t[j + 1] \in B
      <3> SUFFICES ASSUME NEW i \in O PROVE value[t[j + 1]] >= value[i]
        BY <2>4 DEF Best
      <3>1. PICK q \in (j + 1)..h : i = t[q]
        BY <2>3
      <3>2. CASE q = j + 1
        <4>1. value[i] \in Int
          <5>1. score[i] \in Int
            BY <3>1, <1>0, <1>2 DEF h
          <5> QED  BY <5>1, <2>5, <2>6
        <4> QED  BY <3>1, <3>2, <4>1
      <3>3. CASE q # j + 1
        <4>1. j + 1 < q /\ q \in 1..h /\ j + 1 \in 1..h
          BY <1>0, <1>2, <2>1, <3>3
        <4>2. /\ score[t[j + 1]] - score[i] >= PriorityGap
              /\ score[i] \in Int /\ score[t[j + 1]] \in Int
          BY <3>1, <4>1 DEF h
        <4>3. penalty(i) \in Nat /\ penalty(t[j + 1]) \in Nat /\ penalty(t[j + 1]) <= PriorityGap
          BY <2>4, <2>5
        <4>4. value[i] = score[i] - penalty(i) /\ value[t[j + 1]] = score[t[j + 1]] - penalty(t[j + 1])
          BY <2>4, <2>6
        <4> QED  BY <4>2, <4>3, <4>4 DEF PriorityGap
      <3> QED  BY <3>2, <3>3
    <2>8. \A i \in B : PlaceOf(row, t[j + 1]) <= PlaceOf(row, i)
      <3> SUFFICES ASSUME NEW i \in B PROVE PlaceOf(row, t[j + 1]) <= PlaceOf(row, i)
        OBVIOUS
      <3>1. i \in O
        BY DEF Best
      <3>2. PICK q \in (j + 1)..h : i = t[q]
        BY <2>3, <3>1
      <3>3. PlaceOf(row, i) = q /\ PlaceOf(row, t[j + 1]) = j + 1
        BY <1>0, <1>2, <2>1, <3>2
      <3> QED  BY <3>2, <3>3
    <2>9. \A i \in B : PlaceOf(row, i) <= PlaceOf(row, t[j + 1]) => i = t[j + 1]
      <3> SUFFICES ASSUME NEW i \in B, PlaceOf(row, i) <= PlaceOf(row, t[j + 1])
                   PROVE  i = t[j + 1]
        OBVIOUS
      <3>1. i \in O
        BY DEF Best
      <3>2. PICK q \in (j + 1)..h : i = t[q]
        BY <2>3, <3>1
      <3>3. PlaceOf(row, i) = q /\ PlaceOf(row, t[j + 1]) = j + 1
        BY <1>0, <1>2, <2>1, <3>2
      <3>4. q = j + 1
        BY <3>2, <3>3, <1>0
      <3> QED  BY <3>2, <3>4
    <2>10. Follower(row, score, u) = t[j + 1]
      <3>1. Follower(row, score, u) = CHOOSE i \in B : \A k \in B : PlaceOf(row, i) <= PlaceOf(row, k)
        BY DEF Follower, value, O
      <3> HIDE DEF B
      <3> QED  BY <2>7, <2>8, <2>9, <3>1
    <2> QED  BY <1>7, <2>4, <2>10 DEF NextPlace, O, row
  <1>8. CASE ~ (j + 1 <= n)
    <2>1. \A p \in 1..h : p \in 1..j /\ u[p] = t[p]
      BY <1>0, <1>2, <1>5, <1>8
    <2>2. O = {}
      <3> SUFFICES ASSUME NEW i \in O PROVE FALSE
        OBVIOUS
      <3>1. i \in H /\ i \notin Range(u)
        BY DEF Open
      <3> QED  BY <1>2, <1>6, <2>1, <3>1
    <2> QED  BY <1>8, <2>2 DEF NextPlace, row
  <1> QED  BY <1>7, <1>8

\* A slate keeps the order of a row whose items do not look alike.
LEMMA SlateInOrder ==
    ASSUME NEW S, S \subseteq Items, IsFiniteSet(S), Calm(S),
           NEW n \in Nat, NEW t, IsArranged(t, S, n), NEW m \in Nat, ExposeK <= m, NEW score,
           Steady(score, t, AtMost(m, n)), OneAdIn(t, n)
    PROVE  DiversifiedTop(Row(t, m), score) = Row(t, ExposeK)
  <1> DEFINE row == Row(t, m)
             s == DiversifiedTop(row, score)
  <1>0. ExposeK \in Nat
    BY ConstantFacts
  <1>1. IsPacked(row, m, t, n, S) /\ IsPacked(Row(t, ExposeK), ExposeK, t, n, S)
    BY <1>0, PackedFacts
  <1>2. row \in RowOf(m) /\ \A i \in Held(row) : score[i] \in Int
    <2> HIDE DEF row
    <2> QED  BY <1>1 DEF IsPacked, Steady
  <1>3. PICK slate :
            /\ s = slate[ExposeK]
            /\ slate[0] = <<>>
            /\ \A j \in 0..(ExposeK - 1) :
                   slate[j + 1] = Append(slate[j], NextPlace(row, score, slate[j]))
    <2> HIDE DEF row
    <2>1. \E slate :
            /\ DiversifiedTop(row, score) = slate[ExposeK]
            /\ slate[0] = <<>>
            /\ \A j \in 0..(ExposeK - 1) :
                   slate[j + 1] = Append(slate[j], NextPlace(row, score, slate[j]))
      BY ONLY <1>2, SlateIs, m \in Nat
    <2> QED  BY <2>1, Zenon
  <1> DEFINE T == {j \in 0..ExposeK : Follows(slate[j], j, t, n)}
  <1>4. 0 \in T
    <2>1. Follows(<<>>, 0, t, n)
      BY DEF Follows
    <2> QED  BY <1>0, <1>3, <2>1
  <1>5. \A j \in 0..(ExposeK - 1) : j \in T => j + 1 \in T
    <2> SUFFICES ASSUME NEW j \in 0..(ExposeK - 1), Follows(slate[j], j, t, n)
                 PROVE  Follows(slate[j + 1], j + 1, t, n)
      BY <1>0
    <2> DEFINE u == slate[j]
               x == NextPlace(row, score, u)
               v == slate[j + 1]
    <2>1. x = IF j + 1 <= n THEN t[j + 1] ELSE None
      BY NextInOrder
    <2>2. v = Append(u, x) /\ j \in Nat
      <3> HIDE DEF row, s
      <3> QED  BY <1>0, <1>3
    <2>3. x \in Places
      <3>1. \A p \in 1..n : t[p] \in Items
        BY <1>1 DEF IsPacked
      <3> HIDE DEF x
      <3> QED  BY <2>1, <2>2, <3>1 DEF Places
    <2>4. /\ u \in Seq(Places) /\ Len(u) = j
          /\ \A p \in 1..j : u[p] = IF p <= n THEN t[p] ELSE None
      BY DEF Follows
    <2> HIDE DEF u, x, v
    <2>5. /\ v \in Seq(Places) /\ Len(v) = j + 1
          /\ \A p \in 1..j : v[p] = u[p]
          /\ v[j + 1] = x
      BY <2>2, <2>3, <2>4
    <2>6. \A p \in 1..(j + 1) : p \in 1..j \/ p = j + 1
      BY <2>2
    <2>7. Follows(v, j + 1, t, n)
      BY <2>1, <2>4, <2>5, <2>6 DEF Follows
    <2> QED  BY <2>7 DEF v
  <1>6. Follows(s, ExposeK, t, n)
    <2> HIDE DEF T
    <2>1. ExposeK \in T
      BY <1>0, <1>4, <1>5, Climb
    <2> QED  BY <1>3, <2>1 DEF T
  <1> HIDE DEF s, T
  <1>7. s \in RowOf(ExposeK)
    BY <1>0, <1>6 DEF Follows, RowOf, Places
  <1>8. \A p \in 1..ExposeK : s[p] = Row(t, ExposeK)[p]
    BY <1>1, <1>6 DEF IsPacked, Follows
  <1>9. Row(t, ExposeK) \in RowOf(ExposeK)
    BY <1>1 DEF IsPacked
  <1>10. s = Row(t, ExposeK)
    BY <1>7, <1>8, <1>9, EqualRows
  <1> QED  BY <1>10 DEF s

\* With an ad at most in the row a slate has no gap as long as there are items left.
Gapless(s, n, row) ==
    \A p \in 1..n : s[p] # None <=> p <= Cardinality(Held(row))

\* The next place of a slate leaves no gap before it.
LEMMA GaplessGrows ==
    ASSUME NEW m \in Nat, NEW row \in RowOf(m), NEW score, \A i \in Held(row) : score[i] \in Int,
           \A i, j \in Held(row) : i \in Ads /\ j \in Ads => i = j,
           NEW n \in Nat, NEW s, Begun(s, n, row), Gapless(s, n, row)
    PROVE  Gapless(Append(s, NextPlace(row, score, s)), n + 1, row)
  <1> DEFINE x == NextPlace(row, score, s)
             t == Append(s, x)
             H == Held(row)
             h == Cardinality(H)
  <1>0. IsFiniteSet(H) /\ h \in Nat /\ None \notin H
    BY RowFacts DEF Held
  <1>1. /\ s \in Seq(Places) /\ Len(s) = n /\ DOMAIN s = 1..n
        /\ \A p \in 1..n : s[p] \in H \cup {None}
        /\ \A p, q \in 1..n : s[p] = s[q] => p = q \/ s[p] = None
    BY DEF Begun
  <1>2. \A p \in 1..n : s[p] # None <=> p <= h
    BY DEF Gapless
  <1> HIDE DEF h
  <1>3. x \in H \cup {None} /\ x \in Places
    BY <1>1, NextPlaceTyped, RowFacts DEF Places
  <1>4. \A p \in 1..n : t[p] = s[p]
    BY <1>1, <1>3
  <1>5. t[n + 1] = x
    BY <1>1, <1>3
  <1>6. x # None <=> n + 1 <= h
    <2>1. CASE n + 1 <= h
      <3> DEFINE P == 1..n
                 R == {s[p] : p \in P}
                 f == [p \in P |-> s[p]]
      <3>1. IsFiniteSet(P) /\ Cardinality(P) = n
        BY FS_Interval
      <3>2. f \in Surjection(P, R)
        BY DEF Surjection
      <3>3. IsFiniteSet(R) /\ Cardinality(R) <= n
        <4> HIDE DEF f, R, P
        <4> QED  BY <3>1, <3>2, FS_Surjection
      <3>4. R = Range(s)
        BY <1>1 DEF Range
      <3>5. H \ Range(s) # {}
        <4> SUFFICES ASSUME H \subseteq R PROVE FALSE
          BY <3>4
        <4> HIDE DEF R
        <4>1. h <= Cardinality(R)
          BY <3>3, FS_Subset DEF h
        <4> QED  BY <1>0, <2>1, <3>3, <4>1, FS_CardinalityType
      <3>6. PICK i \in H : i \notin Range(s)
        BY <3>5
      <3>7. i \in Ads => Range(s) \cap Ads = {}
        <4> SUFFICES ASSUME i \in Ads, NEW j \in Range(s), j \in Ads PROVE FALSE
          OBVIOUS
        <4>1. j \in H
          BY <1>1, ConstantFacts DEF Range
        <4> QED  BY <3>6, <4>1
      <3>8. i \in Open(row, s)
        BY <3>6, <3>7 DEF Open
      <3>9. x \in Open(row, s)
        BY <1>1, <3>8, FollowerFacts DEF NextPlace
      <3>10. x \in H
        BY <3>9 DEF Open
      <3> HIDE DEF x, H
      <3> QED  BY <1>0, <2>1, <3>10
    <2>2. CASE ~ (n + 1 <= h)
      <3> DEFINE P == 1..h
                 f == [p \in P |-> s[p]]
      <3>1. \A p \in P : p \in 1..n
        BY <1>0, <2>2
      <3>2. \A p \in P : s[p] \in H /\ s[p] # None
        BY <1>0, <1>1, <1>2, <3>1
      <3>3. f \in Injection(P, H)
        BY <1>1, <3>1, <3>2 DEF Injection, IsInjective
      <3>4. IsFiniteSet(P) /\ Cardinality(P) = h
        BY <1>0, FS_Interval
      <3>5. f \in Surjection(P, H)
        <4> HIDE DEF f, P, H
        <4> QED  BY <1>0, <3>3, <3>4, FS_Injection DEF h
      <3>6. \A i \in H : \E p \in P : s[p] = i
        BY <3>5 DEF Surjection
      <3>7. Open(row, s) = {}
        <4> SUFFICES ASSUME NEW i \in Open(row, s) PROVE FALSE
          OBVIOUS
        <4>1. i \in H /\ i \notin Range(s)
          BY DEF Open
        <4> QED  BY <1>1, <3>1, <3>6, <4>1 DEF Range
      <3> QED  BY <2>2, <3>7 DEF NextPlace
    <2> QED  BY <2>1, <2>2
  <1>7. \A p \in 1..(n + 1) : p \in 1..n \/ p = n + 1
    OBVIOUS
  <1> HIDE DEF x, t
  <1>8. Gapless(t, n + 1, row)
    BY <1>2, <1>4, <1>5, <1>6, <1>7 DEF Gapless, h
  <1> QED  BY <1>8 DEF t, x

\* A diversified slate is a row without gaps.
LEMMA SlatePacked ==
    ASSUME NEW m \in Nat, NEW row \in RowOf(m), NEW score, \A i \in Held(row) : score[i] \in Int,
           \A i, j \in Held(row) : i \in Ads /\ j \in Ads => i = j
    PROVE  \E t : /\ IsArranged(t, Held(row), AtMost(ExposeK, Cardinality(Held(row))))
                  /\ DiversifiedTop(row, score) = Row(t, ExposeK)
  <1> DEFINE H == Held(row)
             h == Cardinality(H)
             e == AtMost(ExposeK, h)
             s == DiversifiedTop(row, score)
             t == Start(s, e)
  <1>0. ExposeK \in Nat /\ h \in Nat /\ None \notin H
    BY ConstantFacts, RowFacts DEF Held
  <1>1. PICK slate :
            /\ s = slate[ExposeK]
            /\ slate[0] = <<>>
            /\ \A n \in 0..(ExposeK - 1) :
                   slate[n + 1] = Append(slate[n], NextPlace(row, score, slate[n]))
    BY SlateIs
  <1> DEFINE T == {n \in 0..ExposeK : Begun(slate[n], n, row) /\ Gapless(slate[n], n, row)}
  <1>2. 0 \in T
    <2>1. Begun(<<>>, 0, row) /\ Gapless(<<>>, 0, row)
      BY DEF Begun, Gapless
    <2> QED  BY <2>1, <1>0, <1>1
  <1>3. \A n \in 0..(ExposeK - 1) : n \in T => n + 1 \in T
    <2> SUFFICES ASSUME NEW n \in 0..(ExposeK - 1), n \in T PROVE n + 1 \in T
      OBVIOUS
    <2>1. n \in Nat /\ n + 1 \in 0..ExposeK /\ Begun(slate[n], n, row) /\ Gapless(slate[n], n, row)
      BY <1>0
    <2>2. Begun(slate[n + 1], n + 1, row)
      BY <2>1, <1>1, BegunGrows
    <2>3. Gapless(slate[n + 1], n + 1, row)
      BY <2>1, <1>1, GaplessGrows
    <2> QED  BY <2>1, <2>2, <2>3
  <1>4. Begun(s, ExposeK, row) /\ Gapless(s, ExposeK, row)
    <2> HIDE DEF T
    <2>1. ExposeK \in T
      BY <1>0, <1>2, <1>3, Climb
    <2> QED  BY <1>1, <2>1 DEF T
  <1>5. e \in 0..ExposeK /\ \A p \in 1..ExposeK : p <= e <=> p <= h
    BY <1>0 DEF AtMost
  <1> HIDE DEF s, e, T
  <1>6. /\ s \in Seq(Places) /\ Len(s) = ExposeK
        /\ \A p \in 1..ExposeK : s[p] \in H \cup {None}
        /\ \A p, q \in 1..ExposeK : s[p] = s[q] => p = q \/ s[p] = None
    BY <1>4 DEF Begun
  <1>7. \A p \in 1..ExposeK : s[p] # None <=> p <= e
    BY <1>4, <1>5 DEF Gapless
  <1>8. \A p \in 1..e : p \in 1..ExposeK /\ s[p] \in H /\ t[p] = s[p]
    BY <1>0, <1>5, <1>6, <1>7 DEF Start
  <1>9. t \in Seq(H) /\ Len(t) = e
    <2>1. t \in [1..e -> H]
      BY <1>8 DEF Start
    <2>2. DOMAIN t = 1..e /\ e \in Nat
      BY <1>0, <1>5 DEF Start
    <2> HIDE DEF t
    <2> QED  BY <2>1, <2>2
  <1>10. \A p, q \in 1..e : t[p] = t[q] => p = q
    BY <1>0, <1>6, <1>8
  <1> HIDE DEF t, H
  <1>11. IsArranged(t, H, e)
    BY <1>9, <1>10 DEF IsArranged
  <1>12. s = Row(t, ExposeK)
    <2>1. s = [p \in 1..ExposeK |-> s[p]]
      BY <1>6
    <2>2. \A p \in 1..ExposeK : s[p] = IF p <= Len(t) THEN t[p] ELSE None
      BY <1>0, <1>5, <1>7, <1>8, <1>9
    <2> QED  BY <2>1, <2>2 DEF Row
  <1> QED  BY <1>11, <1>12 DEF s, e, H

-----------------------------------------------------------------------------
(* The probabilities of the draws.                                         *)

\* The random draws of a request, what a draw gives, their number and their rate.
Random(r) == {d \in Draws(r, Deterministic(r)) : d.randomized}
Given(r, d) == Ranked(r, Deterministic(r), d)
Equal(r) == Max({1, Cardinality(Random(r))})
DrawRate(r) == IF Random(r) = {} THEN 0 ELSE Rate(r)

\* The share of the draws that give the same, in parts of Whole * Equal(r).
Share(r, certain, favourable) ==
    (Whole - DrawRate(r)) * Equal(r) * Indicator(certain) + DrawRate(r) * Cardinality(favourable)

\* The logged numbers of an item, of a position and of a slate are shares of the draws.
ExactAdmission(r, i) ==
    LET det == Deterministic(r) IN
    /\ Admission(r, det, det.coarse, i) * Equal(r)
         = Base(r, det) * Share(r, i \in Held(det.coarse),
                                {d \in Random(r) : i \in Held(Given(r, d).coarse)})
    /\ Admission(r, det, det.fine, i) * Equal(r)
         = Base(r, det) * Share(r, i \in Held(det.fine),
                                {d \in Random(r) : i \in Held(Given(r, d).fine)})
    /\ Admission(r, det, det.exposed, i) * Equal(r)
         = Base(r, det) * Share(r, i \in Held(det.exposed),
                                {d \in Random(r) : i \in Held(Given(r, d).exposed)})

ExactPosition(r, slate, p) ==
    LET det == Deterministic(r) IN
    LoggedPosition(r, det, slate, p) * Equal(r)
      = Base(r, det) * Share(r, slate[p] = det.exposed[p],
                             {d \in Random(r) : Given(r, d).exposed[p] = slate[p]})

ExactSlate(r, slate) ==
    LET det == Deterministic(r) IN
    LoggedSlate(r, det, slate) * Equal(r)
      = SlateBase(r, det, slate) * Share(r, slate = det.exposed,
                                         {d \in Random(r) : Given(r, d).exposed = slate})

\* What is logged is exact if it is for every item, every position and every slate.
LEMMA ExactIs ==
    ASSUME NEW r,
           \A i \in Held(r.recall.item) : ExactAdmission(r, i),
           \A d \in Draws(r, Deterministic(r)) :
               /\ \A p \in 1..ExposeK :
                      Given(r, d).exposed[p] # None => ExactPosition(r, Given(r, d).exposed, p)
               /\ ExactSlate(r, Given(r, d).exposed)
    PROVE  LoggedExactly(r)
  <1> DEFINE det == Deterministic(r)
             draws == Draws(r, det)
             ranked == [d \in draws |-> Ranked(r, det, d)]
             random == {d \in draws : d.randomized}
             equal == Max({1, Cardinality(random)})
             rate == IF random = {} THEN 0 ELSE Rate(r)
             base == Base(r, det)
             admitted == Logged(r, det, det.exposed)
             Chance(certain, favourable) ==
                 (Whole - rate) * equal * Indicator(certain) + rate * Cardinality(favourable)
             held == Held(r.recall.item)
  <1>1. random = Random(r) /\ equal = Equal(r) /\ rate = DrawRate(r)
    BY Zenon DEF Random, Equal, DrawRate
  <1>2. \A certain, favourable : Chance(certain, favourable) = Share(r, certain, favourable)
    BY Zenon DEF Share, Random, Equal, DrawRate
  <1>3. \A d \in draws : ranked[d] = Given(r, d)
    BY DEF Given
  <1>4. \A d \in random : ranked[d] = Given(r, d)
    BY <1>3
  <1>5. \A slate : \A p \in 1..ExposeK : Logged(r, det, slate).position[p] = LoggedPosition(r, det, slate, p)
    BY DEF Logged
  <1>6. \A slate : Logged(r, det, slate).slate = LoggedSlate(r, det, slate)
    BY DEF Logged
  <1>7. \A i \in held : /\ admitted.coarse[i] = Admission(r, det, det.coarse, i)
                        /\ admitted.fine[i] = Admission(r, det, det.fine, i)
                        /\ admitted.candidate[i] = Admission(r, det, det.exposed, i)
    BY DEF Logged
  <1> HIDE DEF det, draws, ranked, random, equal, rate, base, admitted, Chance
  <1>8. ASSUME NEW i \in held
        PROVE  /\ admitted.coarse[i] * equal
                    = base * Chance(i \in Held(det.coarse),
                                    {d \in random : i \in Held(ranked[d].coarse)})
               /\ admitted.fine[i] * equal
                    = base * Chance(i \in Held(det.fine),
                                    {d \in random : i \in Held(ranked[d].fine)})
               /\ admitted.candidate[i] * equal
                    = base * Chance(i \in Held(det.exposed),
                                    {d \in random : i \in Held(ranked[d].exposed)})
    <2>1. /\ {d \in random : i \in Held(ranked[d].coarse)}
               = {d \in Random(r) : i \in Held(Given(r, d).coarse)}
          /\ {d \in random : i \in Held(ranked[d].fine)}
               = {d \in Random(r) : i \in Held(Given(r, d).fine)}
          /\ {d \in random : i \in Held(ranked[d].exposed)}
               = {d \in Random(r) : i \in Held(Given(r, d).exposed)}
      BY <1>1, <1>4
    <2>2. ExactAdmission(r, i)
      OBVIOUS
    <2> QED  BY <1>1, <1>2, <1>7, <2>1, <2>2, Zenon DEF ExactAdmission, base, det
  <1>9. ASSUME NEW slate, NEW e \in draws, slate = ranked[e].exposed
        PROVE  /\ \A p \in {q \in 1..ExposeK : slate[q] # None} :
                    Logged(r, det, slate).position[p] * equal
                      = base * Chance(slate[p] = det.exposed[p],
                                      {d \in random : ranked[d].exposed[p] = slate[p]})
               /\ Logged(r, det, slate).slate * equal
                    = SlateBase(r, det, slate)
                      * Chance(slate = det.exposed, {d \in random : ranked[d].exposed = slate})
    <2>1. e \in Draws(r, Deterministic(r)) /\ slate = Given(r, e).exposed
      BY <1>3, <1>9 DEF draws, det
    <2>2. /\ \A p \in 1..ExposeK : slate[p] # None => ExactPosition(r, slate, p)
          /\ ExactSlate(r, slate)
      BY <2>1
    <2>3. {d \in random : ranked[d].exposed = slate} = {d \in Random(r) : Given(r, d).exposed = slate}
      BY <1>1, <1>4
    <2>4. \A p : {d \in random : ranked[d].exposed[p] = slate[p]}
                   = {d \in Random(r) : Given(r, d).exposed[p] = slate[p]}
      BY <1>1, <1>4
    <2>5. ASSUME NEW p \in {q \in 1..ExposeK : slate[q] # None}
          PROVE  Logged(r, det, slate).position[p] * equal
                   = base * Chance(slate[p] = det.exposed[p],
                                   {d \in random : ranked[d].exposed[p] = slate[p]})
      <3>1. ExactPosition(r, slate, p) /\ p \in 1..ExposeK
        BY <2>2
      <3>2. {d \in random : ranked[d].exposed[p] = slate[p]}
              = {d \in Random(r) : Given(r, d).exposed[p] = slate[p]}
        BY <2>4
      <3>3. Logged(r, det, slate).position[p] = LoggedPosition(r, det, slate, p)
        BY <1>5, <3>1
      <3> QED  BY <1>1, <1>2, <3>1, <3>2, <3>3, Zenon DEF ExactPosition, base, det
    <2>6. Logged(r, det, slate).slate * equal
            = SlateBase(r, det, slate)
              * Chance(slate = det.exposed, {d \in random : ranked[d].exposed = slate})
      BY <1>1, <1>2, <1>6, <2>2, <2>3, Zenon DEF ExactSlate, det
    <2> QED  BY <2>5, <2>6
  <1>10. \A slate \in {ranked[d].exposed : d \in draws} :
              /\ \A p \in {q \in 1..ExposeK : slate[q] # None} :
                    Logged(r, det, slate).position[p] * equal
                      = base * Chance(slate[p] = det.exposed[p],
                                      {d \in random : ranked[d].exposed[p] = slate[p]})
              /\ Logged(r, det, slate).slate * equal
                    = SlateBase(r, det, slate)
                      * Chance(slate = det.exposed, {d \in random : ranked[d].exposed = slate})
    BY <1>9
  <1> QED  BY <1>8, <1>10, Zenon
           DEF LoggedExactly, det, draws, ranked, random, equal, rate, base, admitted, Chance

\* The draws with the given picks.
Drawn(P) == {[randomized |-> TRUE, pick |-> s] : s \in P}

\* There are as many draws as picks.
LEMMA DrawnCount ==
    ASSUME NEW P, IsFiniteSet(P)
    PROVE  IsFiniteSet(Drawn(P)) /\ Cardinality(Drawn(P)) = Cardinality(P)
  <1> DEFINE f == [s \in P |-> [randomized |-> TRUE, pick |-> s]]
  <1>1. f \in [P -> Drawn(P)]
    BY DEF Drawn
  <1>2. ASSUME NEW s \in P, NEW t \in P, f[s] = f[t] PROVE s = t
    <2>1. f[s].pick = s /\ f[t].pick = t
      OBVIOUS
    <2> HIDE DEF f
    <2> QED  BY <1>2, <2>1
  <1>3. \A d \in Drawn(P) : \E s \in P : f[s] = d
    BY DEF Drawn
  <1> HIDE DEF f
  <1> QED  BY <1>1, <1>2, <1>3, SameSize

\* A request that explores draws one of its picks, and may not explore.
LEMMA DrawsAre ==
    ASSUME NEW r, IsRequest(r)
    PROVE  /\ Rate(r) > 0 => Random(r) = Drawn(Picks(r, Deterministic(r)))
           /\ ~ (Rate(r) > 0) => Random(r) = {}
           /\ \A d \in Draws(r, Deterministic(r)) :
                  d.randomized \in BOOLEAN /\ (d.randomized => d \in Random(r))
  <1> DEFINE det == Deterministic(r)
             P == Picks(r, det)
  <1>1. Draws(r, det) = {d \in [randomized : {TRUE}, pick : P] : Rate(r) > 0}
                        \cup {d \in [randomized : {FALSE}, pick : {<<>>}] :
                                 Rate(r) < Whole \/ P = {}}
    BY DEF Draws
  <1>2. Random(r) = {d \in Draws(r, det) : d.randomized}
    BY DEF Random
  <1> HIDE DEF P, det
  <1>3. Random(r) = {d \in [randomized : {TRUE}, pick : P] : Rate(r) > 0}
    BY <1>1, <1>2
  <1>4. Drawn(P) = [randomized : {TRUE}, pick : P]
    <2>1. \A d \in [randomized : {TRUE}, pick : P] :
              d = [randomized |-> TRUE, pick |-> d.pick] /\ d.pick \in P
      <3> SUFFICES ASSUME NEW A, NEW d \in [randomized : A, pick : P], A = {TRUE}
                   PROVE  d = [randomized |-> TRUE, pick |-> d.pick] /\ d.pick \in P
        BY Zenon
      <3>1. d = [randomized |-> d.randomized, pick |-> d.pick] /\ d.randomized \in A /\ d.pick \in P
        OBVIOUS
      <3>2. d.randomized = TRUE
        BY <3>1, Zenon
      <3> QED  BY <3>1, <3>2, Zenon
    <2>2. \A s \in P : [randomized |-> TRUE, pick |-> s] \in [randomized : {TRUE}, pick : P]
      OBVIOUS
    <2> QED  BY <2>1, <2>2 DEF Drawn
  <1>5. \A d \in Draws(r, det) : d.randomized \in BOOLEAN /\ (d.randomized => d \in Random(r))
    BY <1>1, <1>2
  <1> QED  BY <1>3, <1>4, <1>5 DEF P, det

\* The larger of 1 and a number.
LEMMA MaxOf ==
    ASSUME NEW x \in Nat
    PROVE  Max({1, x}) = IF x = 0 THEN 1 ELSE x
  <1>1. \E y \in {1, x} : \A z \in {1, x} : y >= z
    OBVIOUS
  <1>2. Max({1, x}) \in {1, x} /\ \A z \in {1, x} : Max({1, x}) >= z
    BY <1>1, Zenon DEF Max
  <1> QED  BY <1>2

\* The denominator of a slate counts the slates of its length.
LEMMA SlateBaseIs ==
    ASSUME NEW r, IsRequest(r), ~ (r.policy.coldRate > 0),
           NEW slate, Held(slate) \subseteq Held(r.recall.item)
    PROVE  /\ SlateBase(r, Deterministic(r), slate)
                = Cardinality(Arranged(Held(r.recall.item), Cardinality(Held(slate))))
           /\ SlateBase(r, Deterministic(r), slate) \in Nat
  <1> DEFINE H == Held(r.recall.item)
             n == Cardinality(H)
             e == Cardinality(Held(slate))
             a == Cardinality(Arranged(H, e))
  <1>1. IsFiniteSet(H) /\ n \in Nat
    BY BaseFacts, FS_CardinalityType
  <1>2. e \in Nat /\ e <= n
    BY <1>1, FS_Subset, FS_CardinalityType
  <1>3. SlateBase(r, Deterministic(r), slate) = factorial[n] \div factorial[n - e]
    BY DEF SlateBase, Candidates
  <1> HIDE DEF n, e, H
  <1>4. a \in Nat \ {0} /\ a * factorial[n - e] = factorial[n]
    BY <1>1, <1>2, ArrangedCount DEF n
  <1>5. factorial[n - e] \in Nat \ {0}
    <2>1. n - e \in Nat
      BY <1>1, <1>2
    <2> QED  BY <2>1, FactorialIs
  <1>6. \A x \in Nat, y \in Nat \ {0} : (x * y) \div y = x
    <2> SUFFICES ASSUME NEW x \in Nat, NEW y \in Nat \ {0} PROVE (x * y) \div y = x
      OBVIOUS
    <2> QED  BY SMTT(30)
  <1> HIDE DEF a
  <1>7. SlateBase(r, Deterministic(r), slate) = a
    BY <1>3, <1>4, <1>5, <1>6
  <1> QED  BY <1>4, <1>7 DEF a, e, H

\* Without a random draw everything is certain.
LEMMA ExactWithout ==
    ASSUME NEW r, IsRequest(r), Random(r) = {}
    PROVE  /\ \A certain, favourable :
                  favourable \subseteq Random(r) =>
                      Share(r, certain, favourable) = Whole * Indicator(certain)
           /\ Equal(r) = 1
  <1>1. Cardinality({}) = 0
    BY FS_EmptySet
  <1>2. Equal(r) = 1
    BY <1>1, MaxOf DEF Equal
  <1>3. DrawRate(r) = 0
    BY DEF DrawRate
  <1>4. ASSUME NEW certain, NEW favourable, favourable \subseteq Random(r)
        PROVE  Share(r, certain, favourable) = Whole * Indicator(certain)
    <2>1. Cardinality(favourable) = 0
      <3>1. favourable = {}
        BY <1>4
      <3> QED  BY <1>1, <3>1
    <2> QED  BY <1>2, <1>3, <2>1, ConstantFacts DEF Share, Indicator
  <1> QED  BY <1>2, <1>4

\* A request that draws nothing logs what is certain.
LEMMA DeterministicExact ==
    ASSUME NEW r, IsRequest(r), Random(r) = {},
           ~ (r.policy.coldRate > 0) => r.policy.rate = 0,
           r.policy.coldRate > 0 => EligibleCold(r, Deterministic(r)) = {}
    PROVE  LoggedExactly(r)
  <1> DEFINE det == Deterministic(r)
             B == Base(r, det)
  <1>0. /\ Whole \in Nat /\ B \in Nat /\ ExposeK \in Nat
        /\ r.policy.coldRate \in Nat /\ r.policy.rate \in Nat
    BY BaseFacts, PolicyFacts, ConstantFacts DEF IsRequest
  <1>1. Equal(r) = 1
    BY ExactWithout
  <1>2. \A certain, favourable : favourable \subseteq Random(r) =>
            Share(r, certain, favourable) = Whole * Indicator(certain)
    BY ExactWithout
  <1>3. r.policy.coldRate > 0 => SupportedRate(r, det) = 0
    BY DEF SupportedRate
  <1>4. \A c, n \in Nat : /\ (c * Indicator(n = 0)) \in Nat
                          /\ c - 0 * n = c
    BY DEF Indicator
  <1> HIDE DEF det, B
  <1>5. ASSUME NEW chosen, IsFiniteSet(Held(chosen)), NEW i
        PROVE  Admission(r, det, chosen, i) = B * (Whole * Indicator(i \in Held(chosen)))
    <2>1. CASE r.policy.coldRate > 0
      <3>1. EligibleCold(r, det) = {}
        BY <2>1 DEF det
      <3> DEFINE outside == EligibleCold(r, det) \ Held(chosen)
      <3>2. outside = {} /\ Cardinality(outside) = 0
        BY <3>1, FS_EmptySet
      <3>3. Admission(r, det, chosen, i)
              = IF i \in Held(chosen)
                THEN Whole * B - SupportedRate(r, det) * Cardinality(outside)
                                 * Indicator(i = Last(chosen))
                ELSE SupportedRate(r, det) * Indicator(i \in outside)
        BY <2>1 DEF Admission, TargetedAdmission, B
      <3> HIDE DEF outside
      <3>4. Whole * B = B * Whole /\ Whole * B \in Nat
        BY <1>0
      <3> QED  BY <1>0, <1>3, <2>1, <3>2, <3>3, <3>4 DEF Indicator
    <2>2. CASE ~ (r.policy.coldRate > 0)
      <3>1. Admission(r, det, chosen, i)
              = 0 * Cardinality(Held(chosen)) + (Whole - 0) * B * Indicator(i \in Held(chosen))
        BY <2>2 DEF Admission, MixtureAdmission, B
      <3>2. Cardinality(Held(chosen)) \in Nat
        BY <1>5, FS_CardinalityType
      <3>3. Whole * B = B * Whole /\ Whole * B \in Nat
        BY <1>0
      <3> QED  BY <1>0, <3>1, <3>2, <3>3 DEF Indicator
    <2> QED  BY <2>1, <2>2
  <1>6. \A row \in {det.coarse, det.fine, det.exposed} : IsFiniteSet(Held(row))
    <2>1. Nested(det, r)
      BY DeterministicNested DEF det
    <2> QED  BY <2>1, RowFacts, ConstantFacts DEF Nested, IsRow, IsFull
  <1>7. \A i \in Held(r.recall.item) : ExactAdmission(r, i)
    <2> SUFFICES ASSUME NEW i \in Held(r.recall.item) PROVE ExactAdmission(r, i)
      OBVIOUS
    <2>1. ASSUME NEW chosen, IsFiniteSet(Held(chosen)), NEW certain, NEW favourable,
                 favourable \subseteq Random(r), certain <=> i \in Held(chosen)
          PROVE  Admission(r, det, chosen, i) * Equal(r) = B * Share(r, certain, favourable)
      <3>1. Admission(r, det, chosen, i) = B * (Whole * Indicator(i \in Held(chosen)))
        BY <1>5, <2>1
      <3>2. Share(r, certain, favourable) = Whole * Indicator(certain)
        BY <1>2, <2>1
      <3>3. Indicator(i \in Held(chosen)) = Indicator(certain)
        BY <2>1 DEF Indicator
      <3>4. B * (Whole * Indicator(certain)) \in Nat
        BY <1>0 DEF Indicator
      <3> QED  BY <1>1, <3>1, <3>2, <3>3, <3>4
    <2> QED  BY <1>6, <2>1 DEF ExactAdmission, det, B
  <1>8. ASSUME NEW d \in Draws(r, det)
        PROVE  Given(r, d).exposed = det.exposed
    <2>1. ~ d.randomized
      BY <1>8, DrawsAre DEF det
    <2> QED  BY <2>1 DEF Given, Ranked, det
  <1>9. ASSUME NEW p \in 1..ExposeK, det.exposed[p] # None
        PROVE  ExactPosition(r, det.exposed, p)
    <2> DEFINE F == {d \in Random(r) : Given(r, d).exposed[p] = det.exposed[p]}
    <2>1. Share(r, det.exposed[p] = det.exposed[p], F) = Whole * 1
      BY <1>2 DEF Indicator
    <2>2. LoggedPosition(r, det, det.exposed, p) = B * Whole
      <3>1. CASE r.policy.coldRate > 0
        <4>1. LoggedPosition(r, det, det.exposed, p)
                = IF p = ExposeK THEN (Whole - 0) * B ELSE Whole * B
          BY <1>3, <1>9, <3>1 DEF LoggedPosition, TargetedPosition, TargetedLast, B
        <4> QED  BY <1>0, <4>1
      <3>2. CASE ~ (r.policy.coldRate > 0)
        <4>1. LoggedPosition(r, det, det.exposed, p) = 0 + (Whole - 0) * B * 1
          BY <1>9, <3>2 DEF LoggedPosition, MixturePosition, Indicator, B
        <4> QED  BY <1>0, <4>1
      <3> QED  BY <3>1, <3>2
    <2> HIDE DEF F
    <2>3. LoggedPosition(r, det, det.exposed, p) * Equal(r)
            = B * Share(r, det.exposed[p] = det.exposed[p], F)
      BY <1>0, <1>1, <2>1, <2>2
    <2> QED  BY <2>3 DEF ExactPosition, F, B, det
  <1>10. ExactSlate(r, det.exposed)
    <2> DEFINE F == {d \in Random(r) : Given(r, d).exposed = det.exposed}
               C == SlateBase(r, det, det.exposed)
    <2>1. Share(r, det.exposed = det.exposed, F) = Whole * 1
      BY <1>2 DEF Indicator
    <2>2. LoggedSlate(r, det, det.exposed) * 1 = C * (Whole * 1)
      <3>1. CASE r.policy.coldRate > 0
        <4>1. LoggedSlate(r, det, det.exposed) = (Whole - 0) * B /\ C = B
          BY <1>3, <3>1 DEF LoggedSlate, TargetedSlate, TargetedLast, SlateBase, B
        <4> QED  BY <1>0, <4>1
      <3>2. CASE ~ (r.policy.coldRate > 0)
        <4>1. LoggedSlate(r, det, det.exposed) = 0 + (Whole - 0) * C * 1
          BY <3>2 DEF LoggedSlate, MixtureSlate, Indicator
        <4>2. C \in Nat
          <5>1. Nested(det, r)
            BY DeterministicNested DEF det
          <5>2. Held(det.exposed) \subseteq Held(r.recall.item)
            BY <5>1 DEF Nested, IsRow, IsFull
          <5> QED  BY <3>2, <5>2, SlateBaseIs DEF det
        <4> QED  BY <1>0, <4>1, <4>2
      <3> QED  BY <3>1, <3>2
    <2> HIDE DEF F, C
    <2>3. LoggedSlate(r, det, det.exposed) * Equal(r) = C * Share(r, det.exposed = det.exposed, F)
      BY <1>1, <2>1, <2>2
    <2> QED  BY <2>3 DEF ExactSlate, F, C, det
  <1>11. \A d \in Draws(r, Deterministic(r)) :
              /\ \A p \in 1..ExposeK :
                     Given(r, d).exposed[p] # None => ExactPosition(r, Given(r, d).exposed, p)
              /\ ExactSlate(r, Given(r, d).exposed)
    BY <1>8, <1>9, <1>10 DEF det
  <1> QED  BY <1>7, <1>11, ExactIs

-----------------------------------------------------------------------------
(* A random permutation.                                                   *)

\* A set of draws is known by its picks.
LEMMA DrawnThose ==
    ASSUME NEW P, NEW F, F \subseteq Drawn(P), NEW Q, Q \subseteq P,
           \A s \in P : [randomized |-> TRUE, pick |-> s] \in F <=> s \in Q
    PROVE  F = Drawn(Q)
  BY DEF Drawn

\* Version 0 puts a place of the row between neighbours.
LEMMA OrderScores ==
    ASSUME NEW S, S \subseteq Items, NEW n \in Nat, NEW t, IsArranged(t, S, n), NEW m \in Nat
    PROVE  \A p \in 1..AtMost(m, n) : Scores(0, Row(t, m))[t[p]] = -100 * p
  <1> DEFINE row == Row(t, m)
             h == AtMost(m, n)
  <1>1. IsPacked(row, m, t, n, S)
    BY PackedFacts
  <1> HIDE DEF row, h
  <1>2. /\ \A i : i \in Held(row) <=> \E p \in 1..h : i = t[p]
        /\ \A p \in 1..h : PlaceOf(row, t[p]) = p
    BY <1>1 DEF IsPacked, h
  <1>3. \A i \in Held(row) : Scores(0, row)[i] = -PriorityGap * PlaceOf(row, i)
    BY DEF Scores
  <1>4. \A p \in 1..h : Scores(0, row)[t[p]] = -PriorityGap * p
    BY <1>2, <1>3
  <1> QED  BY <1>4 DEF PriorityGap, row, h

\* What a request with a random permutation draws from.
Permuted(r) == LET held == Held(r.recall.item)
               IN Arranged(held, AtMost(CoarseK, Cardinality(held)))

\* The candidates of a request whose numbers can be exact.
Unlike(held) == /\ Calm(held)
                /\ \A i, j \in held : i \in Ads /\ j \in Ads => i = j

\* The draws of a random permutation, their number and their shares.
LEMMA PermutedFacts ==
    ASSUME NEW r, IsRequest(r), ~ (r.policy.coldRate > 0), r.policy.rate > 0
    PROVE  LET held == Held(r.recall.item)
               n == Cardinality(held)
           IN /\ held \subseteq Items /\ IsFiniteSet(held) /\ n \in Nat
              /\ AtMost(CoarseK, n) \in Nat /\ AtMost(CoarseK, n) <= n
              /\ IsFiniteSet(Permuted(r)) /\ Cardinality(Permuted(r)) \in Nat \ {0}
              /\ Random(r) = Drawn(Permuted(r))
              /\ Equal(r) = Cardinality(Permuted(r))
              /\ DrawRate(r) = r.policy.rate
              /\ \A Q \in SUBSET Permuted(r) : \A certain :
                    Share(r, certain, Drawn(Q))
                      = (Whole - r.policy.rate) * Cardinality(Permuted(r)) * Indicator(certain)
                        + r.policy.rate * Cardinality(Q)
  <1> DEFINE held == Held(r.recall.item)
             n == Cardinality(held)
             m == AtMost(CoarseK, n)
             P == Permuted(r)
  <1>1. held \subseteq Items /\ IsFiniteSet(held) /\ n \in Nat /\ CoarseK \in Nat
    BY ConstantFacts, RowFacts DEF IsRequest, IsRecall, IsRow
  <1>2. m \in Nat /\ m <= n
    BY <1>1, AtMostIs
  <1>3. P = Arranged(held, m)
    BY DEF Permuted
  <1> HIDE DEF m, P
  <1>4. IsFiniteSet(P) /\ Cardinality(P) \in Nat \ {0}
    BY <1>1, <1>2, <1>3, ArrangedCount
  <1>5. Picks(r, Deterministic(r)) = P
    BY DEF Picks, P, Permuted, Arranged
  <1>6. Rate(r) = r.policy.rate
    BY DEF Rate
  <1>7. Random(r) = Drawn(P)
    BY <1>5, <1>6, DrawsAre
  <1>8. IsFiniteSet(Random(r)) /\ Cardinality(Random(r)) = Cardinality(P)
    BY <1>4, <1>7, DrawnCount
  <1>9. Equal(r) = Cardinality(P)
    BY <1>4, <1>8, MaxOf DEF Equal
  <1>10. DrawRate(r) = r.policy.rate
    <2>1. Random(r) # {}
      BY <1>4, <1>8, FS_EmptySet
    <2> QED  BY <1>6, <2>1 DEF DrawRate
  <1>11. ASSUME NEW Q \in SUBSET P, NEW certain
         PROVE  Share(r, certain, Drawn(Q))
                  = (Whole - r.policy.rate) * Cardinality(P) * Indicator(certain)
                    + r.policy.rate * Cardinality(Q)
    <2>1. Cardinality(Drawn(Q)) = Cardinality(Q)
      BY <1>4, FS_Subset, DrawnCount
    <2> QED  BY <1>9, <1>10, <2>1 DEF Share
  <1> QED  BY <1>1, <1>2, <1>4, <1>7, <1>9, <1>10, <1>11 DEF m, P

\* The three stages of a random slate are the beginnings of its permutation.
LEMMA RandomGiven ==
    ASSUME NEW r, IsRequest(r), ~ (r.policy.coldRate > 0), r.policy.rate > 0,
           Unlike(Held(r.recall.item)), NEW s \in Permuted(r)
    PROVE  LET given == Given(r, [randomized |-> TRUE, pick |-> s])
           IN /\ given.coarse = Row(s, CoarseK)
              /\ given.fine = Row(s, FineK)
              /\ given.exposed = Row(s, ExposeK)
  <1> DEFINE held == Held(r.recall.item)
             m == AtMost(CoarseK, Cardinality(held))
             fine == Row(s, FineK)
             score == Scores(0, fine)
             given == Given(r, [randomized |-> TRUE, pick |-> s])
  <1>1. held \subseteq Items /\ IsFiniteSet(held) /\ m \in Nat
    BY PermutedFacts
  <1>2. FineK \in Nat /\ ExposeK <= FineK /\ ExposeK \in Nat
    BY ConstantFacts
  <1>3. IsArranged(s, held, m)
    BY <1>1, ArrangedIs DEF Permuted
  <1>4. given = RandomSlate(s)
    BY DEF Given, Ranked
  <1>5. /\ given.coarse = Row(s, CoarseK) /\ given.fine = fine
        /\ given.exposed = DiversifiedTop(fine, score)
    BY <1>4 DEF RandomSlate
  <1>6. Calm(held) /\ \A i, j \in held : i \in Ads /\ j \in Ads => i = j
    BY DEF Unlike
  <1> HIDE DEF held, m
  <1>7. \A p \in 1..AtMost(FineK, m) : score[s[p]] = -100 * p
    BY <1>1, <1>2, <1>3, OrderScores
  <1>8. AtMost(FineK, m) \in Nat
    BY <1>1, <1>2, AtMostIs
  <1> HIDE DEF score
  <1>9. Steady(score, s, AtMost(FineK, m))
    BY <1>7, <1>8 DEF PriorityGap, Steady
  <1>11. OneAdIn(s, m)
    <2>1. s \in Seq(held) /\ Len(s) = m /\ \A p, q \in 1..m : s[p] = s[q] => p = q
      BY <1>3 DEF IsArranged
    <2>2. \A p \in 1..m : s[p] \in held
      BY <2>1
    <2> QED  BY <1>6, <2>1, <2>2 DEF OneAdIn
  <1>12. DiversifiedTop(Row(s, FineK), score) = Row(s, ExposeK)
    BY <1>1, <1>2, <1>3, <1>6, <1>9, <1>11, SlateInOrder
  <1> QED  BY <1>5, <1>12

\* An exact share, multiplied out.
LEMMA MixtureShare ==
    ASSUME NEW n \in Nat, NEW a \in Nat, NEW equal \in Nat, NEW count \in Nat,
           NEW rate \in Nat, NEW rest \in Nat, NEW x \in {0, 1}, n * count = a * equal
    PROVE  (rate * a + rest * n * x) * equal = n * (rest * equal * x + rate * count)
  <1>1. rate * (a * equal) = rate * (n * count)
    OBVIOUS
  <1>2. (rate * a + rest * n * x) * equal = rate * (a * equal) + (rest * n * x) * equal
    <2> DEFINE y == rest * n * x
    <2>1. y \in Nat
      OBVIOUS
    <2> HIDE DEF y
    <2>2. (rate * a + y) * equal = (rate * a) * equal + y * equal
      BY <2>1
    <2>3. (rate * a) * equal = rate * (a * equal)
      OBVIOUS
    <2> QED  BY <2>2, <2>3 DEF y
  <1>3. n * (rest * equal * x + rate * count) = n * (rest * equal * x) + rate * (n * count)
    <2> DEFINE y == rest * equal * x
    <2>1. y \in Nat
      OBVIOUS
    <2> HIDE DEF y
    <2>2. n * (y + rate * count) = n * y + n * (rate * count)
      BY <2>1
    <2>3. n * (rate * count) = rate * (n * count)
      OBVIOUS
    <2> QED  BY <2>2, <2>3 DEF y
  <1>4. (rest * n * x) * equal = n * (rest * equal * x)
    <2>1. CASE x = 0
      BY <2>1
    <2>2. CASE x = 1
      BY <2>2
    <2> QED  BY <2>1, <2>2
  <1>5. /\ rate * (a * equal) \in Nat /\ rate * (n * count) \in Nat
        /\ (rest * n * x) * equal \in Nat /\ n * (rest * equal * x) \in Nat
    OBVIOUS
  <1> QED  BY <1>1, <1>2, <1>3, <1>4, <1>5

\* A sequence of items of a set is one of items of a larger set.
LEMMA ArrangedWithin ==
    ASSUME NEW S, NEW T, S \subseteq T, NEW n, NEW t, IsArranged(t, S, n)
    PROVE  IsArranged(t, T, n)
  <1>1. t \in Seq(S) /\ Len(t) = n /\ \A p, q \in 1..n : t[p] = t[q] => p = q
    BY DEF IsArranged
  <1>2. t \in Seq(T)
    BY <1>1
  <1> QED  BY <1>1, <1>2 DEF IsArranged

\* The stages of the deterministic slate are rows without gaps.
LEMMA DeterministicPacked ==
    ASSUME NEW r, IsRequest(r), Unlike(Held(r.recall.item))
    PROVE  LET det == Deterministic(r)
               held == Held(r.recall.item)
               m == AtMost(CoarseK, Cardinality(held))
           IN /\ \E c : IsArranged(c, held, m) /\ det.coarse = Row(c, CoarseK)
              /\ Cardinality(Held(det.coarse)) = m
              /\ Cardinality(Held(det.fine)) = AtMost(FineK, m)
              /\ \E e : IsArranged(e, held, AtMost(ExposeK, m)) /\ det.exposed = Row(e, ExposeK)
              /\ Cardinality(Held(det.exposed)) = AtMost(ExposeK, m)
  <1> DEFINE recall == r.recall.item
             held == Held(recall)
             m == AtMost(CoarseK, Cardinality(held))
             coarse == Top(recall, Scores(r.policy.coarse, recall), CoarseK)
             score == Scores(r.policy.fine, coarse)
             fine == Top(coarse, score, FineK)
             exposed == DiversifiedTop(fine, score)
  <1>1. /\ Deterministic(r).coarse = coarse /\ Deterministic(r).fine = fine
        /\ Deterministic(r).exposed = exposed
    BY DEF Deterministic
  <1>2. /\ recall \in RowOf(RecallK) /\ RecallK \in Nat /\ CoarseK \in Nat /\ FineK \in Nat
        /\ ExposeK \in Nat /\ ExposeK <= FineK
    BY ConstantFacts DEF IsRequest, IsRecall, IsRow
  <1>3. \A i, j \in held : i \in Ads /\ j \in Ads => i = j
    BY DEF Unlike
  <1> HIDE DEF recall
  <1>4. held \subseteq Items /\ IsFiniteSet(held) /\ Cardinality(held) \in Nat
    BY <1>2, RowFacts
  <1>5. m \in Nat /\ AtMost(CoarseK, m) = m
    BY <1>2, <1>4 DEF AtMost
  <1>6. PICK c : IsArranged(c, held, m) /\ coarse = Row(c, CoarseK)
    BY <1>2, ScoresTyped, TopIs
  <1> HIDE DEF m, coarse
  <1>7. IsPacked(coarse, CoarseK, c, m, held)
    BY <1>2, <1>4, <1>5, <1>6, PackedFacts
  <1>8. coarse \in RowOf(CoarseK) /\ Held(coarse) \subseteq held /\ Cardinality(Held(coarse)) = m
    BY <1>5, <1>7 DEF IsPacked
  <1>9. \A i \in Held(coarse) : score[i] \in Int
    BY <1>2, <1>8, ScoresTyped
  <1> HIDE DEF score
  <1>10. PICK f : IsArranged(f, Held(coarse), AtMost(FineK, m)) /\ fine = Row(f, FineK)
    BY <1>2, <1>8, <1>9, TopIs
  <1> HIDE DEF fine
  <1>11. AtMost(FineK, m) \in Nat /\ AtMost(FineK, AtMost(FineK, m)) = AtMost(FineK, m)
    BY <1>2, <1>5 DEF AtMost
  <1>12. IsPacked(fine, FineK, f, AtMost(FineK, m), Held(coarse))
    BY <1>2, <1>4, <1>8, <1>10, <1>11, PackedFacts
  <1>13. /\ fine \in RowOf(FineK) /\ Held(fine) \subseteq Held(coarse)
         /\ Cardinality(Held(fine)) = AtMost(FineK, m)
    BY <1>11, <1>12 DEF IsPacked
  <1>14. \A i \in Held(fine) : score[i] \in Int
    BY <1>9, <1>13
  <1>15. \A i, j \in Held(fine) : i \in Ads /\ j \in Ads => i = j
    BY <1>3, <1>8, <1>13
  <1>16. PICK e : /\ IsArranged(e, Held(fine), AtMost(ExposeK, Cardinality(Held(fine))))
                  /\ exposed = Row(e, ExposeK)
    BY <1>2, <1>13, <1>14, <1>15, SlatePacked
  <1> HIDE DEF exposed
  <1> DEFINE x == AtMost(ExposeK, m)
  <1>17. /\ AtMost(ExposeK, AtMost(FineK, m)) = x /\ x \in Nat
         /\ AtMost(ExposeK, x) = x
    BY <1>2, <1>5 DEF AtMost
  <1> HIDE DEF x
  <1>18. IsArranged(e, Held(fine), x)
    BY <1>13, <1>16, <1>17
  <1>19. Held(fine) \subseteq held
    BY <1>8, <1>13
  <1>20. IsArranged(e, held, x)
    BY <1>18, <1>19, ArrangedWithin
  <1>21. IsPacked(exposed, ExposeK, e, x, held)
    BY <1>2, <1>4, <1>16, <1>17, <1>20, PackedFacts
  <1>22. Cardinality(Held(exposed)) = x
    BY <1>17, <1>21 DEF IsPacked
  <1> QED  BY <1>1, <1>6, <1>8, <1>13, <1>16, <1>20, <1>22 DEF x, m, recall

\* The admission to a stage.
LEMMA MixtureStage ==
    ASSUME NEW r, IsRequest(r), ~ (r.policy.coldRate > 0), r.policy.rate > 0,
           NEW i \in Held(r.recall.item), NEW k \in Nat, NEW chosen,
           Cardinality(Held(chosen))
             = AtMost(k, AtMost(CoarseK, Cardinality(Held(r.recall.item)))),
           NEW F, F \subseteq Random(r),
           \A s \in Permuted(r) :
               [randomized |-> TRUE, pick |-> s] \in F <=> i \in Held(Row(s, k))
    PROVE  Admission(r, Deterministic(r), chosen, i) * Equal(r)
             = Base(r, Deterministic(r)) * Share(r, i \in Held(chosen), F)
  <1> DEFINE held == Held(r.recall.item)
             n == Cardinality(held)
             m == AtMost(CoarseK, n)
             a == AtMost(k, m)
             P == Permuted(r)
             Q == Among(held, m, a, i)
             x == Indicator(i \in Held(chosen))
             rest == Whole - r.policy.rate
  <1>1. /\ held \subseteq Items /\ IsFiniteSet(held) /\ n \in Nat /\ m \in Nat /\ m <= n
        /\ Random(r) = Drawn(P) /\ Equal(r) = Cardinality(P) /\ Cardinality(P) \in Nat
        /\ \A Z \in SUBSET P : \A certain :
              Share(r, certain, Drawn(Z))
                = (Whole - r.policy.rate) * Cardinality(P) * Indicator(certain)
                  + r.policy.rate * Cardinality(Z)
    BY PermutedFacts
  <1>2. P = Arranged(held, m)
    BY DEF Permuted
  <1>3. r.policy.rate \in Nat /\ rest \in Nat /\ x \in {0, 1}
    <2>1. r.policy.rate \in Nat /\ r.policy.rate <= Whole /\ Whole \in Nat
      BY PolicyFacts DEF IsRequest
    <2> QED  BY <2>1 DEF Indicator
  <1>4. Base(r, Deterministic(r)) = n
    <2>1. n # 0
      BY <1>1, FS_EmptySet
    <2> QED  BY <1>1, <2>1, MaxOf DEF Base, Candidates
  <1>5. a \in Nat /\ a \in 0..m
    BY <1>1 DEF AtMost
  <1> HIDE DEF n, m, a, P, Q, x, rest, held
  <1>6. Q \subseteq P
    BY <1>2 DEF Among, Q
  <1>7. IsFiniteSet(Q) /\ Cardinality(Q) \in Nat /\ n * Cardinality(Q) = a * Cardinality(P)
    BY <1>1, <1>2, <1>5, AmongCount DEF n, Q, held
  <1>8. ASSUME NEW s \in P
        PROVE  i \in Held(Row(s, k)) <=> s \in Q
    <2>1. IsArranged(s, held, m)
      BY <1>1, <1>2, ArrangedIs
    <2>2. IsPacked(Row(s, k), k, s, m, held)
      BY <1>1, <2>1, PackedFacts
    <2>3. i \in Held(Row(s, k)) <=> \E p \in 1..a : i = s[p]
      BY <2>2 DEF IsPacked, a
    <2> QED  BY <1>2, <2>3 DEF Among, Q
  <1>9. F = Drawn(Q)
    <2>1. \A s \in P : [randomized |-> TRUE, pick |-> s] \in F <=> s \in Q
      BY <1>8 DEF P
    <2>2. F \subseteq Drawn(P)
      BY <1>1
    <2> QED  BY <1>6, <2>1, <2>2, DrawnThose
  <1>10. Share(r, i \in Held(chosen), F) = rest * Cardinality(P) * x + r.policy.rate * Cardinality(Q)
    BY <1>1, <1>6, <1>9 DEF rest, x
  <1>11. Admission(r, Deterministic(r), chosen, i) = r.policy.rate * a + rest * n * x
    BY <1>4 DEF Admission, MixtureAdmission, a, m, n, held, rest, x
  <1>12. (r.policy.rate * a + rest * n * x) * Cardinality(P)
           = n * (rest * Cardinality(P) * x + r.policy.rate * Cardinality(Q))
    <2> DEFINE equal == Cardinality(P)
               count == Cardinality(Q)
               rate == r.policy.rate
    <2>1. /\ n \in Nat /\ a \in Nat /\ equal \in Nat /\ count \in Nat
          /\ rate \in Nat /\ rest \in Nat /\ x \in {0, 1} /\ n * count = a * equal
      BY <1>1, <1>3, <1>5, <1>7
    <2> HIDE DEF equal, count, rate
    <2>2. (rate * a + rest * n * x) * equal = n * (rest * equal * x + rate * count)
      BY <2>1, MixtureShare
    <2> QED  BY <2>2 DEF equal, count, rate
  <1> QED  BY <1>1, <1>4, <1>10, <1>11, <1>12

\* What a random draw can show.
Shown(r, t) ==
    IsArranged(t, Held(r.recall.item),
               AtMost(ExposeK, AtMost(CoarseK, Cardinality(Held(r.recall.item)))))

\* An item at its position.
LEMMA MixturePositionExact ==
    ASSUME NEW r, IsRequest(r), ~ (r.policy.coldRate > 0), r.policy.rate > 0,
           Unlike(Held(r.recall.item)), NEW t, Shown(r, t),
           NEW p \in 1..ExposeK, Row(t, ExposeK)[p] # None
    PROVE  ExactPosition(r, Row(t, ExposeK), p)
  <1> DEFINE held == Held(r.recall.item)
             n == Cardinality(held)
             m == AtMost(CoarseK, n)
             e == AtMost(ExposeK, m)
             P == Permuted(r)
             slate == Row(t, ExposeK)
             i == slate[p]
             Q == Placed(held, m, p, i)
             F == {d \in Random(r) : Given(r, d).exposed[p] = i}
             det == Deterministic(r)
             x == Indicator(i = det.exposed[p])
             rest == Whole - r.policy.rate
  <1>1. /\ held \subseteq Items /\ IsFiniteSet(held) /\ n \in Nat /\ m \in Nat /\ m <= n
        /\ Random(r) = Drawn(P) /\ Equal(r) = Cardinality(P) /\ Cardinality(P) \in Nat
        /\ \A Z \in SUBSET P : \A certain :
              Share(r, certain, Drawn(Z))
                = (Whole - r.policy.rate) * Cardinality(P) * Indicator(certain)
                  + r.policy.rate * Cardinality(Z)
    BY PermutedFacts
  <1>2. P = Arranged(held, m)
    BY DEF Permuted
  <1>3. r.policy.rate \in Nat /\ rest \in Nat /\ x \in {0, 1} /\ ExposeK \in Nat
    <2>1. r.policy.rate \in Nat /\ r.policy.rate <= Whole /\ Whole \in Nat
      BY PolicyFacts DEF IsRequest
    <2> QED  BY <2>1, ConstantFacts DEF Indicator
  <1>4. e \in Nat /\ e \in 0..m /\ \A q \in 1..ExposeK : q <= e <=> q <= m
    BY <1>1, <1>3 DEF AtMost
  <1>5. \A s \in P : Given(r, [randomized |-> TRUE, pick |-> s]).exposed = Row(s, ExposeK)
    BY RandomGiven
  <1>6. IsArranged(t, held, e)
    BY DEF Shown
  <1> HIDE DEF n, m, e, P, held, Q, x, rest, det
  <1>7. IsPacked(slate, ExposeK, t, e, held)
    BY <1>1, <1>3, <1>4, <1>6, PackedFacts
  <1>8. p <= e /\ i \in held
    BY <1>4, <1>7 DEF IsPacked
  <1> HIDE DEF slate
  <1>9. p \in 1..m
    BY <1>1, <1>4, <1>8
  <1>10. Base(r, det) = n
    <2>1. n # 0
      BY <1>1, <1>8, FS_EmptySet DEF n
    <2> QED  BY <1>1, <2>1, MaxOf DEF Base, Candidates, n, held
  <1>11. Q \subseteq P
    BY <1>2 DEF Placed, Q
  <1> HIDE DEF i
  <1>12. IsFiniteSet(Q) /\ Cardinality(Q) \in Nat /\ n * Cardinality(Q) = 1 * Cardinality(P)
    <2>1. n * Cardinality(Q) = Cardinality(P) /\ IsFiniteSet(Q) /\ Cardinality(Q) \in Nat
      BY <1>1, <1>2, <1>8, <1>9, PlacedCount DEF n, Q
    <2> QED  BY <1>1, <2>1
  <1>13. ASSUME NEW s \in P
         PROVE  Row(s, ExposeK)[p] = s[p]
    <2>1. IsArranged(s, held, m)
      BY <1>1, <1>2, ArrangedIs
    <2>2. IsPacked(Row(s, ExposeK), ExposeK, s, m, held)
      BY <1>1, <1>3, <2>1, PackedFacts
    <2> QED  BY <1>9, <2>2 DEF IsPacked
  <1>14. F = Drawn(Q)
    <2>1. \A s \in P : [randomized |-> TRUE, pick |-> s] \in Drawn(P)
      BY DEF Drawn
    <2>2. \A s \in P : [randomized |-> TRUE, pick |-> s] \in F <=> s \in Q
      BY <1>1, <1>2, <1>5, <1>13, <2>1 DEF Placed, Q
    <2>3. F \subseteq Drawn(P)
      BY <1>1
    <2> HIDE DEF F
    <2> QED  BY <1>11, <2>2, <2>3, DrawnThose
  <1>15. Share(r, i = det.exposed[p], F) = rest * Cardinality(P) * x + r.policy.rate * Cardinality(Q)
    <2> HIDE DEF F
    <2> QED  BY <1>1, <1>11, <1>14 DEF rest, x
  <1>16. LoggedPosition(r, det, slate, p) = r.policy.rate * 1 + rest * n * x
    <2>1. i # None
      BY DEF i, slate
    <2>2. LoggedPosition(r, det, slate, p) = r.policy.rate + rest * n * x
      BY <1>10, <2>1 DEF LoggedPosition, MixturePosition, i, rest, x
    <2> QED  BY <1>3, <2>2
  <1>17. LoggedPosition(r, det, slate, p) * Equal(r) = Base(r, det) * Share(r, i = det.exposed[p], F)
    <2> DEFINE equal == Cardinality(P)
               count == Cardinality(Q)
               rate == r.policy.rate
    <2>1. /\ n \in Nat /\ 1 \in Nat /\ equal \in Nat /\ count \in Nat
          /\ rate \in Nat /\ rest \in Nat /\ x \in {0, 1} /\ n * count = 1 * equal
      BY <1>1, <1>3, <1>12
    <2>2. /\ LoggedPosition(r, det, slate, p) = rate * 1 + rest * n * x
          /\ Share(r, i = det.exposed[p], F) = rest * equal * x + rate * count
      BY <1>15, <1>16
    <2> HIDE DEF equal, count, rate, F
    <2>3. (rate * 1 + rest * n * x) * equal = n * (rest * equal * x + rate * count)
      BY <2>1, MixtureShare
    <2>4. Equal(r) = equal
      BY <1>1 DEF equal
    <2> QED  BY <1>10, <2>2, <2>3, <2>4
  <1> HIDE DEF F
  <1> QED  BY <1>17, Zenon DEF ExactPosition, F, i, slate, det

\* The slate.
LEMMA MixtureSlateExact ==
    ASSUME NEW r, IsRequest(r), ~ (r.policy.coldRate > 0), r.policy.rate > 0,
           Unlike(Held(r.recall.item)), NEW t, Shown(r, t)
    PROVE  ExactSlate(r, Row(t, ExposeK))
  <1> DEFINE held == Held(r.recall.item)
             n == Cardinality(held)
             m == AtMost(CoarseK, n)
             e == AtMost(ExposeK, m)
             P == Permuted(r)
             slate == Row(t, ExposeK)
             Q == Starting(held, m, t)
             F == {d \in Random(r) : Given(r, d).exposed = slate}
             det == Deterministic(r)
             x == Indicator(slate = det.exposed)
             rest == Whole - r.policy.rate
             a == Cardinality(Arranged(held, e))
  <1>1. /\ held \subseteq Items /\ IsFiniteSet(held) /\ n \in Nat /\ m \in Nat /\ m <= n
        /\ Random(r) = Drawn(P) /\ Equal(r) = Cardinality(P) /\ Cardinality(P) \in Nat
        /\ \A Z \in SUBSET P : \A certain :
              Share(r, certain, Drawn(Z))
                = (Whole - r.policy.rate) * Cardinality(P) * Indicator(certain)
                  + r.policy.rate * Cardinality(Z)
    BY PermutedFacts
  <1>2. P = Arranged(held, m)
    BY DEF Permuted
  <1>3. r.policy.rate \in Nat /\ rest \in Nat /\ x \in {0, 1} /\ ExposeK \in Nat
    <2>1. r.policy.rate \in Nat /\ r.policy.rate <= Whole /\ Whole \in Nat
      BY PolicyFacts DEF IsRequest
    <2> QED  BY <2>1, ConstantFacts DEF Indicator
  <1>4. /\ e \in Nat /\ e \in 0..m /\ \A q \in 1..ExposeK : q <= e <=> q <= m
        /\ \A q \in 1..e : q \in 1..ExposeK /\ q <= m
        /\ AtMost(ExposeK, e) = e
    BY <1>1, <1>3 DEF AtMost
  <1>5. \A s \in P : Given(r, [randomized |-> TRUE, pick |-> s]).exposed = Row(s, ExposeK)
    BY RandomGiven
  <1>6. IsArranged(t, held, e)
    BY DEF Shown
  <1> HIDE DEF n, m, e, P, held, Q, x, rest, det, a
  <1>7. IsPacked(slate, ExposeK, t, e, held)
    BY <1>1, <1>3, <1>4, <1>6, PackedFacts
  <1>8. /\ slate \in RowOf(ExposeK) /\ Held(slate) \subseteq held
        /\ Cardinality(Held(slate)) = e
        /\ \A q \in 1..ExposeK : slate[q] = IF q <= e THEN t[q] ELSE None
    BY <1>4, <1>7 DEF IsPacked
  <1> HIDE DEF slate
  <1>9. SlateBase(r, det, slate) = a /\ a \in Nat
    BY <1>8, SlateBaseIs DEF a, held, det
  <1>10. Q \subseteq P
    BY <1>2 DEF Starting, Q
  <1>11. t \in Arranged(held, e) /\ Len(t) = e /\ t = [q \in 1..e |-> t[q]]
    <2>1. t \in Seq(held) /\ Len(t) = e
      BY <1>6 DEF IsArranged
    <2> QED  BY <1>4, <1>6, <2>1, ArrangedIs
  <1>12. IsFiniteSet(Q) /\ Cardinality(Q) \in Nat /\ a * Cardinality(Q) = 1 * Cardinality(P)
    <2>1. e <= m /\ m <= Cardinality(held)
      BY <1>1, <1>4 DEF n
    <2>2. Cardinality(P) = a * Cardinality(Q) /\ IsFiniteSet(Q) /\ Cardinality(Q) \in Nat
      BY <1>1, <1>2, <1>4, <1>11, <2>1, StartingCount DEF Q, a
    <2> QED  BY <1>1, <2>2
  <1>13. ASSUME NEW s \in P
         PROVE  Row(s, ExposeK) = slate <=> s \in Q
    <2>1. IsArranged(s, held, m)
      BY <1>1, <1>2, ArrangedIs
    <2>2. IsPacked(Row(s, ExposeK), ExposeK, s, m, held)
      BY <1>1, <1>3, <2>1, PackedFacts
    <2>3. /\ Row(s, ExposeK) \in RowOf(ExposeK)
          /\ \A q \in 1..ExposeK : Row(s, ExposeK)[q] = IF q <= m THEN s[q] ELSE None
      BY <2>2 DEF IsPacked
    <2>4. s \in Q <=> Start(s, e) = t
      BY <1>2, <1>11 DEF Starting, Q
    <2>5. ASSUME Row(s, ExposeK) = slate PROVE Start(s, e) = t
      <3>1. \A q \in 1..e : s[q] = t[q]
        BY <1>4, <1>8, <2>3, <2>5
      <3> QED  BY <1>11, <3>1 DEF Start
    <2>6. ASSUME Start(s, e) = t PROVE Row(s, ExposeK) = slate
      <3>1. \A q \in 1..e : t[q] = s[q]
        BY <2>6 DEF Start
      <3>2. \A q \in 1..ExposeK : Row(s, ExposeK)[q] = slate[q]
        BY <1>3, <1>4, <1>8, <2>3, <3>1
      <3> QED  BY <1>8, <2>3, <3>2, EqualRows
    <2> QED  BY <2>4, <2>5, <2>6
  <1>14. F = Drawn(Q)
    <2>1. \A s \in P : [randomized |-> TRUE, pick |-> s] \in Drawn(P)
      BY DEF Drawn
    <2>2. \A s \in P : [randomized |-> TRUE, pick |-> s] \in F <=> s \in Q
      BY <1>1, <1>5, <1>13, <2>1
    <2>3. F \subseteq Drawn(P)
      BY <1>1
    <2> HIDE DEF F
    <2> QED  BY <1>10, <2>2, <2>3, DrawnThose
  <1> HIDE DEF F
  <1>15. Share(r, slate = det.exposed, F) = rest * Cardinality(P) * x + r.policy.rate * Cardinality(Q)
    BY <1>1, <1>10, <1>14 DEF rest, x
  <1>16. LoggedSlate(r, det, slate) = r.policy.rate * 1 + rest * a * x
    <2>1. LoggedSlate(r, det, slate) = r.policy.rate + rest * a * x
      BY <1>9 DEF LoggedSlate, MixtureSlate, rest, x
    <2> QED  BY <1>3, <2>1
  <1>17. LoggedSlate(r, det, slate) * Equal(r) = SlateBase(r, det, slate) * Share(r, slate = det.exposed, F)
    <2> DEFINE equal == Cardinality(P)
               count == Cardinality(Q)
               rate == r.policy.rate
    <2>1. /\ a \in Nat /\ 1 \in Nat /\ equal \in Nat /\ count \in Nat
          /\ rate \in Nat /\ rest \in Nat /\ x \in {0, 1} /\ a * count = 1 * equal
      BY <1>1, <1>3, <1>9, <1>12
    <2>2. /\ LoggedSlate(r, det, slate) = rate * 1 + rest * a * x
          /\ Share(r, slate = det.exposed, F) = rest * equal * x + rate * count
      BY <1>15, <1>16
    <2> HIDE DEF equal, count, rate
    <2>3. (rate * 1 + rest * a * x) * equal = a * (rest * equal * x + rate * count)
      BY <2>1, MixtureShare
    <2>4. Equal(r) = equal
      BY <1>1 DEF equal
    <2> QED  BY <1>9, <2>2, <2>3, <2>4
  <1> QED  BY <1>17, Zenon DEF ExactSlate, F, slate, det

\* Whatever is drawn, what is shown is the beginning of a permutation.
LEMMA MixtureShows ==
    ASSUME NEW r, IsRequest(r), ~ (r.policy.coldRate > 0), r.policy.rate > 0,
           Unlike(Held(r.recall.item)), NEW d \in Draws(r, Deterministic(r))
    PROVE  \E t : Shown(r, t) /\ Given(r, d).exposed = Row(t, ExposeK)
  <1> DEFINE held == Held(r.recall.item)
             m == AtMost(CoarseK, Cardinality(held))
             e == AtMost(ExposeK, m)
  <1>1. d.randomized \in BOOLEAN /\ (d.randomized => d \in Random(r))
    BY DrawsAre
  <1>2. CASE ~ d.randomized
    <2>1. Given(r, d) = Deterministic(r)
      BY <1>2 DEF Given, Ranked
    <2> QED  BY <2>1, DeterministicPacked DEF Shown
  <1>3. CASE d.randomized
    <2>1. held \subseteq Items /\ m \in Nat /\ ExposeK \in Nat /\ Random(r) = Drawn(Permuted(r))
      BY PermutedFacts, ConstantFacts
    <2>2. PICK s \in Permuted(r) : d = [randomized |-> TRUE, pick |-> s]
      BY <1>1, <1>3, <2>1 DEF Drawn
    <2>3. Given(r, d).exposed = Row(s, ExposeK)
      BY <2>2, RandomGiven
    <2>4. IsArranged(s, held, m)
      BY <2>1, ArrangedIs DEF Permuted
    <2>5. e \in 0..m /\ e \in Nat /\ \A q \in 1..ExposeK : q <= e <=> q <= m
      BY <2>1 DEF AtMost
    <2> DEFINE t == Start(s, e)
    <2> HIDE DEF m, e
    <2>6. IsArranged(t, held, e) /\ \A q \in 1..e : t[q] = s[q]
      BY <2>1, <2>4, <2>5, StartFacts
    <2> HIDE DEF held, t
    <2>7. IsPacked(Row(s, ExposeK), ExposeK, s, m, held) /\ IsPacked(Row(t, ExposeK), ExposeK, t, e, held)
      BY <2>1, <2>4, <2>5, <2>6, PackedFacts
    <2>8. \A q \in 1..ExposeK : Row(s, ExposeK)[q] = Row(t, ExposeK)[q]
      BY <2>5, <2>6, <2>7 DEF IsPacked
    <2>9. Row(s, ExposeK) = Row(t, ExposeK)
      BY <2>7, <2>8, EqualRows DEF IsPacked
    <2>10. Shown(r, t)
      BY <2>6 DEF Shown, e, m, held
    <2> QED  BY <2>3, <2>9, <2>10
  <1> QED  BY <1>1, <1>2, <1>3

\* A request that may draw a permutation logs the shares of the permutations.
LEMMA MixtureExact ==
    ASSUME NEW r, IsRequest(r), ~ (r.policy.coldRate > 0), r.policy.rate > 0,
           Unlike(Held(r.recall.item))
    PROVE  LoggedExactly(r)
  <1> DEFINE held == Held(r.recall.item)
             m == AtMost(CoarseK, Cardinality(held))
             det == Deterministic(r)
  <1>1. ASSUME NEW i \in held PROVE ExactAdmission(r, i)
    <2> DEFINE C == {d \in Random(r) : i \in Held(Given(r, d).coarse)}
               N == {d \in Random(r) : i \in Held(Given(r, d).fine)}
               X == {d \in Random(r) : i \in Held(Given(r, d).exposed)}
    <2>1. /\ CoarseK \in Nat /\ FineK \in Nat /\ ExposeK \in Nat /\ m \in Nat
          /\ Random(r) = Drawn(Permuted(r))
      BY PermutedFacts, ConstantFacts
    <2>2. /\ Cardinality(Held(det.coarse)) = AtMost(CoarseK, m)
          /\ Cardinality(Held(det.fine)) = AtMost(FineK, m)
          /\ Cardinality(Held(det.exposed)) = AtMost(ExposeK, m)
      <3>1. /\ Cardinality(Held(det.coarse)) = m
            /\ Cardinality(Held(det.fine)) = AtMost(FineK, m)
            /\ Cardinality(Held(det.exposed)) = AtMost(ExposeK, m)
        BY DeterministicPacked
      <3>2. AtMost(CoarseK, m) = m
        <4>1. \A y \in Nat : AtMost(CoarseK, AtMost(CoarseK, y)) = AtMost(CoarseK, y)
          BY <2>1 DEF AtMost
        <4>2. Cardinality(held) \in Nat
          BY PermutedFacts
        <4> QED  BY <4>1, <4>2
      <3> QED  BY <3>1, <3>2
    <2>3. ASSUME NEW s \in Permuted(r)
          PROVE  LET d == [randomized |-> TRUE, pick |-> s]
                 IN /\ d \in Random(r)
                    /\ Given(r, d).coarse = Row(s, CoarseK)
                    /\ Given(r, d).fine = Row(s, FineK)
                    /\ Given(r, d).exposed = Row(s, ExposeK)
      BY <2>1, RandomGiven DEF Drawn
    <2>4. C \subseteq Random(r) /\ N \subseteq Random(r) /\ X \subseteq Random(r)
      OBVIOUS
    <2>5. \A s \in Permuted(r) :
              LET d == [randomized |-> TRUE, pick |-> s]
              IN /\ d \in C <=> i \in Held(Row(s, CoarseK))
                 /\ d \in N <=> i \in Held(Row(s, FineK))
                 /\ d \in X <=> i \in Held(Row(s, ExposeK))
      BY <2>3
    <2> HIDE DEF C, N, X, det
    <2>6. Admission(r, Deterministic(r), det.coarse, i) * Equal(r)
            = Base(r, Deterministic(r)) * Share(r, i \in Held(det.coarse), C)
      BY <2>1, <2>2, <2>4, <2>5, MixtureStage
    <2>7. Admission(r, Deterministic(r), det.fine, i) * Equal(r)
            = Base(r, Deterministic(r)) * Share(r, i \in Held(det.fine), N)
      BY <2>1, <2>2, <2>4, <2>5, MixtureStage
    <2>8. Admission(r, Deterministic(r), det.exposed, i) * Equal(r)
            = Base(r, Deterministic(r)) * Share(r, i \in Held(det.exposed), X)
      BY <2>1, <2>2, <2>4, <2>5, MixtureStage
    <2> QED  BY <2>6, <2>7, <2>8, Zenon DEF ExactAdmission, C, N, X, det
  <1>2. ASSUME NEW d \in Draws(r, Deterministic(r))
        PROVE  /\ \A p \in 1..ExposeK :
                      Given(r, d).exposed[p] # None => ExactPosition(r, Given(r, d).exposed, p)
               /\ ExactSlate(r, Given(r, d).exposed)
    <2>1. PICK t : Shown(r, t) /\ Given(r, d).exposed = Row(t, ExposeK)
      BY MixtureShows
    <2>2. ExactSlate(r, Row(t, ExposeK))
      BY <2>1, MixtureSlateExact
    <2>3. \A p \in 1..ExposeK :
              Row(t, ExposeK)[p] # None => ExactPosition(r, Row(t, ExposeK), p)
      BY <2>1, MixturePositionExact
    <2> QED  BY <2>1, <2>2, <2>3
  <1> QED  BY <1>1, <1>2, ExactIs

-----------------------------------------------------------------------------
(* One new video.                                                          *)

\* The beginning of a sequence with another item last.
Put(c, k, i) == [q \in 1..k |-> IF q = k THEN i ELSE c[q]]

\* Putting an item last in a row is putting it last in the sequence.
LEMMA PutFacts ==
    ASSUME NEW S, S \subseteq Items, NEW n \in Nat, NEW c, IsArranged(c, S, n),
           NEW k \in 1..n, NEW i \in S, \A q \in 1..k : c[q] # i
    PROVE  /\ IsArranged(Put(c, k, i), S, k)
           /\ Put(c, k, i)[k] = i
           /\ \A q \in 1..k : q # k => Put(c, k, i)[q] = c[q]
           /\ InjectLast(Row(c, k), i) = Row(Put(c, k, i), k)
           /\ i \in Held(Row(Put(c, k, i), k))
  <1> DEFINE u == Put(c, k, i)
             row == Row(c, k)
             new == Row(u, k)
  <1>1. c \in Seq(S) /\ Len(c) = n /\ \A p, q \in 1..n : c[p] = c[q] => p = q
    BY DEF IsArranged
  <1>2. k \in Nat /\ k # 0 /\ k <= n /\ \A q \in 1..k : q \in 1..n
    OBVIOUS
  <1>3. u[k] = i /\ \A q \in 1..k : q # k => u[q] = c[q]
    BY <1>2 DEF Put
  <1>4. u \in Seq(S) /\ Len(u) = k
    <2>1. u \in [1..k -> S]
      BY <1>1, <1>2 DEF Put
    <2>2. DOMAIN u = 1..k
      BY DEF Put
    <2> HIDE DEF u
    <2> QED  BY <1>2, <2>1, <2>2
  <1> HIDE DEF u
  <1>5. IsArranged(u, S, k)
    BY <1>1, <1>2, <1>3, <1>4 DEF IsArranged
  <1>6. IsPacked(row, k, c, n, S) /\ IsPacked(new, k, u, k, S)
    BY <1>2, <1>5, PackedFacts
  <1> HIDE DEF row, new
  <1>7. /\ row \in RowOf(k) /\ new \in RowOf(k)
        /\ \A q \in 1..k : row[q] = c[q] /\ new[q] = u[q]
    BY <1>2, <1>6 DEF IsPacked
  <1>8. i \in Items /\ i # None
    BY ConstantFacts
  <1>9. i \in Held(new)
    BY <1>2, <1>3, <1>7, <1>8, RowFacts
  <1>10. InjectLast(row, i) = new
    <2>1. i \notin Held(row)
      BY <1>2, <1>7, RowFacts
    <2>2. Len(row) = k /\ DOMAIN row = 1..k
      BY <1>2, <1>7 DEF RowOf
    <2>3. InjectLast(row, i) = [row EXCEPT ![k] = i]
      BY <2>1, <2>2 DEF InjectLast
    <2>4. [row EXCEPT ![k] = i] \in RowOf(k)
      BY <1>7, <1>8 DEF RowOf
    <2>5. \A q \in 1..k : [row EXCEPT ![k] = i][q] = new[q]
      BY <1>3, <1>7, <2>2
    <2> QED  BY <1>7, <2>3, <2>4, <2>5, EqualRows
  <1> QED  BY <1>3, <1>5, <1>9, <1>10 DEF u, row, new

\* Putting an item last that was put last before, in a row at least as long.
LEMMA PutAgain ==
    ASSUME NEW S, S \subseteq Items, NEW n \in Nat, NEW c, IsArranged(c, S, n),
           NEW k \in 1..n, NEW i \in S, \A q \in 1..k : c[q] # i, NEW j \in 1..k
    PROVE  InjectLast(Row(Put(c, k, i), j), i) = InjectLast(Row(c, j), i)
  <1> DEFINE u == Put(c, k, i)
  <1>1. /\ IsArranged(u, S, k)
        /\ \A q \in 1..k : q # k => u[q] = c[q]
        /\ InjectLast(Row(c, k), i) = Row(u, k)
        /\ i \in Held(Row(u, k))
    BY PutFacts
  <1> HIDE DEF u
  <1>2. CASE j = k
    BY <1>1, <1>2 DEF InjectLast, u
  <1>3. CASE j # k
    <2>1. j \in Nat /\ k \in Nat /\ \A q \in 1..j : q \in 1..k /\ q # k /\ q <= k /\ q <= n
      BY <1>3
    <2>2. IsPacked(Row(u, j), j, u, k, S) /\ IsPacked(Row(c, j), j, c, n, S)
      BY <1>1, <2>1, PackedFacts
    <2>3. \A q \in 1..j : Row(u, j)[q] = Row(c, j)[q]
      BY <1>1, <2>1, <2>2 DEF IsPacked
    <2>4. Row(u, j) = Row(c, j)
      BY <2>2, <2>3, EqualRows DEF IsPacked
    <2> QED  BY <2>4 DEF u
  <1> QED  BY <1>2, <1>3

\* A ranker of version 0 hands on the order of the coarse stage.
LEMMA DeterministicInOrder ==
    ASSUME NEW r, IsRequest(r), r.policy.fine = 0, Unlike(Held(r.recall.item))
    PROVE  LET det == Deterministic(r)
               held == Held(r.recall.item)
               m == AtMost(CoarseK, Cardinality(held))
           IN \E c : /\ IsArranged(c, held, m)
                     /\ det.coarse = Row(c, CoarseK)
                     /\ det.fine = Row(c, FineK)
                     /\ det.exposed = Row(c, ExposeK)
  <1> DEFINE recall == r.recall.item
             held == Held(recall)
             m == AtMost(CoarseK, Cardinality(held))
             coarse == Top(recall, Scores(r.policy.coarse, recall), CoarseK)
             score == Scores(0, coarse)
             fine == Top(coarse, score, FineK)
  <1>1. /\ Deterministic(r).coarse = coarse /\ Deterministic(r).fine = fine
        /\ Deterministic(r).exposed = DiversifiedTop(fine, score)
    BY DEF Deterministic
  <1>2. PICK c : IsArranged(c, held, m) /\ coarse = Row(c, CoarseK)
    BY <1>1, DeterministicPacked
  <1>3. /\ recall \in RowOf(RecallK) /\ RecallK \in Nat /\ CoarseK \in Nat /\ FineK \in 0..CoarseK
        /\ FineK \in Nat /\ ExposeK \in Nat /\ ExposeK <= FineK
    BY ConstantFacts DEF IsRequest, IsRecall, IsRow
  <1>4. held \subseteq Items /\ IsFiniteSet(held) /\ Cardinality(held) \in Nat
    BY <1>3, RowFacts
  <1>5. m \in Nat /\ \A p \in 1..AtMost(FineK, m) : p \in 1..AtMost(CoarseK, m)
    BY <1>3, <1>4 DEF AtMost
  <1>6. Calm(held) /\ \A i, j \in held : i \in Ads /\ j \in Ads => i = j
    BY DEF Unlike
  <1> HIDE DEF m, coarse, held
  <1>7. fine = Row(c, FineK)
    BY <1>2, <1>3, <1>4, <1>5, OrderTop
  <1>8. \A p \in 1..AtMost(CoarseK, m) : score[c[p]] = -100 * p
    BY <1>2, <1>3, <1>4, <1>5, OrderScores
  <1> HIDE DEF fine, score
  <1>9. Steady(score, c, AtMost(FineK, m))
    <2>1. \A p \in 1..AtMost(FineK, m) : score[c[p]] = -100 * p
      BY <1>5, <1>8
    <2>2. AtMost(FineK, m) \in Nat
      BY <1>3, <1>5, AtMostIs
    <2> QED  BY <2>1, <2>2 DEF Steady, PriorityGap
  <1>10. OneAdIn(c, m)
    <2>1. c \in Seq(held) /\ Len(c) = m /\ \A p, q \in 1..m : c[p] = c[q] => p = q
      BY <1>2 DEF IsArranged
    <2>2. \A p \in 1..m : c[p] \in held
      BY <2>1
    <2> QED  BY <1>6, <2>1, <2>2 DEF OneAdIn
  <1>11. DiversifiedTop(Row(c, FineK), score) = Row(c, ExposeK)
    BY <1>2, <1>3, <1>4, <1>5, <1>6, <1>9, <1>10, SlateInOrder
  <1> QED  BY <1>1, <1>2, <1>7, <1>11 DEF m, held, recall

\* A row of k places of c with item i in it is the beginning of u.
Injected(u, l, S, c, n, k, i) ==
    /\ l \in Nat /\ IsArranged(u, S, l)
    /\ InjectLast(Row(c, k), i) = Row(u, k)
    /\ i \in Held(Row(u, k))
    /\ \A j \in 1..k : InjectLast(Row(u, j), i) = InjectLast(Row(c, j), i)
    /\ \/ l = n /\ u = c
       \/ l = k /\ u[k] = i /\ \A q \in 1..k : c[q] # i /\ (q # k => u[q] = c[q])

\* Whether or not the item is in the row, the row is the beginning of a sequence.
LEMMA InjectedExists ==
    ASSUME NEW S, S \subseteq Items, NEW n \in Nat, NEW c, IsArranged(c, S, n),
           NEW k \in Nat \ {0}, NEW i \in S, i \notin Held(Row(c, k)) => k <= n
    PROVE  \E u : \E l \in Nat : Injected(u, l, S, c, n, k, i)
  <1>1. CASE i \in Held(Row(c, k))
    <2>1. InjectLast(Row(c, k), i) = Row(c, k)
      BY <1>1 DEF InjectLast
    <2>2. Injected(c, n, S, c, n, k, i)
      BY <1>1, <2>1 DEF Injected
    <2> QED  BY <2>2
  <1>2. CASE i \notin Held(Row(c, k))
    <2>1. k \in 1..n /\ k \in Nat /\ \A q \in 1..k : q <= n
      BY <1>2
    <2>2. IsPacked(Row(c, k), k, c, n, S)
      BY <2>1, PackedFacts
    <2>3. \A q \in 1..k : c[q] # i
      <3>1. /\ Row(c, k) \in RowOf(k)
            /\ \A q \in 1..k : Row(c, k)[q] = c[q]
        BY <2>1, <2>2 DEF IsPacked
      <3>2. i \in Items
        OBVIOUS
      <3>3. \A q \in 1..k : Row(c, k)[q] # i
        BY <1>2, <2>1, <3>1, <3>2, RowFacts
      <3> QED  BY <3>1, <3>3
    <2> DEFINE u == Put(c, k, i)
    <2>4. /\ IsArranged(u, S, k) /\ u[k] = i
          /\ \A q \in 1..k : q # k => u[q] = c[q]
          /\ InjectLast(Row(c, k), i) = Row(u, k)
          /\ i \in Held(Row(u, k))
      BY <2>1, <2>3, PutFacts
    <2>5. \A j \in 1..k : InjectLast(Row(u, j), i) = InjectLast(Row(c, j), i)
      BY <2>1, <2>3, PutAgain
    <2> HIDE DEF u
    <2>6. Injected(u, k, S, c, n, k, i)
      BY <2>1, <2>3, <2>4, <2>5 DEF Injected
    <2> QED  BY <2>1, <2>6
  <1> QED  BY <1>1, <1>2

\* A row that has not all items of the request has no gap.
LEMMA HasPlace ==
    ASSUME NEW S, S \subseteq Items, IsFiniteSet(S), NEW n \in Nat, NEW c, IsArranged(c, S, n),
           NEW m \in Nat, n = AtMost(m, Cardinality(S)), NEW k \in 0..m,
           NEW i \in S, i \notin Held(Row(c, k))
    PROVE  k <= n
  <1> SUFFICES ASSUME n < k PROVE FALSE
    OBVIOUS
  <1>1. Cardinality(S) \in Nat /\ k \in Nat
    BY FS_CardinalityType
  <1>2. n = Cardinality(S)
    BY <1>1 DEF AtMost
  <1>3. IsPacked(Row(c, k), k, c, n, S)
    BY <1>1, PackedFacts
  <1>4. Held(Row(c, k)) \subseteq S /\ Cardinality(Held(Row(c, k))) = n
    <2>1. AtMost(k, n) = n
      BY <1>1 DEF AtMost
    <2> QED  BY <1>3, <2>1 DEF IsPacked
  <1>5. Held(Row(c, k)) = S
    BY <1>2, <1>4, FS_Subset
  <1> QED  BY <1>5

\* One new video is put last in each stage that has not ranked it already, and changes
\* nothing else.
LEMMA ColdGiven ==
    ASSUME NEW r, IsRequest(r), r.policy.coldRate > 0, r.policy.fine = 0,
           Unlike(Held(r.recall.item)), NEW e \in EligibleCold(r, Deterministic(r))
    PROVE  LET det == Deterministic(r)
               given == Given(r, [randomized |-> TRUE, pick |-> <<e>>])
           IN /\ given.coarse = InjectLast(det.coarse, e)
              /\ given.fine = InjectLast(det.fine, e)
              /\ given.exposed = InjectLast(det.exposed, e)
  <1> DEFINE det == Deterministic(r)
             held == Held(r.recall.item)
             m == AtMost(CoarseK, Cardinality(held))
             coarse == InjectLast(det.coarse, e)
             score == Scores(0, coarse)
             top == Top(coarse, score, FineK)
             fine == InjectLast(top, e)
             given == Given(r, [randomized |-> TRUE, pick |-> <<e>>])
  <1>1. /\ given.coarse = coarse /\ given.fine = fine
        /\ given.exposed = InjectLast(DiversifiedTop(fine, score), e)
    <2>1. given = WithColdItem(r, det, e)
      BY DEF Given, Ranked
    <2> QED  BY <2>1 DEF WithColdItem
  <1>2. /\ r.recall.item \in RowOf(RecallK) /\ RecallK \in Nat /\ r.recall.cold \subseteq held
        /\ CoarseK \in Nat \ {0} /\ FineK \in Nat \ {0} /\ ExposeK \in Nat \ {0}
        /\ ExposeK <= FineK /\ FineK <= CoarseK
    BY ConstantFacts DEF IsRequest, IsRecall, IsRow
  <1>3. held \subseteq Items /\ IsFiniteSet(held) /\ Cardinality(held) \in Nat
    BY <1>2, RowFacts
  <1>4. e \in held
    BY <1>2 DEF EligibleCold
  <1>5. Calm(held) /\ \A i, j \in held : i \in Ads /\ j \in Ads => i = j
    BY DEF Unlike
  <1>6. PICK c : /\ IsArranged(c, held, m)
                 /\ det.coarse = Row(c, CoarseK)
                 /\ det.fine = Row(c, FineK)
                 /\ det.exposed = Row(c, ExposeK)
    BY DeterministicInOrder
  <1>7. m \in Nat /\ FineK \in 0..CoarseK /\ CoarseK \in 0..CoarseK
        /\ FineK \in 1..CoarseK /\ ExposeK \in 1..CoarseK /\ ExposeK \in 1..FineK
    <2>1. m \in Nat
      BY <1>2, <1>3, AtMostIs
    <2> HIDE DEF det, held, m, coarse, score, top, fine, given
    <2>2. FineK \in 0..CoarseK /\ CoarseK \in 0..CoarseK
      BY <1>2
    <2>3. FineK \in 1..CoarseK /\ ExposeK \in 1..CoarseK /\ ExposeK \in 1..FineK
      BY <1>2
    <2> QED  BY <2>1, <2>2, <2>3
  <1> HIDE DEF det, given, score, top, fine
  <1>8. \A k \in 0..CoarseK : e \notin Held(Row(c, k)) => k <= m
    <2> DEFINE l == m
    <2>1. l = AtMost(CoarseK, Cardinality(held)) /\ l \in Nat /\ IsArranged(c, held, l)
      BY <1>6, <1>7
    <2> HIDE DEF l, held
    <2>2. \A k \in 0..CoarseK : e \notin Held(Row(c, k)) => k <= l
      BY <1>2, <1>3, <1>4, <2>1, HasPlace
    <2> QED  BY <2>2 DEF l, held
  <1> HIDE DEF m, held
  <1>9. PICK cc : \E l \in Nat : Injected(cc, l, held, c, m, CoarseK, e)
    BY <1>2, <1>3, <1>4, <1>6, <1>7, <1>8, InjectedExists
  <1>10. PICK l \in Nat : Injected(cc, l, held, c, m, CoarseK, e)
    BY <1>9
  <1>11. /\ IsArranged(cc, held, l) /\ e \in Held(Row(cc, CoarseK))
         /\ coarse = Row(cc, CoarseK)
         /\ \A j \in 1..CoarseK : InjectLast(Row(cc, j), e) = InjectLast(Row(c, j), e)
         /\ (l = m /\ cc = c) \/ l = CoarseK
    BY <1>6, <1>10 DEF Injected
  <1>12. e \notin Held(Row(cc, FineK)) => FineK <= l
    BY <1>2, <1>7, <1>8, <1>11
  <1>13. PICK ff : \E h \in Nat : Injected(ff, h, held, cc, l, FineK, e)
    BY <1>2, <1>3, <1>4, <1>11, <1>12, InjectedExists
  <1>14. PICK h \in Nat : Injected(ff, h, held, cc, l, FineK, e)
    BY <1>13
  <1> HIDE DEF coarse
  <1>15. /\ IsArranged(ff, held, h)
         /\ InjectLast(Row(cc, FineK), e) = Row(ff, FineK)
         /\ \A j \in 1..FineK : InjectLast(Row(ff, j), e) = InjectLast(Row(cc, j), e)
         /\ \/ h = l /\ ff = cc
            \/ h = FineK /\ ff[FineK] = e
               /\ \A q \in 1..FineK : cc[q] # e /\ (q # FineK => ff[q] = cc[q])
    BY <1>14 DEF Injected
  <1>16. top = Row(cc, FineK)
    BY <1>2, <1>3, <1>7, <1>11, OrderTop DEF top, score
  <1>17. fine = Row(ff, FineK) /\ fine = InjectLast(Row(c, FineK), e)
    BY <1>7, <1>11, <1>15, <1>16 DEF fine
  <1> DEFINE a == AtMost(CoarseK, l)
             b == AtMost(FineK, h)
  <1>18. \A p \in 1..a : score[cc[p]] = -100 * p
    BY <1>2, <1>3, <1>11, OrderScores DEF score
  <1>19. Steady(score, ff, b)
    <2>1. CASE h = l /\ ff = cc
      <3>1. b \in Nat /\ \A p \in 1..b : p \in 1..a
        BY <1>2, <2>1 DEF AtMost
      <3> HIDE DEF a, b
      <3>2. \A p \in 1..b : score[ff[p]] = -100 * p
        BY <1>18, <2>1, <3>1
      <3> QED  BY <3>1, <3>2 DEF Steady, PriorityGap
    <2>2. CASE /\ h = FineK /\ ff[FineK] = e
               /\ \A q \in 1..FineK : cc[q] # e /\ (q # FineK => ff[q] = cc[q])
      <3>1. IsPacked(Row(cc, CoarseK), CoarseK, cc, l, held)
        BY <1>2, <1>3, <1>11, PackedFacts
      <3>2. PICK P \in 1..a : e = cc[P]
        BY <1>11, <3>1 DEF IsPacked
      <3>3. b = FineK /\ a \in Nat
        BY <1>2, <2>2 DEF AtMost
      <3> HIDE DEF a, b
      <3>4. P > FineK
        BY <1>2, <2>2, <3>2, <3>3
      <3>5. FineK <= a
        BY <1>2, <3>2, <3>3, <3>4
      <3>6. score[ff[FineK]] = -100 * P
        BY <1>18, <2>2, <3>2
      <3>7. \A p \in 1..FineK : p # FineK => score[ff[p]] = -100 * p
        BY <1>2, <1>18, <2>2, <3>3, <3>5
      <3>8. \A p \in 1..FineK : score[ff[p]] \in Int
        BY <1>2, <3>2, <3>3, <3>6, <3>7
      <3>9. \A p, q \in 1..FineK : p < q => score[ff[p]] - score[ff[q]] >= 100
        <4> SUFFICES ASSUME NEW p \in 1..FineK, NEW q \in 1..FineK, p < q
                     PROVE  score[ff[p]] - score[ff[q]] >= 100
          OBVIOUS
        <4>1. score[ff[p]] = -100 * p
          BY <1>2, <3>7
        <4>2. CASE q = FineK
          BY <1>2, <3>2, <3>3, <3>4, <3>6, <4>1, <4>2
        <4>3. CASE q # FineK
          BY <1>2, <3>7, <4>1, <4>3
        <4> QED  BY <4>2, <4>3
      <3> QED  BY <3>3, <3>8, <3>9 DEF Steady, PriorityGap
    <2> QED  BY <1>15, <2>1, <2>2
  <1>20. OneAdIn(ff, h)
    <2>1. ff \in Seq(held) /\ Len(ff) = h /\ \A p, q \in 1..h : ff[p] = ff[q] => p = q
      BY <1>15 DEF IsArranged
    <2>2. \A p \in 1..h : ff[p] \in held
      BY <2>1
    <2>3. \A i, j \in held : i \in Ads /\ j \in Ads => i = j
      BY <1>5
    <2> QED  BY <2>1, <2>2, <2>3 DEF OneAdIn
  <1>21. DiversifiedTop(Row(ff, FineK), score) = Row(ff, ExposeK)
    BY <1>2, <1>3, <1>5, <1>15, <1>19, <1>20, SlateInOrder
  <1>22. InjectLast(Row(ff, ExposeK), e) = InjectLast(Row(c, ExposeK), e)
    BY <1>7, <1>11, <1>15
  <1>23. /\ given.fine = InjectLast(det.fine, e)
         /\ given.exposed = InjectLast(det.exposed, e)
    BY <1>1, <1>6, <1>17, <1>21, <1>22
  <1> QED  BY <1>1, <1>23 DEF coarse, given, det

\* The draw of a new video, and of those of a set.
OneNew(i) == [randomized |-> TRUE, pick |-> <<i>>]
New(Q) == {OneNew(i) : i \in Q}

\* There are as many draws as new videos.
LEMMA NewCount ==
    ASSUME NEW Q, IsFiniteSet(Q)
    PROVE  IsFiniteSet(New(Q)) /\ Cardinality(New(Q)) = Cardinality(Q)
  <1> DEFINE f == [i \in Q |-> OneNew(i)]
  <1>1. f \in [Q -> New(Q)]
    BY DEF New
  <1>2. ASSUME NEW i \in Q, NEW j \in Q, f[i] = f[j] PROVE i = j
    <2>1. f[i].pick[1] = i /\ f[j].pick[1] = j
      BY DEF OneNew
    <2> HIDE DEF f
    <2> QED  BY <1>2, <2>1
  <1>3. \A d \in New(Q) : \E i \in Q : f[i] = d
    BY DEF New
  <1> HIDE DEF f
  <1> QED  BY <1>1, <1>2, <1>3, SameSize

\* A set of draws is known by its new videos.
LEMMA NewThose ==
    ASSUME NEW P, NEW F, F \subseteq New(P), NEW Q, Q \subseteq P,
           \A i \in P : OneNew(i) \in F <=> i \in Q
    PROVE  F = New(Q)
  BY DEF New

\* What a request in cold start draws from.
LEMMA ColdFacts ==
    ASSUME NEW r, IsRequest(r), r.policy.coldRate > 0, EligibleCold(r, Deterministic(r)) # {}
    PROVE  LET det == Deterministic(r)
               E == EligibleCold(r, det)
               n == Cardinality(E)
           IN /\ IsFiniteSet(E) /\ n \in Nat \ {0} /\ E \subseteq Items
              /\ \A i \in E : i \notin Held(det.exposed)
              /\ Random(r) = New(E) /\ Equal(r) = n /\ Base(r, det) = n
              /\ SupportedRate(r, det) = r.policy.coldRate
              /\ r.policy.coldRate \in Nat /\ r.policy.coldRate <= Whole /\ Whole \in Nat
              /\ \A Q \in SUBSET E : \A certain :
                    Share(r, certain, New(Q))
                      = (Whole - r.policy.coldRate) * n * Indicator(certain)
                        + r.policy.coldRate * Cardinality(Q)
  <1> DEFINE det == Deterministic(r)
             E == EligibleCold(r, det)
             n == Cardinality(E)
  <1>1. /\ E \subseteq Items
        /\ \A i \in E : i \notin Held(det.exposed)
    BY ConstantFacts DEF EligibleCold
  <1>2. /\ r.policy.coldRate \in Nat /\ r.policy.coldRate <= Whole /\ Whole \in Nat
    BY PolicyFacts DEF IsRequest
  <1> HIDE DEF det
  <1>3. IsFiniteSet(E)
    BY BaseFacts DEF det
  <1>4. n \in Nat \ {0}
    BY <1>3, FS_CardinalityType, FS_EmptySet DEF det
  <1>5. Picks(r, det) = {<<i>> : i \in E}
    BY DEF Picks
  <1>6. Rate(r) = r.policy.coldRate
    BY DEF Rate
  <1> HIDE DEF E
  <1>7. Random(r) = New(E)
    <2>1. Random(r) = Drawn({<<i>> : i \in E})
      BY <1>5, <1>6, DrawsAre DEF det
    <2> QED  BY <2>1 DEF Drawn, New, OneNew
  <1>8. IsFiniteSet(Random(r)) /\ Cardinality(Random(r)) = n
    BY <1>3, <1>7, NewCount
  <1>9. Equal(r) = n
    BY <1>4, <1>8, MaxOf DEF Equal
  <1>10. Base(r, det) = n
    BY <1>4, MaxOf DEF Base, EqualDraws, E
  <1>11. E # {}
    BY DEF E, det
  <1>12. DrawRate(r) = r.policy.coldRate
    <2>1. Random(r) # {}
      BY <1>7, <1>11 DEF New
    <2> QED  BY <1>6, <2>1 DEF DrawRate
  <1>13. SupportedRate(r, det) = r.policy.coldRate
    BY <1>11 DEF SupportedRate, E
  <1>14. ASSUME NEW Q \in SUBSET E, NEW certain
         PROVE  Share(r, certain, New(Q))
                  = (Whole - r.policy.coldRate) * n * Indicator(certain)
                    + r.policy.coldRate * Cardinality(Q)
    <2>1. Cardinality(New(Q)) = Cardinality(Q)
      BY <1>3, FS_Subset, NewCount
    <2> QED  BY <1>9, <1>12, <2>1 DEF Share
  <1> QED  BY <1>1, <1>2, <1>3, <1>4, <1>7, <1>9, <1>10, <1>13, <1>14 DEF E, det

\* The items of a row with a new one in the last place.
LEMMA InjectHeld ==
    ASSUME NEW k \in Nat \ {0}, NEW row \in RowOf(k), Distinct(row), NEW e \in Items,
           e \notin Held(row)
    PROVE  /\ InjectLast(row, e) \in RowOf(k)
           /\ \A p \in 1..k : InjectLast(row, e)[p] = IF p = k THEN e ELSE row[p]
           /\ \A i : i \in Held(InjectLast(row, e)) <=> i = e \/ (i \in Held(row) /\ i # Last(row))
  <1> DEFINE new == [row EXCEPT ![k] = e]
  <1>1. Len(row) = k /\ DOMAIN row = 1..k
    BY DEF RowOf
  <1>2. InjectLast(row, e) = new
    BY <1>1 DEF InjectLast
  <1>3. new \in RowOf(k)
    BY DEF RowOf
  <1>4. \A p \in 1..k : new[p] = IF p = k THEN e ELSE row[p]
    BY <1>1
  <1>5. Last(row) = row[k]
    BY <1>1 DEF Last
  <1>6. \A p, q \in 1..k : row[p] = row[q] => p = q \/ row[p] = None
    BY <1>1 DEF Distinct
  <1> HIDE DEF new
  <1>7. \A i : i \in Held(row) <=> i \in Items /\ \E p \in 1..k : row[p] = i
    BY RowFacts
  <1>8. \A i : i \in Held(new) <=> i \in Items /\ \E p \in 1..k : new[p] = i
    BY <1>3, RowFacts
  <1>9. k \in 1..k /\ None \notin Items
    BY ConstantFacts
  <1>10. ASSUME NEW i
         PROVE  i \in Held(new) <=> i = e \/ (i \in Held(row) /\ i # Last(row))
    <2>1. ASSUME i \in Held(new), i # e PROVE i \in Held(row) /\ i # Last(row)
      <3>1. PICK p \in 1..k : new[p] = i
        BY <1>8, <2>1
      <3>2. i \in Items /\ p # k /\ row[p] = i
        BY <1>4, <1>8, <2>1, <3>1
      <3>3. i # row[k]
        BY <1>6, <1>9, <3>2
      <3> QED  BY <1>5, <1>7, <3>2, <3>3
    <2>2. ASSUME i \in Held(row), i # Last(row) PROVE i \in Held(new)
      <3>1. PICK p \in 1..k : row[p] = i
        BY <1>7, <2>2
      <3>2. p # k /\ new[p] = i
        BY <1>4, <1>5, <2>2, <3>1
      <3> QED  BY <1>7, <1>8, <2>2, <3>2
    <2>3. e \in Held(new)
      BY <1>4, <1>8, <1>9
    <2> QED  BY <2>1, <2>2, <2>3
  <1> QED  BY <1>2, <1>3, <1>4, <1>10

\* The admission to a stage.
LEMMA ColdStage ==
    ASSUME NEW r, IsRequest(r), r.policy.coldRate > 0, EligibleCold(r, Deterministic(r)) # {},
           NEW i \in Items, NEW k \in Nat \ {0}, NEW chosen \in RowOf(k), Distinct(chosen),
           NEW F, F \subseteq Random(r),
           \A e \in EligibleCold(r, Deterministic(r)) :
               OneNew(e) \in F <=> i \in Held(InjectLast(chosen, e))
    PROVE  Admission(r, Deterministic(r), chosen, i) * Equal(r)
             = Base(r, Deterministic(r)) * Share(r, i \in Held(chosen), F)
  <1> DEFINE det == Deterministic(r)
             E == EligibleCold(r, det)
             n == Cardinality(E)
             rate == r.policy.coldRate
             outside == E \ Held(chosen)
             out == Cardinality(outside)
             Q == {e \in E : i \in Held(InjectLast(chosen, e))}
             count == Cardinality(Q)
  <1>1. /\ IsFiniteSet(E) /\ n \in Nat \ {0} /\ E \subseteq Items
        /\ Random(r) = New(E) /\ Equal(r) = n /\ Base(r, det) = n
        /\ SupportedRate(r, det) = rate /\ rate > 0
        /\ rate \in Nat /\ rate <= Whole /\ Whole \in Nat
        /\ \A Z \in SUBSET E : \A certain :
              Share(r, certain, New(Z))
                = (Whole - rate) * n * Indicator(certain) + rate * Cardinality(Z)
    BY ColdFacts
  <1>2. Admission(r, det, chosen, i)
          = IF i \in Held(chosen)
            THEN Whole * Base(r, det) - SupportedRate(r, det) * out * Indicator(i = Last(chosen))
            ELSE SupportedRate(r, det) * Indicator(i \in outside)
    BY DEF Admission, TargetedAdmission
  <1> HIDE DEF det, E, n, rate, out, outside, Q, count
  <1>3. Q \subseteq E /\ \A e \in E : e \in Q <=> i \in Held(InjectLast(chosen, e))
    BY DEF Q
  <1>4. F = New(Q)
    <2>1. \A e \in E : OneNew(e) \in F <=> e \in Q
      BY <1>3 DEF E, det
    <2>2. F \subseteq New(E)
      BY <1>1
    <2> QED  BY <1>3, <2>1, <2>2, NewThose
  <1>5. Share(r, i \in Held(chosen), F) = (Whole - rate) * n * Indicator(i \in Held(chosen)) + rate * count
    BY <1>1, <1>3, <1>4 DEF count
  <1>6. ASSUME NEW e \in E
        PROVE  e \in Q <=> IF e \in Held(chosen) THEN i \in Held(chosen)
                           ELSE i = e \/ (i \in Held(chosen) /\ i # Last(chosen))
    <2>1. CASE e \in Held(chosen)
      BY <1>3, <2>1 DEF InjectLast
    <2>2. CASE e \notin Held(chosen)
      BY <1>1, <1>3, <2>2, InjectHeld
    <2> QED  BY <2>1, <2>2
  <1>7. outside \subseteq E /\ \A e \in E : e \in outside <=> e \notin Held(chosen)
    BY DEF outside
  <1>8. IsFiniteSet(outside) /\ out \in Nat /\ out <= n /\ count \in Nat
    BY <1>1, <1>3, <1>7, FS_Subset, FS_CardinalityType DEF n, out, count
  <1>9. CASE i \in Held(chosen) /\ i = Last(chosen)
    <2>1. \A e \in E : e \in Q <=> e \notin outside
      BY <1>6, <1>7, <1>9
    <2>2. Q = E \ outside
      BY <1>3, <1>7, <2>1
    <2>3. count = n - out
      <3>1. E \cap outside = outside
        BY <1>7
      <3>2. Cardinality(E \ outside) = Cardinality(E) - Cardinality(E \cap outside)
        BY <1>1, FS_Difference
      <3> QED  BY <2>2, <3>1, <3>2 DEF count, n, out
    <2>4. Admission(r, det, chosen, i) = Whole * n - rate * out * 1
      BY <1>1, <1>2, <1>9 DEF Indicator
    <2>5. Share(r, i \in Held(chosen), F) = (Whole - rate) * n * 1 + rate * (n - out)
      BY <1>5, <1>9, <2>3 DEF Indicator
    <2>6. \A w, s, x, y \in Int : (w * x - s * y * 1) * x = x * ((w - s) * x * 1 + s * (x - y))
      <3> TAKE w, s, x, y \in Int
      <3>1. /\ (w - s) * x * 1 = w * x - s * x
            /\ s * (x - y) = s * x - s * y
            /\ s * y * 1 = s * y
        OBVIOUS
      <3> DEFINE a == w * x
                 b == s * x
                 c == s * y
      <3>2. a \in Int /\ b \in Int /\ c \in Int
        OBVIOUS
      <3>3. (w - s) * x * 1 + s * (x - y) = a - c /\ w * x - s * y * 1 = a - c
        BY <3>1, <3>2
      <3> HIDE DEF a, b, c
      <3>4. a - c \in Int
        BY <3>2
      <3> QED  BY <3>3, <3>4
    <2>7. (Whole * n - rate * out * 1) * n = n * ((Whole - rate) * n * 1 + rate * (n - out))
      BY <1>1, <1>8, <2>6
    <2> QED  BY <1>1, <2>4, <2>5, <2>7 DEF det
  <1>10. CASE i \in Held(chosen) /\ i # Last(chosen)
    <2>1. Q = E
      BY <1>3, <1>6, <1>10
    <2>2. count = n
      BY <2>1 DEF count, n
    <2>3. Admission(r, det, chosen, i) = Whole * n
      <3>1. Admission(r, det, chosen, i) = Whole * n - rate * out * 0
        BY <1>1, <1>2, <1>10 DEF Indicator
      <3>2. rate * out \in Nat /\ Whole * n \in Nat
        BY <1>1, <1>8
      <3> DEFINE a == rate * out
                 b == Whole * n
      <3> HIDE DEF a, b
      <3>3. Admission(r, det, chosen, i) = b - a * 0 /\ a \in Nat /\ b \in Nat
        BY <3>1, <3>2 DEF a, b
      <3>4. Admission(r, det, chosen, i) = b
        BY <3>3
      <3> QED  BY <3>4 DEF b
    <2>4. Share(r, i \in Held(chosen), F) = Whole * n
      <3>1. Share(r, i \in Held(chosen), F) = (Whole - rate) * n * 1 + rate * n
        BY <1>5, <1>10, <2>2 DEF Indicator
      <3>2. \A w, s, x \in Int : (w - s) * x * 1 + s * x = w * x
        OBVIOUS
      <3> QED  BY <1>1, <3>1, <3>2
    <2>5. (Whole * n) * n = n * (Whole * n)
      <3> DEFINE b == Whole * n
      <3>1. b \in Int /\ n \in Int
        BY <1>1
      <3> HIDE DEF b
      <3> QED  BY <3>1 DEF b
    <2> QED  BY <1>1, <2>3, <2>4, <2>5 DEF det
  <1>11. CASE i \notin Held(chosen)
    <2> DEFINE x == Indicator(i \in outside)
    <2>1. x \in {0, 1}
      BY DEF Indicator
    <2>2. count = x
      <3>1. CASE i \in outside
        <4>1. Q = {i}
          BY <1>3, <1>6, <1>7, <1>11, <3>1
        <4> QED  BY <3>1, <4>1, FS_Singleton DEF count, Indicator
      <3>2. CASE i \notin outside
        <4>1. Q = {}
          BY <1>3, <1>6, <1>7, <1>11, <3>2
        <4> QED  BY <3>2, <4>1, FS_EmptySet DEF count, Indicator
      <3> QED  BY <3>1, <3>2
    <2> HIDE DEF x
    <2>3. Admission(r, det, chosen, i) = rate * x
      BY <1>1, <1>2, <1>11 DEF x
    <2>4. Share(r, i \in Held(chosen), F) = rate * x
      <3>1. Share(r, i \in Held(chosen), F) = (Whole - rate) * n * 0 + rate * x
        BY <1>5, <1>11, <2>2 DEF Indicator
      <3>2. \A w, s, y, z \in Int : (w - s) * y * 0 + s * z = s * z
        OBVIOUS
      <3> QED  BY <1>1, <2>1, <3>1, <3>2
    <2>5. (rate * x) * n = n * (rate * x)
      <3> DEFINE b == rate * x
      <3>1. b \in Int /\ n \in Int
        BY <1>1, <2>1
      <3> HIDE DEF b
      <3> QED  BY <3>1 DEF b
    <2> QED  BY <1>1, <2>3, <2>4, <2>5 DEF det
  <1> QED  BY <1>9, <1>10, <1>11

\* What is shown differs from the deterministic slate in the last place only.
LEMMA ColdShown ==
    ASSUME NEW r, IsRequest(r), r.policy.coldRate > 0, r.policy.fine = 0,
           Unlike(Held(r.recall.item)), EligibleCold(r, Deterministic(r)) # {}
    PROVE  LET shown == Deterministic(r).exposed
           IN /\ shown \in RowOf(ExposeK)
              /\ \A e \in EligibleCold(r, Deterministic(r)) :
                    LET given == Given(r, OneNew(e)).exposed
                    IN /\ given \in RowOf(ExposeK) /\ e # shown[ExposeK]
                       /\ \A p \in 1..ExposeK : given[p] = IF p = ExposeK THEN e ELSE shown[p]
  <1> DEFINE shown == Deterministic(r).exposed
  <1>1. ExposeK \in Nat \ {0} /\ ExposeK \in 1..ExposeK
    BY ConstantFacts
  <1>2. shown \in RowOf(ExposeK) /\ Distinct(shown)
    BY DeterministicNested DEF Nested, IsFull, IsRow
  <1>3. ASSUME NEW e \in EligibleCold(r, Deterministic(r))
        PROVE  LET given == Given(r, OneNew(e)).exposed
               IN /\ given \in RowOf(ExposeK) /\ e # shown[ExposeK]
                  /\ \A p \in 1..ExposeK : given[p] = IF p = ExposeK THEN e ELSE shown[p]
    <2>1. e \in Items /\ e \notin Held(shown)
      BY ColdFacts
    <2>2. Given(r, OneNew(e)).exposed = InjectLast(shown, e)
      BY ColdGiven DEF OneNew
    <2> HIDE DEF shown
    <2>3. e # shown[ExposeK]
      BY <1>1, <1>2, <2>1, RowFacts
    <2> QED  BY <1>1, <1>2, <2>1, <2>2, <2>3, InjectHeld
  <1> QED  BY <1>2, <1>3

\* A certain part, multiplied out.
LEMMA ColdShare ==
    ASSUME NEW n \in Nat, NEW rate \in Nat, NEW whole \in Nat
    PROVE  /\ (whole * n) * n = n * ((whole - rate) * n * 1 + rate * n)
           /\ ((whole - rate) * n) * n = n * ((whole - rate) * n * 1 + rate * 0)
           /\ rate * n = n * ((whole - rate) * n * 0 + rate * 1)
  <1> DEFINE rest == whole - rate
  <1>1. rest \in Int
    OBVIOUS
  <1>2. whole = rest + rate
    OBVIOUS
  <1> HIDE DEF rest
  <1>3. whole * n = rest * n + rate * n
    BY <1>1, <1>2
  <1> DEFINE a == rest * n
             b == rate * n
  <1>4. a \in Int /\ b \in Int
    BY <1>1
  <1>5. rest * n * 1 = a /\ rest * n * 0 = 0 /\ rate * 0 = 0 /\ rate * 1 = rate
    BY <1>1
  <1>6. (whole * n) * n = n * (rest * n * 1 + b)
    <2>1. whole * n = a + b
      BY <1>3
    <2> HIDE DEF a, b
    <2> QED  BY <1>4, <1>5, <2>1
  <1>7. a * n = n * (rest * n * 1 + rate * 0)
    <2> HIDE DEF a
    <2> QED  BY <1>4, <1>5
  <1>8. rate * n = n * (rest * n * 0 + rate * 1)
    BY <1>5
  <1> QED  BY <1>6, <1>7, <1>8 DEF rest

\* An item at its position.
LEMMA ColdPositionExact ==
    ASSUME NEW r, IsRequest(r), r.policy.coldRate > 0, r.policy.fine = 0,
           Unlike(Held(r.recall.item)), EligibleCold(r, Deterministic(r)) # {},
           NEW slate,
           \/ slate = Deterministic(r).exposed
           \/ \E e \in EligibleCold(r, Deterministic(r)) : slate = Given(r, OneNew(e)).exposed,
           NEW p \in 1..ExposeK, slate[p] # None
    PROVE  ExactPosition(r, slate, p)
  <1> DEFINE det == Deterministic(r)
             shown == det.exposed
             E == EligibleCold(r, det)
             n == Cardinality(E)
             rate == r.policy.coldRate
             F == {d \in Random(r) : Given(r, d).exposed[p] = slate[p]}
  <1>1. /\ IsFiniteSet(E) /\ n \in Nat \ {0} /\ E \subseteq Items
        /\ Random(r) = New(E) /\ Equal(r) = n /\ Base(r, det) = n
        /\ SupportedRate(r, det) = rate
        /\ rate \in Nat /\ rate <= Whole /\ Whole \in Nat
        /\ \A Z \in SUBSET E : \A certain :
              Share(r, certain, New(Z))
                = (Whole - rate) * n * Indicator(certain) + rate * Cardinality(Z)
    BY ColdFacts
  <1>2. \A e \in E : LET given == Given(r, OneNew(e)).exposed
                     IN /\ e # shown[ExposeK]
                        /\ \A q \in 1..ExposeK : given[q] = IF q = ExposeK THEN e ELSE shown[q]
    BY ColdShown
  <1>3. LoggedPosition(r, det, slate, p)
          = IF p = ExposeK
            THEN IF slate[p] = shown[p] THEN (Whole - SupportedRate(r, det)) * Base(r, det)
                 ELSE SupportedRate(r, det)
            ELSE Whole * Base(r, det)
    BY DEF LoggedPosition, TargetedPosition, TargetedLast
  <1>4. slate = shown \/ \E e \in E : slate = Given(r, OneNew(e)).exposed
    OBVIOUS
  <1> HIDE DEF det, shown, E, n, rate
  <1>5. ASSUME NEW Q \in SUBSET E, \A e \in E : Given(r, OneNew(e)).exposed[p] = slate[p] <=> e \in Q
        PROVE  \A certain : Share(r, certain, F)
                              = (Whole - rate) * n * Indicator(certain) + rate * Cardinality(Q)
    <2>1. \A e \in E : OneNew(e) \in Random(r)
      BY <1>1 DEF New
    <2>2. \A e \in E : OneNew(e) \in F <=> e \in Q
      BY <1>5, <2>1
    <2>3. F \subseteq New(E)
      BY <1>1
    <2> HIDE DEF F
    <2>4. F = New(Q)
      BY <2>2, <2>3, NewThose
    <2> QED  BY <1>1, <2>4
  <1> HIDE DEF F
  <1>6. LoggedPosition(r, det, slate, p) * n = n * Share(r, slate[p] = shown[p], F)
    <2>1. CASE p # ExposeK
      <3>1. slate[p] = shown[p]
        BY <1>2, <1>4, <2>1
      <3>2. \A e \in E : Given(r, OneNew(e)).exposed[p] = slate[p] <=> e \in E
        BY <1>2, <2>1, <3>1
      <3>3. Share(r, slate[p] = shown[p], F) = (Whole - rate) * n * 1 + rate * n
        <4>1. Share(r, slate[p] = shown[p], F)
                = (Whole - rate) * n * Indicator(slate[p] = shown[p]) + rate * Cardinality(E)
          BY <1>5, <3>2
        <4> QED  BY <3>1, <4>1 DEF Indicator, n
      <3>4. LoggedPosition(r, det, slate, p) = Whole * n
        BY <1>1, <1>3, <2>1
      <3> QED  BY <1>1, <3>3, <3>4, ColdShare
    <2>2. CASE p = ExposeK /\ slate[p] = shown[p]
      <3>1. \A e \in E : Given(r, OneNew(e)).exposed[p] = slate[p] <=> e \in {}
        BY <1>2, <2>2
      <3>2. Share(r, slate[p] = shown[p], F) = (Whole - rate) * n * 1 + rate * 0
        <4>1. Share(r, slate[p] = shown[p], F)
                = (Whole - rate) * n * Indicator(slate[p] = shown[p]) + rate * Cardinality({})
          BY <1>5, <3>1
        <4> QED  BY <2>2, <4>1, FS_EmptySet DEF Indicator
      <3>3. LoggedPosition(r, det, slate, p) = (Whole - rate) * n
        BY <1>1, <1>3, <2>2
      <3> QED  BY <1>1, <3>2, <3>3, ColdShare
    <2>3. CASE p = ExposeK /\ slate[p] # shown[p]
      <3>1. PICK e \in E : slate = Given(r, OneNew(e)).exposed
        BY <1>4, <2>3
      <3>2. \A j \in E : Given(r, OneNew(j)).exposed[p] = slate[p] <=> j \in {e}
        BY <1>2, <2>3, <3>1
      <3>3. Share(r, slate[p] = shown[p], F) = (Whole - rate) * n * 0 + rate * 1
        <4>1. Share(r, slate[p] = shown[p], F)
                = (Whole - rate) * n * Indicator(slate[p] = shown[p]) + rate * Cardinality({e})
          BY <1>5, <3>2
        <4> QED  BY <2>3, <4>1, FS_Singleton DEF Indicator
      <3>4. LoggedPosition(r, det, slate, p) = rate
        BY <1>1, <1>3, <2>3
      <3> QED  BY <1>1, <3>3, <3>4, ColdShare
    <2> QED  BY <2>1, <2>2, <2>3
  <1>7. LoggedPosition(r, det, slate, p) * Equal(r) = Base(r, det) * Share(r, slate[p] = shown[p], F)
    BY <1>1, <1>6
  <1> QED  BY <1>7, Zenon DEF ExactPosition, F, shown, det

\* The slate.
LEMMA ColdSlateExact ==
    ASSUME NEW r, IsRequest(r), r.policy.coldRate > 0, r.policy.fine = 0,
           Unlike(Held(r.recall.item)), EligibleCold(r, Deterministic(r)) # {},
           NEW slate,
           \/ slate = Deterministic(r).exposed
           \/ \E e \in EligibleCold(r, Deterministic(r)) : slate = Given(r, OneNew(e)).exposed
    PROVE  ExactSlate(r, slate)
  <1> DEFINE det == Deterministic(r)
             shown == det.exposed
             E == EligibleCold(r, det)
             n == Cardinality(E)
             rate == r.policy.coldRate
             F == {d \in Random(r) : Given(r, d).exposed = slate}
  <1>1. /\ IsFiniteSet(E) /\ n \in Nat \ {0} /\ E \subseteq Items
        /\ Random(r) = New(E) /\ Equal(r) = n /\ Base(r, det) = n
        /\ SupportedRate(r, det) = rate
        /\ rate \in Nat /\ rate <= Whole /\ Whole \in Nat
        /\ \A Z \in SUBSET E : \A certain :
              Share(r, certain, New(Z))
                = (Whole - rate) * n * Indicator(certain) + rate * Cardinality(Z)
    BY ColdFacts
  <1>2. /\ \A e \in E : Given(r, OneNew(e)).exposed[ExposeK] = e /\ e # shown[ExposeK]
        /\ ExposeK \in 1..ExposeK
    <2>1. ExposeK \in 1..ExposeK
      BY ConstantFacts
    <2> QED  BY <2>1, ColdShown
  <1>3. /\ LoggedSlate(r, det, slate)
             = IF slate = shown THEN (Whole - SupportedRate(r, det)) * Base(r, det)
               ELSE SupportedRate(r, det)
        /\ SlateBase(r, det, slate) = Base(r, det)
    BY DEF LoggedSlate, TargetedSlate, TargetedLast, SlateBase
  <1>4. slate = shown \/ \E e \in E : slate = Given(r, OneNew(e)).exposed
    OBVIOUS
  <1> HIDE DEF det, shown, E, n, rate
  <1>5. ASSUME NEW Q \in SUBSET E, \A e \in E : Given(r, OneNew(e)).exposed = slate <=> e \in Q
        PROVE  \A certain : Share(r, certain, F)
                              = (Whole - rate) * n * Indicator(certain) + rate * Cardinality(Q)
    <2>1. \A e \in E : OneNew(e) \in Random(r)
      BY <1>1 DEF New
    <2>2. \A e \in E : OneNew(e) \in F <=> e \in Q
      BY <1>5, <2>1
    <2>3. F \subseteq New(E)
      BY <1>1
    <2> HIDE DEF F
    <2>4. F = New(Q)
      BY <2>2, <2>3, NewThose
    <2> QED  BY <1>1, <2>4
  <1> HIDE DEF F
  <1>6. LoggedSlate(r, det, slate) * n = n * Share(r, slate = shown, F)
    <2>1. CASE slate = shown
      <3>1. \A e \in E : Given(r, OneNew(e)).exposed = slate <=> e \in {}
        BY <1>2, <2>1
      <3>2. Share(r, slate = shown, F) = (Whole - rate) * n * 1 + rate * 0
        <4>1. Share(r, slate = shown, F)
                = (Whole - rate) * n * Indicator(slate = shown) + rate * Cardinality({})
          BY <1>5, <3>1
        <4> QED  BY <2>1, <4>1, FS_EmptySet DEF Indicator
      <3>3. LoggedSlate(r, det, slate) = (Whole - rate) * n
        BY <1>1, <1>3, <2>1
      <3> QED  BY <1>1, <3>2, <3>3, ColdShare
    <2>2. CASE slate # shown
      <3>1. PICK e \in E : slate = Given(r, OneNew(e)).exposed
        BY <1>4, <2>2
      <3>2. \A j \in E : Given(r, OneNew(j)).exposed = slate <=> j \in {e}
        BY <1>2, <3>1
      <3>3. Share(r, slate = shown, F) = (Whole - rate) * n * 0 + rate * 1
        <4>1. Share(r, slate = shown, F)
                = (Whole - rate) * n * Indicator(slate = shown) + rate * Cardinality({e})
          BY <1>5, <3>2
        <4> QED  BY <2>2, <4>1, FS_Singleton DEF Indicator
      <3>4. LoggedSlate(r, det, slate) = rate
        BY <1>1, <1>3, <2>2
      <3> QED  BY <1>1, <3>3, <3>4, ColdShare
    <2> QED  BY <2>1, <2>2
  <1>7. LoggedSlate(r, det, slate) * Equal(r) = SlateBase(r, det, slate) * Share(r, slate = shown, F)
    BY <1>1, <1>3, <1>6
  <1> QED  BY <1>7, Zenon DEF ExactSlate, F, shown, det

\* A request that may draw a new video logs the shares of the new videos.
LEMMA ColdExact ==
    ASSUME NEW r, IsRequest(r), r.policy.coldRate > 0, r.policy.fine = 0,
           Unlike(Held(r.recall.item)), EligibleCold(r, Deterministic(r)) # {}
    PROVE  LoggedExactly(r)
  <1> DEFINE held == Held(r.recall.item)
             det == Deterministic(r)
             E == EligibleCold(r, det)
  <1>1. ASSUME NEW i \in held PROVE ExactAdmission(r, i)
    <2> DEFINE C == {d \in Random(r) : i \in Held(Given(r, d).coarse)}
               N == {d \in Random(r) : i \in Held(Given(r, d).fine)}
               X == {d \in Random(r) : i \in Held(Given(r, d).exposed)}
    <2>1. /\ CoarseK \in Nat \ {0} /\ FineK \in Nat \ {0} /\ ExposeK \in Nat \ {0}
          /\ Random(r) = New(E) /\ i \in Items
      BY <1>1, ColdFacts, RowFacts, ConstantFacts DEF IsRequest, IsRecall, IsRow
    <2>2. /\ det.coarse \in RowOf(CoarseK) /\ Distinct(det.coarse)
          /\ det.fine \in RowOf(FineK) /\ Distinct(det.fine)
          /\ det.exposed \in RowOf(ExposeK) /\ Distinct(det.exposed)
      BY DeterministicNested DEF Nested, IsFull, IsRow
    <2>3. ASSUME NEW e \in E
          PROVE  /\ OneNew(e) \in Random(r)
                 /\ Given(r, OneNew(e)).coarse = InjectLast(det.coarse, e)
                 /\ Given(r, OneNew(e)).fine = InjectLast(det.fine, e)
                 /\ Given(r, OneNew(e)).exposed = InjectLast(det.exposed, e)
      BY <2>1, ColdGiven DEF OneNew, New
    <2>4. C \subseteq Random(r) /\ N \subseteq Random(r) /\ X \subseteq Random(r)
      OBVIOUS
    <2>5. \A e \in E : /\ OneNew(e) \in C <=> i \in Held(InjectLast(det.coarse, e))
                       /\ OneNew(e) \in N <=> i \in Held(InjectLast(det.fine, e))
                       /\ OneNew(e) \in X <=> i \in Held(InjectLast(det.exposed, e))
      BY <2>3
    <2> HIDE DEF C, N, X
    <2>6. Admission(r, det, det.coarse, i) * Equal(r)
            = Base(r, det) * Share(r, i \in Held(det.coarse), C)
      BY <2>1, <2>2, <2>4, <2>5, ColdStage
    <2>7. Admission(r, det, det.fine, i) * Equal(r)
            = Base(r, det) * Share(r, i \in Held(det.fine), N)
      BY <2>1, <2>2, <2>4, <2>5, ColdStage
    <2>8. Admission(r, det, det.exposed, i) * Equal(r)
            = Base(r, det) * Share(r, i \in Held(det.exposed), X)
      BY <2>1, <2>2, <2>4, <2>5, ColdStage
    <2> QED  BY <2>6, <2>7, <2>8, Zenon DEF ExactAdmission, C, N, X
  <1>2. ASSUME NEW d \in Draws(r, det)
        PROVE  \/ Given(r, d).exposed = det.exposed
               \/ \E e \in E : Given(r, d).exposed = Given(r, OneNew(e)).exposed
    <2>1. d.randomized \in BOOLEAN /\ (d.randomized => d \in Random(r))
      BY DrawsAre
    <2>2. CASE ~ d.randomized
      BY <2>2 DEF Given, Ranked
    <2>3. CASE d.randomized
      <3>1. d \in New(E)
        BY <2>1, <2>3, ColdFacts
      <3>2. PICK e \in E : d = OneNew(e)
        BY <3>1 DEF New
      <3> QED  BY <3>2
    <2> QED  BY <2>1, <2>2, <2>3
  <1>3. ASSUME NEW d \in Draws(r, Deterministic(r))
        PROVE  /\ \A p \in 1..ExposeK :
                      Given(r, d).exposed[p] # None => ExactPosition(r, Given(r, d).exposed, p)
               /\ ExactSlate(r, Given(r, d).exposed)
    <2> DEFINE slate == Given(r, d).exposed
    <2>1. slate = det.exposed \/ \E e \in E : slate = Given(r, OneNew(e)).exposed
      BY <1>2
    <2> HIDE DEF slate
    <2>2. ExactSlate(r, slate)
      BY <2>1, ColdSlateExact
    <2>3. \A p \in 1..ExposeK : slate[p] # None => ExactPosition(r, slate, p)
      BY <2>1, ColdPositionExact
    <2> QED  BY <2>2, <2>3 DEF slate
  <1> QED  BY <1>1, <1>3, ExactIs

\* Few alike and one ad.
LEMMA IdentifiedFacts ==
    ASSUME NEW r, IsRequest(r), Identified(r)
    PROVE  /\ Unlike(Held(r.recall.item))
           /\ r.policy.coldRate > 0 => r.policy.fine = 0
  <1> DEFINE held == Held(r.recall.item)
  <1>1. IsFiniteSet(held)
    BY BaseFacts
  <1>2. /\ Cardinality(held \cap Ads) <= 1
        /\ r.policy.coldRate > 0 => r.policy.fine = 0
    BY DEF Identified
  <1>3. Calm(held)
    BY DEF Identified, Calm, Likes
  <1> HIDE DEF held
  <1>4. ASSUME NEW i \in held, NEW j \in held, i \in Ads, j \in Ads, i # j PROVE FALSE
    <2> DEFINE both == {i} \cup {j}
    <2>1. IsFiniteSet({i}) /\ Cardinality({i}) = 1
      BY FS_Singleton
    <2>2. Cardinality(both) = 2
      BY <1>4, <2>1, FS_AddElement
    <2>3. both \subseteq held \cap Ads
      BY <1>4
    <2> HIDE DEF both
    <2>4. IsFiniteSet(held \cap Ads)
      BY <1>1, FS_Subset
    <2>5. Cardinality(both) <= Cardinality(held \cap Ads) /\ Cardinality(held \cap Ads) \in Nat
      BY <2>3, <2>4, FS_Subset, FS_CardinalityType
    <2> QED  BY <1>2, <2>2, <2>5
  <1>5. Unlike(held)
    BY <1>3, <1>4 DEF Unlike
  <1> QED  BY <1>2, <1>5 DEF held

\* Of every request whose numbers can be exact they are: of those that draw nothing, of
\* those that may draw a permutation and of those that may draw a new video.
LEMMA RequestsAreExact ==
    ASSUME NEW r, IsRequest(r), Identified(r)
    PROVE  LoggedExactly(r)
  <1> DEFINE det == Deterministic(r)
             E == EligibleCold(r, det)
  <1>1. /\ r.policy.rate \in Nat /\ r.policy.coldRate \in Nat
        /\ Unlike(Held(r.recall.item))
        /\ r.policy.coldRate > 0 => r.policy.fine = 0
    BY PolicyFacts, IdentifiedFacts DEF IsRequest
  <1>2. CASE r.policy.coldRate > 0 /\ E # {}
    BY <1>1, <1>2, ColdExact
  <1>3. CASE r.policy.coldRate > 0 /\ E = {}
    <2>1. Rate(r) > 0 /\ Picks(r, det) = {}
      BY <1>3 DEF Rate, Picks
    <2>2. Random(r) = {}
      BY <2>1, DrawsAre DEF Drawn
    <2> QED  BY <1>3, <2>2, DeterministicExact
  <1>4. CASE ~ (r.policy.coldRate > 0) /\ r.policy.rate > 0
    BY <1>1, <1>4, MixtureExact
  <1>5. CASE ~ (r.policy.coldRate > 0) /\ r.policy.rate = 0
    <2>1. ~ (Rate(r) > 0)
      BY <1>5 DEF Rate
    <2>2. Random(r) = {}
      BY <2>1, DrawsAre
    <2> QED  BY <1>5, <2>2, DeterministicExact
  <1> QED  BY <1>1, <1>2, <1>3, <1>4, <1>5

\* The logged probabilities are those of the process that draws
\* (platform/exploration.py, platform/routes/cold_start_exploration.py): of the items in
\* each stage, of the items at their positions and of the slate, for every draw there is.
THEOREM PropensitiesAreExact == CascadeSpec => []PropensityIsExact
  <1>1. CascadeInv => PropensityIsExact
    <2> SUFFICES ASSUME CascadeInv, phase = "recalled", Identified(request)
                 PROVE  LoggedExactly(request)
      BY DEF PropensityIsExact
    <2>1. IsRequest(request)
      BY DEF CascadeInv
    <2> QED  BY <2>1, RequestsAreExact
  <1> QED  BY <1>1, CascadeInvariant, PTL
================================================================================

------------------------- MODULE ScenarioLaunchProofs -------------------------
(***************************************************************************)
(* Theorems about the launches that are reviewed over several windows: for *)
(* any number of processes no window follows the one that concluded its    *)
(* launch, and what is published of a window is one whole attempt on the   *)
(* history; when one process runs at a time, as the experiments are        *)
(* operated, windows are atomic and failed attempts leave nothing behind   *)
(* but what CommitEarly launches publish before their analysis.            *)
(***************************************************************************)
EXTENDS ScenarioLaunch, FiniteSetTheorems, WellFoundedInduction, TLAPS

-----------------------------------------------------------------------------
(* The inductive invariants.                                               *)

\* A process that runs a window runs it for a launch that was not complete in
\* the checkpoint it started from.
Busy == {"window", "commit", "analysis", "save", "advance"}

GateHeld ==
    \A r \in Runners :
        runner[r].pc \in Busy => ~Completed(runner[r].base, runner[r].launch)

\* What a process read was the head, and is part of it for ever.
BasesOnHistory == \A r \in Runners : IsAncestor(runner[r].base, head)

IInv == /\ TypeOK
        /\ GateHeld
        /\ ReviewsConclude
        /\ BasesOnHistory
        /\ AttemptsOnHistory

\* What holds when one process runs at a time.
OneProcess == \A r, q \in Runners : r = q

Beyond == {p \in stream : Len(p.work) > Len(head)}

\* The head does not move under a running process.
AtHead == \A r \in Runners : runner[r].pc # "idle" => head = runner[r].base

\* Beyond the head: nothing before the commit, then the committed window.
Pending ==
    \A r \in Runners :
        /\ runner[r].pc \in {"window", "commit"} => Beyond = {}
        /\ runner[r].pc = "analysis" => Beyond = IF Early(r) THEN Files(Work(r)) ELSE {}
        /\ runner[r].pc \in {"save", "advance"} => Beyond = Files(Work(r))

\* Between two attempts, while no process has died.
Orphans ==
    crashes = 0 /\ (\A r \in Runners : runner[r].pc \in {"idle", "opening"})
        => \A p \in Beyond : p.work[Len(p.work)].launch \in CommitEarly

SInv == /\ TypeOK
        /\ OneProcess
        /\ AtHead
        /\ Pending
        /\ Orphans

-----------------------------------------------------------------------------
(* Lineages.                                                               *)

LEMMA ChildFacts ==
    ASSUME NEW c \in Lineages, NEW e \in Entry
    PROVE  /\ Append(c, e) \in Lineages
           /\ Len(c) \in Nat /\ Len(Append(c, e)) = Len(c) + 1
           /\ \A i \in 1..Len(c) : Append(c, e)[i] = c[i]
           /\ Append(c, e)[Len(c) + 1] = e
           /\ DOMAIN Append(c, e) = 1..(Len(c) + 1) /\ DOMAIN c = 1..Len(c)
  BY DEF Lineages

LEMMA AncestorTransitive ==
    ASSUME NEW a \in Lineages, NEW b \in Lineages, NEW c \in Lineages,
           IsAncestor(a, b), IsAncestor(b, c)
    PROVE  IsAncestor(a, c)
  BY DEF Lineages, IsAncestor

LEMMA AncestorReflexive ==
    ASSUME NEW a \in Lineages  PROVE IsAncestor(a, a)
  BY DEF Lineages, IsAncestor

\* A nonempty set of positions in a lineage has a last one.
LEMMA LastPosition ==
    ASSUME NEW n \in Nat, NEW S \in SUBSET (1..n), S # {}
    PROVE  \E i \in S : \A j \in S : j <= i
  <1> DEFINE R == {p \in Nat \X Nat : p[1] < p[2]}
             T == {n - i : i \in S}
  <1>1. IsWellFoundedOn(R, Nat)
    BY NatLessThanWellFounded DEF OpToRel
  <1>2. T \subseteq Nat /\ T # {}
    <2>1. \A i \in S : n - i \in Nat
      OBVIOUS
    <2> QED  BY <2>1
  <1> HIDE DEF R, T
  <1>3. PICK m \in T : \A k \in T : ~ (<<k, m>> \in R)
    BY <1>1, <1>2, WFMin
  <1>4. \A k \in T : m <= k
    <2>1. \A k \in T : k \in Nat /\ m \in Nat /\ ~ (k < m)
      BY <1>2, <1>3 DEF R
    <2> QED  BY <2>1
  <1>5. PICK i \in S : m = n - i
    BY DEF T
  <1>6. \A j \in S : n - j \in T
    BY DEF T
  <1>7. \A j \in S : j <= i
    BY <1>4, <1>5, <1>6
  <1> QED  BY <1>7

\* One more window of a launch that is not complete breaks no review.
LEMMA WindowReviewed ==
    ASSUME NEW c \in Lineages, NEW e \in Entry, NEW l \in Launches,
           ~Completed(c, e.launch),
           Cardinality(Attempts(c, l)) <= MaxAttempts,
           \A i, j \in Attempts(c, l) : i < j => <<l, c[i].variant>> \notin Concludes
    PROVE  LET d == Append(c, e)
           IN /\ Cardinality(Attempts(d, l)) <= MaxAttempts
              /\ \A i, j \in Attempts(d, l) :
                     i < j => <<l, d[i].variant>> \notin Concludes
  <1> DEFINE d == Append(c, e)
             n == Len(c)
             A == Attempts(c, l)
  <1>1. /\ n \in Nat /\ DOMAIN c = 1..n /\ DOMAIN d = 1..(n + 1)
        /\ \A i \in 1..n : d[i] = c[i]
        /\ d[n + 1] = e
    BY ChildFacts
  <1>2. A \subseteq 1..n
    BY <1>1 DEF Attempts
  <1>3. IsFiniteSet(A) /\ Cardinality(A) \in Nat
    <2>1. IsFiniteSet(1..n)
      BY <1>1, FS_Interval
    <2> HIDE DEF A
    <2> QED  BY <1>2, <2>1, FS_Subset, FS_CardinalityType
  <1> HIDE DEF d, n
  <1>4. CASE l # e.launch
    <2>1. Attempts(d, l) = A
      BY <1>1, <1>4 DEF Attempts
    <2>2. \A i \in A : d[i] = c[i]
      BY <1>1, <1>2
    <2> QED  BY <2>1, <2>2 DEF d
  <1>5. CASE l = e.launch
    <2>1. Attempts(d, l) = A \cup {n + 1} /\ n + 1 \notin A
      BY <1>1, <1>2, <1>5 DEF Attempts
    <2>2. \A i \in A : (\A j \in A : j <= i) =>
              /\ <<l, c[i].variant>> \notin Concludes
              /\ Cardinality(A) < MaxAttempts
      BY <1>3, <1>5, ScenarioAssumption DEF Completed
    <2>3. A # {} => \E i \in A : \A j \in A : j <= i
      BY <1>1, <1>2, LastPosition
    <2>4. Cardinality(A) < MaxAttempts
      <3>1. CASE A = {}
        BY <3>1, FS_EmptySet, ScenarioAssumption
      <3>2. CASE A # {}
        BY <3>2, <2>2, <2>3
      <3> QED  BY <3>1, <3>2
    <2>5. Cardinality(A \cup {n + 1}) = Cardinality(A) + 1
      BY <1>3, <2>1, FS_AddElement
    <2>6. Cardinality(Attempts(d, l)) <= MaxAttempts
      BY <1>3, <2>1, <2>4, <2>5, ScenarioAssumption
    <2>7. ASSUME NEW i \in Attempts(d, l), NEW j \in Attempts(d, l), i < j
          PROVE  <<l, d[i].variant>> \notin Concludes
      <3>1. i \in A /\ i \in 1..n
        BY <1>1, <1>2, <2>1, <2>7
      <3>2. d[i] = c[i]
        BY <1>1, <3>1
      <3>3. CASE \E k \in A : i < k
        BY <3>1, <3>2, <3>3
      <3>4. CASE ~ \E k \in A : i < k
        <4>1. \A k \in A : k <= i
          BY <1>1, <1>2, <3>1, <3>4
        <4> QED  BY <2>2, <3>1, <3>2, <4>1
      <3> QED  BY <3>3, <3>4
    <2> QED  BY <2>6, <2>7 DEF d
  <1> QED  BY <1>4, <1>5

-----------------------------------------------------------------------------
(* Types.                                                                  *)

LEMMA FilesFacts ==
    ASSUME NEW work
    PROVE  /\ \A p \in Files(work) : p.work = work
           /\ \A p, q \in Files(work) : SameTime(p, q) => p = q
           /\ work \in Lineages => Files(work) \subseteq Partitions
  <1>1. \A p \in Files(work) : \E k \in 1..Ticks : p = [work |-> work, tick |-> k]
    BY DEF Files
  <1>2. \A p \in Files(work) : p.work = work
    BY <1>1
  <1>3. ASSUME NEW p \in Files(work), NEW q \in Files(work), SameTime(p, q)
        PROVE  p = q
    <2>1. PICK k \in 1..Ticks : p = [work |-> work, tick |-> k]
      BY <1>1
    <2>2. PICK m \in 1..Ticks : q = [work |-> work, tick |-> m]
      BY <1>1
    <2> QED  BY <1>3, <2>1, <2>2 DEF SameTime
  <1>4. work \in Lineages => Files(work) \subseteq Partitions
    BY <1>1 DEF Partitions
  <1> QED  BY <1>2, <1>3, <1>4

LEMMA WorkFacts ==
    ASSUME TypeOK, NEW r \in Runners
    PROVE  /\ runner[r] \in RunnerState
           /\ runner[r].base \in Lineages /\ Len(runner[r].base) \in Nat
           /\ runner[r].launch \in Launches /\ runner[r].variant \in Variants
           /\ [launch |-> runner[r].launch, variant |-> runner[r].variant] \in Entry
           /\ Work(r) \in Lineages
           /\ Len(Work(r)) = Len(runner[r].base) + 1
           /\ Work(r)[Len(Work(r))].launch = runner[r].launch
  <1>1. runner[r] \in RunnerState
    BY DEF TypeOK
  <1>2. /\ runner[r].base \in Lineages
        /\ runner[r].launch \in Launches /\ runner[r].variant \in Variants
    BY <1>1 DEF RunnerState
  <1> DEFINE e == [launch |-> runner[r].launch, variant |-> runner[r].variant]
  <1>3. e \in Entry /\ e.launch = runner[r].launch
    BY <1>2 DEF Entry
  <1>4. Work(r) = Append(runner[r].base, e)
    BY DEF Work
  <1> HIDE DEF e
  <1>5. /\ Work(r) \in Lineages /\ Len(runner[r].base) \in Nat
        /\ Len(Work(r)) = Len(runner[r].base) + 1
        /\ Work(r)[Len(runner[r].base) + 1] = e
    BY <1>2, <1>3, <1>4, ChildFacts
  <1> QED  BY <1>1, <1>2, <1>3, <1>5 DEF e

LEMMA IdleTyped == Idle \in RunnerState /\ Idle.pc = "idle"
  <1>1. (CHOOSE l \in Launches : TRUE) \in Launches
        /\ (CHOOSE v \in Variants : TRUE) \in Variants
    BY ScenarioAssumption
  <1>2. <<>> \in Lineages /\ 0 \in 0..Ticks
    BY StoresAssumption DEF Lineages
  <1> QED  BY <1>1, <1>2 DEF Idle, RunnerState, Steps

SameJob(q) == /\ runner'[q].base = runner[q].base
              /\ runner'[q].launch = runner[q].launch
              /\ runner'[q].variant = runner[q].variant

LEMMA ControlTyped ==
    ASSUME runner \in [Runners -> RunnerState], NEW r \in Runners
    PROVE  /\ \A s \in Steps : Goto(r, s) =>
                  /\ runner' \in [Runners -> RunnerState]
                  /\ runner'[r].pc = s /\ SameJob(r)
                  /\ \A q \in Runners : q # r => runner'[q] = runner[q]
           /\ Exit(r) =>
                  /\ runner' \in [Runners -> RunnerState]
                  /\ runner'[r].pc = "idle"
                  /\ \A q \in Runners : q # r => runner'[q] = runner[q]
  BY IdleTyped DEF Goto, Exit, RunnerState, SameJob

LEMMA TickTyped ==
    ASSUME runner \in [Runners -> RunnerState], NEW r \in Runners, RunTick(r)
    PROVE  /\ runner' \in [Runners -> RunnerState]
           /\ runner'[r].pc \in {"window", "commit", "analysis"}
           /\ runner'[r].pc = "analysis" => ~Early(r)
           /\ SameJob(r)
           /\ \A q \in Runners : q # r => runner'[q] = runner[q]
  <1> DEFINE k == runner[r].tick + 1
             s == IF k < Ticks THEN "window" ELSE IF Early(r) THEN "commit" ELSE "analysis"
             new == [runner[r] EXCEPT !.tick = k, !.pc = s]
  <1>1. runner[r] \in RunnerState
    OBVIOUS
  <1>2. runner[r].tick \in 0..Ticks /\ runner[r].tick < Ticks
    BY <1>1 DEF RunTick, RunnerState
  <1>3. k \in 0..Ticks /\ s \in {"window", "commit", "analysis"} /\ s \in Steps
        /\ (s = "analysis" => ~Early(r))
    BY <1>2, StoresAssumption DEF Steps
  <1>4. runner' = [runner EXCEPT ![r] = new]
    BY DEF RunTick
  <1>5. /\ new \in RunnerState
        /\ new.pc = s
        /\ new.base = runner[r].base /\ new.launch = runner[r].launch
        /\ new.variant = runner[r].variant
    <2> HIDE DEF k, s
    <2> QED  BY <1>1, <1>3 DEF RunnerState
  <1> HIDE DEF new
  <1>6. /\ runner'[r] = new
        /\ runner' \in [Runners -> RunnerState]
        /\ \A q \in Runners : q # r => runner'[q] = runner[q]
    BY <1>4, <1>5
  <1> QED  BY <1>3, <1>5, <1>6 DEF SameJob

LEMMA StoresTyped ==
    ASSUME StoresTypeOK, NEW base \in Lineages, NEW work \in Lineages,
           NEW l, NEW k
    PROVE  /\ Stage(work, k) => staging' \subseteq Partitions
           /\ AbortStaged(base, l) => staging' \subseteq Partitions
           /\ CommitStaged(base, l, work) =>
                  stream' \subseteq Partitions /\ staging' \subseteq Partitions
           /\ ReconcileThrough(base) => stream' \subseteq Partitions
           /\ SaveCheckpoint(work) => saved' \subseteq Lineages
           /\ AdvanceMain(base, work) => head' \in Lineages
  BY FilesFacts DEF StoresTypeOK, Stage, AbortStaged, CommitStaged,
     ReconcileThrough, SaveCheckpoint, AdvanceMain

\* Exceptions: the process leaves or cleans up, and files may be gone.
LEMMA HandlerFacts ==
    ASSUME TypeOK, NEW r \in Runners, Handler(r)
    PROVE  /\ runner' \in [Runners -> RunnerState]
           /\ \/ runner'[r].pc = "idle" /\ runner[r].pc = "window" /\ ~Early(r)
              \/ runner'[r].pc = "cleanup" /\ SameJob(r)
           /\ \A q \in Runners : q # r => runner'[q] = runner[q]
           /\ UNCHANGED <<head, saved, stream, crashes>>
           /\ staging' \subseteq Partitions
  <1>1. runner \in [Runners -> RunnerState] /\ StoresTypeOK /\ runner[r].base \in Lineages
    BY WorkFacts DEF TypeOK
  <1>2. UNCHANGED <<head, saved, stream, crashes>>
    BY DEF Handler
  <1>3. staging' \subseteq Partitions
    <2>1. staging' = staging \/ AbortStaged(runner[r].base, runner[r].launch)
      BY DEF Handler
    <2> QED  BY <1>1, <2>1 DEF StoresTypeOK, AbortStaged
  <1>4. CASE Exit(r) /\ runner[r].pc = "window" /\ ~Early(r)
    BY <1>1, <1>2, <1>3, <1>4, ControlTyped
  <1>5. CASE Goto(r, "cleanup")
    BY <1>1, <1>2, <1>3, <1>5, ControlTyped DEF Steps
  <1> QED  BY <1>4, <1>5 DEF Handler

LEMMA TypePreserved == TypeOK /\ [Next]_vars => TypeOK'
  <1> SUFFICES ASSUME TypeOK, [Next]_vars  PROVE TypeOK'
    OBVIOUS
  <1>0. CASE UNCHANGED vars
    BY <1>0 DEF TypeOK, StoresTypeOK, vars, stores
  <1> SUFFICES ASSUME NEW r \in Runners,
                      \/ \E l \in Launches, v \in Variants : ReadHead(r, l, v)
                      \/ Step(r) \/ Fail(r) \/ AnalysisFails(r) \/ Crash(r)
               PROVE  TypeOK'
    BY <1>0 DEF Next
  <1>a. /\ StoresTypeOK /\ runner \in [Runners -> RunnerState]
        /\ failures \in Nat /\ crashes \in Nat
        /\ runner[r].base \in Lineages /\ Work(r) \in Lineages
    BY WorkFacts DEF TypeOK
  <1>1. ASSUME NEW l \in Launches, NEW v \in Variants, ReadHead(r, l, v)
        PROVE  TypeOK'
    <2>1. [pc |-> "opening", base |-> head, launch |-> l, variant |-> v, tick |-> 0]
              \in RunnerState
      BY <1>a, StoresAssumption DEF RunnerState, Steps, StoresTypeOK
    <2> QED  BY <1>1, <1>a, <2>1 DEF ReadHead, TypeOK, StoresTypeOK, stores
  <1>2. CASE GateRaises(r)
    <2>1. stream' = stream \/ ReconcileThrough(runner[r].base)
      BY <1>2 DEF GateRaises
    <2>2. stream' \subseteq Partitions
      BY <1>a, <2>1 DEF StoresTypeOK, ReconcileThrough
    <2> QED  BY <1>2, <1>a, <2>2, ControlTyped DEF GateRaises, TypeOK, StoresTypeOK
  <1>3. CASE OpenStream(r) \/ Cleanup(r)
    BY <1>3, <1>a, ControlTyped, StoresTyped
       DEF OpenStream, Cleanup, TypeOK, StoresTypeOK, Steps
  <1>4. CASE RunTick(r)
    <2>1. runner' \in [Runners -> RunnerState]
      BY <1>4, <1>a, TickTyped
    <2>2. staging' \subseteq Partitions
      <3>1. Stage(Work(r), runner[r].tick + 1)
        BY <1>4 DEF RunTick
      <3> QED  BY <1>a, <3>1, StoresTyped
    <2> QED  BY <1>4, <1>a, <2>1, <2>2 DEF RunTick, TypeOK, StoresTypeOK
  <1>5. CASE Analyse(r)
    <2>1. Goto(r, "save") \/ Goto(r, "commit")
      BY <1>5 DEF Analyse
    <2>2. runner' \in [Runners -> RunnerState]
      BY <1>a, <2>1, ControlTyped DEF Steps
    <2> QED  BY <1>5, <1>a, <2>2 DEF Analyse, TypeOK, StoresTypeOK, stores
  <1>6. CASE Commit(r)
    <2>1. Goto(r, "analysis") \/ Goto(r, "save")
      BY <1>6 DEF Commit
    <2>2. runner' \in [Runners -> RunnerState]
      BY <1>a, <2>1, ControlTyped DEF Steps
    <2>3. stream' \subseteq Partitions /\ staging' \subseteq Partitions
      BY <1>6, <1>a, StoresTyped DEF Commit
    <2> QED  BY <1>6, <1>a, <2>2, <2>3 DEF Commit, TypeOK, StoresTypeOK
  <1>7. CASE Save(r) \/ Advance(r)
    BY <1>7, <1>a, ControlTyped, StoresTyped
       DEF Save, Advance, TypeOK, StoresTypeOK, Steps
  <1>8. CASE CommitRaises(r) \/ AdvanceRaises(r) \/ Fail(r)
    <2>1. Handler(r) /\ failures' \in Nat
      BY <1>8, <1>a DEF CommitRaises, AdvanceRaises, Fail
    <2> QED  BY <1>a, <2>1, HandlerFacts DEF TypeOK, StoresTypeOK
  <1>9. CASE AnalysisFails(r)
    BY <1>9, <1>a, ControlTyped DEF AnalysisFails, TypeOK, StoresTypeOK, stores
  <1>10. CASE Crash(r)
    <2>1. staging' \subseteq staging
      BY <1>10 DEF Crash
    <2> QED  BY <1>10, <1>a, <2>1, ControlTyped DEF Crash, TypeOK, StoresTypeOK
  <1> QED  BY <1>1, <1>2, <1>3, <1>4, <1>5, <1>6, <1>7, <1>8, <1>9, <1>10 DEF Step

-----------------------------------------------------------------------------
(* Any number of processes.                                                *)

LEMMA HeadStep ==
    ASSUME TypeOK, [Next]_vars
    PROVE  head' = head \/ \E r \in Runners : Advance(r)
  BY HandlerFacts DEF Next, Step, ReadHead, GateRaises, OpenStream, RunTick, Analyse,
     Commit, Save, CommitRaises, AdvanceRaises, Cleanup, Fail, AnalysisFails,
     Crash, vars, stores

LEMMA StreamStep ==
    ASSUME TypeOK, [Next]_vars
    PROVE  \/ stream' = stream
           \/ \E c : ReconcileThrough(c)
           \/ \E r \in Runners : /\ Committable(Work(r))
                                 /\ stream' = stream \cup Files(Work(r))
  BY HandlerFacts DEF Next, Step, ReadHead, GateRaises, OpenStream,
     RunTick, Analyse, Commit, CommitStaged, Save, Advance, CommitRaises,
     AdvanceRaises, Cleanup, Fail, AnalysisFails, Crash, vars, stores

\* The base of a process is a head it reads, or none.
LEMMA BaseStep ==
    ASSUME TypeOK, [Next]_vars, NEW q \in Runners
    PROVE  runner'[q].base \in {runner[q].base, head, <<>>}
  <1>0. CASE UNCHANGED vars
    BY <1>0 DEF vars
  <1> SUFFICES ASSUME NEW r \in Runners,
                      \/ \E l \in Launches, v \in Variants : ReadHead(r, l, v)
                      \/ Step(r) \/ Fail(r) \/ AnalysisFails(r) \/ Crash(r)
               PROVE  runner'[q].base \in {runner[q].base, head, <<>>}
    BY <1>0 DEF Next
  <1>a. runner \in [Runners -> RunnerState]
    BY DEF TypeOK
  <1>1. ASSUME NEW l \in Launches, NEW v \in Variants, ReadHead(r, l, v)
        PROVE  runner'[q].base \in {runner[q].base, head, <<>>}
    BY <1>1, <1>a DEF ReadHead
  <1>2. ASSUME Exit(r)
        PROVE  runner'[q].base \in {runner[q].base, head, <<>>}
    <2>1. runner' = [runner EXCEPT ![r] = Idle] /\ Idle.base = <<>>
      BY <1>2 DEF Exit, Idle
    <2> QED  BY <2>1, <1>a
  <1>3. ASSUME NEW s \in Steps, Goto(r, s)
        PROVE  runner'[q].base \in {runner[q].base, head, <<>>}
    BY <1>3, <1>a, ControlTyped DEF SameJob
  <1>4. CASE GateRaises(r) \/ Advance(r) \/ Cleanup(r) \/ AnalysisFails(r) \/ Crash(r)
    BY <1>2, <1>4 DEF GateRaises, Advance, Cleanup, AnalysisFails, Crash
  <1>5. CASE CommitRaises(r) \/ AdvanceRaises(r) \/ Fail(r)
    <2>1. Exit(r) \/ Goto(r, "cleanup")
      BY <1>5 DEF CommitRaises, AdvanceRaises, Fail, Handler
    <2>2. "cleanup" \in Steps
      BY DEF Steps
    <2> QED  BY <2>1, <2>2, <1>2, <1>3
  <1>6. CASE OpenStream(r) \/ Analyse(r) \/ Commit(r) \/ Save(r)
    <2>1. \E s \in Steps : Goto(r, s)
      BY <1>6 DEF OpenStream, Analyse, Commit, Save, Steps
    <2> QED  BY <2>1, <1>3
  <1>7. CASE RunTick(r)
    BY <1>7, <1>a, TickTyped DEF SameJob
  <1> QED  BY <1>1, <1>4, <1>5, <1>6, <1>7 DEF Step

\* The head never goes back.
LEMMA HeadGrows ==
    ASSUME TypeOK, [Next]_vars
    PROVE  IsAncestor(head, head')
  <1>1. head \in Lineages
    BY DEF TypeOK, StoresTypeOK
  <1>2. CASE head' = head
    BY <1>1, <1>2, AncestorReflexive
  <1>3. CASE \E r \in Runners : Advance(r)
    BY <1>3 DEF Advance, AdvanceMain, CanAdvance
  <1> QED  BY <1>2, <1>3, HeadStep

\* A process comes into its window through the gate only.
LEMMA ControlStep ==
    ASSUME TypeOK, [Next]_vars, NEW q \in Runners
    PROVE  \/ runner'[q] = runner[q]
           \/ runner'[q].pc \in {"idle", "opening", "cleanup"}
           \/ /\ SameJob(q)
              /\ \/ runner[q].pc \in Busy
                 \/ ~Completed(runner[q].base, runner[q].launch)
  <1> DEFINE Goal == \/ runner'[q] = runner[q]
                     \/ runner'[q].pc \in {"idle", "opening", "cleanup"}
                     \/ /\ SameJob(q)
                        /\ \/ runner[q].pc \in Busy
                           \/ ~Completed(runner[q].base, runner[q].launch)
  <1>0. CASE UNCHANGED vars
    BY <1>0 DEF vars
  <1> SUFFICES ASSUME NEW r \in Runners,
                      \/ \E l \in Launches, v \in Variants : ReadHead(r, l, v)
                      \/ Step(r) \/ Fail(r) \/ AnalysisFails(r) \/ Crash(r)
               PROVE  Goal
    BY <1>0 DEF Next
  <1>a. runner \in [Runners -> RunnerState]
    BY DEF TypeOK
  <1>1. ASSUME NEW l \in Launches, NEW v \in Variants, ReadHead(r, l, v)
        PROVE  Goal
    BY <1>1, <1>a DEF ReadHead
  <1>2. CASE GateRaises(r) \/ Advance(r) \/ Cleanup(r) \/ AnalysisFails(r) \/ Crash(r)
    <2>1. Exit(r)
      BY <1>2 DEF GateRaises, Advance, Cleanup, AnalysisFails, Crash
    <2> QED  BY <2>1, <1>a, ControlTyped
  <1>3. CASE CommitRaises(r) \/ AdvanceRaises(r) \/ Fail(r)
    <2>1. Handler(r)
      BY <1>3 DEF CommitRaises, AdvanceRaises, Fail
    <2> QED  BY <2>1, HandlerFacts
  <1>4. CASE OpenStream(r)
    BY <1>4, <1>a, ControlTyped DEF OpenStream, Steps
  <1>5. CASE RunTick(r)
    <2>1. runner[r].pc \in Busy
      BY <1>5 DEF RunTick, Busy
    <2> QED  BY <1>5, <2>1, <1>a, TickTyped
  <1>6. CASE Analyse(r) \/ Commit(r) \/ Save(r)
    <2>1. runner[r].pc \in Busy /\ \E s \in Steps : Goto(r, s)
      BY <1>6 DEF Analyse, Commit, Save, Busy, Steps
    <2> QED  BY <2>1, <1>a, ControlTyped
  <1> QED  BY <1>1, <1>2, <1>3, <1>4, <1>5, <1>6 DEF Step

LEMMA InitIInv == Init => IInv
  <1> SUFFICES ASSUME Init  PROVE IInv
    OBVIOUS
  <1>1. TypeOK
    <2>1. <<>> \in Lineages
      BY DEF Lineages
    <2> QED  BY <2>1, IdleTyped DEF Init, StoresInit, TypeOK, StoresTypeOK
  <1>2. GateHeld
    BY IdleTyped DEF Init, GateHeld, Busy
  <1>3. ReviewsConclude
    <2>1. \A l \in Launches : Attempts(head, l) = {}
      BY DEF Init, StoresInit, Attempts
    <2> QED  BY <2>1, FS_EmptySet, ScenarioAssumption DEF ReviewsConclude
  <1>4. AttemptsOnHistory
    BY DEF Init, StoresInit, AttemptsOnHistory
  <1>5. BasesOnHistory
    BY DEF Init, StoresInit, Idle, BasesOnHistory, IsAncestor
  <1> QED  BY <1>1, <1>2, <1>3, <1>4, <1>5 DEF IInv

LEMMA GatePreserved == IInv /\ [Next]_vars => GateHeld'
  <1> SUFFICES ASSUME IInv, [Next]_vars, NEW q \in Runners, runner'[q].pc \in Busy
               PROVE  ~Completed(runner'[q].base, runner'[q].launch)
    BY DEF GateHeld, Completed, Attempts
  <1>1. TypeOK
        /\ (runner[q].pc \in Busy => ~Completed(runner[q].base, runner[q].launch))
    BY DEF IInv, GateHeld
  <1>2. runner'[q].pc \notin {"idle", "opening", "cleanup"}
    BY DEF Busy
  <1> QED  BY <1>1, <1>2, ControlStep DEF SameJob

\* The head moves by one window of a launch that its base, which is still the
\* head, does not show as complete.
LEMMA ReviewsPreserved == IInv /\ [Next]_vars => ReviewsConclude'
  <1> SUFFICES ASSUME IInv, [Next]_vars  PROVE ReviewsConclude'
    OBVIOUS
  <1>a. TypeOK /\ head \in Lineages
    BY DEF IInv, TypeOK, StoresTypeOK
  <1>1. CASE head' = head
    BY <1>1 DEF IInv, ReviewsConclude, Attempts
  <1>2. ASSUME NEW r \in Runners, Advance(r)
        PROVE  ReviewsConclude'
    <2> DEFINE e == [launch |-> runner[r].launch, variant |-> runner[r].variant]
    <2>1. e \in Entry
      BY <1>a, WorkFacts
    <2>2. /\ runner[r].pc = "advance"
          /\ head = runner[r].base /\ head' = Append(head, e)
      BY <1>2 DEF Advance, AdvanceMain, CanAdvance, Work
    <2>3. ~Completed(head, e.launch)
      BY <2>2 DEF IInv, GateHeld, Busy
    <2> HIDE DEF e
    <2> SUFFICES ASSUME NEW l \in Launches
                 PROVE  /\ Cardinality(Attempts(head', l)) <= MaxAttempts
                        /\ \A i, j \in Attempts(head', l) :
                               i < j => <<l, head'[i].variant>> \notin Concludes
      BY DEF ReviewsConclude, Attempts
    <2>4. /\ Cardinality(Attempts(head, l)) <= MaxAttempts
          /\ \A i, j \in Attempts(head, l) :
                 i < j => <<l, head[i].variant>> \notin Concludes
      BY DEF IInv, ReviewsConclude
    <2> QED  BY <1>a, <2>1, <2>2, <2>3, <2>4, WindowReviewed
  <1> QED  BY <1>a, <1>1, <1>2, HeadStep

LEMMA BasesPreserved == IInv /\ [Next]_vars => BasesOnHistory'
  <1> SUFFICES ASSUME IInv, [Next]_vars, NEW q \in Runners
               PROVE  IsAncestor(runner'[q].base, head')
    BY DEF BasesOnHistory
  <1>1. TypeOK /\ TypeOK'
    BY TypePreserved DEF IInv
  <1>2. /\ head \in Lineages /\ head' \in Lineages
        /\ runner[q].base \in Lineages /\ <<>> \in Lineages
    <2>1. runner[q].base \in Lineages
      BY <1>1, WorkFacts
    <2>2. <<>> \in Lineages
      BY DEF Lineages
    <2> QED  BY <1>1, <2>1, <2>2 DEF TypeOK, StoresTypeOK
  <1>3. IsAncestor(head, head')
    BY <1>1, HeadGrows
  <1>4. IsAncestor(runner[q].base, head) /\ IsAncestor(<<>>, head)
    BY <1>2 DEF IInv, BasesOnHistory, IsAncestor, Lineages
  <1>5. IsAncestor(head, head)
    BY <1>2, AncestorReflexive
  <1>6. runner'[q].base \in {runner[q].base, head, <<>>}
    BY <1>1, BaseStep
  <1> QED  BY <1>2, <1>3, <1>4, <1>5, <1>6, AncestorTransitive

\* What is comparable with an attempt that may be committed is that attempt.
LEMMA SlotFacts ==
    ASSUME AttemptsOnHistory, NEW w, Committable(w),
           NEW p \in stream, Len(p.work) = Len(w)
    PROVE  p.work = w
  <1>1. p \in Files(p.work)
    BY DEF AttemptsOnHistory
  <1>2. PICK k \in 1..Ticks : /\ p = [work |-> p.work, tick |-> k]
                              /\ <<Len(p.work), k>> \notin Quiet
    BY <1>1 DEF Files
  <1> DEFINE q == [work |-> w, tick |-> k]
  <1>3. q \in Files(w) /\ q.work = w /\ q.tick = k
    BY <1>2 DEF Files
  <1>4. p.tick = k
    BY <1>2
  <1>5. SameTime(q, p)
    BY <1>3, <1>4 DEF SameTime
  <1>6. q = p
    BY <1>3, <1>5 DEF Committable
  <1> QED  BY <1>3, <1>6

LEMMA AttemptsPreserved == IInv /\ [Next]_vars => AttemptsOnHistory'
  <1> SUFFICES ASSUME IInv, [Next]_vars, NEW p \in stream'
               PROVE  /\ {q \in stream' : Len(q.work) = Len(p.work)} = Files(p.work)
                      /\ IsAncestor(Parent(p.work), head')
    BY DEF AttemptsOnHistory, Files, Parent, IsAncestor
  <1>1. TypeOK /\ TypeOK'
    BY TypePreserved DEF IInv
  <1>2. /\ head \in Lineages /\ head' \in Lineages
        /\ p.work \in Lineages /\ Parent(p.work) \in Lineages
    <2>1. head \in Lineages /\ head' \in Lineages /\ p \in Partitions
      BY <1>1 DEF TypeOK, StoresTypeOK
    <2>2. p.work \in Lineages
      BY <2>1 DEF Partitions
    <2>3. Parent(p.work) \in Lineages
      BY <2>2 DEF Parent, Lineages
    <2> QED  BY <2>1, <2>2, <2>3
  <1>3. IsAncestor(head, head')
    BY <1>1, HeadGrows
  <1>4. ASSUME p \in stream
        PROVE  /\ {q \in stream : Len(q.work) = Len(p.work)} = Files(p.work)
               /\ IsAncestor(Parent(p.work), head')
    <2>1. /\ {q \in stream : Len(q.work) = Len(p.work)} = Files(p.work)
          /\ IsAncestor(Parent(p.work), head)
      BY <1>4 DEF IInv, AttemptsOnHistory
    <2> QED  BY <2>1, <1>2, <1>3, AncestorTransitive
  <1>5. CASE stream' = stream
    BY <1>4, <1>5
  <1>6. ASSUME NEW c, ReconcileThrough(c)
        PROVE  p \in stream /\ {q \in stream' : Len(q.work) = Len(p.work)}
                                   = {q \in stream : Len(q.work) = Len(p.work)}
    BY <1>6 DEF ReconcileThrough
  <1>7. ASSUME NEW r \in Runners, Committable(Work(r)),
               stream' = stream \cup Files(Work(r))
        PROVE  /\ {q \in stream' : Len(q.work) = Len(p.work)} = Files(p.work)
               /\ IsAncestor(Parent(p.work), head')
    <2> DEFINE w == Work(r)
    <2>1. \A q \in stream : Len(q.work) = Len(w) => q.work = w /\ q \in Files(w)
      BY <1>7, SlotFacts DEF IInv, AttemptsOnHistory
    <2>2. \A q \in Files(w) : q.work = w
      BY FilesFacts
    <2>3. {q \in stream' : Len(q.work) = Len(w)} = Files(w)
      BY <1>7, <2>1, <2>2
    <2>4. CASE Len(p.work) = Len(w)
      <3>1. p.work = w
        BY <1>7, <2>1, <2>2, <2>4
      <3>2. Parent(w) = runner[r].base
        <4>1. runner[r].base \in Lineages
          BY <1>1, WorkFacts
        <4> QED  BY <4>1 DEF Parent, Work, Lineages
      <3>3. IsAncestor(runner[r].base, head)
        BY DEF IInv, BasesOnHistory
      <3>4. IsAncestor(Parent(p.work), head')
        BY <3>1, <3>2, <3>3, <1>2, <1>3, AncestorTransitive
      <3> QED  BY <2>3, <3>1, <3>4
    <2>5. CASE Len(p.work) # Len(w)
      <3>1. p \in stream
        BY <1>7, <2>2, <2>5
      <3>2. {q \in stream' : Len(q.work) = Len(p.work)}
                = {q \in stream : Len(q.work) = Len(p.work)}
        BY <1>7, <2>2, <2>5
      <3> QED  BY <1>4, <3>1, <3>2
    <2> QED  BY <2>4, <2>5
  <1> QED  BY <1>1, <1>4, <1>5, <1>6, <1>7, StreamStep

\* Every reachable state satisfies the invariant, for any set of processes.
THEOREM ScenarioInvariant == Spec => []IInv
  <1>1. IInv /\ [Next]_vars => IInv'
    BY TypePreserved, GatePreserved, ReviewsPreserved, BasesPreserved,
       AttemptsPreserved DEF IInv
  <1> QED  BY InitIInv, <1>1, PTL DEF Spec

\* Stores and processes have their types.
THEOREM ScenarioTyped == Spec => []TypeOK
  <1>1. IInv => TypeOK
    BY DEF IInv
  <1> QED  BY <1>1, ScenarioInvariant, PTL

\* For any number of processes no window of a launch follows the one that
\* concluded it, and no launch has more than MaxAttempts windows, although every
\* process read the cursor of its launch windows before it publishes.
THEOREM ScenarioReviewsConclude == Spec => []ReviewsConclude
  <1>1. IInv => ReviewsConclude
    BY DEF IInv
  <1> QED  BY <1>1, ScenarioInvariant, PTL

\* What is published of a window is one whole attempt on a checkpoint of the
\* history, in either order of the writes, whoever commits, cleans up with an
\* old head, fails or dies.
THEOREM ScenarioAttemptsOnHistory == Spec => []AttemptsOnHistory
  <1>1. IInv => AttemptsOnHistory
    BY DEF IInv
  <1> QED  BY <1>1, ScenarioInvariant, PTL

-----------------------------------------------------------------------------
(* One process at a time.                                                  *)

\* The lone process is the one that moves.
LEMMA LoneStep ==
    ASSUME SInv, [Next]_vars, vars' # vars
    PROVE  \E r \in Runners :
               /\ Runners = {r}
               /\ \/ \E l \in Launches, v \in Variants : ReadHead(r, l, v)
                  \/ Step(r) \/ Fail(r) \/ AnalysisFails(r) \/ Crash(r)
  BY DEF Next, SInv, OneProcess

LEMMA InitSInv == Init /\ OneProcess => SInv
  <1> SUFFICES ASSUME Init, OneProcess  PROVE SInv
    OBVIOUS
  <1>1. TypeOK
    BY InitIInv DEF IInv
  <1>2. \A r \in Runners : runner[r].pc = "idle"
    BY IdleTyped DEF Init
  <1>3. Beyond = {}
    BY DEF Init, StoresInit, Beyond
  <1> QED  BY <1>1, <1>2, <1>3 DEF SInv, AtHead, Pending, Orphans

\* What only moves the process, or reconciles with the head.
LEMMA QuietPreserves ==
    ASSUME SInv, TypeOK', NEW r \in Runners, Runners = {r},
           head' = head, Beyond' = Beyond,
           \/ runner'[r].pc \in {"idle", "cleanup"}
           \/ runner'[r].pc = "opening" /\ runner[r].pc = "idle",
           runner'[r].pc # "idle" => head = runner'[r].base,
           crashes' = 0 => /\ crashes = 0
                           /\ runner'[r].pc = "cleanup"
                              \/ runner[r].pc \in {"idle", "opening"}
                              \/ \A p \in Beyond : p.work[Len(p.work)].launch \in CommitEarly
    PROVE  SInv'
  <1>1. AtHead' /\ Pending'
    BY DEF AtHead, Pending
  <1>2. Orphans'
    BY DEF SInv, Orphans
  <1> QED  BY <1>1, <1>2 DEF SInv, OneProcess

\* Each step keeps the head, and what lies beyond it, as its place in the window
\* wants them.
LEMMA SInvPreserved == SInv /\ [Next]_vars => SInv'
  <1> SUFFICES ASSUME SInv, [Next]_vars  PROVE SInv'
    OBVIOUS
  <1>a. TypeOK /\ TypeOK' /\ OneProcess /\ OneProcess'
    BY TypePreserved DEF SInv, OneProcess
  <1>0. CASE vars' = vars
    <2>1. head' = head /\ stream' = stream /\ runner' = runner /\ crashes' = crashes
      BY <1>0 DEF vars, stores
    <2>2. Beyond' = Beyond
      BY <2>1 DEF Beyond
    <2>3. \A r \in Runners : Files(Work(r))' = Files(Work(r)) /\ Early(r)' = Early(r)
      BY <2>1 DEF Files, Work, Early
    <2> QED  BY <1>a, <2>1, <2>2, <2>3 DEF SInv, AtHead, Pending, Orphans
  <1>b. CASE vars' # vars
    <2>1. PICK r \in Runners :
               /\ Runners = {r}
               /\ \/ \E l \in Launches, v \in Variants : ReadHead(r, l, v)
                  \/ Step(r) \/ Fail(r) \/ AnalysisFails(r) \/ Crash(r)
      BY <1>b, LoneStep
    <2>2. /\ runner \in [Runners -> RunnerState] /\ head \in Lineages /\ Len(head) \in Nat
          /\ \A p \in stream : Len(p.work) \in Nat
      BY <1>a DEF TypeOK, StoresTypeOK, Partitions, Lineages
    <2>3. /\ Len(Work(r)) = Len(runner[r].base) + 1
          /\ Work(r)[Len(Work(r))].launch = runner[r].launch
      BY <1>a, WorkFacts
    <2>4. \A s \in Steps : Goto(r, s) =>
              /\ runner'[r].pc = s /\ runner'[r].base = runner[r].base
              /\ Work(r)' = Work(r) /\ Early(r)' = Early(r)
              /\ Files(Work(r))' = Files(Work(r))
      BY <2>2, ControlTyped DEF Work, SameJob, Early, Files
    <2>5. Exit(r) => runner'[r].pc = "idle"
      BY <2>2, ControlTyped
    <2>6. head' = head /\ stream' = stream => Beyond' = Beyond
      BY DEF Beyond
    <2>7. head' = head /\ head = runner[r].base /\ ReconcileThrough(runner[r].base)
              => Beyond' = {}
      BY <2>2 DEF Beyond, ReconcileThrough
    <2>8. ASSUME NEW l \in Launches, NEW v \in Variants, ReadHead(r, l, v)
          PROVE  SInv'
      <3>1. /\ runner[r].pc = "idle" /\ runner'[r].pc = "opening"
            /\ runner'[r].base = head
            /\ UNCHANGED <<head, stream, crashes>>
        BY <2>2, <2>8 DEF ReadHead, stores
      <3> QED  BY <1>a, <2>1, <2>6, <3>1, QuietPreserves
    <2>9. CASE GateRaises(r)
      <3>1. /\ runner[r].pc = "opening" /\ runner'[r].pc = "idle"
            /\ head' = head /\ crashes' = crashes /\ head = runner[r].base
        BY <2>5, <2>9 DEF GateRaises, SInv, AtHead
      <3>2. CASE stream' = stream
        BY <1>a, <2>1, <2>6, <3>1, <3>2, QuietPreserves
      <3>3. CASE ReconcileThrough(runner[r].base)
        <4>1. Beyond' = {}
          BY <2>7, <3>1, <3>3
        <4> QED  BY <1>a, <2>1, <3>1, <4>1 DEF SInv, AtHead, Pending, Orphans
      <3> QED  BY <2>9, <3>2, <3>3 DEF GateRaises
    <2>10. CASE OpenStream(r)
      <3>1. /\ runner'[r].pc = "window" /\ runner'[r].base = head
            /\ head' = head /\ Beyond' = {}
        BY <2>4, <2>7, <2>10 DEF OpenStream, Steps, SInv, AtHead
      <3> QED  BY <1>a, <2>1, <3>1 DEF SInv, AtHead, Pending, Orphans
    <2>11. CASE RunTick(r)
      <3>1. /\ runner'[r].pc \in {"window", "commit", "analysis"} /\ SameJob(r)
            /\ runner'[r].pc = "analysis" => ~Early(r)
        BY <2>2, <2>11, TickTyped
      <3>2. Early(r)' = Early(r)
        BY <3>1 DEF Early, SameJob
      <3>3. /\ head' = head /\ Beyond' = Beyond
            /\ head = runner[r].base /\ Beyond = {}
        BY <2>6, <2>11 DEF RunTick, SInv, AtHead, Pending
      <3> QED  BY <1>a, <2>1, <3>1, <3>2, <3>3 DEF SInv, SameJob, AtHead, Pending, Orphans
    <2>12. CASE Analyse(r)
      <3>1. /\ runner[r].pc = "analysis"
            /\ head' = head /\ Beyond' = Beyond /\ head = runner[r].base
            /\ Beyond = IF Early(r) THEN Files(Work(r)) ELSE {}
            /\ Goto(r, IF Early(r) THEN "save" ELSE "commit")
        BY <2>6, <2>12 DEF Analyse, stores, SInv, AtHead, Pending
      <3>2. CASE Early(r)
        <4>1. /\ runner'[r].pc = "save" /\ runner'[r].base = head
              /\ Beyond' = Files(Work(r))'
          BY <2>4, <3>1, <3>2 DEF Steps
        <4> QED  BY <1>a, <2>1, <3>1, <4>1 DEF SInv, AtHead, Pending, Orphans
      <3>3. CASE ~Early(r)
        <4>1. /\ runner'[r].pc = "commit" /\ runner'[r].base = head
              /\ Beyond' = {}
          BY <2>4, <3>1, <3>3 DEF Steps
        <4> QED  BY <1>a, <2>1, <3>1, <4>1 DEF SInv, AtHead, Pending, Orphans
      <3> QED  BY <3>2, <3>3
    <2>13. CASE Commit(r)
      <3>1. /\ runner[r].pc = "commit"
            /\ head' = head /\ head = runner[r].base /\ Beyond = {}
            /\ stream' = stream \cup Files(Work(r))
            /\ Goto(r, IF Early(r) THEN "analysis" ELSE "save")
        BY <2>13 DEF Commit, CommitStaged, SInv, AtHead, Pending
      <3>2. Beyond' = Files(Work(r))
        BY <2>2, <2>3, <3>1, FilesFacts DEF Beyond
      <3>3. /\ runner'[r].pc = IF Early(r) THEN "analysis" ELSE "save"
            /\ runner'[r].base = head /\ Early(r)' = Early(r)
            /\ Beyond' = Files(Work(r))'
        BY <2>4, <3>1, <3>2 DEF Steps
      <3> QED  BY <1>a, <2>1, <3>1, <3>3 DEF SInv, AtHead, Pending, Orphans
    <2>14. CASE Save(r)
      <3>1. /\ runner[r].pc = "save" /\ runner'[r].pc = "advance"
            /\ runner'[r].base = head /\ head' = head
            /\ Beyond' = Files(Work(r))'
        BY <2>4, <2>6, <2>14 DEF Save, Steps, SInv, AtHead, Pending
      <3> QED  BY <1>a, <2>1, <3>1 DEF SInv, AtHead, Pending, Orphans
    <2>15. CASE Advance(r)
      <3>1. /\ runner'[r].pc = "idle" /\ stream' = stream /\ head' = Work(r)
            /\ head = runner[r].base /\ Beyond = Files(Work(r))
        BY <2>5, <2>15 DEF Advance, AdvanceMain, CanAdvance, SInv, Pending
      <3>2. Beyond' = {}
        <4>1. \A p \in stream : Len(p.work) > Len(head) => p.work = Work(r)
          BY <3>1, FilesFacts DEF Beyond
        <4> QED  BY <2>2, <2>3, <3>1, <4>1 DEF Beyond
      <3> QED  BY <1>a, <2>1, <3>1, <3>2 DEF SInv, AtHead, Pending, Orphans
    <2>16. CASE CommitRaises(r) \/ AdvanceRaises(r) \/ Fail(r)
      <3>1. Handler(r) /\ runner[r].pc # "idle"
        BY <2>16 DEF CommitRaises, AdvanceRaises, Fail
      <3>2. /\ UNCHANGED <<head, stream, crashes>> /\ head = runner[r].base
            /\ Beyond' = Beyond
            /\ \/ runner'[r].pc = "idle" /\ runner[r].pc = "window"
               \/ runner'[r].pc = "cleanup" /\ SameJob(r)
        BY <1>a, <2>6, <3>1, HandlerFacts DEF SInv, AtHead
      <3>3. runner[r].pc = "window" => Beyond = {}
        BY DEF SInv, Pending
      <3> QED  BY <1>a, <2>1, <3>2, <3>3, QuietPreserves DEF SameJob
    <2>17. CASE Cleanup(r)
      <3>1. runner'[r].pc = "idle" /\ head' = head /\ Beyond' = {}
        BY <2>5, <2>7, <2>17 DEF Cleanup, SInv, AtHead
      <3> QED  BY <1>a, <2>1, <3>1 DEF SInv, AtHead, Pending, Orphans
    <2>18. CASE AnalysisFails(r)
      <3>1. /\ runner[r].pc = "analysis" /\ runner'[r].pc = "idle"
            /\ UNCHANGED <<head, crashes>> /\ Beyond' = Beyond
            /\ Beyond = IF Early(r) THEN Files(Work(r)) ELSE {}
        BY <2>5, <2>6, <2>18 DEF AnalysisFails, stores, SInv, Pending
      <3>2. \A p \in Beyond : p.work[Len(p.work)].launch \in CommitEarly
        BY <2>3, <3>1, FilesFacts DEF Early
      <3> QED  BY <1>a, <2>1, <3>1, <3>2, QuietPreserves
    <2>19. CASE Crash(r)
      <3>1. /\ runner'[r].pc = "idle" /\ UNCHANGED <<head, stream>>
            /\ crashes' = crashes + 1 /\ crashes \in Nat
        BY <1>a, <2>5, <2>19 DEF Crash, TypeOK
      <3> QED  BY <1>a, <2>1, <2>6, <3>1, QuietPreserves
    <2> QED  BY <2>1, <2>8, <2>9, <2>10, <2>11, <2>12, <2>13, <2>14, <2>15, <2>16,
                <2>17, <2>18, <2>19 DEF Step
  <1> QED  BY <1>0, <1>b

\* With one process, every reachable state satisfies the invariant.
THEOREM LoneInvariant == OneProcess /\ Spec => []SInv
  <1> QED  BY InitSInv, SInvPreserved, PTL DEF Spec

\* With one process an attempt that ended with an exception leaves nothing in
\* the stream, whichever step raised, except that of a launch which commits
\* before the analysis that raised.
THEOREM LoneFailedAttemptsUnpublished ==
    OneProcess /\ Spec => []FailedAttemptsUnpublished
  <1>1. SInv => FailedAttemptsUnpublished
    BY DEF SInv, Orphans, Beyond, FailedAttemptsUnpublished
  <1> QED  BY <1>1, LoneInvariant, PTL

-----------------------------------------------------------------------------
(* Refinement.                                                             *)

Published == {p \in stream : Len(p.work) <= Len(head)}

\* Every step publishes one whole window together with the head, or is silent.
LEMMA StepRefines ==
    SInv /\ [Next]_vars => [Atomic!Next]_<<head, Published>>
  <1> SUFFICES ASSUME SInv, [Next]_vars, <<head, Published>>' # <<head, Published>>
               PROVE  Atomic!Next
    OBVIOUS
  <1>a. TypeOK
    BY DEF SInv
  <1>0. vars' # vars
    BY DEF vars, stores, Published
  <1>1. PICK r \in Runners :
             /\ Runners = {r}
             /\ \/ \E l \in Launches, v \in Variants : ReadHead(r, l, v)
                \/ Step(r) \/ Fail(r) \/ AnalysisFails(r) \/ Crash(r)
    BY <1>0, LoneStep
  <1>2. Len(head) \in Nat /\ \A p \in stream : Len(p.work) \in Nat
    BY <1>a DEF TypeOK, StoresTypeOK, Partitions, Lineages
  <1>3. head' # head \/ stream' # stream
    BY DEF Published
  <1>4. CASE GateRaises(r) \/ OpenStream(r) \/ Cleanup(r)
    <2>1. head' = head /\ head = runner[r].base
      BY <1>4 DEF GateRaises, OpenStream, Cleanup, SInv, AtHead
    <2>2. stream' = {p \in stream : Len(p.work) <= Len(head)}
      BY <1>3, <1>4, <2>1 DEF GateRaises, OpenStream, Cleanup, ReconcileThrough
    <2> QED  BY <2>1, <2>2 DEF Published
  <1>5. CASE Commit(r)
    <2>1. head' = head /\ stream' = stream \cup Files(Work(r)) /\ head = runner[r].base
      BY <1>5 DEF Commit, CommitStaged, SInv, AtHead
    <2>2. Len(Work(r)) = Len(head) + 1
      BY <1>a, <2>1, WorkFacts
    <2> QED  BY <1>2, <2>1, <2>2, FilesFacts DEF Published
  <1>6. CASE Advance(r)
    <2> DEFINE l == runner[r].launch
               v == runner[r].variant
    <2>1. /\ head' = Work(r) /\ head = runner[r].base /\ stream' = stream
          /\ Beyond = Files(Work(r))
      BY <1>6 DEF Advance, AdvanceMain, CanAdvance, SInv, Pending
    <2>2. l \in Launches /\ v \in Variants /\ Len(Work(r)) = Len(head) + 1
      BY <1>a, <2>1, WorkFacts
    <2>3. head' = Append(head, [launch |-> l, variant |-> v])
      BY <2>1 DEF Work
    <2>4. Published' = Published \cup Files(head')
      <3>1. Files(Work(r)) = {p \in stream : Len(p.work) > Len(head)}
        BY <2>1 DEF Beyond
      <3>2. \A p \in Files(Work(r)) : Len(p.work) = Len(head) + 1
        BY <2>2, FilesFacts
      <3>3. \A p \in stream : Len(p.work) <= Len(head) + 1
                                 <=> Len(p.work) <= Len(head) \/ p \in Files(Work(r))
        BY <1>2, <3>1, <3>2
      <3>4. Published' = {p \in stream : Len(p.work) <= Len(head) + 1}
        BY <2>1, <2>2 DEF Published
      <3> QED  BY <2>1, <3>1, <3>3, <3>4 DEF Published
    <2> QED  BY <2>2, <2>3, <2>4 DEF Atomic!Next, Atomic!Launch, Published
  <1>7. CASE \/ \E l \in Launches, v \in Variants : ReadHead(r, l, v)
             \/ RunTick(r) \/ Analyse(r) \/ Save(r) \/ CommitRaises(r)
             \/ AdvanceRaises(r) \/ Fail(r) \/ AnalysisFails(r) \/ Crash(r)
    <2>1. head' = head /\ stream' = stream
      BY <1>7 DEF ReadHead, RunTick, Analyse, Save, CommitRaises, AdvanceRaises,
         Handler, Fail, AnalysisFails, Crash, stores
    <2> QED  BY <1>3, <2>1
  <1> QED  BY <1>1, <1>4, <1>5, <1>6, <1>7 DEF Step

\* With one process windows are atomic: the history and the partitions of its
\* windows change together, whatever is raised, dies or is attempted again.
THEOREM LoneImplementsAtomicHistory == OneProcess /\ Spec => ImplementsAtomicHistory
  <1>1. Init => Atomic!Init
    BY DEF Init, StoresInit, Atomic!Init
  <1>2. SInv /\ [Next]_vars => [Atomic!Next]_Atomic!vars
    BY StepRefines DEF Atomic!vars, Published
  <1> QED  BY <1>1, <1>2, LoneInvariant, PTL DEF Spec, ImplementsAtomicHistory, Atomic!Spec
=============================================================================

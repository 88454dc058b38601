-------------------------- MODULE FeedLaunchProofs --------------------------
(***************************************************************************)
(* Theorems about run_feed_launch, for any ladder of launches, any number  *)
(* of concurrent processes, ticks, failures and crashes: the ladder is     *)
(* respected, the journal is history, what is published of a window is one *)
(* whole attempt on the history, and only a process with a stale head      *)
(* takes it away.  When one process runs at a time, as the                 *)
(* experiments are operated, more holds: the head can always be restored,  *)
(* what a stopped process leaves behind is one whole attempt on the head,  *)
(* and launches are atomic.  Two processes share one event-log file, so    *)
(* none of the three can be expected of them.                              *)
(***************************************************************************)
EXTENDS FeedLaunch, TLAPS

-----------------------------------------------------------------------------
(* Lineages.                                                               *)

LEMMA ChildFacts ==
    ASSUME NEW c \in Lineages, NEW e \in Entry
    PROVE  /\ Append(c, e) \in Lineages
           /\ Append(c, e) # <<>>
           /\ Len(Append(c, e)) = Len(c) + 1 /\ Len(c) \in Nat
           /\ \A i \in 1..Len(c) : Append(c, e)[i] = c[i]
           /\ Append(c, e)[Len(c) + 1] = e
           /\ DOMAIN Append(c, e) = 1..(Len(c) + 1) /\ DOMAIN c = 1..Len(c)
           /\ IsAncestor(c, Append(c, e))
  BY DEF Lineages, IsAncestor

LEMMA AncestorTransitive ==
    ASSUME NEW a \in Lineages, NEW b \in Lineages, NEW c \in Lineages,
           IsAncestor(a, b), IsAncestor(b, c)
    PROVE  IsAncestor(a, c)
  BY DEF Lineages, IsAncestor

LEMMA AncestorReflexive ==
    ASSUME NEW a \in Lineages  PROVE IsAncestor(a, a)
  BY DEF Lineages, IsAncestor

-----------------------------------------------------------------------------
(* Types.                                                                  *)

LEMMA FilesTyped ==
    ASSUME NEW work \in Lineages  PROVE Files(work) \subseteq Partitions
  <1> SUFFICES ASSUME NEW p \in Files(work)  PROVE p \in Partitions
    OBVIOUS
  <1>1. PICK k \in 1..Ticks : p = [work |-> work, tick |-> k]
    BY DEF Files
  <1> QED  BY <1>1 DEF Partitions

LEMMA FilesFacts ==
    ASSUME NEW work
    PROVE  \A p \in Files(work) : p.work = work
  <1> SUFFICES ASSUME NEW p \in Files(work)  PROVE p.work = work
    OBVIOUS
  <1>1. PICK k \in 1..Ticks : p = [work |-> work, tick |-> k]
    BY DEF Files
  <1> QED  BY <1>1

LEMMA WorkTyped ==
    ASSUME TypeOK, NEW r \in Runners
    PROVE  /\ Work(r) \in Lineages /\ Work(r) # <<>>
           /\ runner[r] \in RunnerState
           /\ runner[r].base \in Lineages
           /\ [launch |-> runner[r].launch, variant |-> runner[r].variant] \in Entry
           /\ Len(Work(r)) = Len(runner[r].base) + 1
           /\ IsAncestor(runner[r].base, Work(r))
  <1>1. runner[r] \in RunnerState
    BY DEF TypeOK
  <1>2. /\ runner[r].base \in Lineages
        /\ [launch |-> runner[r].launch, variant |-> runner[r].variant] \in Entry
    BY <1>1 DEF RunnerState, Entry
  <1> QED  BY <1>1, <1>2, ChildFacts DEF Work

LEMMA IdleTyped == Idle \in RunnerState /\ Idle.pc = "idle"
  <1>1. (CHOOSE l \in Launches : TRUE) \in Launches
        /\ (CHOOSE v \in Variants : TRUE) \in Variants
    BY LaunchAssumption
  <1>2. <<>> \in Lineages /\ 0 \in 0..Ticks
    BY StoresAssumption DEF Lineages
  <1> QED  BY <1>1, <1>2 DEF Idle, RunnerState, Steps

\* How a step may change the control state of its process, and that it leaves
\* the other processes alone.
LEMMA ControlTyped ==
    ASSUME runner \in [Runners -> RunnerState], NEW r \in Runners
    PROVE  /\ \A s \in Steps : Goto(r, s) =>
                  /\ runner' \in [Runners -> RunnerState]
                  /\ runner'[r].pc = s
                  /\ runner'[r].base = runner[r].base
                  /\ runner'[r].launch = runner[r].launch
                  /\ runner'[r].variant = runner[r].variant
                  /\ runner'[r].tick = runner[r].tick
                  /\ \A q \in Runners : q # r => runner'[q] = runner[q]
           /\ Exit(r) =>
                  /\ runner' \in [Runners -> RunnerState]
                  /\ runner'[r].pc = "idle"
                  /\ \A q \in Runners : q # r => runner'[q] = runner[q]
  BY IdleTyped DEF Goto, Exit, RunnerState

LEMMA TickTyped ==
    ASSUME runner \in [Runners -> RunnerState], NEW r \in Runners, RunTick(r)
    PROVE  /\ runner' \in [Runners -> RunnerState]
           /\ runner'[r].pc = IF runner[r].tick + 1 = Ticks THEN "commit" ELSE "window"
           /\ runner'[r].tick = runner[r].tick + 1
           /\ runner[r].tick + 1 \in 1..Ticks
           /\ runner'[r].base = runner[r].base
           /\ runner'[r].launch = runner[r].launch
           /\ runner'[r].variant = runner[r].variant
           /\ \A q \in Runners : q # r => runner'[q] = runner[q]
  <1> DEFINE k == runner[r].tick + 1
             s == IF k = Ticks THEN "commit" ELSE "window"
             new == [runner[r] EXCEPT !.tick = k, !.pc = s]
  <1>1. runner[r] \in RunnerState
    OBVIOUS
  <1>2. runner[r].tick \in 0..Ticks /\ runner[r].tick < Ticks
    BY <1>1 DEF RunTick, RunnerState
  <1>3. k \in 1..Ticks /\ k \in 0..Ticks /\ s \in Steps
    BY <1>2, StoresAssumption DEF Steps
  <1>4. runner' = [runner EXCEPT ![r] = new]
    BY DEF RunTick
  <1>5. /\ new \in RunnerState
        /\ new.pc = s /\ new.tick = k
        /\ new.base = runner[r].base /\ new.launch = runner[r].launch
        /\ new.variant = runner[r].variant
    <2> HIDE DEF k, s
    <2> QED  BY <1>1, <1>3 DEF RunnerState
  <1> HIDE DEF new
  <1>6. /\ runner'[r] = new
        /\ runner' \in [Runners -> RunnerState]
        /\ \A q \in Runners : q # r => runner'[q] = runner[q]
    BY <1>4, <1>5
  <1> QED  BY <1>3, <1>5, <1>6

LEMMA StoresTyped ==
    ASSUME StoresTypeOK, NEW base \in Lineages, NEW work \in Lineages,
           NEW l, NEW k
    PROVE  /\ Stage(work, k) => staging' \subseteq Partitions
           /\ AbortStaged(base, l) => staging' \subseteq Partitions
           /\ CommitStaged(base, l, work) =>
                  stream' \subseteq Partitions /\ staging' \subseteq Partitions
           /\ ReconcileThrough(base) => stream' \subseteq Partitions
           /\ SaveCheckpoint(work) => saved' \subseteq Lineages
           /\ AdvanceMain(base, work) => head' \in Lineages
  BY FilesTyped DEF StoresTypeOK, Stage, AbortStaged, CommitStaged,
     ReconcileThrough, SaveCheckpoint, AdvanceMain

LEMMA AbortTyped ==
    ASSUME TypeOK, NEW r \in Runners, Abort(r), failures' \in Nat
    PROVE  TypeOK'
  BY WorkTyped, StoresTyped, ControlTyped DEF TypeOK, StoresTypeOK, Abort

LEMMA TypePreserved == TypeOK /\ [Next]_vars => TypeOK'
  <1> SUFFICES ASSUME TypeOK, [Next]_vars  PROVE TypeOK'
    OBVIOUS
  <1>0. CASE UNCHANGED vars
    BY <1>0 DEF TypeOK, StoresTypeOK, vars, stores, local
  <1> SUFFICES ASSUME NEW r \in Runners,
                      \/ \E l \in Launches, v \in Variants : ReadHead(r, l, v)
                      \/ Step(r) \/ Fail(r) \/ Crash(r)
               PROVE  TypeOK'
    BY <1>0 DEF Next
  <1> USE WorkTyped, StoresTyped, ControlTyped
      DEF TypeOK, StoresTypeOK, stores
  <1>1. ASSUME NEW l \in Launches, NEW v \in Variants, ReadHead(r, l, v)
        PROVE  TypeOK'
    <2>1. [pc |-> "opening", base |-> head, launch |-> l, variant |-> v, tick |-> 0]
              \in RunnerState
      BY StoresAssumption DEF RunnerState, Steps
    <2> QED  BY <1>1, <2>1 DEF ReadHead
  <1>2. CASE Restore(r)
    <2>1. Ticks \in 0..Ticks
      BY StoresAssumption
    <2> QED  BY <1>2, <2>1 DEF Restore, Position, Steps
  <1>3. CASE RestoreRaises(r) \/ GateRaises(r)
    BY <1>3 DEF RestoreRaises, GateRaises
  <1>4. CASE OpenStream(r)
    BY <1>4 DEF OpenStream, Steps
  <1>5. CASE RunTick(r)
    <2>1. runner[r].tick + 1 \in 0..Ticks /\ runner' \in [Runners -> RunnerState]
      BY <1>5, TickTyped, StoresAssumption
    <2>3. eventDisk' \in Position
      BY <1>5, <2>1 DEF RunTick, Position
    <2> QED  BY <1>5, <2>1, <2>3 DEF RunTick
  <1>6. CASE Commit(r)
    BY <1>6 DEF Commit, Steps
  <1>7. CASE CommitRaises(r) \/ AdvanceRaises(r)
    BY <1>7, AbortTyped DEF CommitRaises, AdvanceRaises
  <1>8. CASE Save(r)
    BY <1>8 DEF Save, Steps
  <1>9. CASE Advance(r)
    BY <1>9 DEF Advance, Steps
  <1>10. CASE WriteReview(r)
    BY <1>10 DEF WriteReview
  <1>11. CASE Fail(r)
    BY <1>11, AbortTyped DEF Fail
  <1>12. CASE Crash(r)
    BY <1>12 DEF Crash
  <1> QED  BY <1>1, <1>2, <1>3, <1>4, <1>5, <1>6, <1>7, <1>8, <1>9, <1>10,
              <1>11, <1>12 DEF Step

-----------------------------------------------------------------------------
(* What a step does, store by store.                                       *)

Busy == {"window", "commit", "save", "advance"}

SameJob(q) == /\ runner'[q].base = runner[q].base
              /\ runner'[q].launch = runner[q].launch
              /\ runner'[q].variant = runner[q].variant

LEMMA ControlStep ==
    ASSUME TypeOK, [Next]_vars, NEW q \in Runners
    PROVE  \/ runner'[q] = runner[q]
           \/ runner'[q].pc \in {"idle", "opening", "gate"}
           \/ /\ SameJob(q)
              /\ runner'[q].pc \in Busy
              /\ \/ runner[q].pc \in Busy
                 \/ Admitted(runner[q].base, runner[q].launch)
           \/ SameJob(q) /\ Advance(q) /\ runner'[q].pc = "review"
  <1> DEFINE Goal == \/ runner'[q] = runner[q]
                     \/ runner'[q].pc \in {"idle", "opening", "gate"}
                     \/ /\ SameJob(q)
                        /\ runner'[q].pc \in Busy
                        /\ \/ runner[q].pc \in Busy
                           \/ Admitted(runner[q].base, runner[q].launch)
                     \/ SameJob(q) /\ Advance(q) /\ runner'[q].pc = "review"
  <1>0. CASE UNCHANGED vars
    BY <1>0 DEF vars, local
  <1> SUFFICES ASSUME NEW r \in Runners,
                      \/ \E l \in Launches, v \in Variants : ReadHead(r, l, v)
                      \/ Step(r) \/ Fail(r) \/ Crash(r)
               PROVE  Goal
    BY <1>0 DEF Next
  <1>a. runner \in [Runners -> RunnerState]
    BY DEF TypeOK
  <1>1. ASSUME NEW l \in Launches, NEW v \in Variants, ReadHead(r, l, v)
        PROVE  Goal
    BY <1>1, <1>a DEF ReadHead
  <1>2. CASE \/ RestoreRaises(r) \/ GateRaises(r) \/ CommitRaises(r)
             \/ AdvanceRaises(r) \/ WriteReview(r) \/ Fail(r) \/ Crash(r)
    <2>1. Exit(r)
      BY <1>2 DEF RestoreRaises, GateRaises, CommitRaises, AdvanceRaises,
                  WriteReview, Fail, Crash, Abort
    <2> QED  BY <2>1, <1>a, ControlTyped
  <1>3. CASE Restore(r)
    BY <1>3, <1>a, ControlTyped DEF Restore, Steps
  <1>4. CASE OpenStream(r)
    BY <1>4, <1>a, ControlTyped DEF OpenStream, Steps, Busy, SameJob
  <1>5. CASE RunTick(r)
    <2>1. runner[r].pc = "window"
      BY <1>5 DEF RunTick
    <2> QED  BY <1>5, <2>1, <1>a, TickTyped DEF Busy, SameJob
  <1>6. CASE Commit(r)
    BY <1>6, <1>a, ControlTyped DEF Commit, Steps, Busy, SameJob
  <1>7. CASE Save(r)
    BY <1>7, <1>a, ControlTyped DEF Save, Steps, Busy, SameJob
  <1>8. CASE Advance(r)
    <2>1. Goto(r, "review")
      BY <1>8 DEF Advance
    <2> QED  BY <1>8, <2>1, <1>a, ControlTyped DEF Steps, SameJob
  <1> QED  BY <1>1, <1>2, <1>3, <1>4, <1>5, <1>6, <1>7, <1>8 DEF Step

LEMMA HeadStep ==
    ASSUME [Next]_vars
    PROVE  head' = head \/ \E r \in Runners : Advance(r)
  BY DEF Next, Step, ReadHead, Restore, RestoreRaises, GateRaises, OpenStream,
     RunTick, Commit, Save, WriteReview, CommitRaises, AdvanceRaises, Fail,
     Abort, Crash, vars, stores

LEMMA JournalStep ==
    ASSUME [Next]_vars
    PROVE  \/ journal' = journal
           \/ \E r \in Runners : /\ runner[r].pc = "review"
                                 /\ journal' = journal \cup {Work(r)}
                                 /\ head' = head
  BY DEF Next, Step, ReadHead, Restore, RestoreRaises, GateRaises, OpenStream,
     RunTick, Commit, Save, Advance, WriteReview, CommitRaises, AdvanceRaises,
     Fail, Abort, Crash, vars, stores

LEMMA StreamStep ==
    ASSUME [Next]_vars
    PROVE  \/ stream' = stream
           \/ \E r \in Runners : /\ runner[r].pc = "gate"
                                 /\ ReconcileThrough(runner[r].base)
           \/ \E r \in Runners : /\ Committable(Work(r))
                                 /\ stream' = stream \cup Files(Work(r))
  BY DEF Next, Step, ReadHead, Restore, RestoreRaises, GateRaises, OpenStream,
     RunTick, Commit, CommitStaged, Save, Advance,
     WriteReview, CommitRaises, AdvanceRaises, Fail, Abort, Crash, vars, stores

\* The base of a process is a head it reads, or none.
LEMMA BaseStep ==
    ASSUME TypeOK, [Next]_vars, NEW q \in Runners
    PROVE  runner'[q].base \in {runner[q].base, head, <<>>}
  <1>0. CASE UNCHANGED vars
    BY <1>0 DEF vars, local
  <1> SUFFICES ASSUME NEW r \in Runners,
                      \/ \E l \in Launches, v \in Variants : ReadHead(r, l, v)
                      \/ Step(r) \/ Fail(r) \/ Crash(r)
               PROVE  runner'[q].base \in {runner[q].base, head, <<>>}
    BY <1>0 DEF Next
  <1>a. runner \in [Runners -> RunnerState]
    BY DEF TypeOK
  <1>1. ASSUME NEW l \in Launches, NEW v \in Variants, ReadHead(r, l, v)
        PROVE  runner'[q].base \in {runner[q].base, head, <<>>}
    BY <1>1, <1>a DEF ReadHead
  <1>2. CASE \/ RestoreRaises(r) \/ GateRaises(r) \/ CommitRaises(r)
             \/ AdvanceRaises(r) \/ WriteReview(r) \/ Fail(r) \/ Crash(r)
    <2>1. Exit(r)
      BY <1>2 DEF RestoreRaises, GateRaises, CommitRaises, AdvanceRaises,
                  WriteReview, Fail, Crash, Abort
    <2>2. runner' = [runner EXCEPT ![r] = Idle] /\ Idle.base = <<>>
      BY <2>1 DEF Exit, Idle
    <2> QED  BY <2>2, <1>a
  <1>3. CASE Restore(r) \/ OpenStream(r) \/ Commit(r) \/ Save(r) \/ Advance(r)
    <2>1. \E s \in Steps : Goto(r, s)
      BY <1>3 DEF Restore, OpenStream, Commit, Save, Advance, Steps
    <2> QED  BY <2>1, <1>a, ControlTyped
  <1>4. CASE RunTick(r)
    BY <1>4, <1>a, TickTyped
  <1> QED  BY <1>1, <1>2, <1>3, <1>4 DEF Step

-----------------------------------------------------------------------------
(* Any number of processes.                                                *)

\* A process between its gate and its last step runs a launch that its base
\* admits; the head it advanced is never lost.
GateHeld ==
    \A r \in Runners :
        runner[r].pc \in Busy => Admitted(runner[r].base, runner[r].launch)

Advanced ==
    \A r \in Runners : runner[r].pc = "review" => IsAncestor(Work(r), head)

\* What a process read was the head, and is part of it for ever.
BasesOnHistory == \A r \in Runners : IsAncestor(runner[r].base, head)

IInv == /\ TypeOK
        /\ GateHeld
        /\ Advanced
        /\ LadderOrder
        /\ JournalIsHistory
        /\ BasesOnHistory
        /\ AttemptsOnHistory

LEMMA InitIInv == Init => IInv
  <1> SUFFICES ASSUME Init  PROVE IInv
    OBVIOUS
  <1>1. \A r \in Runners : runner[r].pc = "idle"
    BY IdleTyped DEF Init
  <1>2. TypeOK
    <2>1. <<>> \in Lineages /\ Ticks \in 0..Ticks
      BY StoresAssumption DEF Lineages
    <2> QED  BY <2>1, IdleTyped DEF Init, StoresInit, TypeOK, StoresTypeOK, Position
  <1>3. LadderOrder
    BY DEF Init, StoresInit, LadderOrder
  <1>4. JournalIsHistory /\ AttemptsOnHistory
    BY DEF Init, StoresInit, JournalIsHistory, AttemptsOnHistory
  <1>6. BasesOnHistory
    BY DEF Init, StoresInit, Idle, BasesOnHistory, IsAncestor
  <1>5. GateHeld /\ Advanced
    BY <1>1 DEF GateHeld, Advanced, Busy
  <1> QED  BY <1>2, <1>3, <1>4, <1>5, <1>6 DEF IInv

\* The head never goes back.
LEMMA HeadGrows ==
    ASSUME TypeOK, [Next]_vars
    PROVE  IsAncestor(head, head')
  <1>1. head \in Lineages
    BY DEF TypeOK, StoresTypeOK
  <1>2. CASE head' = head
    BY <1>1, <1>2, AncestorReflexive
  <1>3. CASE \E r \in Runners : Advance(r)
    BY <1>3 DEF Advance, AdvanceMain, CanAdvance
  <1> QED  BY <1>2, <1>3, HeadStep

LEMMA GatePreserved == IInv /\ [Next]_vars => GateHeld'
  <1> SUFFICES ASSUME IInv, [Next]_vars, NEW q \in Runners, runner'[q].pc \in Busy
               PROVE  Admitted(runner'[q].base, runner'[q].launch)
    BY DEF GateHeld
  <1>1. TypeOK /\ (runner[q].pc \in Busy => Admitted(runner[q].base, runner[q].launch))
    BY DEF IInv, GateHeld
  <1>2. runner'[q].pc \notin {"idle", "opening", "gate", "review"}
    BY DEF Busy
  <1> QED  BY <1>1, <1>2, ControlStep DEF SameJob

LEMMA AdvancedPreserved == IInv /\ [Next]_vars => Advanced'
  <1> SUFFICES ASSUME IInv, [Next]_vars, NEW q \in Runners, runner'[q].pc = "review"
               PROVE  IsAncestor(Work(q)', head')
    BY DEF Advanced
  <1>1. TypeOK /\ TypeOK'
    BY TypePreserved DEF IInv
  <1>2. CASE runner'[q] = runner[q]
    <2>1. Work(q)' = Work(q) /\ IsAncestor(Work(q), head)
      BY <1>2 DEF IInv, Advanced, Work
    <2>2. IsAncestor(head, head') /\ head \in Lineages /\ head' \in Lineages
          /\ Work(q) \in Lineages
      BY <1>1, HeadGrows, WorkTyped DEF TypeOK, StoresTypeOK
    <2> QED  BY <2>1, <2>2, AncestorTransitive
  <1>3. CASE SameJob(q) /\ Advance(q)
    <2>1. Work(q)' = Work(q)
      BY <1>3 DEF SameJob, Work
    <2>2. head' = Work(q)
      BY <1>3 DEF Advance, AdvanceMain
    <2>3. Work(q) \in Lineages
      BY <1>1, WorkTyped
    <2> QED  BY <2>1, <2>2, <2>3, AncestorReflexive
  <1> QED  BY <1>1, <1>2, <1>3, ControlStep DEF Busy

\* An advance adds a launch that its base, which is still the head, admits.
LEMMA LadderPreserved == IInv /\ [Next]_vars => LadderOrder'
  <1> SUFFICES ASSUME IInv, [Next]_vars  PROVE LadderOrder'
    OBVIOUS
  <1>1. CASE head' = head
    BY <1>1 DEF IInv, LadderOrder
  <1>2. CASE \E r \in Runners : Advance(r)
    <2>1. PICK r \in Runners : Advance(r)
      BY <1>2
    <2> DEFINE e == [launch |-> runner[r].launch, variant |-> runner[r].variant]
    <2>2. /\ head = runner[r].base /\ head' = Append(head, e)
          /\ Admitted(head, e.launch)
      BY <2>1 DEF Advance, AdvanceMain, CanAdvance, Work, IInv, GateHeld, Busy
    <2>3. head \in Lineages /\ e \in Entry
      BY <2>1, WorkTyped DEF IInv, TypeOK, StoresTypeOK
    <2> HIDE DEF e
    <2>4. /\ Len(head) \in Nat
          /\ DOMAIN head' = 1..(Len(head) + 1) /\ DOMAIN head = 1..Len(head)
          /\ \A i \in DOMAIN head : head'[i] = head[i]
          /\ head'[Len(head) + 1] = e
      BY <2>2, <2>3, ChildFacts
    <2>5. \A i \in DOMAIN head : head[i].launch # e.launch
      BY <2>2 DEF Admitted, Reviewed
    <2>6. Predecessor[e.launch] # None =>
              \E j \in DOMAIN head : /\ head[j].launch = Predecessor[e.launch]
                                     /\ <<head[j].launch, head[j].variant>> \in Passes
      BY <2>2 DEF Admitted, Passed
    <2> SUFFICES ASSUME NEW i \in DOMAIN head'
                 PROVE  /\ \A j \in DOMAIN head' :
                               head'[i].launch = head'[j].launch => i = j
                        /\ Predecessor[head'[i].launch] # None =>
                               \E j \in 1..(i - 1) :
                                   /\ head'[j].launch = Predecessor[head'[i].launch]
                                   /\ <<head'[j].launch, head'[j].variant>> \in Passes
      BY DEF LadderOrder
    <2>7. CASE i \in DOMAIN head
      <3>1. /\ \A j \in DOMAIN head : head[i].launch = head[j].launch => i = j
            /\ Predecessor[head[i].launch] # None =>
                   \E j \in 1..(i - 1) :
                       /\ head[j].launch = Predecessor[head[i].launch]
                       /\ <<head[j].launch, head[j].variant>> \in Passes
        BY <2>7 DEF IInv, LadderOrder
      <3>2. head'[i] = head[i] /\ \A j \in 1..(i - 1) : head'[j] = head[j]
        BY <2>4, <2>7
      <3>3. ASSUME NEW j \in DOMAIN head', head'[i].launch = head'[j].launch
            PROVE  i = j
        <4>1. CASE j \in DOMAIN head
          BY <4>1, <3>1, <3>2, <3>3, <2>4
        <4>2. CASE j = Len(head) + 1
          BY <4>2, <3>2, <3>3, <2>4, <2>5, <2>7
        <4> QED  BY <4>1, <4>2, <2>4
      <3> QED  BY <3>1, <3>2, <3>3
    <2>8. CASE i = Len(head) + 1
      <3>1. i - 1 = Len(head) /\ head'[i] = e
        BY <2>4, <2>8
      <3>2. \A j \in DOMAIN head : head'[j] = head[j] /\ j \in 1..(i - 1)
        BY <3>1, <2>4
      <3>3. ASSUME NEW j \in DOMAIN head', head'[i].launch = head'[j].launch
            PROVE  i = j
        <4>1. j \notin DOMAIN head
          BY <3>1, <3>2, <3>3, <2>5
        <4> QED  BY <4>1, <2>4, <2>8
      <3>4. ASSUME Predecessor[e.launch] # None
            PROVE  \E j \in 1..(i - 1) :
                       /\ head'[j].launch = Predecessor[e.launch]
                       /\ <<head'[j].launch, head'[j].variant>> \in Passes
        <4>1. PICK j \in DOMAIN head :
                  /\ head[j].launch = Predecessor[e.launch]
                  /\ <<head[j].launch, head[j].variant>> \in Passes
          BY <3>4, <2>6
        <4>2. j \in 1..(i - 1) /\ head'[j] = head[j]
          BY <3>2
        <4> QED  BY <4>1, <4>2
      <3> QED  BY <3>1, <3>3, <3>4
    <2> QED  BY <2>4, <2>7, <2>8
  <1> QED  BY <1>1, <1>2, HeadStep

LEMMA JournalPreserved == IInv /\ [Next]_vars => JournalIsHistory'
  <1> SUFFICES ASSUME IInv, [Next]_vars, NEW c \in journal'
               PROVE  c # <<>> /\ IsAncestor(c, head')
    BY DEF JournalIsHistory
  <1>1. TypeOK /\ TypeOK'
    BY TypePreserved DEF IInv
  <1>2. c \in Lineages /\ head \in Lineages /\ head' \in Lineages
    BY <1>1 DEF TypeOK, StoresTypeOK
  <1>3. CASE c \in journal
    <2>1. c # <<>> /\ IsAncestor(c, head)
      BY <1>3 DEF IInv, JournalIsHistory
    <2> QED  BY <2>1, <1>1, <1>2, HeadGrows, AncestorTransitive
  <1>4. CASE c \notin journal
    <2>1. PICK r \in Runners : runner[r].pc = "review" /\ c = Work(r) /\ head' = head
      BY <1>4, JournalStep
    <2> QED  BY <2>1, <1>1, WorkTyped DEF IInv, Advanced
  <1> QED  BY <1>3, <1>4

LEMMA BasesPreserved == IInv /\ [Next]_vars => BasesOnHistory'
  <1> SUFFICES ASSUME IInv, [Next]_vars, NEW q \in Runners
               PROVE  IsAncestor(runner'[q].base, head')
    BY DEF BasesOnHistory
  <1>1. TypeOK /\ TypeOK'
    BY TypePreserved DEF IInv
  <1>2. /\ head \in Lineages /\ head' \in Lineages
        /\ runner[q].base \in Lineages /\ <<>> \in Lineages
    <2>1. runner[q].base \in Lineages
      BY <1>1, WorkTyped
    <2>2. <<>> \in Lineages
      BY DEF Lineages
    <2> QED  BY <1>1, <2>1, <2>2 DEF TypeOK, StoresTypeOK
  <1>3. IsAncestor(head, head')
    BY <1>1, HeadGrows
  <1>4. IsAncestor(runner[q].base, head) /\ IsAncestor(<<>>, head)
    BY <1>2 DEF IInv, BasesOnHistory, IsAncestor, Lineages
  <1>5. IsAncestor(head, head)
    BY <1>2, AncestorReflexive
  <1>6. runner'[q].base \in {runner[q].base, head, <<>>}
    BY <1>1, BaseStep
  <1> QED  BY <1>2, <1>3, <1>4, <1>5, <1>6, AncestorTransitive

\* What is comparable with an attempt that may be committed is that attempt.
LEMMA SlotFacts ==
    ASSUME AttemptsOnHistory, NEW w, Committable(w),
           NEW p \in stream, Len(p.work) = Len(w)
    PROVE  p.work = w
  <1>1. p \in Files(p.work)
    BY DEF AttemptsOnHistory
  <1>2. PICK k \in 1..Ticks : /\ p = [work |-> p.work, tick |-> k]
                              /\ <<Len(p.work), k>> \notin Quiet
    BY <1>1 DEF Files
  <1> DEFINE q == [work |-> w, tick |-> k]
  <1>3. q \in Files(w) /\ q.work = w /\ q.tick = k
    BY <1>2 DEF Files
  <1>4. p.tick = k
    BY <1>2
  <1>5. SameTime(q, p)
    BY <1>3, <1>4 DEF SameTime
  <1>6. q = p
    BY <1>3, <1>5 DEF Committable
  <1> QED  BY <1>3, <1>6

LEMMA AttemptsPreserved == IInv /\ [Next]_vars => AttemptsOnHistory'
  <1> SUFFICES ASSUME IInv, [Next]_vars, NEW p \in stream'
               PROVE  /\ {q \in stream' : Len(q.work) = Len(p.work)} = Files(p.work)
                      /\ IsAncestor(Parent(p.work), head')
    BY DEF AttemptsOnHistory, Files, Parent, IsAncestor
  <1>1. TypeOK /\ TypeOK'
    BY TypePreserved DEF IInv
  <1>2. /\ head \in Lineages /\ head' \in Lineages
        /\ p.work \in Lineages /\ Parent(p.work) \in Lineages
    <2>1. head \in Lineages /\ head' \in Lineages /\ p \in Partitions
      BY <1>1 DEF TypeOK, StoresTypeOK
    <2>2. p.work \in Lineages
      BY <2>1 DEF Partitions
    <2>3. Parent(p.work) \in Lineages
      BY <2>2 DEF Parent, Lineages
    <2> QED  BY <2>1, <2>2, <2>3
  <1>3. IsAncestor(head, head')
    BY <1>1, HeadGrows
  <1>4. ASSUME p \in stream
        PROVE  /\ {q \in stream : Len(q.work) = Len(p.work)} = Files(p.work)
               /\ IsAncestor(Parent(p.work), head')
    <2>1. /\ {q \in stream : Len(q.work) = Len(p.work)} = Files(p.work)
          /\ IsAncestor(Parent(p.work), head)
      BY <1>4 DEF IInv, AttemptsOnHistory
    <2> QED  BY <2>1, <1>2, <1>3, AncestorTransitive
  <1>5. CASE stream' = stream
    BY <1>4, <1>5
  <1>6. ASSUME NEW c, ReconcileThrough(c)
        PROVE  p \in stream /\ {q \in stream' : Len(q.work) = Len(p.work)}
                                   = {q \in stream : Len(q.work) = Len(p.work)}
    BY <1>6 DEF ReconcileThrough
  <1>7. ASSUME NEW r \in Runners, Committable(Work(r)),
               stream' = stream \cup Files(Work(r))
        PROVE  /\ {q \in stream' : Len(q.work) = Len(p.work)} = Files(p.work)
               /\ IsAncestor(Parent(p.work), head')
    <2> DEFINE w == Work(r)
    <2>1. \A q \in stream : Len(q.work) = Len(w) => q.work = w /\ q \in Files(w)
      BY <1>7, SlotFacts DEF IInv, AttemptsOnHistory
    <2>2. \A q \in Files(w) : q.work = w
      BY FilesFacts
    <2>3. {q \in stream' : Len(q.work) = Len(w)} = Files(w)
      BY <1>7, <2>1, <2>2
    <2>4. CASE Len(p.work) = Len(w)
      <3>1. p.work = w
        BY <1>7, <2>1, <2>2, <2>4
      <3>2. Parent(w) = runner[r].base
        <4>1. runner[r].base \in Lineages
          BY <1>1, WorkTyped
        <4> QED  BY <4>1 DEF Parent, Work, Lineages
      <3>3. IsAncestor(runner[r].base, head)
        BY DEF IInv, BasesOnHistory
      <3>4. IsAncestor(Parent(p.work), head')
        BY <3>1, <3>2, <3>3, <1>2, <1>3, AncestorTransitive
      <3> QED  BY <2>3, <3>1, <3>4
    <2>5. CASE Len(p.work) # Len(w)
      <3>1. p \in stream
        BY <1>7, <2>2, <2>5
      <3>2. {q \in stream' : Len(q.work) = Len(p.work)}
                = {q \in stream : Len(q.work) = Len(p.work)}
        BY <1>7, <2>2, <2>5
      <3> QED  BY <1>4, <3>1, <3>2
    <2> QED  BY <2>4, <2>5
  <1> QED  BY <1>4, <1>5, <1>6, <1>7, StreamStep

\* Every reachable state satisfies the invariant, for any set of processes.
THEOREM LaunchInvariant == Spec => []IInv
  <1>1. IInv /\ [Next]_vars => IInv'
    BY TypePreserved, GatePreserved, AdvancedPreserved, LadderPreserved,
       JournalPreserved, BasesPreserved, AttemptsPreserved DEF IInv
  <1> QED  BY InitIInv, <1>1, PTL DEF Spec

\* Types, for any ladder and any set of processes.
THEOREM LaunchTyped == Spec => []TypeOK
  <1>1. IInv => TypeOK
    BY DEF IInv
  <1> QED  BY <1>1, LaunchInvariant, PTL

\* No launch runs twice in the history, nor before its predecessor passed.
THEOREM LaunchLadderOrder == Spec => []LadderOrder
  <1>1. IInv => LadderOrder
    BY DEF IInv
  <1> QED  BY <1>1, LaunchInvariant, PTL

\* Reviews describe windows of the factual history.
THEOREM LaunchJournalIsHistory == Spec => []JournalIsHistory
  <1>1. IInv => JournalIsHistory
    BY DEF IInv
  <1> QED  BY <1>1, LaunchInvariant, PTL

\* What is published of a window is one whole attempt on a checkpoint of the
\* history, whoever commits, reconciles with an old head, fails or dies.
THEOREM LaunchAttemptsOnHistory == Spec => []AttemptsOnHistory
  <1>1. IInv => AttemptsOnHistory
    BY DEF IInv
  <1> QED  BY <1>1, LaunchInvariant, PTL

LEMMA LostStep ==
    ASSUME IInv, [Next]_vars, NEW i \in DOMAIN head,
           Files(SubSeq(head, 1, i)) \subseteq stream
    PROVE  \/ Files(SubSeq(head, 1, i)) \subseteq stream'
           \/ \E r \in Runners : /\ runner[r].pc = "gate"
                                 /\ Len(runner[r].base) < i
                                 /\ IsAncestor(runner[r].base, head)
  <1>1. CASE stream \subseteq stream'
    BY <1>1
  <1>2. ASSUME NEW r \in Runners, runner[r].pc = "gate",
               ReconcileThrough(runner[r].base), ~(Len(runner[r].base) < i)
        PROVE  Files(SubSeq(head, 1, i)) \subseteq stream'
    <2>1. head \in Lineages /\ Len(runner[r].base) \in Nat
      <3>1. head \in Lineages /\ runner[r].base \in Lineages
        BY WorkTyped DEF IInv, TypeOK, StoresTypeOK
      <3> QED  BY <3>1 DEF Lineages
    <2>2. Len(SubSeq(head, 1, i)) = i /\ i \in Nat
      BY <2>1 DEF Lineages
    <2>3. \A p \in Files(SubSeq(head, 1, i)) : p.work = SubSeq(head, 1, i)
      BY FilesFacts
    <2> QED  BY <1>2, <2>1, <2>2, <2>3 DEF ReconcileThrough
  <1>3. \A r \in Runners : IsAncestor(runner[r].base, head)
    BY DEF IInv, BasesOnHistory
  <1> QED  BY <1>1, <1>2, <1>3, StreamStep

\* The requests of a window of the history go only when a process opens the
\* stream with a head older than the window.
THEOREM LaunchLostToStaleHeads == Spec => LostToStaleHeads
  <1> DEFINE Kept(i) == \/ Files(SubSeq(head, 1, i)) \subseteq stream'
                        \/ \E r \in Runners : /\ runner[r].pc = "gate"
                                              /\ Len(runner[r].base) < i
                                              /\ IsAncestor(runner[r].base, head)
  <1>1. IInv /\ [Next]_vars =>
            [\A i \in DOMAIN head :
                 Files(SubSeq(head, 1, i)) \subseteq stream => Kept(i)]_vars
    BY LostStep
  <1> QED  BY <1>1, LaunchInvariant, PTL DEF Spec, LostToStaleHeads

-----------------------------------------------------------------------------
(* One process at a time.                                                  *)

OneProcess == \A r, q \in Runners : r = q

Beyond == {p \in stream : Len(p.work) > Len(head)}

\* The head does not move under a running process.
AtHead ==
    \A r \in Runners :
        /\ runner[r].pc \notin {"idle", "review"} => head = runner[r].base
        /\ runner[r].pc = "review" => head = Work(r)

\* A finished window is on disk until the head has moved to it.
Written ==
    \A r \in Runners :
        runner[r].pc \in {"commit", "save", "advance"}
            => eventDisk = [work |-> Work(r), tick |-> Ticks]

\* Beyond the head: nothing before the commit, then the committed window.
Pending ==
    \A r \in Runners :
        /\ runner[r].pc \in {"window", "commit", "review"} => Beyond = {}
        /\ runner[r].pc \in {"save", "advance"} => Beyond = Files(Work(r))

SInv == /\ TypeOK
        /\ OneProcess
        /\ AtHead
        /\ Written
        /\ Pending
        /\ HeadRecoverable
        /\ OrphansAreOneAttempt

-----------------------------------------------------------------------------
\* The lone process is the one that moves.
LEMMA LoneStep ==
    ASSUME SInv, [Next]_vars, vars' # vars
    PROVE  \E r \in Runners :
               /\ Runners = {r}
               /\ \/ \E l \in Launches, v \in Variants : ReadHead(r, l, v)
                  \/ Step(r) \/ Fail(r) \/ Crash(r)
  BY DEF Next, SInv, OneProcess

LEMMA InitSInv == Init /\ OneProcess => SInv
  <1> SUFFICES ASSUME Init, OneProcess  PROVE SInv
    OBVIOUS
  <1>1. TypeOK
    BY InitIInv DEF IInv
  <1>2. \A r \in Runners : runner[r].pc = "idle"
    BY IdleTyped DEF Init
  <1>3. AtHead /\ Written /\ Pending
    BY <1>2 DEF AtHead, Written, Pending
  <1>4. HeadRecoverable
    BY AncestorReflexive DEF Init, StoresInit, HeadRecoverable, Covers, Lineages,
       IsAncestor
  <1>5. OrphansAreOneAttempt
    BY DEF Init, StoresInit, OrphansAreOneAttempt
  <1> QED  BY <1>1, <1>3, <1>4, <1>5 DEF SInv

\* Leaving, for whatever reason, changes nothing the invariant is about.
LEMMA ExitPreserves ==
    ASSUME SInv, TypeOK', NEW r \in Runners, Runners = {r}, Exit(r),
           head' = head, stream' = stream, eventDisk' = eventDisk
    PROVE  SInv'
  <1>1. runner'[r].pc = "idle"
    BY ControlTyped DEF SInv, TypeOK
  <1>2. OneProcess' /\ AtHead' /\ Written' /\ Pending'
    BY <1>1 DEF SInv, OneProcess, AtHead, Written, Pending
  <1>3. HeadRecoverable' /\ OrphansAreOneAttempt'
    BY DEF SInv, HeadRecoverable, Covers, OrphansAreOneAttempt
  <1> QED  BY <1>2, <1>3 DEF SInv

\* A lineage covers its parents.
LEMMA CoversFacts ==
    ASSUME NEW c \in Lineages, NEW d \in Lineages, NEW k
    PROVE  /\ Covers([work |-> c, tick |-> Ticks], c)
           /\ IsAncestor(c, d) /\ Len(d) = Len(c) + 1
                  => Covers([work |-> d, tick |-> k], c)
  BY AncestorReflexive DEF Covers, Lineages

LEMMA SInvPreserved == SInv /\ [Next]_vars => SInv'
  <1> SUFFICES ASSUME SInv, [Next]_vars  PROVE SInv'
    OBVIOUS
  <1>a. TypeOK /\ TypeOK' /\ OneProcess /\ OneProcess'
    BY TypePreserved DEF SInv, OneProcess
  <1>0. CASE vars' = vars
    BY <1>0 DEF vars, stores, local, SInv, TypeOK, StoresTypeOK, OneProcess, AtHead,
       Written, Pending, HeadRecoverable, Covers, OrphansAreOneAttempt, Beyond, Work
  <1>b. CASE vars' # vars
    <2>1. PICK r \in Runners :
               /\ Runners = {r}
               /\ \/ \E l \in Launches, v \in Variants : ReadHead(r, l, v)
                  \/ Step(r) \/ Fail(r) \/ Crash(r)
      BY <1>b, LoneStep
    <2>2. /\ Work(r) \in Lineages /\ Len(Work(r)) = Len(runner[r].base) + 1
          /\ IsAncestor(runner[r].base, Work(r))
          /\ runner[r].base \in Lineages /\ head \in Lineages
          /\ Len(runner[r].base) \in Nat
      <3>1. /\ Work(r) \in Lineages /\ Len(Work(r)) = Len(runner[r].base) + 1
            /\ IsAncestor(runner[r].base, Work(r)) /\ runner[r].base \in Lineages
        BY <1>a, WorkTyped
      <3>2. head \in Lineages
        BY <1>a DEF TypeOK, StoresTypeOK
      <3>3. Len(runner[r].base) \in Nat
        BY <3>1 DEF Lineages
      <3> QED  BY <3>1, <3>2, <3>3
    <2>3. runner \in [Runners -> RunnerState]
      BY <1>a DEF TypeOK
    <2>4. \A s \in Steps : Goto(r, s) => runner'[r].pc = s /\ Work(r)' = Work(r)
                                         /\ runner'[r].base = runner[r].base
      BY <2>3, ControlTyped DEF Work
    <2>5. ASSUME NEW l \in Launches, NEW v \in Variants, ReadHead(r, l, v)
          PROVE  SInv'
      <3>1. runner'[r].pc = "opening" /\ runner'[r].base = head
        BY <2>3, <2>5 DEF ReadHead
      <3>2. AtHead' /\ Written' /\ Pending'
        BY <2>1, <2>5, <3>1 DEF ReadHead, stores, AtHead, Written, Pending
      <3>3. HeadRecoverable' /\ OrphansAreOneAttempt'
        BY <2>5 DEF ReadHead, stores, SInv, HeadRecoverable, Covers,
           OrphansAreOneAttempt
      <3> QED  BY <1>a, <3>2, <3>3 DEF SInv
    <2>6. CASE \/ RestoreRaises(r) \/ GateRaises(r) \/ CommitRaises(r)
               \/ AdvanceRaises(r) \/ WriteReview(r) \/ Fail(r) \/ Crash(r)
      <3>1. Exit(r) /\ UNCHANGED <<head, stream, eventDisk>>
        BY <2>6 DEF RestoreRaises, GateRaises, CommitRaises, AdvanceRaises,
           WriteReview, Fail, Crash, Abort, stores
      <3> QED  BY <1>a, <2>1, <3>1, ExitPreserves
    <2>7. CASE Restore(r)
      <3>1. /\ runner'[r].pc = "gate" /\ runner'[r].base = head
            /\ head' = head /\ stream' = stream
            /\ eventDisk' = [work |-> head, tick |-> Ticks]
        BY <2>1, <2>4, <2>7 DEF Restore, stores, Steps, SInv, AtHead
      <3>2. AtHead' /\ Written' /\ Pending'
        BY <2>1, <3>1 DEF AtHead, Written, Pending
      <3>3. HeadRecoverable'
        BY <2>2, <3>1, CoversFacts DEF HeadRecoverable
      <3>4. OrphansAreOneAttempt'
        BY <3>1 DEF SInv, OrphansAreOneAttempt
      <3> QED  BY <1>a, <3>2, <3>3, <3>4 DEF SInv
    <2>8. CASE OpenStream(r)
      <3>1. /\ runner'[r].pc = "window" /\ runner'[r].base = head
            /\ head' = head /\ eventDisk' = eventDisk
            /\ stream' = {p \in stream : Len(p.work) <= Len(head)}
        BY <2>1, <2>4, <2>8 DEF OpenStream, ReconcileThrough, Steps, SInv, AtHead
      <3>2. Beyond' = {}
        <4>1. \A p \in stream : Len(p.work) \in Nat
          BY <1>a DEF TypeOK, StoresTypeOK, Partitions, Lineages
        <4> QED  BY <4>1, <2>2, <3>1 DEF Beyond, Lineages
      <3>3. AtHead' /\ Written' /\ Pending'
        BY <2>1, <3>1, <3>2 DEF AtHead, Written, Pending
      <3>4. HeadRecoverable' /\ OrphansAreOneAttempt'
        BY <3>1, <3>2 DEF SInv, HeadRecoverable, Covers, OrphansAreOneAttempt, Beyond
      <3> QED  BY <1>a, <3>3, <3>4 DEF SInv
    <2>9. CASE RunTick(r)
      <3>1. /\ runner'[r].base = runner[r].base /\ Work(r)' = Work(r)
            /\ runner'[r].pc = IF runner[r].tick + 1 = Ticks THEN "commit" ELSE "window"
        BY <2>3, <2>9, TickTyped DEF Work
      <3>2. /\ head' = head /\ stream' = stream /\ head = runner[r].base
            /\ eventDisk' = [work |-> Work(r), tick |-> runner[r].tick + 1]
            /\ Beyond = {}
        BY <2>1, <2>9 DEF RunTick, SInv, AtHead, Pending
      <3>3. AtHead' /\ Written' /\ Pending'
        BY <2>1, <3>1, <3>2 DEF AtHead, Written, Pending, Beyond
      <3>4. HeadRecoverable'
        BY <2>2, <3>2, CoversFacts DEF HeadRecoverable
      <3>5. OrphansAreOneAttempt'
        BY <3>2 DEF SInv, OrphansAreOneAttempt
      <3> QED  BY <1>a, <3>3, <3>4, <3>5 DEF SInv
    <2>10. CASE Commit(r)
      <3>1. /\ runner[r].pc = "commit" /\ runner'[r].pc = "save"
            /\ runner'[r].base = runner[r].base /\ Work(r)' = Work(r)
            /\ head = runner[r].base /\ head' = head /\ eventDisk' = eventDisk
            /\ stream' = stream \cup Files(Work(r))
        BY <2>1, <2>4, <2>10 DEF Commit, CommitStaged, Steps, SInv, AtHead
      <3>2. Beyond = {}
        BY <3>1 DEF SInv, Pending
      <3>3. Beyond' = Files(Work(r))
        BY <2>2, <3>1, <3>2, FilesFacts DEF Beyond
      <3>4. AtHead' /\ Written' /\ Pending'
        BY <2>1, <3>1, <3>3 DEF SInv, AtHead, Written, Pending, Files
      <3>5. HeadRecoverable'
        BY <3>1 DEF SInv, HeadRecoverable, Covers
      <3>6. OrphansAreOneAttempt'
        <4> SUFFICES ASSUME NEW p \in Beyond'
                     PROVE  /\ Beyond' = Files(p.work)'
                            /\ Len(p.work) = Len(head') + 1
                            /\ IsAncestor(head', p.work)
          BY DEF OrphansAreOneAttempt, Beyond
        <4>1. p.work = Work(r)
          BY <3>3, FilesFacts
        <4>2. Files(p.work)' = Files(Work(r))
          BY <4>1 DEF Files
        <4> QED  BY <4>1, <4>2, <2>2, <3>1, <3>3
      <3> QED  BY <1>a, <3>4, <3>5, <3>6 DEF SInv
    <2>11. CASE Save(r)
      <3>1. /\ runner[r].pc = "save" /\ runner'[r].pc = "advance"
            /\ runner'[r].base = runner[r].base /\ Work(r)' = Work(r)
            /\ UNCHANGED <<head, stream, eventDisk>>
        BY <2>4, <2>11 DEF Save, Steps
      <3>2. Files(Work(r))' = Files(Work(r)) /\ Beyond' = Beyond
        BY <3>1 DEF Files, Beyond
      <3>3. AtHead' /\ Written' /\ Pending'
        BY <2>1, <3>1, <3>2 DEF SInv, AtHead, Written, Pending
      <3>4. HeadRecoverable' /\ OrphansAreOneAttempt'
        BY <3>1 DEF SInv, HeadRecoverable, Covers, OrphansAreOneAttempt
      <3> QED  BY <1>a, <3>3, <3>4 DEF SInv
    <2>12. CASE Advance(r)
      <3>1. /\ runner[r].pc = "advance" /\ runner'[r].pc = "review"
            /\ Work(r)' = Work(r) /\ head' = Work(r)
            /\ Len(Work(r)) = Len(head) + 1
            /\ UNCHANGED <<stream, eventDisk>>
        BY <2>4, <2>12 DEF Advance, AdvanceMain, CanAdvance, Steps
      <3>2. Beyond = Files(Work(r)) /\ eventDisk = [work |-> Work(r), tick |-> Ticks]
        BY <3>1 DEF SInv, Pending, Written
      <3>3. Beyond' = {}
        <4>1. \A p \in stream : Len(p.work) \in Nat
          BY <1>a DEF TypeOK, StoresTypeOK, Partitions, Lineages
        <4>2. Len(head) \in Nat
          BY <2>2 DEF Lineages
        <4>3. \A p \in stream : Len(p.work) > Len(head) => p.work = Work(r)
          BY <3>2, FilesFacts DEF Beyond
        <4> QED  BY <4>1, <4>2, <4>3, <3>1 DEF Beyond
      <3>4. AtHead' /\ Written' /\ Pending'
        BY <2>1, <3>1, <3>3 DEF AtHead, Written, Pending
      <3>5. HeadRecoverable'
        BY <2>2, <3>1, <3>2, CoversFacts DEF HeadRecoverable
      <3>6. OrphansAreOneAttempt'
        BY <3>3 DEF OrphansAreOneAttempt, Beyond
      <3> QED  BY <1>a, <3>4, <3>5, <3>6 DEF SInv
    <2> QED  BY <2>1, <2>5, <2>6, <2>7, <2>8, <2>9, <2>10, <2>11, <2>12 DEF Step
  <1> QED  BY <1>0, <1>b

\* With one process, every reachable state satisfies the invariant.
THEOREM LoneInvariant == OneProcess /\ Spec => []SInv
  <1> QED  BY InitSInv, SInvPreserved, PTL DEF Spec

\* With one process, the head can be restored after any failure or crash.
THEOREM LoneHeadRecoverable == OneProcess /\ Spec => []HeadRecoverable
  <1>1. SInv => HeadRecoverable
    BY DEF SInv
  <1> QED  BY <1>1, LoneInvariant, PTL

\* With one process, what lies beyond the head is one whole attempt on it.
THEOREM LoneOrphansAreOneAttempt == OneProcess /\ Spec => []OrphansAreOneAttempt
  <1>1. SInv => OrphansAreOneAttempt
    BY DEF SInv
  <1> QED  BY <1>1, LoneInvariant, PTL

-----------------------------------------------------------------------------
(* Refinement.                                                             *)

Published == {p \in stream : Len(p.work) <= Len(head)}

\* Every step publishes one whole window together with the head, or is silent.
LEMMA StepRefines ==
    SInv /\ [Next]_vars => [Atomic!Next]_<<head, Published>>
  <1> SUFFICES ASSUME SInv, [Next]_vars, <<head, Published>>' # <<head, Published>>
               PROVE  Atomic!Next
    OBVIOUS
  <1>a. TypeOK /\ OneProcess
    BY DEF SInv
  <1>0. vars' # vars
    BY DEF vars, stores, Published
  <1>1. PICK r \in Runners :
             /\ Runners = {r}
             /\ \/ \E l \in Launches, v \in Variants : ReadHead(r, l, v)
                \/ Step(r) \/ Fail(r) \/ Crash(r)
    BY <1>0, LoneStep
  <1>2. /\ head \in Lineages /\ Len(head) \in Nat
        /\ \A p \in stream : Len(p.work) \in Nat
    BY <1>a DEF TypeOK, StoresTypeOK, Partitions, Lineages
  <1>3. head' # head \/ stream' # stream
    BY DEF Published
  <1>4. CASE OpenStream(r)
    <2>1. head' = head /\ stream' = {p \in stream : Len(p.work) <= Len(head)}
      BY <1>1, <1>4 DEF OpenStream, ReconcileThrough, SInv, AtHead
    <2> QED  BY <2>1 DEF Published
  <1>5. CASE Commit(r)
    <2>1. head' = head /\ stream' = stream \cup Files(Work(r)) /\ head = runner[r].base
      BY <1>1, <1>5 DEF Commit, CommitStaged, SInv, AtHead
    <2>2. Len(Work(r)) = Len(head) + 1
      BY <1>a, <2>1, WorkTyped
    <2> QED  BY <1>2, <2>1, <2>2, FilesFacts DEF Published
  <1>6. CASE Advance(r)
    <2> DEFINE l == runner[r].launch
               v == runner[r].variant
    <2>1. /\ head' = Work(r) /\ head = runner[r].base /\ stream' = stream
          /\ Beyond = Files(Work(r))
      BY <1>6 DEF Advance, AdvanceMain, CanAdvance, SInv, Pending
    <2>2. l \in Launches /\ v \in Variants /\ Len(Work(r)) = Len(head) + 1
      BY <1>a, <2>1, WorkTyped DEF RunnerState
    <2>3. head' = Append(head, [launch |-> l, variant |-> v])
      BY <2>1 DEF Work
    <2>4. Published' = Published \cup Files(head')
      <3>1. Files(Work(r)) = {p \in stream : Len(p.work) > Len(head)}
        BY <2>1 DEF Beyond
      <3>2. \A p \in Files(Work(r)) : Len(p.work) = Len(head) + 1
        BY <2>2, FilesFacts
      <3>3. \A p \in stream : Len(p.work) <= Len(head) + 1
                                 <=> Len(p.work) <= Len(head) \/ p \in Files(Work(r))
        BY <1>2, <3>1, <3>2
      <3>4. Published' = {p \in stream : Len(p.work) <= Len(head) + 1}
        BY <2>1, <2>2 DEF Published
      <3> QED  BY <2>1, <3>1, <3>3, <3>4 DEF Published
    <2> QED  BY <2>2, <2>3, <2>4 DEF Atomic!Next, Atomic!Launch, Published
  <1>7. CASE ~OpenStream(r) /\ ~Commit(r) /\ ~Advance(r)
    <2>1. head' = head /\ stream' = stream
      BY <1>1, <1>7 DEF Step, ReadHead, Restore, RestoreRaises, GateRaises, RunTick,
         Save, WriteReview, CommitRaises, AdvanceRaises, Fail, Abort, Crash, stores
    <2> QED  BY <1>3, <2>1
  <1> QED  BY <1>4, <1>5, <1>6, <1>7

\* With one process, launches are atomic.
THEOREM LoneImplementsAtomicHistory == OneProcess /\ Spec => ImplementsAtomicHistory
  <1>1. Init => Atomic!Init
    BY DEF Init, StoresInit, Atomic!Init
  <1>2. SInv /\ [Next]_vars => [Atomic!Next]_Atomic!vars
    BY StepRefines DEF Atomic!vars, Published
  <1> QED  BY <1>1, <1>2, LoneInvariant, PTL DEF Spec, ImplementsAtomicHistory, Atomic!Spec
=============================================================================

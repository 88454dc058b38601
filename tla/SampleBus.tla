------------------------------ MODULE SampleBus ------------------------------
(***************************************************************************)
(* PartitionedSampleBus (learning/sample_bus.py): the active and candidate *)
(* lanes read the partitions of one dataset through cursors of their own,  *)
(* while materialization jobs add to it.  A consumer polls the partitions  *)
(* its lane has not consumed, trains on them and commits them one by one;  *)
(* several consumers of a lane share its cursor file.                      *)
(***************************************************************************)
EXTENDS FullFlowDataset, SequencesExt

CONSTANTS Lanes, Consumers,
          LaneOf           \* consumer -> lane

ASSUME BusAssumption == LaneOf \in [Consumers -> Lanes]

VARIABLES cursor,          \* lane -> refs consumed, in order
          batch            \* consumer -> refs polled and not yet committed

vars == <<datasetVars, cursor, batch>>

Ref == [time : Times, content : Content]

TypeOK ==
    /\ DatasetTypeOK
    /\ cursor \in [Lanes -> Seq(Ref)]
    /\ batch \in [Consumers -> Seq(Ref)]

-----------------------------------------------------------------------------
\* Seeded fault: newest partitions first.
PrecedesReversed(p, q) ==
    \/ p.content.mark > q.content.mark
    \/ p.content.mark = q.content.mark /\ keyRank[p.time] > keyRank[q.time]

\* list_full_flow_partitions sorts by (event_watermark, key).
Precedes(p, q) ==
    \/ p.content.mark < q.content.mark
    \/ p.content.mark = q.content.mark /\ keyRank[p.time] < keyRank[q.time]

Consumed(lane) == {cursor[lane][i].time : i \in DOMAIN cursor[lane]}

\* Seeded fault: consumed partitions are offered again.
AvailableAgain(lane) == {[time |-> t, content |-> listed[t]] : t \in DOMAIN listed}

Available(lane) ==
    {[time |-> t, content |-> listed[t]] : t \in DOMAIN listed \ Consumed(lane)}

\* Seeded fault: compared with consumed partitions as well.
IsFirstListed(ref, lane) ==
    /\ ref \in Available(lane)
    /\ \A t \in DOMAIN listed : LET q == [time |-> t, content |-> listed[t]]
                                IN q # ref => Precedes(ref, q)

IsFirst(ref, lane) ==
    /\ ref \in Available(lane)
    /\ \A q \in Available(lane) : q # ref => Precedes(ref, q)

Poll(c) ==
    /\ batch[c] = <<>>
    /\ Available(LaneOf[c]) # {}
    /\ batch' = [batch EXCEPT ![c] = SetToSortSeq(Available(LaneOf[c]), Precedes)]
    /\ UNCHANGED <<datasetVars, cursor>>

\* commit of the next partition: it must be the first one still pending.
CommitNext(c) ==
    /\ batch[c] # <<>>
    /\ IsFirst(Head(batch[c]), LaneOf[c])
    /\ cursor' = [cursor EXCEPT ![LaneOf[c]] = Append(@, Head(batch[c]))]
    /\ batch' = [batch EXCEPT ![c] = Tail(@)]
    /\ UNCHANGED datasetVars

\* Another consumer of the lane committed the same content: "resumed".
CommitResumed(c) ==
    /\ batch[c] # <<>>
    /\ Head(batch[c]) \in Range(cursor[LaneOf[c]])
    /\ batch' = [batch EXCEPT ![c] = Tail(@)]
    /\ UNCHANGED <<datasetVars, cursor>>

\* Any other ref is refused and the consumer fails.
CommitRaises(c) ==
    /\ batch[c] # <<>>
    /\ ~IsFirst(Head(batch[c]), LaneOf[c])
    /\ Head(batch[c]) \notin Range(cursor[LaneOf[c]])
    /\ batch' = [batch EXCEPT ![c] = <<>>]
    /\ UNCHANGED <<datasetVars, cursor>>

\* The consumer dies: the cursor file survives.
ConsumerCrash(c) ==
    /\ batch[c] # <<>>
    /\ crashes < MaxCrashes
    /\ crashes' = crashes + 1
    /\ batch' = [batch EXCEPT ![c] = <<>>]
    /\ UNCHANGED <<world, dataset, writer, cursor>>

Init ==
    /\ DatasetInit
    /\ cursor = [l \in Lanes |-> <<>>]
    /\ batch = [c \in Consumers |-> <<>>]

ConsumerStep(c) == Poll(c) \/ CommitNext(c) \/ CommitResumed(c) \/ CommitRaises(c)

Next == \/ DatasetNext /\ UNCHANGED <<cursor, batch>>
        \/ \E c \in Consumers : ConsumerStep(c) \/ ConsumerCrash(c)

Spec == Init /\ [][Next]_vars

\* Consumers that were started keep running; nothing is asked of the jobs.
FairSpec == Spec /\ \A c \in Consumers : WF_vars(ConsumerStep(c))

(***************************************************************************)
(* Properties.                                                             *)
(***************************************************************************)

\* A lane trains on each event time once, on the content the dataset lists.
ConsumedOnce ==
    \A l \in Lanes :
        /\ Cardinality(Consumed(l)) = Len(cursor[l])
        /\ \A ref \in Range(cursor[l]) :
               ref.time \in DOMAIN listed /\ listed[ref.time] = ref.content

\* commit: "lane commits must follow event-time order"
\* (learning/sample_bus.py:85).  They do where the keys follow the times: jobs
\* that overlap, die, resume or join at another watermark never put a partition
\* before one with a later key that a lane has consumed.
LanesFollowTime ==
    \A l \in Lanes : \A i, j \in DOMAIN cursor[l] :
        KeysFollow(cursor[l][i].time, cursor[l][j].time) => i < j

\* No listed partition is passed over for good: every lane catches up with the
\* dataset again and again, wherever jobs insert and consumers fail.
NothingStarves ==
    \A l \in Lanes : []<>(Consumed(l) = DOMAIN listed)
=============================================================================

------------------------------ MODULE EventLog ------------------------------
(***************************************************************************)
(* ObservableEventLog with a durable root (event_log.py), driven the way   *)
(* run_feed_launch drives it: a process constructs the log, restores the   *)
(* cursor of the branch head, appends the batches of every tick, saves a   *)
(* checkpoint and advances the head.  The process may die between any two  *)
(* of these steps; what survives is the manifest file and the head.        *)
(*                                                                         *)
(* A partition is [ids, ingest]: the kernel admits a batch only if all of  *)
(* its rows carry the tick as ingest time.  Partition objects are content  *)
(* addressed and never deleted, so a partition stands for its digest, and  *)
(* the hash of a list of refs for the list itself.                         *)
(***************************************************************************)
EXTENDS Integers, Sequences, FiniteSets

CONSTANTS Ids,             \* event ids
          EventTime,       \* event id -> event time: an id determines its event
          AllowedLateness,
          MaxTime,         \* bound: largest ingest time
          MaxPartitions,   \* bound: number of partitions
          None

ASSUME EventLogAssumption ==
    /\ IsFiniteSet(Ids)
    /\ EventTime \in [Ids -> Nat]
    /\ AllowedLateness \in Nat
    /\ MaxTime \in Nat
    /\ MaxPartitions \in Nat

VARIABLES session,    \* "down", "fresh" (constructed), "live" (restored or burning in)
          refs,       \* _partition_refs
          events,     \* _events
          ingestWm,   \* _ingest_watermark
          hot,        \* _batches, as positions in refs
          known,      \* the ids in _ids_by_event_time
          disk,       \* event-log.json, or None
          draft,      \* the checkpoint saved but not yet the branch head, or None
          head        \* the cursor in the checkpoint main points at, or None

memory == <<refs, events, ingestWm, hot, known>>
vars == <<session, memory, disk, draft, head>>

Partition == [ids : SUBSET Ids, ingest : Nat]
ManifestRecord == [partitions : Seq(Partition), events : Nat,
                   ingest : Int, hot : Nat]

ASSUME NoneAssumption == None \notin ManifestRecord

TypeOK ==
    /\ session \in {"down", "fresh", "live"}
    /\ refs \in Seq(Partition)
    /\ events \in Nat
    /\ ingestWm \in Int
    /\ hot \subseteq DOMAIN refs
    /\ known \subseteq Ids
    /\ disk \in ManifestRecord \cup {None}
    /\ draft \in ManifestRecord \cup {None}
    /\ head \in ManifestRecord \cup {None}

-----------------------------------------------------------------------------
(* Pure parts of the log.                                                  *)

WatermarkAt(w) ==
    IF w < 0 \/ w - AllowedLateness < -1 THEN -1 ELSE w - AllowedLateness

IdsOf(s) == UNION {s[i].ids : i \in DOMAIN s}

IsPrefixOf(s, t) == Len(s) <= Len(t) /\ \A i \in 1..Len(s) : s[i] = t[i]

\* Seeded fault: records every batch as hot.
ManifestAllHot ==
    [partitions |-> refs, events |-> events,
     ingest |-> ingestWm, hot |-> Len(refs)]

Manifest == [partitions |-> refs, events |-> events,
             ingest |-> ingestWm, hot |-> Cardinality(hot)]

Constructed ==
    /\ refs' = <<>>
    /\ events' = 0
    /\ ingestWm' = -1
    /\ hot' = {}
    /\ known' = {}

\* Seeded fault: no lateness check.
ValidAnyAge(ids, t) ==
    /\ ids # {} => t >= ingestWm
    /\ ids \cap known = {}

\* validate: delivery time, lateness and duplicate checks on one batch.
Valid(ids, t) ==
    /\ ids # {} => t >= ingestWm
    /\ WatermarkAt(ingestWm) >= 0 =>
           \A e \in ids : EventTime[e] >= WatermarkAt(ingestWm)
    /\ ids \cap known = {}

\* _evict_cold_state: positions and ids that stay once the watermark is w.
StillHot(s, w) == {i \in DOMAIN s : s[i].ingest >= w}
StillKnown(ids, w) == {e \in ids : EventTime[e] >= w}

-----------------------------------------------------------------------------
Open ==
    /\ session = "down"
    /\ session' = "fresh"
    /\ Constructed
    /\ UNCHANGED <<disk, draft, head>>

\* restore_cursor of the branch head followed by restore_partitions.
Restore ==
    /\ session = "fresh"
    /\ head # None
    /\ disk # None
    /\ IsPrefixOf(head.partitions, disk.partitions)
    /\ session' = "live"
    /\ refs' = head.partitions
    /\ events' = head.events
    /\ ingestWm' = head.ingest
    /\ hot' = StillHot(head.partitions, WatermarkAt(head.ingest))
    /\ known' = UNION {head.partitions[i].ids : i \in hot'}
    /\ Cardinality(hot') = head.hot
    /\ disk' = head
    /\ UNCHANGED <<draft, head>>

\* append of the batch of one ingest time; only the burn-in, before any head
\* exists, appends to a log that was not restored.
AppendBatch(ids, t) ==
    LET s == IF ids = {} THEN refs
             ELSE Append(refs, [ids |-> ids, ingest |-> t])
        w == IF ids = {} THEN ingestWm ELSE t
        mark == WatermarkAt(w)
        here == hot \cup (DOMAIN s \ DOMAIN refs)
    IN /\ session = "live" \/ (session = "fresh" /\ head = None)
       /\ draft = None
       /\ Len(s) <= MaxPartitions
       /\ \A e \in ids : EventTime[e] <= t
       /\ Valid(ids, t)
       /\ session' = "live"
       /\ refs' = s
       /\ events' = events + Cardinality(ids)
       /\ ingestWm' = w
       /\ hot' = IF mark < 0 THEN here ELSE here \cap StillHot(s, mark)
       /\ known' = IF mark < 0 THEN known \cup ids
                   ELSE StillKnown(known \cup ids, mark)
       /\ disk' = [partitions |-> s, events |-> events',
                   ingest |-> w, hot |-> Cardinality(hot')]
       /\ UNCHANGED <<draft, head>>

\* WorldCheckpointStore.save records the cursor of the live log.
Save ==
    /\ session = "live"
    /\ draft = None
    /\ draft' = Manifest
    /\ UNCHANGED <<session, memory, disk, head>>

\* initialize_main or WorldBranchRegistry.advance.
Advance ==
    /\ draft # None
    /\ head' = draft
    /\ draft' = None
    /\ UNCHANGED <<session, memory, disk>>

\* The process dies or the launch raises: only files survive.
Crash ==
    /\ session # "down"
    /\ session' = "down"
    /\ Constructed
    /\ draft' = None
    /\ UNCHANGED <<disk, head>>

Init ==
    /\ session = "down"
    /\ refs = <<>> /\ events = 0 /\ ingestWm = -1 /\ hot = {} /\ known = {}
    /\ disk = None /\ draft = None /\ head = None

Next == \/ Open
        \/ Restore
        \/ \E ids \in SUBSET Ids, t \in 0..MaxTime : AppendBatch(ids, t)
        \/ Save
        \/ Advance
        \/ Crash

Spec == Init /\ [][Next]_vars

-----------------------------------------------------------------------------
\* Seeded fault: a partition is skipped by its newest event.
ReadByNewest(through, upto) ==
    {e \in Ids : \E i \in DOMAIN refs :
                     /\ e \in refs[i].ids
                     /\ refs[i].ingest <= upto
                     /\ \A x \in refs[i].ids : EventTime[x] <= through}

\* read(through, ingested_through): partitions whose bounds exceed the request
\* are skipped unread, the rest is filtered row by row.
Read(through, upto) ==
    LET kept == {i \in DOMAIN refs :
                    /\ \E e \in refs[i].ids : EventTime[e] <= through
                    /\ refs[i].ingest <= upto}
    IN {e \in Ids : /\ EventTime[e] <= through
                    /\ \E i \in kept : e \in refs[i].ids}

(***************************************************************************)
(* Properties.                                                             *)
(***************************************************************************)

\* No event is stored twice, although ids older than the watermark are
\* forgotten (_evict_cold_state) and the memory is rebuilt after a restart.
ExactlyOnce ==
    \A i, j \in DOMAIN refs : i # j => refs[i].ids \cap refs[j].ids = {}

\* At and above the watermark the bounded id memory is exactly the stored
\* history: no duplicate passes validate, and no admissible event is refused.
DedupeIsExact ==
    LET mark == WatermarkAt(ingestWm)
    IN StillKnown(known, mark) = StillKnown(IdsOf(refs), mark)

\* The running count in the manifest is the number of rows a reader finds.
EventsCountRows == events = Cardinality(IdsOf(refs))

\* restore_cursor of the branch head never fails: the persisted stream still
\* starts with the checkpointed one, whatever was appended or lost since, and
\* the hot window rebuilt from it is the one recorded in the checkpoint.
HeadRestorable ==
    head # None =>
        /\ disk # None
        /\ IsPrefixOf(head.partitions, disk.partitions)
        /\ head.hot = Cardinality(
                         StillHot(head.partitions, WatermarkAt(head.ingest)))

\* Skipping whole partitions loses no row that the filter would keep.
ReadIsExact ==
    \A through, upto \in 0..MaxTime :
        Read(through, upto) =
            {e \in Ids : /\ EventTime[e] <= through
                         /\ \E i \in DOMAIN refs : /\ e \in refs[i].ids
                                                    /\ refs[i].ingest <= upto}

\* The bounded log implements the log that remembers everything.
Promise == INSTANCE ExactlyOnceLog
             WITH delivered <- refs,
                  durable <- IF head = None THEN <<>> ELSE head.partitions

ImplementsExactlyOnceLog == Promise!Spec
=============================================================================

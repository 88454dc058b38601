--------------------------- MODULE EventLogProofs ---------------------------
(***************************************************************************)
(* Theorems about the event log, for any events, lateness and bounds: it   *)
(* stores every event once although it forgets old ids, its manifest can   *)
(* always be restored, and it implements ExactlyOnceLog.                   *)
(***************************************************************************)
EXTENDS EventLog, TLAPS, FiniteSetTheorems

-----------------------------------------------------------------------------
(* Streams.                                                                *)

\* A stream whose last batch was ingested at w: in ingest order, no event
\* before it occurred, none twice.
GoodStream(s, w) ==
    /\ w = IF s = <<>> THEN -1 ELSE s[Len(s)].ingest
    /\ \A i, j \in DOMAIN s : i <= j => s[i].ingest <= s[j].ingest
    /\ \A i \in DOMAIN s : \A e \in s[i].ids : EventTime[e] <= s[i].ingest
    /\ \A i, j \in DOMAIN s : i # j => s[i].ids \cap s[j].ids = {}

LEMMA WatermarkFacts ==
    ASSUME NEW w \in Int, w >= -1
    PROVE  /\ WatermarkAt(w) \in Int /\ WatermarkAt(w) >= -1 /\ WatermarkAt(w) <= w
           /\ \A v \in Int : v >= w => WatermarkAt(w) <= WatermarkAt(v)
  BY EventLogAssumption DEF WatermarkAt

LEMMA NewestFacts ==
    ASSUME NEW s \in Seq(Partition), NEW w, GoodStream(s, w)
    PROVE  /\ w \in Int /\ w >= -1
           /\ \A i \in DOMAIN s : s[i] \in Partition /\ s[i].ingest <= w
  <1>0. \A i \in DOMAIN s : s[i] \in Partition
    OBVIOUS
  <1>1. \A i \in DOMAIN s : s[i] \in Partition /\ s[i].ingest \in Nat
    BY <1>0 DEF Partition
  <1>2. CASE s = <<>>
    BY <1>2 DEF GoodStream
  <1>3. CASE s # <<>>
    <2>1. Len(s) \in DOMAIN s /\ DOMAIN s = 1..Len(s)
      BY <1>3
    <2>2. w = s[Len(s)].ingest
      BY <1>3 DEF GoodStream
    <2>3. \A i \in DOMAIN s : i <= Len(s)
      BY <2>1
    <2>4. \A i \in DOMAIN s : s[i].ingest <= s[Len(s)].ingest
      BY <2>1, <2>3 DEF GoodStream
    <2> QED  BY <1>1, <2>1, <2>2, <2>4
  <1> QED  BY <1>2, <1>3

\* The ids that a restore reads from the hot batches are the ids of the whole
\* stream that are not older than the watermark, and perhaps some older ones.
LEMMA HotBatchesSuffice ==
    ASSUME NEW s \in Seq(Partition), NEW w, GoodStream(s, w),
           NEW e \in IdsOf(s), EventTime[e] >= WatermarkAt(w)
    PROVE  \E i \in StillHot(s, WatermarkAt(w)) : e \in s[i].ids
  <1>1. PICK i \in DOMAIN s : e \in s[i].ids
    BY DEF IdsOf
  <1>2. s[i] \in Partition /\ EventTime[e] <= s[i].ingest
    BY <1>1 DEF GoodStream
  <1>3. WatermarkAt(w) \in Int /\ EventTime[e] \in Nat /\ s[i].ingest \in Nat
    BY <1>1, <1>2, NewestFacts, WatermarkFacts, EventLogAssumption DEF Partition
  <1> QED  BY <1>1, <1>2, <1>3 DEF StillHot

\* Adding a batch of new events keeps a stream good.
LEMMA AppendKeepsGood ==
    ASSUME NEW s \in Seq(Partition), NEW w, GoodStream(s, w),
           NEW b \in Partition, b.ingest >= w,
           \A e \in b.ids : EventTime[e] <= b.ingest,
           b.ids \cap IdsOf(s) = {}
    PROVE  /\ GoodStream(Append(s, b), b.ingest)
           /\ IdsOf(Append(s, b)) = IdsOf(s) \cup b.ids
  <1> DEFINE r == Append(s, b)
  <1>1. b.ingest \in Nat
    BY DEF Partition
  <1>2. /\ r \in Seq(Partition) /\ Len(r) = Len(s) + 1 /\ r # <<>>
        /\ DOMAIN r = 1..(Len(s) + 1) /\ DOMAIN s = 1..Len(s) /\ Len(s) \in Nat
        /\ r[Len(s) + 1] = b
        /\ \A i \in DOMAIN s : r[i] = s[i]
    OBVIOUS
  <1>3. \A i \in DOMAIN r : i \in DOMAIN s \/ i = Len(s) + 1
    BY <1>2
  <1> HIDE DEF r
  <1>4. IdsOf(r) = IdsOf(s) \cup b.ids
    BY <1>1, <1>2, <1>3 DEF IdsOf
  <1>5. GoodStream(r, b.ingest)
    <2>1. b.ingest = IF r = <<>> THEN -1 ELSE r[Len(r)].ingest
      BY <1>1, <1>2
    <2>2. \A i, j \in DOMAIN r : i <= j => r[i].ingest <= r[j].ingest
      <3>1. w \in Int /\ \A i \in DOMAIN s : s[i].ingest <= w /\ s[i].ingest \in Nat
        BY NewestFacts DEF Partition
      <3>2. \A i \in DOMAIN s : r[i].ingest <= b.ingest /\ r[i].ingest \in Nat
        BY <3>1, <1>1, <1>2
      <3>3. \A i, j \in DOMAIN s : i <= j => r[i].ingest <= r[j].ingest
        BY <1>2 DEF GoodStream
      <3>4. r[Len(s) + 1].ingest = b.ingest
        BY <1>2
      <3> SUFFICES ASSUME NEW i \in DOMAIN r, NEW j \in DOMAIN r, i <= j
                   PROVE  r[i].ingest <= r[j].ingest
        OBVIOUS
      <3>5. CASE j \in DOMAIN s
        <4>1. i \in DOMAIN s
          BY <3>5, <1>2
        <4> QED  BY <4>1, <3>3, <3>5
      <3>6. CASE j = Len(s) + 1
        BY <3>2, <3>4, <3>6, <1>1, <1>3
      <3> QED  BY <3>5, <3>6, <1>3
    <2>3. \A i \in DOMAIN r : \A e \in r[i].ids : EventTime[e] <= r[i].ingest
      BY <1>1, <1>2, <1>3 DEF GoodStream
    <2>4. \A i, j \in DOMAIN r : i # j => r[i].ids \cap r[j].ids = {}
      <3>1. \A i \in DOMAIN s : s[i].ids \cap b.ids = {}
        BY DEF IdsOf
      <3> QED  BY <3>1, <1>1, <1>2, <1>3 DEF GoodStream
    <2> QED  BY <2>1, <2>2, <2>3, <2>4 DEF GoodStream
  <1> QED  BY <1>4, <1>5 DEF r

-----------------------------------------------------------------------------
(* The inductive invariant.                                                *)

\* The bounded memory is what a restore would rebuild, up to ids older than
\* the watermark.
MemoryExact ==
    /\ GoodStream(refs, ingestWm)
    /\ hot = StillHot(refs, WatermarkAt(ingestWm))
    /\ known \subseteq IdsOf(refs)
    /\ \A e \in IdsOf(refs) : EventTime[e] >= WatermarkAt(ingestWm) => e \in known
    /\ IsFiniteSet(IdsOf(refs))
    /\ events = Cardinality(IdsOf(refs))

\* A recorded manifest describes a good stream.
GoodManifest(m) ==
    /\ GoodStream(m.partitions, m.ingest)
    /\ m.hot = Cardinality(StillHot(m.partitions, WatermarkAt(m.ingest)))
    /\ IsFiniteSet(IdsOf(m.partitions))
    /\ m.events = Cardinality(IdsOf(m.partitions))

\* How the memory, the file and the checkpoints relate.
FilesAgree ==
    /\ session # "live" =>
           refs = <<>> /\ events = 0 /\ ingestWm = -1 /\ hot = {} /\ known = {}
    /\ session = "live" => disk # None /\ disk.partitions = refs
    /\ draft # None => session = "live" /\ draft = Manifest
    /\ head # None => /\ GoodManifest(head)
                      /\ disk # None
                      /\ IsPrefixOf(head.partitions, disk.partitions)

IInv == TypeOK /\ MemoryExact /\ FilesAgree

\* An empty log satisfies the invariant of the memory.
LEMMA EmptyExact ==
    ASSUME refs = <<>>, events = 0, ingestWm = -1, hot = {}, known = {}
    PROVE  MemoryExact
  <1>1. DOMAIN refs = {}
    OBVIOUS
  <1>2. IdsOf(refs) = {} /\ StillHot(refs, WatermarkAt(ingestWm)) = {}
    BY <1>1 DEF IdsOf, StillHot
  <1>3. GoodStream(refs, ingestWm)
    BY <1>1 DEF GoodStream
  <1> QED  BY <1>2, <1>3, FS_EmptySet DEF MemoryExact

LEMMA InitIInv == Init => IInv
  <1> SUFFICES ASSUME Init  PROVE IInv
    OBVIOUS
  <1>1. MemoryExact
    BY EmptyExact DEF Init
  <1>2. TypeOK
    BY DEF Init, TypeOK
  <1>3. FilesAgree
    BY DEF Init, FilesAgree
  <1> QED  BY <1>1, <1>2, <1>3 DEF IInv

\* The memory invariant of the empty log, primed.
LEMMA ConstructedExact == Constructed => MemoryExact'
  <1> SUFFICES ASSUME Constructed  PROVE MemoryExact'
    OBVIOUS
  <1>1. DOMAIN refs' = {}
    BY DEF Constructed
  <1>2. IdsOf(refs') = {} /\ StillHot(refs', WatermarkAt(ingestWm')) = {}
    BY <1>1 DEF IdsOf, StillHot
  <1>3. GoodStream(refs', ingestWm')
    BY <1>1 DEF GoodStream, Constructed
  <1> QED  BY <1>2, <1>3, FS_EmptySet DEF MemoryExact, Constructed

LEMMA OpenPreserves == IInv /\ Open => IInv'
  <1> SUFFICES ASSUME IInv, Open  PROVE IInv'
    OBVIOUS
  <1>1. Constructed /\ session' = "fresh" /\ session = "down"
        /\ disk' = disk /\ draft' = draft /\ head' = head
    BY DEF Open
  <1>2. MemoryExact'
    BY <1>1, ConstructedExact
  <1>3. TypeOK'
    BY <1>1 DEF IInv, TypeOK, Constructed
  <1>4. FilesAgree'
    BY <1>1 DEF IInv, FilesAgree, Constructed, GoodManifest
  <1> QED  BY <1>2, <1>3, <1>4 DEF IInv

LEMMA CrashPreserves == IInv /\ Crash => IInv'
  <1> SUFFICES ASSUME IInv, Crash  PROVE IInv'
    OBVIOUS
  <1>1. Constructed /\ session' = "down"
        /\ disk' = disk /\ draft' = None /\ head' = head
    BY DEF Crash
  <1>2. MemoryExact'
    BY <1>1, ConstructedExact
  <1>3. TypeOK'
    BY <1>1 DEF IInv, TypeOK, Constructed
  <1>4. FilesAgree'
    BY <1>1 DEF IInv, FilesAgree, Constructed, GoodManifest
  <1> QED  BY <1>2, <1>3, <1>4 DEF IInv

\* A restore rebuilds the hot window and every id that can still matter.
LEMMA RestorePreserves == IInv /\ Restore => IInv'
  <1> SUFFICES ASSUME IInv, Restore  PROVE IInv'
    OBVIOUS
  <1> DEFINE s == head.partitions
             mark == WatermarkAt(head.ingest)
  <1>1. /\ head # None /\ session = "fresh" /\ session' = "live"
        /\ refs' = s /\ events' = head.events /\ ingestWm' = head.ingest
        /\ hot' = StillHot(s, mark)
        /\ known' = UNION {s[i].ids : i \in hot'}
        /\ disk' = head /\ draft' = draft /\ head' = head
    BY DEF Restore
  <1>2. /\ head \in ManifestRecord /\ s \in Seq(Partition)
        /\ head.events \in Nat /\ head.ingest \in Int
        /\ GoodManifest(head)
    BY <1>1 DEF IInv, TypeOK, FilesAgree, ManifestRecord
  <1>3. hot' \subseteq DOMAIN s
    BY <1>1 DEF StillHot
  <1>4. known' \subseteq IdsOf(s)
    BY <1>1, <1>3 DEF IdsOf
  <1>5. \A e \in IdsOf(s) : EventTime[e] >= mark => e \in known'
    <2> SUFFICES ASSUME NEW e \in IdsOf(s), EventTime[e] >= mark
                 PROVE  e \in known'
      OBVIOUS
    <2>1. GoodStream(s, head.ingest)
      BY <1>2 DEF GoodManifest
    <2>2. \E i \in StillHot(s, mark) : e \in s[i].ids
      BY <2>1, <1>2, HotBatchesSuffice
    <2> QED  BY <2>2, <1>1
  <1>6. MemoryExact'
    BY <1>1, <1>2, <1>4, <1>5 DEF MemoryExact, GoodManifest
  <1>7. IdsOf(s) \subseteq Ids
    <2>1. \A i \in DOMAIN s : s[i] \in Partition
      BY <1>2
    <2> QED  BY <2>1 DEF IdsOf, Partition
  <1>8. TypeOK'
    BY <1>1, <1>2, <1>3, <1>4, <1>7 DEF IInv, TypeOK
  <1>9. FilesAgree'
    <2>1. draft = None
      BY <1>1 DEF IInv, FilesAgree
    <2>2. IsPrefixOf(s, s)
      BY <1>2 DEF IsPrefixOf
    <2>3. disk' # None
      BY <1>1
    <2> QED  BY <1>1, <1>2, <2>1, <2>2, <2>3 DEF FilesAgree, GoodManifest
  <1> QED  BY <1>6, <1>8, <1>9 DEF IInv

\* An append: validate keeps duplicates out although ids were forgotten, and
\* eviction keeps what the next validate needs.
LEMMA AppendPreserves ==
    ASSUME IInv, NEW ids \in SUBSET Ids, NEW t \in Nat, AppendBatch(ids, t)
    PROVE  IInv'
  <1> DEFINE s == IF ids = {} THEN refs
                  ELSE Append(refs, [ids |-> ids, ingest |-> t])
             w == IF ids = {} THEN ingestWm ELSE t
             mark == WatermarkAt(w)
             here == hot \cup (DOMAIN s \ DOMAIN refs)
  <1>1. /\ session' = "live"
        /\ refs' = s /\ events' = events + Cardinality(ids) /\ ingestWm' = w
        /\ hot' = IF mark < 0 THEN here ELSE here \cap StillHot(s, mark)
        /\ known' = IF mark < 0 THEN known \cup ids
                    ELSE StillKnown(known \cup ids, mark)
        /\ disk' = [partitions |-> s, events |-> events', ingest |-> w,
                    hot |-> Cardinality(hot')]
        /\ draft = None /\ draft' = draft /\ head' = head
    BY DEF AppendBatch
  <1>2. /\ refs \in Seq(Partition) /\ GoodStream(refs, ingestWm)
        /\ hot = StillHot(refs, WatermarkAt(ingestWm))
        /\ known \subseteq IdsOf(refs) /\ known \subseteq Ids
        /\ \A e \in IdsOf(refs) : EventTime[e] >= WatermarkAt(ingestWm) => e \in known
        /\ events \in Nat
    BY DEF IInv, TypeOK, MemoryExact
  <1>3. /\ ingestWm \in Int /\ ingestWm >= -1
        /\ \A i \in DOMAIN refs : refs[i] \in Partition /\ refs[i].ingest <= ingestWm
    BY <1>2, NewestFacts
  <1>4. IdsOf(refs) \subseteq Ids
    BY <1>3 DEF IdsOf, Partition
  <1>5. ids \cap IdsOf(refs) = {}
    <2> SUFFICES ASSUME NEW e \in ids, e \in IdsOf(refs)  PROVE FALSE
      OBVIOUS
    <2>1. EventTime[e] \in Nat /\ WatermarkAt(ingestWm) \in Int
      BY <1>3, WatermarkFacts, EventLogAssumption
    <2>2. EventTime[e] >= WatermarkAt(ingestWm)
      BY <2>1 DEF AppendBatch, Valid
    <2>3. e \in known
      BY <2>2, <1>2
    <2> QED  BY <2>3 DEF AppendBatch, Valid
  <1>6. /\ w \in Int /\ w >= ingestWm /\ w >= -1
        /\ mark \in Int /\ mark >= -1 /\ WatermarkAt(ingestWm) <= mark
        /\ WatermarkAt(ingestWm) \in Int
        /\ mark <= w
    <2>1. w \in Int /\ w >= ingestWm /\ w >= -1
      BY <1>3 DEF AppendBatch, Valid
    <2> QED  BY <2>1, <1>3, WatermarkFacts
  <1>7. /\ s \in Seq(Partition) /\ GoodStream(s, w)
        /\ IdsOf(s) = IdsOf(refs) \cup ids
        /\ Len(s) \in Nat
        /\ DOMAIN refs \subseteq DOMAIN s
        /\ \A i \in DOMAIN refs : s[i] = refs[i]
        /\ \A i \in DOMAIN s \ DOMAIN refs : s[i].ingest = w
    <2>1. CASE ids = {}
      BY <2>1, <1>2
    <2>2. CASE ids # {}
      <3> DEFINE b == [ids |-> ids, ingest |-> t]
      <3>1. s = Append(refs, b) /\ w = t
        BY <2>2
      <3>2. t >= ingestWm /\ \A e \in ids : EventTime[e] <= t
        BY <2>2 DEF AppendBatch, Valid
      <3>3. b \in Partition /\ b.ids = ids /\ b.ingest = t
        BY DEF Partition
      <3> HIDE DEF s, w, b
      <3>4. GoodStream(s, t) /\ IdsOf(s) = IdsOf(refs) \cup ids
        BY <3>1, <3>2, <3>3, <1>2, <1>5, AppendKeepsGood
      <3>5. /\ s \in Seq(Partition) /\ Len(s) = Len(refs) + 1
            /\ s[Len(refs) + 1] = b
            /\ \A i \in DOMAIN refs : s[i] = refs[i]
            /\ DOMAIN s = 1..(Len(refs) + 1) /\ DOMAIN refs = 1..Len(refs)
            /\ Len(refs) \in Nat
        BY <3>1, <3>3, <1>2
      <3> QED  BY <3>1, <3>3, <3>4, <3>5
    <2> QED  BY <2>1, <2>2
  <1> HIDE DEF s, w, mark
  <1>8. \A i \in DOMAIN s : s[i] \in Partition /\ s[i].ids \in SUBSET Ids
                            /\ s[i].ingest \in Nat
    <2>1. \A i \in DOMAIN s : s[i] \in Partition
      BY <1>7
    <2> QED  BY <2>1 DEF Partition
  <1>9. hot' = StillHot(s, mark)
    <2>1. \A i \in DOMAIN s : i \in here <=>
              (s[i].ingest >= WatermarkAt(ingestWm) \/ i \notin DOMAIN refs)
      BY <1>2, <1>7 DEF StillHot
    <2>2. \A i \in DOMAIN s : s[i].ingest >= mark => i \in here
      BY <2>1, <1>6, <1>8
    <2>3. CASE mark < 0
      <3>1. mark = -1
        BY <2>3, <1>6
      <3>2. StillHot(s, mark) = DOMAIN s
        <4>1. \A i \in DOMAIN s : s[i].ingest >= mark
          BY <3>1, <1>8
        <4> QED  BY <4>1 DEF StillHot
      <3>3. here \subseteq DOMAIN s
        BY <1>2, <1>7 DEF StillHot
      <3> QED  BY <3>1, <3>2, <3>3, <2>2, <2>3, <1>1 DEF StillHot
    <2>4. CASE ~(mark < 0)
      BY <2>2, <2>4, <1>1 DEF StillHot
    <2> QED  BY <2>3, <2>4
  <1>10. known' \subseteq IdsOf(s)
    BY <1>1, <1>2, <1>7 DEF StillKnown
  <1>11. \A e \in IdsOf(s) : EventTime[e] >= mark => e \in known'
    <2> SUFFICES ASSUME NEW e \in IdsOf(s), EventTime[e] >= mark
                 PROVE  e \in known'
      OBVIOUS
    <2>1. e \in Ids /\ EventTime[e] \in Nat
      BY <1>4, <1>7, EventLogAssumption
    <2>2. e \in known \cup ids
      BY <2>1, <1>2, <1>6, <1>7
    <2> QED  BY <2>2, <1>1 DEF StillKnown
  <1>12. IsFiniteSet(IdsOf(s)) /\ events' = Cardinality(IdsOf(s))
    <2>1. IsFiniteSet(IdsOf(refs)) /\ events = Cardinality(IdsOf(refs))
      BY DEF IInv, MemoryExact
    <2>2. IsFiniteSet(ids)
      BY EventLogAssumption, FS_Subset
    <2>3. IdsOf(refs) \cap ids = {}
      BY <1>5
    <2>4. /\ IsFiniteSet(IdsOf(refs) \cup ids)
          /\ Cardinality(IdsOf(refs) \cup ids) =
                 Cardinality(IdsOf(refs)) + Cardinality(ids) - Cardinality({})
      BY <2>1, <2>2, <2>3, FS_Union
    <2>5. Cardinality({}) = 0 /\ Cardinality(ids) \in Nat
      BY <2>2, FS_EmptySet, FS_CardinalityType
    <2>6. events + Cardinality(ids) = events + Cardinality(ids) - 0
      BY <2>5, <1>2
    <2> QED  BY <2>1, <2>4, <2>5, <2>6, <1>1, <1>7
  <1>13. MemoryExact'
    BY <1>1, <1>7, <1>9, <1>10, <1>11, <1>12 DEF MemoryExact, mark
  <1>14. events' \in Nat /\ disk' \in ManifestRecord
    <2>1. Cardinality(ids) \in Nat
      BY EventLogAssumption, FS_Subset, FS_CardinalityType
    <2>2. events' \in Nat
      BY <2>1, <1>1, <1>2
    <2>3. DOMAIN s = 1..Len(s)
      BY <1>7
    <2>4. IsFiniteSet(DOMAIN s)
      BY <2>3, <1>7, FS_Interval
    <2>5. IsFiniteSet(hot')
      BY <2>4, <1>9, FS_Subset DEF StillHot
    <2>6. Cardinality(hot') \in Nat
      BY <2>5, FS_CardinalityType
    <2> QED  BY <2>2, <2>6, <1>1, <1>6, <1>7 DEF ManifestRecord
  <1>15. TypeOK'
    <2>1. hot' \subseteq DOMAIN s
      BY <1>9 DEF StillHot
    <2>2. known' \subseteq Ids
      BY <1>4, <1>7, <1>10
    <2> QED  BY <2>1, <2>2, <1>1, <1>6, <1>7, <1>14 DEF IInv, TypeOK
  <1>16. FilesAgree'
    <2>1. ASSUME head # None
          PROVE  IsPrefixOf(head.partitions, s)
      <3>1. session = "live"
        BY <2>1 DEF AppendBatch
      <3>2. IsPrefixOf(head.partitions, refs) /\ GoodManifest(head)
        BY <2>1, <3>1 DEF IInv, FilesAgree
      <3>3. head.partitions \in Seq(Partition)
        BY <2>1 DEF IInv, TypeOK, ManifestRecord
      <3>4. DOMAIN refs = 1..Len(refs) /\ DOMAIN s = 1..Len(s)
            /\ Len(head.partitions) \in Nat /\ Len(refs) \in Nat
        BY <1>2, <1>7, <3>3
      <3>5. Len(refs) <= Len(s)
        BY <3>4, <1>7
      <3> QED  BY <3>2, <3>4, <3>5, <1>7 DEF IsPrefixOf
    <2>2. head # None => GoodManifest(head)
      BY DEF IInv, FilesAgree
    <2>3. disk'.partitions = s
      BY <1>1
    <2>4. disk' # None
      BY <1>14, NoneAssumption
    <2> QED  BY <2>1, <2>2, <2>3, <2>4, <1>1 DEF FilesAgree, GoodManifest
  <1> QED  BY <1>13, <1>15, <1>16 DEF IInv

LEMMA SavePreserves == IInv /\ Save => IInv'
  <1> SUFFICES ASSUME IInv, Save  PROVE IInv'
    OBVIOUS
  <1>1. /\ session = "live" /\ draft' = Manifest
        /\ session' = session /\ refs' = refs /\ events' = events
        /\ ingestWm' = ingestWm /\ hot' = hot /\ known' = known
        /\ disk' = disk /\ head' = head
    BY DEF Save, memory
  <1>2. Manifest \in ManifestRecord
    <2>1. refs \in Seq(Partition) /\ hot \subseteq DOMAIN refs
      BY DEF IInv, TypeOK
    <2>2. DOMAIN refs = 1..Len(refs) /\ Len(refs) \in Nat
      BY <2>1
    <2>3. IsFiniteSet(DOMAIN refs)
      BY <2>2, FS_Interval
    <2>4. IsFiniteSet(hot)
      BY <2>1, <2>3, FS_Subset
    <2>5. Cardinality(hot) \in Nat
      BY <2>4, FS_CardinalityType
    <2> QED  BY <2>5 DEF Manifest, ManifestRecord, IInv, TypeOK
  <1>3. Manifest' = Manifest
    BY <1>1 DEF Manifest
  <1>4. TypeOK'
    BY <1>1, <1>2 DEF IInv, TypeOK
  <1>5. MemoryExact'
    BY <1>1 DEF IInv, MemoryExact
  <1>6. FilesAgree'
    BY <1>1, <1>3 DEF IInv, FilesAgree, GoodManifest
  <1> QED  BY <1>4, <1>5, <1>6 DEF IInv

LEMMA AdvancePreserves == IInv /\ Advance => IInv'
  <1> SUFFICES ASSUME IInv, Advance  PROVE IInv'
    OBVIOUS
  <1>1. /\ draft # None /\ head' = draft /\ draft' = None
        /\ session' = session /\ refs' = refs /\ events' = events
        /\ ingestWm' = ingestWm /\ hot' = hot /\ known' = known /\ disk' = disk
    BY DEF Advance, memory
  <1>2. session = "live" /\ draft = Manifest /\ disk # None /\ disk.partitions = refs
    BY <1>1 DEF IInv, FilesAgree
  <1>3. GoodManifest(draft)
    BY <1>2 DEF IInv, MemoryExact, GoodManifest, Manifest
  <1>4. IsPrefixOf(draft.partitions, disk.partitions)
    <2>1. draft.partitions = refs
      BY <1>2 DEF Manifest
    <2>2. IsPrefixOf(refs, refs)
      BY DEF IsPrefixOf, IInv, TypeOK
    <2> QED  BY <1>2, <2>1, <2>2
  <1>5. TypeOK'
    BY <1>1 DEF IInv, TypeOK
  <1>6. MemoryExact'
    BY <1>1 DEF IInv, MemoryExact
  <1>7. FilesAgree'
    BY <1>1, <1>2, <1>3, <1>4 DEF IInv, FilesAgree, GoodManifest
  <1> QED  BY <1>5, <1>6, <1>7 DEF IInv

LEMMA StutterPreserves == IInv /\ UNCHANGED vars => IInv'
  BY DEF IInv, TypeOK, MemoryExact, FilesAgree, Manifest, GoodManifest, vars, memory

\* Every reachable state satisfies the inductive invariant.
THEOREM LogInvariant == Spec => []IInv
  <1>1. IInv /\ [Next]_vars => IInv'
    <2> SUFFICES ASSUME IInv, [Next]_vars  PROVE IInv'
      OBVIOUS
    <2>1. CASE \E ids \in SUBSET Ids, t \in 0..MaxTime : AppendBatch(ids, t)
      BY <2>1, AppendPreserves, EventLogAssumption
    <2> QED  BY <2>1, OpenPreserves, RestorePreserves, SavePreserves,
                AdvancePreserves, CrashPreserves, StutterPreserves DEF Next
  <1> QED  BY InitIInv, <1>1, PTL DEF Spec

-----------------------------------------------------------------------------
(* What the invariant gives.                                               *)

\* Types, for any events, lateness and bounds.
THEOREM LogTyped == Spec => []TypeOK
  <1>1. IInv => TypeOK
    BY DEF IInv
  <1> QED  BY <1>1, LogInvariant, PTL

\* No event is stored twice, although the log forgets the ids of old events.
THEOREM LogExactlyOnce == Spec => []ExactlyOnce
  <1>1. IInv => ExactlyOnce
    BY DEF IInv, MemoryExact, GoodStream, ExactlyOnce
  <1> QED  BY <1>1, LogInvariant, PTL

\* The id memory is exact at and above the watermark.
THEOREM LogDedupeIsExact == Spec => []DedupeIsExact
  <1>1. IInv => DedupeIsExact
    BY DEF IInv, MemoryExact, DedupeIsExact, StillKnown
  <1> QED  BY <1>1, LogInvariant, PTL

\* The running count is the number of rows.
THEOREM LogEventsCountRows == Spec => []EventsCountRows
  <1>1. IInv => EventsCountRows
    BY DEF IInv, MemoryExact, EventsCountRows
  <1> QED  BY <1>1, LogInvariant, PTL

\* The manifest on disk can be rewound to the head after any interruption.
THEOREM LogHeadRestorable == Spec => []HeadRestorable
  <1>1. IInv => HeadRestorable
    BY DEF IInv, FilesAgree, GoodManifest, HeadRestorable
  <1> QED  BY <1>1, LogInvariant, PTL

-----------------------------------------------------------------------------
(* Refinement.                                                             *)

\* Every step of the log is a step of the log that remembers everything, or
\* changes nothing that one can see.
LEMMA StepRefines ==
    ASSUME IInv, IInv', [Next]_vars
    PROVE  [Promise!Next]_Promise!vars
  <1> DEFINE durable == IF head = None THEN <<>> ELSE head.partitions
  <1>1. CASE Open
    <2>1. refs' = <<>> /\ head' = head
      BY <1>1 DEF Open, Constructed
    <2> QED  BY <2>1 DEF Promise!Next, Promise!Lose
  <1>2. CASE Restore
    <2>1. head # None /\ refs' = head.partitions /\ head' = head
      BY <1>2 DEF Restore
    <2> QED  BY <2>1 DEF Promise!Next, Promise!Recover
  <1>3. CASE \E ids \in SUBSET Ids, t \in 0..MaxTime : AppendBatch(ids, t)
    <2>1. PICK ids \in SUBSET Ids, t \in 0..MaxTime : AppendBatch(ids, t)
      BY <1>3
    <2>2. head' = head
      BY <2>1 DEF AppendBatch
    <2>3. CASE ids = {}
      <3>1. refs' = refs
        BY <2>1, <2>3 DEF AppendBatch
      <3> QED  BY <2>2, <3>1 DEF Promise!vars
    <2>4. CASE ids # {}
      <3>1. refs' = Append(refs, [ids |-> ids, ingest |-> t])
        BY <2>1, <2>4 DEF AppendBatch
      <3>2. GoodStream(refs, ingestWm) /\ refs \in Seq(Partition)
            /\ \A e \in IdsOf(refs) : EventTime[e] >= WatermarkAt(ingestWm) => e \in known
        BY DEF IInv, MemoryExact, TypeOK
      <3>3. Promise!Newest(refs) = ingestWm
        BY <3>2 DEF Promise!Newest, GoodStream
      <3>4. ingestWm \in Int /\ ingestWm >= -1
        BY <3>2, NewestFacts
      <3>5. t >= ingestWm /\ \A e \in ids : EventTime[e] <= t
        BY <2>1, <2>4 DEF AppendBatch, Valid
      <3>6. \A e \in ids : EventTime[e] >= ingestWm - AllowedLateness
        <4> SUFFICES ASSUME NEW e \in ids
                     PROVE  EventTime[e] >= ingestWm - AllowedLateness
          OBVIOUS
        <4>1. EventTime[e] \in Nat /\ AllowedLateness \in Nat
          BY EventLogAssumption
        <4>2. WatermarkAt(ingestWm) >= 0 => EventTime[e] >= WatermarkAt(ingestWm)
          BY <2>1 DEF AppendBatch, Valid
        <4> QED  BY <4>1, <4>2, <3>4 DEF WatermarkAt
      <3>7. ids \cap Promise!IdsOf(refs) = {}
        <4> SUFFICES ASSUME NEW e \in ids, e \in IdsOf(refs)  PROVE FALSE
          BY DEF Promise!IdsOf, IdsOf
        <4>1. EventTime[e] \in Nat /\ WatermarkAt(ingestWm) \in Int
          BY <3>4, WatermarkFacts, EventLogAssumption
        <4>2. EventTime[e] >= WatermarkAt(ingestWm) /\ e \notin known
          BY <2>1, <4>1 DEF AppendBatch, Valid
        <4> QED  BY <4>2, <3>2
      <3>8. Promise!Deliver(ids, t)
        BY <2>2, <3>1, <3>3, <3>5, <3>6, <3>7 DEF Promise!Deliver
      <3> QED  BY <2>1, <3>8 DEF Promise!Next
    <2> QED  BY <2>3, <2>4
  <1>4. CASE Save
    BY <1>4 DEF Save, memory, Promise!vars
  <1>5. CASE Advance
    <2>1. /\ draft # None /\ head' = draft /\ draft = Manifest /\ refs' = refs
      BY <1>5 DEF Advance, memory, IInv, FilesAgree
    <2>2. Manifest.partitions = refs
      BY DEF Manifest
    <2>3. Promise!Publish
      BY <2>1, <2>2 DEF Promise!Publish
    <2> QED  BY <2>3 DEF Promise!Next
  <1>6. CASE Crash
    <2>1. refs' = <<>> /\ head' = head
      BY <1>6 DEF Crash, Constructed
    <2> QED  BY <2>1 DEF Promise!Next, Promise!Lose
  <1>7. CASE UNCHANGED vars
    BY <1>7 DEF vars, memory, Promise!vars
  <1> QED  BY <1>1, <1>2, <1>3, <1>4, <1>5, <1>6, <1>7 DEF Next

\* The log with bounded memory implements the log that remembers everything.
THEOREM LogImplementsExactlyOnceLog == Spec => ImplementsExactlyOnceLog
  <1>1. Init => Promise!Init
    BY DEF Init, Promise!Init
  <1>2. IInv /\ IInv' /\ [Next]_vars => [Promise!Next]_Promise!vars
    BY StepRefines
  <1> QED  BY <1>1, <1>2, LogInvariant, PTL
           DEF Spec, ImplementsExactlyOnceLog, Promise!Spec

-----------------------------------------------------------------------------
(* Reads.                                                                  *)

\* What read returns is what the row by row filter of the whole stream returns,
\* whatever whole partitions its bounds let it skip: nothing about the reachable
\* states is needed, only what the bounds of a partition are.
THEOREM LogReadIsExact == Spec => []ReadIsExact
  <1>1. ReadIsExact
    <2> SUFFICES ASSUME NEW through \in 0..MaxTime, NEW upto \in 0..MaxTime,
                        NEW e \in Ids, EventTime[e] <= through
                 PROVE  e \in Read(through, upto)
                        <=> \E i \in DOMAIN refs : /\ e \in refs[i].ids
                                                   /\ refs[i].ingest <= upto
      BY DEF ReadIsExact, Read
    <2>1. ASSUME NEW i \in DOMAIN refs, e \in refs[i].ids, refs[i].ingest <= upto
          PROVE  e \in Read(through, upto)
      BY <2>1 DEF Read
    <2>2. ASSUME e \in Read(through, upto)
          PROVE  \E i \in DOMAIN refs : e \in refs[i].ids /\ refs[i].ingest <= upto
      BY <2>2 DEF Read
    <2> QED  BY <2>1, <2>2
  <1> QED  BY <1>1, PTL
=============================================================================

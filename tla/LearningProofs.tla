---------------------------- MODULE LearningProofs ----------------------------
(***************************************************************************)
(* Theorems about what training reads and what it publishes.               *)
(*                                                                         *)
(* The training dataset and the lanes that consume it, for any times,      *)
(* orders of keys, jobs, consumers, failed launches and crashes: the       *)
(* dataset always verifies, has requests of the factual history only,      *)
(* mixes no watermarks where the keys follow the times, and every lane     *)
(* trains on each of its partitions once, there in the order of time.      *)
(*                                                                         *)
(* The model registry, for any contents, servers and number of versions:   *)
(* promotions form one chain, servers only get versions that were          *)
(* promoted, and retired versions never come back.                         *)
(***************************************************************************)
EXTENDS SampleBus, ModelRegistry, FiniteSetTheorems, SequenceTheorems, TLAPS

-----------------------------------------------------------------------------
(* The dataset.                                                            *)

\* The requests up to the head are published.
Past == Upto(now) \subseteq DOMAIN stream

Appending(w) == writer[w].pc \in {"append", "list"}

\* A job runs under a watermark that is not in the future, and what it has read
\* of the past is the past.
Faithful ==
    \A w \in Writers :
        /\ writer[w].pc # "idle" => writer[w].mark <= now
        /\ Appending(w) => \A t \in DOMAIN writer[w].left :
               t <= writer[w].mark => writer[w].left[t] = stream[t]

\* What its watermark covers and a job has not left is in place with its labels.
Credited ==
    \A w \in Writers, t \in Times :
        Appending(w) /\ t <= writer[w].mark /\ t \notin DOMAIN writer[w].left
            => t \in DOMAIN installed /\ installed[t].mark = writer[w].mark

\* A partition is in place only if its watermark covers it, and then so is
\* everything with an earlier key that the watermark covers, with the same one.
Covered == \A u \in DOMAIN installed : u <= installed[u].mark

NoGap ==
    \A u \in DOMAIN installed, t \in Times :
        keyRank[t] < keyRank[u] /\ t <= installed[u].mark
            => t \in DOMAIN installed /\ installed[t].mark = installed[u].mark

\* Between the two writes of an append the lock is held by one job, whose
\* partition is in place, is not listed, and is behind none that follows it in
\* time and key.
Listing ==
    /\ \A w, x \in Writers : writer[w].pc = "list" /\ writer[x].pc = "list" => w = x
    /\ \A w \in Writers, t \in Times :
           writer[w].pc = "list" /\ IsNext(w, t) =>
               /\ t \in DOMAIN installed /\ installed[t] = Joined(w, t)
               /\ t \notin DOMAIN listed
               /\ \A u \in DOMAIN installed : ~KeysFollow(t, u)

DInv == /\ DatasetTypeOK
        /\ Past
        /\ Faithful
        /\ Credited
        /\ Covered
        /\ NoGap
        /\ Listing
        /\ AlwaysVerifies
        /\ TrainedOnHistory

(* The lanes.                                                              *)

CursorsTyped == cursor \in [Lanes -> Seq(Ref)]

\* A lane has consumed what is listed, nothing twice, and nothing it has left out
\* precedes in time and key what it has consumed.
ConsumedListed ==
    \A l \in Lanes : \A i \in DOMAIN cursor[l] :
        cursor[l][i].time \in DOMAIN listed /\ listed[cursor[l][i].time] = cursor[l][i].content

NoneTwice ==
    \A l \in Lanes : \A i, j \in DOMAIN cursor[l] :
        cursor[l][i].time = cursor[l][j].time => i = j

RestIsLater ==
    \A l \in Lanes : \A t \in DOMAIN listed \ Consumed(l), u \in Consumed(l) :
        ~KeysFollow(t, u)

IInv == /\ DInv
        /\ CursorsTyped
        /\ ConsumedListed
        /\ NoneTwice
        /\ RestIsLater
        /\ LanesFollowTime

-----------------------------------------------------------------------------
(* Maps and jobs.                                                          *)

LEMMA Numbers ==
    /\ Times \subseteq Int /\ Marks \subseteq Int
    /\ \A m \in Marks \cup {-1} : m \in Int
    /\ \A c \in Content : c.mark \in Int
  <1>1. Times \subseteq Int /\ Marks \subseteq Int
    BY DatasetAssumption
  <1>2. ASSUME NEW m \in Marks \cup {-1}
        PROVE  m \in Int
    BY <1>1
  <1>3. ASSUME NEW c \in Content
        PROVE  c.mark \in Int
    <2>1. c.mark \in Marks
      BY DEF Content
    <2> QED  BY <1>1, <2>1
  <1> QED  BY <1>1, <1>2, <1>3

LEMMA RankFacts ==
    ASSUME keyRank \in KeyOrders
    PROVE  /\ \A t \in Times : keyRank[t] \in Int
           /\ \A t, u \in Times : keyRank[t] = keyRank[u] => t = u
  BY DatasetAssumption

LEMMA ManifestFacts ==
    ASSUME NEW f \in Manifest
    PROVE  DOMAIN f \subseteq Times /\ \A t \in DOMAIN f : f[t] \in Requests
  BY DEF Manifest

LEMMA ManifestIs ==
    ASSUME NEW T \in SUBSET Times, NEW f \in [T -> Requests]
    PROVE  f \in Manifest
  BY DEF Manifest

LEMMA OnlyFacts ==
    ASSUME NEW f \in Manifest, NEW S
    PROVE  /\ Only(f, S) \in Manifest
           /\ DOMAIN Only(f, S) = DOMAIN f \cap S
           /\ \A t \in DOMAIN f \cap S : Only(f, S)[t] = f[t]
  <1> DEFINE g == Only(f, S)
  <1>1. /\ DOMAIN g = DOMAIN f \cap S
        /\ \A t \in DOMAIN f \cap S : g[t] = f[t]
    BY DEF Only
  <1>2. g \in [DOMAIN f \cap S -> Requests]
    BY ManifestFacts DEF Only
  <1>3. DOMAIN f \cap S \in SUBSET Times
    BY ManifestFacts
  <1> QED  BY <1>1, <1>2, <1>3, ManifestIs

LEMMA PutFacts ==
    ASSUME NEW f, IsDataset(f), NEW t \in Times, NEW c \in Content
    PROVE  /\ IsDataset(Put(f, t, c))
           /\ DOMAIN Put(f, t, c) = DOMAIN f \cup {t}
           /\ Put(f, t, c)[t] = c
           /\ \A x \in DOMAIN f : x # t => Put(f, t, c)[x] = f[x]
  <1> DEFINE g == Put(f, t, c)
  <1>1. DOMAIN f \subseteq Times /\ \A x \in DOMAIN f : f[x] \in Content
    BY DEF IsDataset
  <1>2. g \in [DOMAIN f \cup {t} -> Content] /\ DOMAIN g = DOMAIN f \cup {t}
    BY <1>1 DEF Put
  <1> QED  BY <1>1, <1>2 DEF Put, IsDataset

LEMMA StoppedTyped == Stopped \in JobState /\ Stopped.pc = "idle"
  <1>1. Nothing \in [{} -> Requests] /\ {} \in SUBSET Times
    BY DEF Nothing
  <1>2. Nothing \in Manifest
    BY <1>1, ManifestIs
  <1> QED  BY <1>2 DEF Stopped, JobState

LEMMA WriterFacts ==
    ASSUME DatasetTypeOK, NEW w \in Writers
    PROVE  /\ writer[w] \in JobState
           /\ writer[w].mark \in Marks \cup {-1} /\ writer[w].mark \in Int
           /\ writer[w].left \in Manifest
           /\ DOMAIN writer[w].left \subseteq Times
           /\ now \in Marks \cup {-1} /\ now \in Int
  <1>1. writer[w] \in JobState /\ now \in Marks \cup {-1}
    BY DEF DatasetTypeOK
  <1>2. writer[w].mark \in Marks \cup {-1} /\ writer[w].left \in Manifest
    BY <1>1 DEF JobState
  <1> QED  BY <1>1, <1>2, Numbers, ManifestFacts

LEMMA StopFacts ==
    ASSUME DatasetTypeOK, NEW w \in Writers, Stop(w)
    PROVE  /\ writer' \in [Writers -> JobState]
           /\ writer'[w].pc = "idle"
           /\ \A x \in Writers : x # w => writer'[x] = writer[x]
  BY StoppedTyped DEF Stop, DatasetTypeOK

LEMMA ReturnedFacts ==
    ASSUME DatasetTypeOK, NEW w \in Writers, NEW t \in Times, Returned(w, t)
    PROVE  /\ writer' \in [Writers -> JobState]
           /\ writer'[w].pc = "append" /\ writer'[w].mark = writer[w].mark
           /\ DOMAIN writer'[w].left = DOMAIN writer[w].left \ {t}
           /\ \A u \in DOMAIN writer'[w].left : writer'[w].left[u] = writer[w].left[u]
           /\ \A x \in Writers : x # w => writer'[x] = writer[x]
  <1> DEFINE rest == Only(writer[w].left, Times \ {t})
             new == [writer[w] EXCEPT !.pc = "append", !.left = rest]
  <1>1. /\ rest \in Manifest
        /\ DOMAIN rest = DOMAIN writer[w].left \cap (Times \ {t})
        /\ \A u \in DOMAIN rest : rest[u] = writer[w].left[u]
    <2> DEFINE f == writer[w].left
    <2>1. f \in Manifest /\ DOMAIN f \subseteq Times
      BY WriterFacts
    <2> HIDE DEF f
    <2>2. /\ Only(f, Times \ {t}) \in Manifest
          /\ DOMAIN Only(f, Times \ {t}) = DOMAIN f \cap (Times \ {t})
          /\ \A u \in DOMAIN f \cap (Times \ {t}) : Only(f, Times \ {t})[u] = f[u]
      BY <2>1, OnlyFacts
    <2> QED  BY <2>2 DEF f
  <1>2. DOMAIN rest = DOMAIN writer[w].left \ {t}
    BY <1>1, WriterFacts
  <1>3. writer' = [writer EXCEPT ![w] = new]
    BY DEF Returned
  <1> HIDE DEF rest
  <1>4. /\ new \in JobState
        /\ new.pc = "append" /\ new.mark = writer[w].mark /\ new.left = rest
    BY <1>1, WriterFacts DEF JobState
  <1> HIDE DEF new
  <1>5. /\ writer' \in [Writers -> JobState] /\ writer'[w] = new
        /\ \A x \in Writers : x # w => writer'[x] = writer[x]
    BY <1>3, <1>4 DEF DatasetTypeOK
  <1> QED  BY <1>1, <1>2, <1>4, <1>5

\* The next partition of a job has the first key of those it has left.
LEMMA NextFacts ==
    ASSUME DatasetTypeOK, NEW w \in Writers, NEW t \in Times, IsNext(w, t)
    PROVE  /\ t \in DOMAIN writer[w].left
           /\ \A u \in Times : keyRank[u] < keyRank[t] => u \notin DOMAIN writer[w].left
           /\ \A u \in Times : IsNext(w, u) => u = t
  <1>1. keyRank \in KeyOrders
    BY DEF DatasetTypeOK
  <1>2. \A u \in Times : keyRank[u] \in Int
    BY <1>1, RankFacts
  <1>3. t \in DOMAIN writer[w].left
        /\ \A u \in DOMAIN writer[w].left : keyRank[t] <= keyRank[u]
    BY DEF IsNext
  <1>4. ASSUME NEW u \in Times, IsNext(w, u)
        PROVE  u = t
    <2>1. keyRank[u] <= keyRank[t] /\ keyRank[t] <= keyRank[u]
      BY <1>3, <1>4 DEF IsNext
    <2> QED  BY <1>1, <1>2, <2>1, RankFacts
  <1> QED  BY <1>2, <1>3, <1>4

\* While nobody holds the lock, what a job adds is behind nothing that follows
\* it, and has everything with an earlier key in place.
LEMMA NextIsLast ==
    ASSUME DInv, NEW w \in Writers, writer[w].pc = "append",
           NEW t \in Times, IsNext(w, t), t <= writer[w].mark, t \notin DOMAIN installed
    PROVE  /\ \A u \in Times : keyRank[u] < keyRank[t] /\ u <= writer[w].mark =>
                  u \in DOMAIN installed /\ installed[u].mark = writer[w].mark
           /\ \A u \in DOMAIN installed : ~(keyRank[t] < keyRank[u] /\ t <= installed[u].mark)
           /\ \A u \in DOMAIN installed : ~KeysFollow(t, u)
  <1>1. \A u \in Times : keyRank[u] < keyRank[t] /\ u <= writer[w].mark =>
                  u \in DOMAIN installed /\ installed[u].mark = writer[w].mark
    BY NextFacts DEF DInv, Credited, Appending
  <1>2. \A u \in DOMAIN installed : ~(keyRank[t] < keyRank[u] /\ t <= installed[u].mark)
    BY DEF DInv, NoGap
  <1>3. ASSUME NEW u \in DOMAIN installed, KeysFollow(t, u)
        PROVE  FALSE
    <2>1. u \in Times /\ installed[u] \in Content
      BY DEF DInv, DatasetTypeOK, IsDataset
    <2>2. u <= installed[u].mark
      BY DEF DInv, Covered
    <2>3. t < u /\ keyRank[t] < keyRank[u]
      BY <1>3 DEF KeysFollow
    <2>4. t \in Int /\ u \in Int /\ installed[u].mark \in Int
      BY <2>1, Numbers
    <2>5. t <= installed[u].mark
      BY <2>2, <2>3, <2>4
    <2> QED  BY <1>2, <2>3, <2>5
  <1> QED  BY <1>1, <1>2, <1>3

-----------------------------------------------------------------------------
(* The dataset: one lemma per kind of step.                                *)

\* The launches leave the past as it is.
LEMMA WorldPreserves ==
    ASSUME DInv, Publish \/ MoveHead \/ Withdraw
    PROVE  DInv'
  <1>1. /\ UNCHANGED <<keyRank, dataset, writer, crashes>>
        /\ installed' = installed /\ listed' = listed
    BY DEF Publish, MoveHead, Withdraw, dataset
  <1>2. /\ now \in Marks \cup {-1} /\ now \in Int
        /\ stream \in Manifest /\ failures \in Requests
        /\ DOMAIN stream \subseteq Times
        /\ \A t \in Times : t \in Int
    BY Numbers, ManifestFacts DEF DInv, DatasetTypeOK
  <1>3. /\ now' \in Marks \cup {-1} /\ now' \in Int /\ now <= now'
        /\ stream' \in Manifest /\ failures' \in Requests
        /\ Past'
        /\ \A t \in Upto(now) : t \in DOMAIN stream' /\ stream'[t] = stream[t]
    <2>1. Upto(now) \subseteq DOMAIN stream
      BY DEF DInv, Past
    <2>2. CASE Publish
      <3>1. PICK m \in Marks :
                /\ m > now
                /\ stream' = [t \in Upto(m) |-> IF t \in DOMAIN stream THEN stream[t]
                                               ELSE failures]
        BY <2>2 DEF Publish
      <3>2. UNCHANGED <<now, failures>>
        BY <2>2 DEF Publish
      <3>3. m \in Int
        BY Numbers
      <3>4. Upto(now) \subseteq Upto(m) /\ Upto(m) \in SUBSET Times
        BY <1>2, <3>1, <3>3 DEF Upto
      <3>5. stream' \in [Upto(m) -> Requests]
        BY <1>2, <3>1, ManifestFacts
      <3>6. stream' \in Manifest
        BY <3>4, <3>5, ManifestIs
      <3>7. Past'
        BY <3>1, <3>2, <3>4 DEF Past, Upto
      <3> QED  BY <1>2, <2>1, <3>1, <3>2, <3>4, <3>6, <3>7
    <2>3. CASE MoveHead
      <3>1. PICK m \in Marks : m > now /\ DOMAIN stream = Upto(m) /\ now' = m
        BY <2>3 DEF MoveHead
      <3>2. UNCHANGED <<stream, failures>>
        BY <2>3 DEF MoveHead
      <3>3. m \in Int
        BY Numbers
      <3>4. Past'
        BY <3>1, <3>2 DEF Past, Upto
      <3> QED  BY <1>2, <2>1, <3>1, <3>2, <3>3, <3>4
    <2>4. CASE Withdraw
      <3>1. /\ now' = now /\ failures < MaxFailures /\ failures' = failures + 1
            /\ stream' = Only(stream, Upto(now))
        BY <2>4 DEF Withdraw
      <3>2. failures' \in Requests
        BY <1>2, <3>1, DatasetAssumption DEF Requests
      <3>3. /\ stream' \in Manifest
            /\ DOMAIN stream' = DOMAIN stream \cap Upto(now)
            /\ \A t \in DOMAIN stream \cap Upto(now) : stream'[t] = stream[t]
        BY <1>2, <3>1, OnlyFacts
      <3>4. Past'
        BY <2>1, <3>1, <3>3 DEF Past, Upto
      <3> QED  BY <1>2, <2>1, <3>1, <3>2, <3>3, <3>4
    <2> QED  BY <2>2, <2>3, <2>4
  <1>4. DatasetTypeOK'
    BY <1>1, <1>3 DEF DInv, DatasetTypeOK, IsDataset
  <1>5. Faithful'
    <2> SUFFICES ASSUME NEW w \in Writers
                 PROVE  /\ writer[w].pc # "idle" => writer[w].mark <= now'
                        /\ Appending(w) => \A t \in DOMAIN writer[w].left :
                               t <= writer[w].mark => writer[w].left[t] = stream'[t]
      BY <1>1 DEF Faithful, Appending
    <2>1. writer[w].mark \in Int /\ DOMAIN writer[w].left \subseteq Times
      BY WriterFacts DEF DInv
    <2>2. writer[w].pc # "idle" => writer[w].mark <= now
      BY DEF DInv, Faithful
    <2>3. writer[w].pc # "idle" => writer[w].mark <= now'
      BY <1>2, <1>3, <2>1, <2>2
    <2>4. ASSUME Appending(w), NEW t \in DOMAIN writer[w].left, t <= writer[w].mark
          PROVE  writer[w].left[t] = stream'[t]
      <3>1. writer[w].left[t] = stream[t]
        BY <2>4 DEF DInv, Faithful
      <3>2. writer[w].mark <= now
        BY <2>2, <2>4 DEF Appending
      <3>3. t \in Upto(now)
        BY <1>2, <2>1, <2>4, <3>2 DEF Upto
      <3> QED  BY <1>3, <3>1, <3>3
    <2> QED  BY <2>3, <2>4
  <1>6. Credited' /\ Covered' /\ NoGap' /\ AlwaysVerifies'
    BY <1>1 DEF DInv, Credited, Appending, Covered, NoGap, AlwaysVerifies, Verifies
  <1>7. Listing'
    BY <1>1 DEF DInv, Listing, IsNext, Joined, KeysFollow
  <1>8. TrainedOnHistory'
    <2> SUFFICES ASSUME NEW t \in DOMAIN installed
                 PROVE  /\ t <= now' /\ t \in DOMAIN stream'
                        /\ installed[t].request = stream'[t]
      BY <1>1 DEF TrainedOnHistory
    <2>1. t <= now /\ installed[t].request = stream[t] /\ t \in Times
      BY DEF DInv, TrainedOnHistory, DatasetTypeOK, IsDataset
    <2>2. t \in Upto(now) /\ t <= now'
      BY <1>2, <1>3, <2>1 DEF Upto
    <2> QED  BY <1>3, <2>1, <2>2
  <1> QED  BY <1>3, <1>4, <1>5, <1>6, <1>7, <1>8 DEF DInv

\* What a step of a job that leaves the partitions alone must show of the job.
LEMMA JobPreserves ==
    ASSUME DInv, NEW w \in Writers, UNCHANGED <<world, dataset>>, crashes' \in Nat,
           writer' \in [Writers -> JobState],
           \A x \in Writers : x # w => writer'[x] = writer[x],
           writer'[w].pc # "list",
           writer'[w].pc # "idle" => writer'[w].mark <= now,
           writer'[w].pc = "append" =>
               /\ \A t \in DOMAIN writer'[w].left :
                      t <= writer'[w].mark => writer'[w].left[t] = stream[t]
               /\ \A t \in Times :
                      t <= writer'[w].mark /\ t \notin DOMAIN writer'[w].left =>
                          t \in DOMAIN installed /\ installed[t].mark = writer'[w].mark
    PROVE  DInv'
  <1>1. /\ now' = now /\ stream' = stream /\ failures' = failures /\ keyRank' = keyRank
        /\ installed' = installed /\ listed' = listed
    BY DEF world, dataset
  <1>2. DatasetTypeOK'
    BY <1>1 DEF DInv, DatasetTypeOK, IsDataset
  <1>3. Faithful'
    <2> SUFFICES ASSUME NEW x \in Writers
                 PROVE  /\ writer'[x].pc # "idle" => writer'[x].mark <= now
                        /\ writer'[x].pc \in {"append", "list"} =>
                               \A t \in DOMAIN writer'[x].left :
                                   t <= writer'[x].mark => writer'[x].left[t] = stream[t]
      BY <1>1 DEF Faithful, Appending
    <2>1. CASE x = w
      BY <2>1
    <2>2. CASE x # w
      BY <2>2 DEF DInv, Faithful, Appending
    <2> QED  BY <2>1, <2>2
  <1>4. Credited'
    <2> SUFFICES ASSUME NEW x \in Writers, NEW t \in Times,
                        writer'[x].pc \in {"append", "list"},
                        t <= writer'[x].mark, t \notin DOMAIN writer'[x].left
                 PROVE  t \in DOMAIN installed /\ installed[t].mark = writer'[x].mark
      BY <1>1 DEF Credited, Appending
    <2>1. CASE x = w
      BY <2>1
    <2>2. CASE x # w
      BY <2>2 DEF DInv, Credited, Appending
    <2> QED  BY <2>1, <2>2
  <1>5. Past' /\ Covered' /\ NoGap' /\ AlwaysVerifies' /\ TrainedOnHistory'
    BY <1>1 DEF DInv, Past, Upto, Covered, NoGap, AlwaysVerifies, Verifies,
                TrainedOnHistory
  <1>6. Listing'
    <2>1. \A x \in Writers : writer'[x].pc = "list" => writer'[x] = writer[x]
      OBVIOUS
    <2>2. \A x \in Writers, t \in Times :
              writer'[x] = writer[x] =>
                  (IsNext(x, t)' <=> IsNext(x, t)) /\ Joined(x, t)' = Joined(x, t)
      BY <1>1 DEF IsNext, Joined
    <2>3. \A t, u : KeysFollow(t, u)' <=> KeysFollow(t, u)
      BY <1>1 DEF KeysFollow
    <2> QED  BY <1>1, <2>1, <2>2, <2>3 DEF DInv, Listing
  <1> QED  BY <1>2, <1>3, <1>4, <1>5, <1>6 DEF DInv

LEMMA StopPreserves ==
    ASSUME DInv, NEW w \in Writers, Stop(w), UNCHANGED <<world, dataset>>,
           crashes' \in Nat
    PROVE  DInv'
  <1>1. /\ writer' \in [Writers -> JobState] /\ writer'[w].pc = "idle"
        /\ \A x \in Writers : x # w => writer'[x] = writer[x]
    BY StopFacts DEF DInv
  <1> QED  BY <1>1, JobPreserves

LEMMA BeginPreserves ==
    ASSUME DInv, NEW w \in Writers, Begin(w)
    PROVE  DInv'
  <1> DEFINE new == [writer[w] EXCEPT !.pc = "opened", !.mark = now]
  <1>1. /\ writer' = [writer EXCEPT ![w] = new]
        /\ UNCHANGED <<world, dataset>> /\ crashes' = crashes
    BY DEF Begin
  <1>2. new \in JobState /\ new.pc = "opened" /\ new.mark = now
    BY WriterFacts DEF DInv, JobState
  <1>3. now <= now
    BY WriterFacts DEF DInv
  <1> HIDE DEF new
  <1>4. /\ writer' \in [Writers -> JobState] /\ writer'[w] = new
        /\ \A x \in Writers : x # w => writer'[x] = writer[x]
    BY <1>1, <1>2 DEF DInv, DatasetTypeOK
  <1>5. crashes' \in Nat
    BY <1>1 DEF DInv, DatasetTypeOK
  <1> QED  BY <1>1, <1>2, <1>3, <1>4, <1>5, JobPreserves

\* All of the past is still to do.
LEMMA ReadPreserves ==
    ASSUME DInv, NEW w \in Writers, ReadStream(w)
    PROVE  DInv'
  <1>1. /\ writer[w].pc = "opened"
        /\ UNCHANGED <<world, dataset>> /\ crashes' \in Nat
    BY DEF ReadStream, DInv, DatasetTypeOK
  <1>2. CASE Stop(w)
    BY <1>1, <1>2, StopPreserves
  <1>3. CASE writer' = [writer EXCEPT ![w].pc = "append", ![w].left = stream]
    <2> DEFINE new == [writer[w] EXCEPT !.pc = "append", !.left = stream]
    <2>1. writer' = [writer EXCEPT ![w] = new]
      BY <1>3
    <2>2. /\ new \in JobState /\ new.pc = "append"
          /\ new.mark = writer[w].mark /\ new.left = stream
      BY WriterFacts DEF DInv, DatasetTypeOK, JobState
    <2> HIDE DEF new
    <2>3. /\ writer' \in [Writers -> JobState] /\ writer'[w] = new
          /\ \A x \in Writers : x # w => writer'[x] = writer[x]
      BY <2>1, <2>2 DEF DInv, DatasetTypeOK
    <2>4. writer[w].mark <= now
      BY <1>1 DEF DInv, Faithful
    <2>5. \A t \in Times : t <= writer[w].mark => t \in DOMAIN stream
      <3>1. \A t \in Times : t \in Int
        BY Numbers
      <3>2. \A t \in Times : t <= writer[w].mark => t \in Upto(now)
        BY <2>4, <3>1, WriterFacts DEF DInv, Upto
      <3> QED  BY <3>2 DEF DInv, Past
    <2> QED  BY <1>1, <2>2, <2>3, <2>4, <2>5, JobPreserves
  <1> QED  BY <1>2, <1>3 DEF ReadStream

\* A finished append credits its partition to the job.
LEMMA CreditFacts ==
    ASSUME DInv, NEW w \in Writers, NEW t \in Times, Returned(w, t), Appending(w),
           t \in DOMAIN installed, installed[t].mark = writer[w].mark
    PROVE  /\ writer' \in [Writers -> JobState]
           /\ \A x \in Writers : x # w => writer'[x] = writer[x]
           /\ writer'[w].pc = "append" /\ writer'[w].mark <= now
           /\ \A u \in DOMAIN writer'[w].left :
                  u <= writer'[w].mark => writer'[w].left[u] = stream[u]
           /\ \A u \in Times :
                  u <= writer'[w].mark /\ u \notin DOMAIN writer'[w].left =>
                      u \in DOMAIN installed /\ installed[u].mark = writer'[w].mark
  <1>1. /\ writer' \in [Writers -> JobState]
        /\ writer'[w].pc = "append" /\ writer'[w].mark = writer[w].mark
        /\ DOMAIN writer'[w].left = DOMAIN writer[w].left \ {t}
        /\ \A u \in DOMAIN writer'[w].left : writer'[w].left[u] = writer[w].left[u]
        /\ \A x \in Writers : x # w => writer'[x] = writer[x]
    BY ReturnedFacts DEF DInv
  <1>2. writer[w].mark <= now
        /\ \A u \in DOMAIN writer[w].left :
               u <= writer[w].mark => writer[w].left[u] = stream[u]
    BY DEF DInv, Faithful, Appending
  <1>3. \A u \in Times : u <= writer[w].mark /\ u \notin DOMAIN writer[w].left =>
            u \in DOMAIN installed /\ installed[u].mark = writer[w].mark
    BY DEF DInv, Credited
  <1> QED  BY <1>1, <1>2, <1>3

LEMMA ResumePreserves ==
    ASSUME DInv, NEW w \in Writers, NEW t \in Times, Resume(w, t)
    PROVE  DInv'
  <1>1. /\ UNCHANGED <<world, dataset>> /\ crashes' \in Nat
        /\ Returned(w, t) /\ Appending(w)
        /\ t \in DOMAIN installed /\ installed[t] = Joined(w, t)
    BY DEF Resume, Appending, DInv, DatasetTypeOK
  <1>2. installed[t].mark = writer[w].mark
    BY <1>1 DEF Joined
  <1> QED  BY <1>1, <1>2, CreditFacts, JobPreserves

LEMMA InstallPreserves ==
    ASSUME DInv, NEW w \in Writers, NEW t \in Times, Install(w, t)
    PROVE  DInv'
  <1> DEFINE m == writer[w].mark
             c == Joined(w, t)
  <1>1. /\ writer[w].pc = "append" /\ Appending(w)
        /\ IsNext(w, t) /\ t <= m /\ t \notin DOMAIN installed
        /\ \A x \in Writers : writer[x].pc # "list"
    BY DEF Install, LockFree, Admits, Appending
  <1>2. /\ \A u \in Times : keyRank[u] < keyRank[t] /\ u <= m =>
               u \in DOMAIN installed /\ installed[u].mark = m
        /\ \A u \in DOMAIN installed : ~(keyRank[t] < keyRank[u] /\ t <= installed[u].mark)
        /\ \A u \in DOMAIN installed : ~KeysFollow(t, u)
    BY <1>1, NextIsLast
  <1>3. /\ t \in DOMAIN writer[w].left
        /\ \A u \in Times : IsNext(w, u) => u = t
    BY <1>1, NextFacts DEF DInv
  <1>4. /\ m \in Int /\ now \in Int /\ t \in Int /\ m <= now /\ m \in Marks
    <2>1. m \in Marks \cup {-1} /\ m \in Int /\ now \in Int
      BY WriterFacts DEF DInv
    <2>2. t \in Nat
      BY DatasetAssumption
    <2>3. m <= now
      BY <1>1 DEF DInv, Faithful
    <2>4. m # -1
      BY <1>1, <2>1, <2>2
    <2> QED  BY <2>1, <2>2, <2>3, <2>4
  <1>5. /\ c \in Content /\ c.mark = m /\ c.request = writer[w].left[t]
        /\ writer[w].left[t] = stream[t] /\ t <= now /\ t \in DOMAIN stream
    <2>1. writer[w].left[t] \in Requests
      <3>1. writer[w].left \in Manifest
        BY WriterFacts DEF DInv
      <3> QED  BY <1>3, <3>1, ManifestFacts
    <2>2. writer[w].left[t] = stream[t]
      BY <1>1, <1>3 DEF DInv, Faithful
    <2>3. t <= now
      BY <1>1, <1>4
    <2>4. t \in DOMAIN stream
      BY <2>3 DEF DInv, Past, Upto
    <2> QED  BY <1>4, <2>1, <2>2, <2>3, <2>4 DEF Joined, Content
  <1>6. /\ writer' = [writer EXCEPT ![w] = [writer[w] EXCEPT !.pc = "list"]]
        /\ installed' = Put(installed, t, c)
        /\ UNCHANGED <<world, listed, crashes>>
    BY DEF Install
  <1>7. /\ now' = now /\ stream' = stream /\ failures' = failures /\ keyRank' = keyRank
        /\ listed' = listed /\ crashes' = crashes
    BY <1>6 DEF world
  <1>8. /\ writer' \in [Writers -> JobState]
        /\ writer'[w].pc = "list"
        /\ \A x \in Writers : x # w => writer'[x] = writer[x]
        /\ \A x \in Writers : writer'[x].mark = writer[x].mark
                              /\ writer'[x].left = writer[x].left
    <2> DEFINE new == [writer[w] EXCEPT !.pc = "list"]
    <2>1. /\ new \in JobState /\ new.pc = "list"
          /\ new.mark = writer[w].mark /\ new.left = writer[w].left
      BY WriterFacts DEF DInv, JobState
    <2>2. writer' = [writer EXCEPT ![w] = new]
      BY <1>6
    <2> HIDE DEF new
    <2> QED  BY <2>1, <2>2 DEF DInv, DatasetTypeOK
  <1>9. IsDataset(installed)
    BY DEF DInv, DatasetTypeOK
  <1>10. \A x \in Writers, u \in Times : IsNext(x, u)' <=> IsNext(x, u)
    BY <1>7, <1>8 DEF IsNext
  <1>11. Joined(w, t)' = c
    BY <1>8 DEF Joined
  <1> HIDE DEF c
  <1>12. /\ IsDataset(installed')
         /\ DOMAIN installed' = DOMAIN installed \cup {t}
         /\ installed'[t] = c
         /\ \A u \in DOMAIN installed : installed'[u] = installed[u]
    BY <1>1, <1>5, <1>6, <1>9, PutFacts
  <1>13. DatasetTypeOK'
    BY <1>7, <1>8, <1>12 DEF DInv, DatasetTypeOK, IsDataset
  <1>14. Past' /\ AlwaysVerifies'
    BY <1>7, <1>12 DEF DInv, Past, Upto, AlwaysVerifies, Verifies
  <1>15. \A x \in Writers : writer'[x].pc = "list" \/ writer'[x].pc = writer[x].pc
    BY <1>8
  <1>16. \A x \in Writers : /\ Appending(x)' => Appending(x)
                            /\ writer'[x].pc # "idle" => writer[x].pc # "idle"
    <2>1. \A x \in Writers : x # w => writer'[x].pc = writer[x].pc
      BY <1>8
    <2> QED  BY <1>1, <1>8, <2>1 DEF Appending
  <1>17. Faithful'
    BY <1>7, <1>8, <1>16 DEF DInv, Faithful
  <1>18. Credited'
    BY <1>8, <1>12, <1>16 DEF DInv, Credited
  <1>19. Covered'
    BY <1>1, <1>5, <1>12 DEF DInv, Covered
  <1>20. TrainedOnHistory'
    BY <1>5, <1>7, <1>12 DEF DInv, TrainedOnHistory
  <1>21. NoGap'
    <2> SUFFICES ASSUME NEW u \in DOMAIN installed', NEW s \in Times,
                        keyRank[s] < keyRank[u], s <= installed'[u].mark
                 PROVE  s \in DOMAIN installed' /\ installed'[s].mark = installed'[u].mark
      BY <1>7 DEF NoGap
    <2>1. CASE u = t
      BY <1>2, <1>5, <1>12, <2>1
    <2>2. CASE u \in DOMAIN installed
      <3>1. s \in DOMAIN installed /\ installed[s].mark = installed[u].mark
        BY <1>12, <2>2 DEF DInv, NoGap
      <3> QED  BY <1>12, <2>2, <3>1
    <2> QED  BY <1>12, <2>1, <2>2
  <1>22. Listing'
    <2>1. \A x \in Writers : writer'[x].pc = "list" => x = w
      BY <1>1, <1>8
    <2>2. t \notin DOMAIN listed
      BY <1>1 DEF DInv, AlwaysVerifies, Verifies
    <2>3. \A a, b : KeysFollow(a, b)' <=> KeysFollow(a, b)
      BY <1>7 DEF KeysFollow
    <2>4. ~KeysFollow(t, t)
      BY <1>4 DEF KeysFollow
    <2>5. \A u \in DOMAIN installed' : ~KeysFollow(t, u)
      BY <1>2, <1>12, <2>4
    <2>6. ASSUME NEW x \in Writers, NEW u \in Times, writer'[x].pc = "list", IsNext(x, u)'
          PROVE  x = w /\ u = t
      BY <1>3, <1>10, <2>1, <2>6
    <2>7. /\ t \in DOMAIN installed' /\ installed'[t] = Joined(w, t)'
          /\ t \notin DOMAIN listed'
          /\ \A u \in DOMAIN installed' : ~KeysFollow(t, u)'
      BY <1>7, <1>11, <1>12, <2>2, <2>3, <2>5
    <2> QED  BY <2>1, <2>6, <2>7 DEF Listing
  <1> QED  BY <1>13, <1>14, <1>17, <1>18, <1>19, <1>20, <1>21, <1>22 DEF DInv

LEMMA ListPreserves ==
    ASSUME DInv, NEW w \in Writers, NEW t \in Times, List(w, t)
    PROVE  /\ DInv'
           /\ DOMAIN listed' = DOMAIN listed \cup {t}
           /\ \A u \in DOMAIN listed : ~KeysFollow(t, u) /\ listed'[u] = listed[u]
  <1>1. /\ t \in DOMAIN installed /\ installed[t] = Joined(w, t)
        /\ t \notin DOMAIN listed
        /\ \A u \in DOMAIN installed : ~KeysFollow(t, u)
        /\ \A x \in Writers : writer[x].pc = "list" => x = w
    BY DEF List, DInv, Listing
  <1>2. /\ UNCHANGED <<world, installed, crashes>>
        /\ listed' = Put(listed, t, Joined(w, t))
        /\ Returned(w, t) /\ Appending(w)
    BY DEF List, Appending
  <1>3. Joined(w, t).mark = writer[w].mark
    BY DEF Joined
  <1>4. /\ IsDataset(installed) /\ IsDataset(listed) /\ Joined(w, t) \in Content
    BY <1>1 DEF DInv, DatasetTypeOK, IsDataset
  <1>5. /\ IsDataset(listed')
        /\ DOMAIN listed' = DOMAIN listed \cup {t}
        /\ listed'[t] = Joined(w, t)
        /\ \A u \in DOMAIN listed : listed'[u] = listed[u]
    BY <1>1, <1>2, <1>4, PutFacts
  <1>6. /\ now' = now /\ stream' = stream /\ failures' = failures /\ keyRank' = keyRank
        /\ installed' = installed /\ crashes' = crashes
    BY <1>2 DEF world
  <1>7. /\ writer' \in [Writers -> JobState]
        /\ \A x \in Writers : x # w => writer'[x] = writer[x]
        /\ writer'[w].pc = "append" /\ writer'[w].mark <= now
        /\ \A u \in DOMAIN writer'[w].left :
               u <= writer'[w].mark => writer'[w].left[u] = stream[u]
        /\ \A u \in Times :
               u <= writer'[w].mark /\ u \notin DOMAIN writer'[w].left =>
                   u \in DOMAIN installed /\ installed[u].mark = writer'[w].mark
    BY <1>1, <1>2, <1>3, CreditFacts
  <1>8. DatasetTypeOK'
    BY <1>5, <1>6, <1>7 DEF DInv, DatasetTypeOK, IsDataset
  <1>9. AlwaysVerifies'
    BY <1>1, <1>5, <1>6 DEF DInv, AlwaysVerifies, Verifies
  <1>10. Past' /\ Covered' /\ NoGap' /\ TrainedOnHistory'
    BY <1>6 DEF DInv, Past, Upto, Covered, NoGap, TrainedOnHistory
  <1>11. Listing'
    <2>1. \A x \in Writers : writer'[x].pc # "list"
      BY <1>1, <1>7
    <2> QED  BY <2>1 DEF Listing
  <1>12. Faithful'
    <2> SUFFICES ASSUME NEW x \in Writers
                 PROVE  /\ writer'[x].pc # "idle" => writer'[x].mark <= now
                        /\ writer'[x].pc \in {"append", "list"} =>
                               \A u \in DOMAIN writer'[x].left :
                                   u <= writer'[x].mark => writer'[x].left[u] = stream[u]
      BY <1>6 DEF Faithful, Appending
    <2>1. CASE x = w
      BY <1>7, <2>1
    <2>2. CASE x # w
      BY <1>7, <2>2 DEF DInv, Faithful, Appending
    <2> QED  BY <2>1, <2>2
  <1>13. Credited'
    <2> SUFFICES ASSUME NEW x \in Writers, NEW u \in Times,
                        writer'[x].pc \in {"append", "list"},
                        u <= writer'[x].mark, u \notin DOMAIN writer'[x].left
                 PROVE  u \in DOMAIN installed /\ installed[u].mark = writer'[x].mark
      BY <1>6 DEF Credited, Appending
    <2>1. CASE x = w
      BY <1>7, <2>1
    <2>2. CASE x # w
      BY <1>7, <2>2 DEF DInv, Credited, Appending
    <2> QED  BY <2>1, <2>2
  <1>14. DOMAIN listed \subseteq DOMAIN installed
    BY DEF DInv, AlwaysVerifies, Verifies
  <1>15. DInv'
    BY <1>8, <1>9, <1>10, <1>11, <1>12, <1>13 DEF DInv
  <1> QED  BY <1>1, <1>5, <1>14, <1>15

LEMMA DatasetKept ==
    ASSUME DInv, UNCHANGED <<world, dataset, writer>>, crashes' \in Nat
    PROVE  DInv'
  <1>1. /\ now' = now /\ stream' = stream /\ failures' = failures /\ keyRank' = keyRank
        /\ installed' = installed /\ listed' = listed /\ writer' = writer
    BY DEF world, dataset
  <1>2. DatasetTypeOK'
    BY <1>1 DEF DInv, DatasetTypeOK, IsDataset
  <1>3. Past' /\ Faithful' /\ Credited' /\ Covered' /\ NoGap'
        /\ AlwaysVerifies' /\ TrainedOnHistory'
    BY <1>1 DEF DInv, Past, Upto, Faithful, Credited, Appending, Covered, NoGap,
                AlwaysVerifies, Verifies, TrainedOnHistory
  <1>4. Listing'
    BY <1>1 DEF DInv, Listing, IsNext, Joined, KeysFollow
  <1> QED  BY <1>2, <1>3, <1>4 DEF DInv

\* No step of the dataset changes what is listed, and what is added does not
\* precede it in time and key.
LEMMA DatasetPreserves ==
    ASSUME DInv, DatasetNext
    PROVE  /\ DInv' /\ keyRank' = keyRank
           /\ DOMAIN listed \subseteq DOMAIN listed'
           /\ \A u \in DOMAIN listed : listed'[u] = listed[u]
           /\ \A t \in DOMAIN listed' \ DOMAIN listed, u \in DOMAIN listed :
                  ~KeysFollow(t, u)
  <1>1. CASE Publish \/ MoveHead \/ Withdraw
    BY <1>1, WorldPreserves DEF Publish, MoveHead, Withdraw, dataset
  <1>2. CASE \E w \in Writers : Begin(w)
    BY <1>2, BeginPreserves DEF Begin, dataset, world
  <1>3. CASE \E w \in Writers : ReadStream(w)
    BY <1>3, ReadPreserves DEF ReadStream, dataset, world
  <1>4. CASE \E w \in Writers, t \in Times : Install(w, t)
    BY <1>4, InstallPreserves DEF Install, world
  <1>5. CASE \E w \in Writers, t \in Times : List(w, t)
    <2>1. PICK w \in Writers, t \in Times : List(w, t)
      BY <1>5
    <2>2. keyRank' = keyRank
      BY <2>1 DEF List, world
    <2> QED  BY <2>1, <2>2, ListPreserves
  <1>6. CASE \E w \in Writers, t \in Times : Resume(w, t)
    BY <1>6, ResumePreserves DEF Resume, dataset, world
  <1>7. CASE \E w \in Writers : \/ \E t \in Times : Predates(w, t) \/ Conflict(w, t)
                                \/ Finish(w) \/ JobCrash(w)
    <2>1. PICK w \in Writers : Stop(w)
      BY <1>7 DEF Predates, Conflict, Finish, JobCrash
    <2>2. UNCHANGED <<world, dataset>> /\ crashes' \in Nat
      BY <1>7 DEF Predates, Conflict, Finish, JobCrash, DInv, DatasetTypeOK
    <2> QED  BY <2>1, <2>2, StopPreserves DEF dataset, world
  <1> QED  BY <1>1, <1>2, <1>3, <1>4, <1>5, <1>6, <1>7 DEF DatasetNext, JobStep

\* Where the keys follow the times, the earlier partition is covered by the
\* watermark of the later one.
LEMMA OneWatermark ==
    ASSUME DInv, NEW t \in DOMAIN installed, NEW u \in DOMAIN installed, KeysFollow(t, u)
    PROVE  installed[t].mark = installed[u].mark
  <1>1. /\ t \in Times /\ u \in Times /\ installed[u] \in Content
        /\ u <= installed[u].mark
    BY DEF DInv, DatasetTypeOK, IsDataset, Covered
  <1>2. t \in Int /\ u \in Int /\ installed[u].mark \in Int
    BY <1>1, Numbers
  <1>3. t <= installed[u].mark /\ keyRank[t] < keyRank[u]
    BY <1>1, <1>2 DEF KeysFollow
  <1> QED  BY <1>1, <1>3 DEF DInv, NoGap

-----------------------------------------------------------------------------
(* The lanes.                                                              *)

\* A step that leaves the cursors alone.
LEMMA LanesKept ==
    ASSUME IInv, DInv', UNCHANGED <<keyRank, cursor>>,
           DOMAIN listed \subseteq DOMAIN listed',
           \A u \in DOMAIN listed : listed'[u] = listed[u],
           \A t \in DOMAIN listed' \ DOMAIN listed, u \in DOMAIN listed :
               ~KeysFollow(t, u)
    PROVE  IInv'
  <1>1. \A t, u : KeysFollow(t, u)' <=> KeysFollow(t, u)
    BY DEF KeysFollow
  <1>2. CursorsTyped' /\ NoneTwice' /\ LanesFollowTime'
    BY DEF IInv, CursorsTyped, NoneTwice, LanesFollowTime, KeysFollow
  <1>3. ConsumedListed'
    BY DEF IInv, ConsumedListed
  <1>4. RestIsLater'
    <2> SUFFICES ASSUME NEW l \in Lanes,
                        NEW t \in DOMAIN listed' \ Consumed(l), NEW u \in Consumed(l)
                 PROVE  ~KeysFollow(t, u)
      BY <1>1 DEF RestIsLater, Consumed
    <2>1. u \in DOMAIN listed
      BY DEF IInv, ConsumedListed, Consumed
    <2>2. CASE t \in DOMAIN listed
      BY <2>2 DEF IInv, RestIsLater
    <2>3. CASE t \notin DOMAIN listed
      BY <2>1, <2>3
    <2> QED  BY <2>2, <2>3
  <1> QED  BY <1>2, <1>3, <1>4 DEF IInv

LEMMA AvailableFacts ==
    ASSUME IInv, NEW l \in Lanes, NEW ref, IsFirst(ref, l)
    PROVE  /\ ref \in Ref
           /\ ref.time \in DOMAIN listed \ Consumed(l)
           /\ listed[ref.time] = ref.content
           /\ \A t \in DOMAIN listed \ Consumed(l) : ~KeysFollow(t, ref.time)
  <1>1. PICK time \in DOMAIN listed \ Consumed(l) :
            ref = [time |-> time, content |-> listed[time]]
    BY DEF IsFirst, Available
  <1>2. DOMAIN listed \subseteq Times /\ \A t \in DOMAIN listed : listed[t] \in Content
    BY DEF IInv, DInv, DatasetTypeOK, IsDataset
  <1>3. ref \in Ref
    BY <1>1, <1>2 DEF Ref
  <1>4. ASSUME NEW t \in DOMAIN listed \ Consumed(l), KeysFollow(t, time)
        PROVE  FALSE
    <2> DEFINE q == [time |-> t, content |-> listed[t]]
    <2>1. t \in Times /\ time \in Times /\ t \in Int /\ time \in Int
      BY <1>2, Numbers
    <2>2. t < time /\ keyRank[t] < keyRank[time]
      BY <1>4 DEF KeysFollow
    <2>3. q \in Available(l) /\ q # ref
      BY <1>1, <2>1, <2>2 DEF Available
    <2>4. Precedes(ref, q)
      BY <2>3 DEF IsFirst
    <2>5. /\ t \in DOMAIN installed /\ time \in DOMAIN installed
          /\ listed[t] = installed[t] /\ listed[time] = installed[time]
      BY DEF IInv, DInv, AlwaysVerifies, Verifies
    <2>6. listed[t].mark = listed[time].mark
      BY <1>4, <2>5, OneWatermark DEF IInv
    <2>7. listed[time].mark \in Int
      BY <1>2, Numbers
    <2>8. keyRank[time] < keyRank[t]
      BY <1>1, <2>4, <2>6, <2>7 DEF Precedes
    <2>9. keyRank[time] \in Int /\ keyRank[t] \in Int
      BY <2>1, RankFacts DEF IInv, DInv, DatasetTypeOK
    <2> QED  BY <2>2, <2>8, <2>9
  <1> QED  BY <1>1, <1>3, <1>4

LEMMA CommitPreserves ==
    ASSUME IInv, NEW c \in Consumers, CommitNext(c)
    PROVE  IInv'
  <1> DEFINE l == LaneOf[c]
             ref == Head(batch[c])
             n == Len(cursor[l]) + 1
  <1>1. l \in Lanes
    BY BusAssumption
  <1>2. /\ ref \in Ref
        /\ ref.time \in DOMAIN listed \ Consumed(l)
        /\ listed[ref.time] = ref.content
        /\ \A t \in DOMAIN listed \ Consumed(l) : ~KeysFollow(t, ref.time)
    <2>1. IsFirst(ref, l)
      BY DEF CommitNext
    <2> HIDE DEF l, ref
    <2> QED  BY <1>1, <2>1, AvailableFacts
  <1>3. /\ UNCHANGED datasetVars
        /\ cursor' = [cursor EXCEPT ![l] = Append(@, ref)]
        /\ cursor \in [Lanes -> Seq(Ref)]
    BY DEF CommitNext, IInv, CursorsTyped
  <1> HIDE DEF l, ref
  <1>4. /\ cursor' \in [Lanes -> Seq(Ref)]
        /\ \A k \in Lanes : k # l => cursor'[k] = cursor[k]
        /\ cursor'[l] = Append(cursor[l], ref)
    BY <1>1, <1>2, <1>3
  <1>5. /\ cursor[l] \in Seq(Ref) /\ Len(cursor[l]) \in Nat
        /\ DOMAIN cursor[l] = 1 .. Len(cursor[l])
        /\ DOMAIN cursor'[l] = 1 .. n
        /\ cursor'[l][n] = ref
        /\ \A i \in DOMAIN cursor[l] : cursor'[l][i] = cursor[l][i]
        /\ \A i \in DOMAIN cursor'[l] : i = n \/ i \in DOMAIN cursor[l]
        /\ \A i \in DOMAIN cursor[l] : i < n
    BY <1>1, <1>2, <1>3, <1>4
  <1>6. Consumed(l)' = Consumed(l) \cup {ref.time}
    <2>1. n \in DOMAIN cursor'[l] /\ DOMAIN cursor[l] \subseteq DOMAIN cursor'[l]
      BY <1>5
    <2> HIDE DEF n
    <2> QED  BY <1>5, <2>1 DEF Consumed
  <1> HIDE DEF n
  <1>7. \A k \in Lanes : k # l => Consumed(k)' = Consumed(k)
    BY <1>4 DEF Consumed
  <1>8. /\ listed' = listed /\ keyRank' = keyRank
        /\ \A t, u : KeysFollow(t, u)' <=> KeysFollow(t, u)
    BY <1>3 DEF datasetVars, dataset, world, KeysFollow
  <1>9. DInv'
    BY <1>3, DatasetKept DEF IInv, DInv, DatasetTypeOK, datasetVars
  <1>10. CursorsTyped'
    BY <1>4, <1>8 DEF IInv, CursorsTyped
  <1>11. ConsumedListed'
    <2>1. \A i \in DOMAIN cursor'[l] :
              /\ cursor'[l][i].time \in DOMAIN listed
              /\ listed[cursor'[l][i].time] = cursor'[l][i].content
      <3> SUFFICES ASSUME NEW i \in DOMAIN cursor'[l]
                   PROVE  /\ cursor'[l][i].time \in DOMAIN listed
                          /\ listed[cursor'[l][i].time] = cursor'[l][i].content
        OBVIOUS
      <3>1. CASE i = n
        BY <1>2, <1>5, <3>1
      <3>2. CASE i \in DOMAIN cursor[l]
        BY <1>1, <1>5, <3>2 DEF IInv, ConsumedListed
      <3> QED  BY <1>5, <3>1, <3>2
    <2> QED  BY <1>4, <1>8, <2>1 DEF IInv, ConsumedListed
  <1>12. NoneTwice'
    <2>1. \A i \in DOMAIN cursor[l] : cursor[l][i].time # ref.time
      BY <1>2 DEF Consumed
    <2>2. \A i, j \in DOMAIN cursor'[l] :
              cursor'[l][i].time = cursor'[l][j].time => i = j
      <3> SUFFICES ASSUME NEW i \in DOMAIN cursor'[l], NEW j \in DOMAIN cursor'[l],
                          cursor'[l][i].time = cursor'[l][j].time
                   PROVE  i = j
        OBVIOUS
      <3>1. CASE i = n \/ j = n
        BY <1>5, <2>1, <3>1
      <3>2. CASE i \in DOMAIN cursor[l] /\ j \in DOMAIN cursor[l]
        BY <1>1, <1>5, <3>2 DEF IInv, NoneTwice
      <3> QED  BY <1>5, <3>1, <3>2
    <2> QED  BY <1>4, <2>2 DEF IInv, NoneTwice
  <1>13. RestIsLater'
    BY <1>2, <1>6, <1>7, <1>8 DEF IInv, RestIsLater
  <1>14. LanesFollowTime'
    <2> SUFFICES ASSUME NEW i \in DOMAIN cursor'[l], NEW j \in DOMAIN cursor'[l],
                        KeysFollow(cursor'[l][i].time, cursor'[l][j].time)
                 PROVE  i < j
      BY <1>4, <1>8 DEF IInv, LanesFollowTime
    <2>1. CASE i \in DOMAIN cursor[l] /\ j \in DOMAIN cursor[l]
      BY <1>1, <1>5, <2>1 DEF IInv, LanesFollowTime
    <2>2. CASE i \in DOMAIN cursor[l] /\ j = n
      BY <1>5, <2>2
    <2>3. CASE i = n /\ j \in DOMAIN cursor[l]
      <3>1. cursor[l][j].time \in Consumed(l)
        BY <2>3 DEF Consumed
      <3>2. ~KeysFollow(ref.time, cursor[l][j].time)
        BY <1>1, <1>2, <3>1 DEF IInv, RestIsLater
      <3> QED  BY <1>5, <2>3, <3>2
    <2>4. CASE i = n /\ j = n
      <3>1. ref.time \in Int
        BY <1>2, Numbers DEF Ref
      <3> QED  BY <1>5, <2>4, <3>1 DEF KeysFollow
    <2> QED  BY <1>5, <2>1, <2>2, <2>3, <2>4
  <1> QED  BY <1>9, <1>10, <1>11, <1>12, <1>13, <1>14 DEF IInv

-----------------------------------------------------------------------------
(* The theorems.                                                           *)

LEMMA InitIInv == Init => IInv
  <1> SUFFICES ASSUME Init PROVE IInv
    OBVIOUS
  <1> USE DEF Init, DatasetInit
  <1>1. /\ DOMAIN installed = {} /\ DOMAIN listed = {}
        /\ installed = listed /\ stream = installed
    BY DEF Nothing
  <1>2. stream \in Manifest /\ IsDataset(installed) /\ IsDataset(listed)
    <2>1. Nothing \in [{} -> Requests] /\ {} \in SUBSET Times
      BY DEF Nothing
    <2>2. IsDataset(Nothing)
      BY DEF Nothing, IsDataset
    <2> QED  BY <2>1, <2>2, ManifestIs
  <1>3. \A w \in Writers : writer[w].pc = "idle"
    BY StoppedTyped
  <1>4. DatasetTypeOK
    <2>1. now \in Marks \cup {-1} /\ failures \in Requests /\ crashes \in Nat
      BY DatasetAssumption DEF Requests
    <2> QED  BY <1>2, <2>1, StoppedTyped DEF DatasetTypeOK
  <1>5. Past
    <2>1. now = -1
      OBVIOUS
    <2>2. \A t \in Times : ~(t <= -1)
      BY DatasetAssumption
    <2>3. Upto(now) = {}
      BY <2>1, <2>2 DEF Upto
    <2> QED  BY <2>3 DEF Past
  <1>6. DInv
    BY <1>1, <1>3, <1>4, <1>5
       DEF DInv, Faithful, Credited, Appending, Covered, NoGap, Listing,
           AlwaysVerifies, Verifies, TrainedOnHistory
  <1>7. \A l \in Lanes : cursor[l] = <<>>
    OBVIOUS
  <1>8. \A l \in Lanes : DOMAIN cursor[l] = {} /\ Consumed(l) = {}
    BY <1>7 DEF Consumed
  <1>9. CursorsTyped
    BY DEF CursorsTyped
  <1> QED
    BY <1>6, <1>8, <1>9 DEF IInv, ConsumedListed, NoneTwice, RestIsLater, LanesFollowTime

LEMMA NextIInv == IInv /\ [Next]_vars => IInv'
  <1> SUFFICES ASSUME IInv, [Next]_vars PROVE IInv'
    OBVIOUS
  <1>1. CASE DatasetNext /\ UNCHANGED <<cursor, batch>>
    BY <1>1, DatasetPreserves, LanesKept DEF IInv
  <1>2. CASE \E c \in Consumers : CommitNext(c)
    BY <1>2, CommitPreserves
  <1>3. ASSUME UNCHANGED <<world, dataset, writer, cursor>>, crashes' \in Nat
        PROVE  IInv'
    <2>1. DInv' /\ listed' = listed /\ keyRank' = keyRank
      BY <1>3, DatasetKept DEF IInv, dataset, world
    <2> QED  BY <1>3, <2>1, LanesKept
  <1>4. crashes \in Nat
    BY DEF IInv, DInv, DatasetTypeOK
  <1>5. CASE \E c \in Consumers : Poll(c) \/ CommitResumed(c) \/ CommitRaises(c)
    BY <1>3, <1>4, <1>5 DEF Poll, CommitResumed, CommitRaises, datasetVars
  <1>6. CASE \E c \in Consumers : ConsumerCrash(c)
    BY <1>3, <1>4, <1>6 DEF ConsumerCrash
  <1>7. CASE UNCHANGED vars
    BY <1>3, <1>4, <1>7 DEF vars, datasetVars
  <1> QED  BY <1>1, <1>2, <1>5, <1>6, <1>7 DEF Next, ConsumerStep

\* The inductive invariant of the dataset and its lanes.
THEOREM BusInvariant == Spec => []IInv
  BY InitIInv, NextIInv, PTL DEF Spec

\* The stream, the partitions, the manifest and the jobs have their types.
THEOREM DatasetTyped == Spec => []DatasetTypeOK
  <1>1. IInv => DatasetTypeOK
    BY DEF IInv, DInv
  <1> QED  BY <1>1, BusInvariant, PTL

\* The manifest lists only partitions that are in place as recorded, wherever a
\* job dies between the two writes of its append.
THEOREM DatasetVerifies == Spec => []AlwaysVerifies
  <1>1. IInv => AlwaysVerifies
    BY DEF IInv, DInv
  <1> QED  BY <1>1, BusInvariant, PTL

\* Every partition of the dataset has the requests of the window that became
\* history, for any number of jobs that read the whole stream long after they
\* opened their heads, and of launches that fail after they published.
THEOREM DatasetTrainedOnHistory == Spec => []TrainedOnHistory
  <1>1. IInv => TrainedOnHistory
    BY DEF IInv, DInv
  <1> QED  BY <1>1, BusInvariant, PTL

\* Two partitions whose keys sort like their times have labels of one watermark,
\* for any order of the keys, any jobs that overlap and die in the middle, and
\* any number of windows that move the head meanwhile.
THEOREM DatasetOneWatermarkPerWidth == Spec => []OneWatermarkPerWidth
  <1>1. IInv => OneWatermarkPerWidth
    BY OneWatermark DEF IInv, OneWatermarkPerWidth
  <1> QED  BY <1>1, BusInvariant, PTL

\* The consumed times are as many as the commits.
LEMMA ConsumedCount ==
    ASSUME IInv, NEW l \in Lanes
    PROVE  Cardinality(Consumed(l)) = Len(cursor[l])
  <1> DEFINE n == Len(cursor[l])
             f == [i \in 1 .. n |-> cursor[l][i].time]
  <1>1. n \in Nat /\ DOMAIN cursor[l] = 1 .. n
    BY DEF IInv, CursorsTyped
  <1> HIDE DEF n
  <1>2. f \in [1 .. n -> Consumed(l)]
    BY <1>1 DEF Consumed
  <1>3. \A i, j \in 1 .. n : f[i] = f[j] => i = j
    BY <1>1 DEF IInv, NoneTwice
  <1>4. \A u \in Consumed(l) : \E i \in 1 .. n : f[i] = u
    BY <1>1 DEF Consumed
  <1>5. IsFiniteSet(1 .. n) /\ Cardinality(1 .. n) = n
    BY <1>1, FS_Interval
  <1> HIDE DEF f
  <1>6. f \in Bijection(1 .. n, Consumed(l))
    BY <1>2, <1>3, <1>4 DEF Bijection, Injection, IsInjective, Surjection
  <1>7. Cardinality(1 .. n) = Cardinality(Consumed(l))
    BY <1>5, <1>6, FS_Bijection DEF ExistsBijection
  <1> QED  BY <1>5, <1>7 DEF n

\* A lane trains on each event time once and on the content the dataset lists,
\* for any consumers that share its cursor, crash and poll again.
THEOREM LanesConsumeOnce == Spec => []ConsumedOnce
  <1>1. IInv => ConsumedOnce
    <2> SUFFICES ASSUME IInv, NEW l \in Lanes
                 PROVE  /\ Cardinality(Consumed(l)) = Len(cursor[l])
                        /\ \A ref \in Range(cursor[l]) :
                               /\ ref.time \in DOMAIN listed
                               /\ listed[ref.time] = ref.content
      BY DEF ConsumedOnce
    <2>1. \A ref \in Range(cursor[l]) : \E i \in DOMAIN cursor[l] : ref = cursor[l][i]
      BY DEF Range
    <2> QED  BY <2>1, ConsumedCount DEF IInv, ConsumedListed
  <1> QED  BY <1>1, BusInvariant, PTL

\* Of two partitions whose keys sort like their times every lane trains on the
\* earlier one first: no job ever lists a partition before such a one that a lane
\* has consumed.
THEOREM LanesTrainInOrder == Spec => []LanesFollowTime
  <1>1. IInv => LanesFollowTime
    BY DEF IInv
  <1> QED  BY <1>1, BusInvariant, PTL

-----------------------------------------------------------------------------
(* The model registry.                                                     *)

\* The aliases name registered versions, and before the first promotion nothing
\* was served.
Ends ==
    /\ aliases.active \in Registered \cup {None}
    /\ aliases.candidate \in Registered \cup {None}
    /\ aliases.active = None => EverServed = {} /\ aliases.fallback = None

RegistryIInv == RegistryTypeOK /\ Ends /\ PromotionChain /\ CandidateUndecided /\ ServesPromoted

-----------------------------------------------------------------------------
(* What the records are.                                                   *)

\* Versions are the positions of the records.
LEMMA RecordFacts ==
    ASSUME RegistryTypeOK
    PROVE  /\ Registered = 1..Len(models)
           /\ Registered \subseteq Version
           /\ Len(models) \in Nat
           /\ None \notin Version
           /\ \A v \in Registered : models[v] \in Model
           /\ EverServed \subseteq Registered
  <1>1. models \in Seq(Model) /\ Len(models) <= MaxVersions
    BY DEF RegistryTypeOK
  <1>2. Registered = 1..Len(models) /\ Len(models) \in Nat
        /\ \A v \in 1..Len(models) : models[v] \in Model
    BY <1>1 DEF Registered
  <1> QED  BY <1>1, <1>2, RegistryAssumption DEF Version, None, EverServed

\* A transition touches the status and the verdict of one record.
LEMMA TransitionFacts ==
    ASSUME RegistryTypeOK, NEW v \in Registered, NEW status \in Statuses,
           NEW verdict \in Verdicts,
           models' = [models EXCEPT ![v].status = status, ![v].validation = verdict]
    PROVE  /\ models' \in Seq(Model) /\ Len(models') = Len(models)
           /\ Registered' = Registered
           /\ \A w \in Registered : w # v => models'[w] = models[w]
           /\ models'[v].status = status /\ models'[v].validation = verdict
           /\ models'[v].fallback = models[v].fallback
  <1> DEFINE record == [models[v] EXCEPT !.status = status, !.validation = verdict]
  <1>1. Registered = 1..Len(models) /\ Len(models) \in Nat /\ models[v] \in Model
        /\ models \in Seq(Model)
    BY RecordFacts DEF RegistryTypeOK
  <1>2. models' = [models EXCEPT ![v] = record]
    BY <1>1 DEF Model
  <1>3. record \in Model /\ record.status = status /\ record.validation = verdict
        /\ record.fallback = models[v].fallback
    BY <1>1 DEF Model
  <1> HIDE DEF record
  <1>4. v \in 1..Len(models)
    BY <1>1
  <1>5. [models EXCEPT ![v] = record] \in Seq(Model)
        /\ Len([models EXCEPT ![v] = record]) = Len(models)
        /\ \A w \in 1..Len(models) : [models EXCEPT ![v] = record][w]
                                        = IF w = v THEN record ELSE models[w]
    BY <1>1, <1>3, <1>4, ExceptSeq
  <1> QED  BY <1>1, <1>2, <1>3, <1>4, <1>5 DEF Registered

\* Transition as a whole.
LEMMA TransitionTyped ==
    ASSUME RegistryIInv, NEW v \in Version, NEW allowed, NEW status \in Statuses,
           NEW verdict \in Verdicts, Transition(v, allowed, status, verdict)
    PROVE  RegistryTypeOK'
  <1>1. v \in Registered
    BY DEF Transition
  <1>2. models' \in Seq(Model) /\ Len(models') = Len(models)
    BY <1>1, TransitionFacts DEF RegistryIInv, Transition
  <1>3. aliases' \in Aliases
    BY DEF RegistryIInv, RegistryTypeOK, Transition, Aliases, CandidateAfter
  <1> QED  BY <1>2, <1>3 DEF RegistryIInv, RegistryTypeOK, Transition

\* A registered candidate is the new last record; those before it stay.
LEMMA RegisterFacts ==
    ASSUME RegistryTypeOK, NEW c \in Contents, NEW lane \in ModelLanes,
           RegisterCandidate(c, lane)
    PROVE  /\ models' \in Seq(Model) /\ Len(models') = Len(models) + 1
           /\ Registered' = Registered \cup {Len(models) + 1}
           /\ \A w \in Registered : models'[w] = models[w]
           /\ models'[Len(models) + 1].status = "candidate"
           /\ Len(models) + 1 \in Version /\ Len(models) + 1 \notin Registered
           /\ RegistryTypeOK'
  <1> DEFINE record == Candidate(c, lane)
  <1>1. record \in Model /\ record.status = "candidate"
    BY DEF RegistryTypeOK, Aliases, Candidate, Model, Statuses, Verdicts
  <1>2. models \in Seq(Model) /\ Len(models) \in Nat /\ Len(models) < MaxVersions
        /\ Registered = 1..Len(models)
    BY RecordFacts DEF RegistryTypeOK, RegisterCandidate
  <1>3. models' = Append(models, record)
    BY DEF RegisterCandidate
  <1> HIDE DEF record
  <1>4. models' \in Seq(Model) /\ Len(models') = Len(models) + 1
        /\ (\A w \in 1..Len(models) : models'[w] = models[w])
        /\ models'[Len(models) + 1] = record
    BY <1>1, <1>2, <1>3, AppendProperties
  <1>5. Registered' = 1..(Len(models) + 1)
    BY <1>2, <1>4 DEF Registered
  <1>6. Len(models) + 1 \in Version
    BY <1>2, RegistryAssumption DEF Version
  <1>7. aliases' \in Aliases
    BY <1>6 DEF RegistryTypeOK, Aliases, RegisterCandidate, ModelLanes
  <1>8. RegistryTypeOK'
    BY <1>2, <1>4, <1>7, RegistryAssumption DEF RegistryTypeOK, RegisterCandidate
  <1> QED  BY <1>1, <1>2, <1>4, <1>5, <1>6, <1>8

\* The records after a promotion.
LEMMA PromoteFacts ==
    ASSUME RegistryIInv, NEW v \in Version, Promote(v)
    PROVE  /\ Registered' = Registered /\ v \in Registered
           /\ v # aliases.active /\ v \notin EverServed
           /\ models'[v].status = "active" /\ models'[v].validation = "pass"
           /\ models'[v].fallback = aliases.active
           /\ aliases.active # None =>
                /\ models'[aliases.active].status = "retired"
                /\ models'[aliases.active].validation = models[aliases.active].validation
                /\ models'[aliases.active].fallback = models[aliases.active].fallback
           /\ \A w \in Registered \ {v, aliases.active} : models'[w] = models[w]
           /\ aliases'.active = v /\ aliases'.fallback = aliases.active
           /\ aliases'.candidate = (IF aliases.candidate = v THEN None ELSE aliases.candidate)
           /\ RegistryTypeOK'
  <1>1. /\ Registered = 1..Len(models) /\ Len(models) \in Nat /\ None \notin Version
        /\ Registered \subseteq Version
        /\ \A w \in Registered : models[w] \in Model
    BY RecordFacts DEF RegistryIInv
  <1>2. v \in Registered /\ models[v].status = "shadow" /\ models[v].validation = "pass"
    BY DEF Promote, Promotable
  <1>3. v # aliases.active /\ v \notin EverServed
    BY <1>2 DEF RegistryIInv, PromotionChain, EverServed
  <1>4. models' = Promoted(v)
    BY DEF Promote
  <1>5. DOMAIN models' = Registered /\ Registered' = Registered
    BY <1>4 DEF Promoted, Registered
  <1>6. \A w \in Registered :
            models'[w] = (IF w = v THEN [models[w] EXCEPT !.status = "active",
                                                         !.fallback = aliases.active]
                          ELSE IF w = aliases.active THEN [models[w] EXCEPT !.status = "retired"]
                          ELSE models[w])
    BY <1>4 DEF Promoted
  <1>7. aliases \in Aliases
    BY DEF RegistryIInv, RegistryTypeOK
  <1>8. \A w \in Registered : models'[w] \in Model
    <2> SUFFICES ASSUME NEW w \in Registered
                 PROVE  models'[w] \in Model
      OBVIOUS
    <2>1. models[w] \in Model /\ aliases.active \in Version \cup {None}
      BY <1>1, <1>7 DEF Aliases
    <2>2. [models[w] EXCEPT !.status = "active", !.fallback = aliases.active] \in Model
          /\ [models[w] EXCEPT !.status = "retired"] \in Model
      BY <2>1 DEF Model, Statuses
    <2> QED  BY <1>6, <2>1, <2>2
  <1>9. models' \in Seq(Model) /\ Len(models') = Len(models)
    <2>1. models' = [w \in 1..Len(models) |-> models'[w]]
      BY <1>1, <1>4, <1>5 DEF Promoted
    <2>2. models' \in [1..Len(models) -> Model]
      BY <1>1, <1>8, <2>1
    <2> QED  BY <1>1, <2>2
  <1>10. FallbackAfter = aliases.active
    BY DEF FallbackAfter, RegistryIInv, Ends
  <1>11. aliases' = [aliases EXCEPT !.active = v, !.fallback = aliases.active,
                        !.candidate = IF @ = v THEN None ELSE @]
    BY <1>10 DEF Promote
  <1>12. aliases' \in Aliases /\ aliases'.active = v /\ aliases'.fallback = aliases.active
         /\ aliases'.candidate = (IF aliases.candidate = v THEN None ELSE aliases.candidate)
    BY <1>7, <1>11 DEF Aliases
  <1>13. aliases.active \in Registered \cup {None}
    BY DEF RegistryIInv, Ends
  <1>14. RegistryTypeOK'
    BY <1>9, <1>12 DEF RegistryIInv, RegistryTypeOK, Promote
  <1>15. models'[v].status = "active" /\ models'[v].validation = "pass"
         /\ models'[v].fallback = aliases.active
    BY <1>1, <1>2, <1>6 DEF Model
  <1>16. aliases.active # None =>
                /\ models'[aliases.active].status = "retired"
                /\ models'[aliases.active].validation = models[aliases.active].validation
                /\ models'[aliases.active].fallback = models[aliases.active].fallback
    BY <1>1, <1>3, <1>6, <1>13 DEF Model
  <1> QED  BY <1>2, <1>3, <1>5, <1>6, <1>12, <1>14, <1>15, <1>16

-----------------------------------------------------------------------------
(* The chain of promotions.                                                *)

\* Nothing about the versions that were ever served changes.
ServedKept ==
    /\ aliases'.active = aliases.active /\ aliases'.fallback = aliases.fallback
    /\ Registered \subseteq Registered'
    /\ EverServed' = EverServed
    /\ \A v \in EverServed :
        /\ models'[v].status = models[v].status
        /\ models'[v].validation = models[v].validation
        /\ models'[v].fallback = models[v].fallback

LEMMA ServedKeptChain ==
    ASSUME RegistryIInv, ServedKept, None \notin Registered'
    PROVE  PromotionChain' /\ aliases'.active \in Registered' \cup {None}
           /\ (aliases'.active = None => EverServed' = {} /\ aliases'.fallback = None)
           /\ {v \in Registered' : models'[v].status = "retired"}
                = {v \in Registered : models[v].status = "retired"}
  <1>1. PromotionChain /\ Ends
    BY DEF RegistryIInv
  <1>2. \A v \in Registered' : models'[v].status \in {"active", "retired"} => v \in EverServed
    BY DEF ServedKept, EverServed
  <1>3. \A v \in Registered' : models'[v].status = "active" <=> aliases'.active = v
    <2> SUFFICES ASSUME NEW v \in Registered'
                 PROVE  models'[v].status = "active" <=> aliases'.active = v
      OBVIOUS
    <2>1. models'[v].status = "active" => aliases'.active = v
      BY <1>1, <1>2 DEF ServedKept, PromotionChain, EverServed
    <2>2. aliases'.active = v => models'[v].status = "active"
      <3> HAVE aliases'.active = v
      <3>1. v \in Registered
        BY <1>1 DEF ServedKept, Ends
      <3> QED  BY <1>1, <3>1 DEF ServedKept, PromotionChain, EverServed
    <2> QED  BY <2>1, <2>2
  <1>4. aliases.active # None => aliases.active \in EverServed
    BY <1>1 DEF Ends, PromotionChain, EverServed
  <1>5. PromotionChain'
    BY <1>1, <1>3, <1>4 DEF PromotionChain, ServedKept
  <1>6. {v \in Registered' : models'[v].status = "retired"}
                = {v \in Registered : models[v].status = "retired"}
    BY <1>2 DEF ServedKept, EverServed
  <1> QED  BY <1>1, <1>5, <1>6 DEF Ends, ServedKept

\* A transition between states that are not served keeps what was served.
LEMMA TransitionKeeps ==
    ASSUME RegistryIInv, NEW v \in Version,
           NEW allowed \in SUBSET {"candidate", "shadow"},
           NEW status \in {"shadow", "rejected"}, NEW verdict \in Verdicts,
           Transition(v, allowed, status, verdict)
    PROVE  ServedKept /\ RegistryIInv'
  <1>1. v \in Registered /\ models[v].status \in {"candidate", "shadow"}
    BY DEF Transition
  <1>2. status \in Statuses
    BY DEF Statuses
  <1>3. /\ Registered' = Registered
        /\ \A w \in Registered : w # v => models'[w] = models[w]
        /\ models'[v].status = status
    BY <1>1, <1>2, TransitionFacts DEF RegistryIInv, Transition
  <1>4. RegistryTypeOK'
    BY <1>2, TransitionTyped
  <1>5. EverServed' = EverServed /\ v \notin EverServed
    BY <1>1, <1>3 DEF EverServed
  <1>6. aliases'.active = aliases.active /\ aliases'.fallback = aliases.fallback
        /\ aliases'.candidate = CandidateAfter(v, status)
    BY DEF Transition, RegistryIInv, RegistryTypeOK, Aliases
  <1>7. ServedKept
    BY <1>3, <1>5, <1>6 DEF ServedKept, EverServed
  <1>8. None \notin Registered'
    BY <1>3, RecordFacts DEF RegistryIInv
  <1>9. CandidateUndecided' /\ aliases'.candidate \in Registered' \cup {None}
    BY <1>3, <1>6 DEF RegistryIInv, Ends, CandidateUndecided, CandidateAfter
  <1>10. ServesPromoted'
    BY <1>5 DEF RegistryIInv, ServesPromoted, Transition
  <1> QED  BY <1>4, <1>7, <1>8, <1>9, <1>10, ServedKeptChain DEF RegistryIInv, Ends

\* A promotion adds a link at the end of the chain.
LEMMA PromoteKeeps ==
    ASSUME RegistryIInv, NEW v \in Version, Promote(v)
    PROVE  RegistryIInv'
  <1> DEFINE old == aliases.active
  <1>1. /\ Registered' = Registered /\ v \in Registered
        /\ v # old /\ v \notin EverServed
        /\ models'[v].status = "active" /\ models'[v].validation = "pass"
        /\ models'[v].fallback = old
        /\ old # None => /\ models'[old].status = "retired"
                          /\ models'[old].validation = models[old].validation
                          /\ models'[old].fallback = models[old].fallback
        /\ \A w \in Registered \ {v, old} : models'[w] = models[w]
        /\ aliases'.active = v /\ aliases'.fallback = old
        /\ aliases'.candidate = (IF aliases.candidate = v THEN None ELSE aliases.candidate)
        /\ RegistryTypeOK'
    BY PromoteFacts
  <1>2. PromotionChain /\ Ends /\ None \notin Version /\ Registered \subseteq Version
    BY RecordFacts DEF RegistryIInv
  <1>3. old # None => old \in Registered /\ models[old].status = "active" /\ old \in EverServed
    BY <1>2 DEF Ends, PromotionChain, EverServed
  <1>4. EverServed' = EverServed \cup {v}
    <2>1. \A w \in Registered \ {v} :
            models'[w].status \in {"active", "retired"} <=> models[w].status \in {"active", "retired"}
      <3> SUFFICES ASSUME NEW w \in Registered \ {v}
                   PROVE  models'[w].status \in {"active", "retired"}
                            <=> models[w].status \in {"active", "retired"}
        OBVIOUS
      <3>1. CASE w = old
        <4>1. old # None
          BY <1>2, <3>1
        <4> QED  BY <1>1, <1>3, <3>1, <4>1
      <3>2. CASE w # old
        BY <1>1, <3>2
      <3> QED  BY <3>1, <3>2
    <2> QED  BY <1>1, <2>1 DEF EverServed
  <1>5. \A w \in EverServed : /\ models'[w].validation = models[w].validation
                               /\ models'[w].fallback = models[w].fallback
    <2> SUFFICES ASSUME NEW w \in EverServed
                 PROVE  /\ models'[w].validation = models[w].validation
                        /\ models'[w].fallback = models[w].fallback
      OBVIOUS
    <2>1. w \in Registered /\ w # v /\ w # None
      BY <1>1, <1>2 DEF EverServed
    <2>2. CASE w = old
      BY <1>1, <2>1, <2>2
    <2>3. CASE w # old
      BY <1>1, <2>1, <2>3
    <2> QED  BY <2>2, <2>3
  <1>6. \A w \in Registered : models'[w].status = "active" <=> v = w
    BY <1>1, <1>2, <1>3 DEF PromotionChain
  <1>7. \A w \in EverServed : models[w].fallback # old
    BY <1>2 DEF PromotionChain, Ends
  <1>8. old \in EverServed \cup {None}
    BY <1>3
  <1> HIDE DEF old
  <1>9. PromotionChain'
    <2>1. \A w \in EverServed' :
            /\ models'[w].validation = "pass"
            /\ models'[w].fallback \in EverServed' \cup {None}
            /\ models'[w].fallback # w
            /\ models'[w].fallback # None => models'[w].fallback # v
      BY <1>1, <1>2, <1>4, <1>5, <1>8 DEF PromotionChain
    <2>2. \A w, u \in EverServed' : models'[w].fallback = models'[u].fallback => w = u
      BY <1>1, <1>2, <1>4, <1>5, <1>7 DEF PromotionChain
    <2> QED  BY <1>1, <1>6, <2>1, <2>2 DEF PromotionChain
  <1>10. aliases.candidate # None => aliases.candidate # old
    BY <1>3 DEF RegistryIInv, CandidateUndecided, old
  <1>11. CandidateUndecided' /\ Ends'
    <2>1. aliases'.candidate \in Registered' \cup {None}
      BY <1>1, <1>2 DEF Ends
    <2>2. CandidateUndecided'
      BY <1>1, <1>2, <1>10 DEF CandidateUndecided, RegistryIInv, Ends
    <2> QED  BY <1>1, <1>2, <2>1, <2>2 DEF Ends
  <1>12. ServesPromoted'
    BY <1>4 DEF RegistryIInv, ServesPromoted, Promote
  <1> QED  BY <1>1, <1>9, <1>11, <1>12 DEF RegistryIInv

\* A step of a server touches nothing but what it is doing.
LEMMA ServerKeeps ==
    ASSUME RegistryIInv, UNCHANGED <<models, aliases>>, RegistryTypeOK', ServesPromoted'
    PROVE  RegistryIInv'
  BY DEF RegistryIInv, Ends, PromotionChain, CandidateUndecided, EverServed, Registered

\* A server only gets what the aliases name, and they name what was served.
LEMMA LoadKeeps ==
    ASSUME RegistryIInv, NEW s \in Servers, Load(s)
    PROVE  RegistryIInv'
  <1>1. /\ \A t \in Servers : server[t] \in ServerState
        /\ server \in [Servers -> ServerState] /\ aliases \in Aliases
        /\ \A t \in Servers : server[t].version # None => server[t].version \in EverServed
    BY DEF RegistryIInv, RegistryTypeOK, ServesPromoted
  <1>2. aliases.active # None => aliases.active \in EverServed
    BY DEF RegistryIInv, Ends, PromotionChain, EverServed
  <1>3. aliases.fallback # None => aliases.fallback \in EverServed
    BY <1>2 DEF RegistryIInv, Ends, PromotionChain
  <1>4. UNCHANGED <<models, aliases, files>>
    BY DEF Load, ReadActive, OpenActive, ReadFallback, OpenFallback
  <1>5. PICK pc \in {"idle", "open", "fallback", "openFallback", "serving"},
             v \in EverServed \cup {None} :
          Move(s, pc, v)
    <2>1. CASE ReadActive(s)
      BY <1>2, <2>1 DEF ReadActive
    <2>2. CASE OpenActive(s)
      BY <1>1, <2>2 DEF OpenActive
    <2>3. CASE ReadFallback(s)
      BY <1>3, <2>3 DEF ReadFallback, Fallback
    <2>4. CASE OpenFallback(s)
      BY <1>1, <2>4 DEF OpenFallback
    <2> QED  BY <2>1, <2>2, <2>3, <2>4 DEF Load
  <1>6. EverServed \subseteq Version
    BY RecordFacts DEF RegistryIInv
  <1>7. server' \in [Servers -> ServerState]
    BY <1>1, <1>5, <1>6 DEF Move, ServerState
  <1>8. EverServed' = EverServed
    BY <1>4 DEF EverServed, Registered
  <1>9. ServesPromoted'
    BY <1>1, <1>5, <1>8 DEF ServesPromoted, Move
  <1>10. RegistryTypeOK'
    BY <1>4, <1>7 DEF RegistryIInv, RegistryTypeOK
  <1> QED  BY <1>4, <1>9, <1>10, ServerKeeps

\* Only the directory of artifacts changes.
LEMMA FilesKeep ==
    ASSUME RegistryIInv, UNCHANGED <<models, aliases, server>>,
           files' \in [Contents -> {"none", "good", "bad"}]
    PROVE  RegistryIInv'
  <1>1. RegistryTypeOK'
    BY DEF RegistryIInv, RegistryTypeOK
  <1>2. ServesPromoted'
    BY DEF RegistryIInv, ServesPromoted, EverServed, Registered
  <1> QED  BY <1>1, <1>2, ServerKeeps

LEMMA RegisterKeeps ==
    ASSUME RegistryIInv, NEW c \in Contents, NEW lane \in ModelLanes, RegisterCandidate(c, lane)
    PROVE  ServedKept /\ RegistryIInv'
  <1>1. /\ Registered' = Registered \cup {Len(models) + 1}
        /\ \A w \in Registered : models'[w] = models[w]
        /\ models'[Len(models) + 1].status = "candidate"
        /\ Len(models) + 1 \in Version /\ RegistryTypeOK'
    BY RegisterFacts DEF RegistryIInv
  <1>2. aliases'.active = aliases.active /\ aliases'.fallback = aliases.fallback
        /\ aliases'.candidate = Len(models) + 1
    BY DEF RegisterCandidate, RegistryIInv, RegistryTypeOK, Aliases
  <1>3. EverServed' = EverServed
    BY <1>1 DEF EverServed
  <1>4. ServedKept
    BY <1>1, <1>2, <1>3 DEF ServedKept, EverServed
  <1>5. None \notin Registered'
    BY <1>1, RecordFacts DEF RegistryIInv
  <1>6. CandidateUndecided' /\ aliases'.candidate \in Registered' \cup {None}
    BY <1>1, <1>2 DEF CandidateUndecided
  <1>7. ServesPromoted'
    BY <1>3 DEF RegistryIInv, ServesPromoted, RegisterCandidate
  <1> QED  BY <1>1, <1>4, <1>5, <1>6, <1>7, ServedKeptChain DEF RegistryIInv, Ends

-----------------------------------------------------------------------------
(* The theorems.                                                           *)

LEMMA InitHolds == RegistryInit => RegistryIInv
  <1> SUFFICES ASSUME RegistryInit PROVE RegistryIInv
    OBVIOUS
  <1>1. models = <<>> /\ Registered = {} /\ EverServed = {}
    BY DEF RegistryInit, Registered, EverServed
  <1>2. RegistryTypeOK
    BY RegistryAssumption DEF RegistryInit, RegistryTypeOK, Aliases, ServerState, None
  <1> QED  BY <1>1, <1>2 DEF RegistryInit, RegistryIInv, Ends, PromotionChain, CandidateUndecided, ServesPromoted

\* What a step is: a promotion, or it keeps what was served.
LEMMA StepHolds ==
    ASSUME RegistryIInv, [RegistryNext]_registryVars
    PROVE  RegistryIInv' /\ (ServedKept \/ \E v \in Version : Promote(v))
  <1>0. UNCHANGED <<models, aliases>> => ServedKept
    BY DEF ServedKept, EverServed, Registered
  <1>1. CASE \E c \in Contents, l \in ModelLanes : RegisterCandidate(c, l)
    BY <1>1, RegisterKeeps
  <1>2. CASE \E c \in Contents : RegisterCrashes(c)
    <2>1. UNCHANGED <<models, aliases, server>>
          /\ files' \in [Contents -> {"none", "good", "bad"}]
      BY <1>2 DEF RegisterCrashes, RegistryIInv, RegistryTypeOK
    <2> QED  BY <1>0, <2>1, FilesKeep
  <1>3. CASE \E v \in Version, verdict \in Verdicts : Shadow(v, verdict) \/ ReviewShadow(v, verdict)
    <2>1. PICK v \in Version, verdict \in Verdicts : Shadow(v, verdict) \/ ReviewShadow(v, verdict)
      BY <1>3
    <2>2. StatusFor(verdict) \in {"shadow", "rejected"}
      BY DEF StatusFor
    <2> QED  BY <2>1, <2>2, TransitionKeeps DEF Shadow, ReviewShadow
  <1>4. CASE \E v \in Version : Reject(v)
    <2>1. PICK v \in Version : Reject(v)
      BY <1>4
    <2>2. "reject" \in Verdicts
      BY DEF Verdicts
    <2> QED  BY <2>1, <2>2, TransitionKeeps DEF Reject
  <1>5. CASE \E v \in Version : Promote(v)
    BY <1>5, PromoteKeeps
  <1>6. CASE \E s \in Servers : Load(s)
    <2>1. UNCHANGED <<models, aliases>>
      BY <1>6 DEF Load, ReadActive, OpenActive, ReadFallback, OpenFallback
    <2> QED  BY <1>0, <1>6, <2>1, LoadKeeps
  <1>7. CASE \E c \in Contents : Damage(c) \/ Repair(c)
    <2>1. UNCHANGED <<models, aliases, server>>
          /\ files' \in [Contents -> {"none", "good", "bad"}]
      BY <1>7 DEF Damage, Repair, RegistryIInv, RegistryTypeOK
    <2> QED  BY <1>0, <2>1, FilesKeep
  <1>8. CASE UNCHANGED registryVars
    <2>1. UNCHANGED <<models, aliases, server>>
          /\ files' \in [Contents -> {"none", "good", "bad"}]
      BY <1>8 DEF registryVars, RegistryIInv, RegistryTypeOK
    <2> QED  BY <1>0, <2>1, FilesKeep
  <1> QED  BY <1>1, <1>2, <1>3, <1>4, <1>5, <1>6, <1>7, <1>8 DEF RegistryNext, Update

\* The inductive invariant, over all interleavings of updates, crashes, damaged
\* artifacts and servers.
THEOREM RegistryInvariant == RegistrySpec => []RegistryIInv
  <1>1. RegistryInit => RegistryIInv
    BY InitHolds
  <1>2. RegistryIInv /\ [RegistryNext]_registryVars => RegistryIInv'
    BY StepHolds
  <1> QED  BY <1>1, <1>2, PTL DEF RegistrySpec

\* Every record, alias and server stays of its type.
THEOREM RegistryTyped == RegistrySpec => []RegistryTypeOK
  <1>1. RegistryIInv => RegistryTypeOK
    BY DEF RegistryIInv
  <1> QED  BY <1>1, RegistryInvariant, PTL

\* Promotions form one chain and the candidate is undecided (promote,
\* review_shadow, reject), for any number of versions.
THEOREM RegistryIsConsistent == RegistrySpec => []RegistryConsistent
  <1>1. RegistryIInv => RegistryConsistent
    BY DEF RegistryIInv, RegistryConsistent
  <1> QED  BY <1>1, RegistryInvariant, PTL

\* Servers only get promoted versions (load_active_with_fallback), for any
\* number of servers.
THEOREM RegistryServesPromoted == RegistrySpec => []ServesPromoted
  <1>1. RegistryIInv => ServesPromoted
    BY DEF RegistryIInv
  <1> QED  BY <1>1, RegistryInvariant, PTL

\* A promotion serves the next version, every other step changes nothing that
\* serving can see.
LEMMA StepRefines ==
    ASSUME RegistryIInv, RegistryIInv', [RegistryNext]_registryVars
    PROVE  [Served!Next]_<<aliases.active, aliases.fallback,
                           {v \in Registered : models[v].status = "retired"}>>
  <1> DEFINE past == {v \in Registered : models[v].status = "retired"}
  <1>1. CASE ServedKept
    <2>1. None \notin Registered'
      BY StepHolds, RegistryAssumption DEF RegistryIInv, RegistryTypeOK, Registered, None, Version
    <2>2. past' = past
      BY <1>1, <2>1, ServedKeptChain
    <2> QED  BY <1>1, <2>2 DEF ServedKept
  <1>2. CASE \E v \in Version : Promote(v)
    <2>1. PICK v \in Version : Promote(v)
      BY <1>2
    <2> DEFINE old == aliases.active
    <2>2. /\ Registered' = Registered /\ v \in Registered
          /\ v # old /\ v \notin EverServed
          /\ models'[v].status = "active"
          /\ old # None => models'[old].status = "retired"
          /\ \A w \in Registered \ {v, old} : models'[w] = models[w]
          /\ aliases'.active = v /\ aliases'.fallback = old
      BY <2>1, PromoteFacts
    <2>3. old \in Registered \cup {None} /\ None \notin Registered
          /\ (old # None => models[old].status = "active")
      BY RecordFacts DEF RegistryIInv, Ends, PromotionChain
    <2>4. v \notin past \cup {old}
      BY <2>2 DEF EverServed
    <2>5. past' = past \cup ({old} \ {None})
      <3>1. \A w \in Registered : w \in past' <=> w \in past \/ w = old
        <4> SUFFICES ASSUME NEW w \in Registered
                     PROVE  w \in past' <=> w \in past \/ w = old
          OBVIOUS
        <4>1. CASE w = v
          BY <2>2, <2>4, <4>1
        <4>2. CASE w = old
          BY <2>2, <2>3, <4>2
        <4>3. CASE w # v /\ w # old
          BY <2>2, <4>3
        <4> QED  BY <4>1, <4>2, <4>3
      <3> QED  BY <2>2, <2>3, <3>1
    <2>6. Served!None = None
      BY DEF Served!None, None
    <2> QED  BY <2>2, <2>4, <2>5, <2>6 DEF Served!Next, Served!Serve
  <1> QED  BY <1>1, <1>2, StepHolds

\* The registry implements the sequence of served versions.
THEOREM RegistryImplementsServedVersions == RegistrySpec => ImplementsServedVersions
  <1>1. RegistryInit => Served!Init
    BY DEF RegistryInit, Served!Init, Served!None, None, Registered
  <1>2. RegistryIInv /\ RegistryIInv' /\ [RegistryNext]_registryVars
          => [Served!Next]_<<aliases.active, aliases.fallback,
                             {v \in Registered : models[v].status = "retired"}>>
    BY StepRefines
  <1> QED  BY <1>1, <1>2, RegistryInvariant, PTL
           DEF RegistrySpec, ImplementsServedVersions, Served!Spec
===============================================================================

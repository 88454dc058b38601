--------------------------- MODULE FullFlowDataset ---------------------------
(***************************************************************************)
(* The frozen training dataset (observability/dataset.py) and the job that *)
(* fills it (learning/request_materialization.py).  A job opens the head   *)
(* of main, which fixes the ingest watermark of its labels, later reads    *)
(* the whole manifest of the request stream, and appends one partition     *)
(* after the other in the order of that file.  An append first moves a     *)
(* partition directory into place and then replaces the dataset manifest,  *)
(* both under the dataset lock; readers see what the manifest lists.       *)
(*                                                                         *)
(* Both manifests are written with sorted keys, so their order is that of  *)
(* the decimal strings of the times, where 10 comes before 9.              *)
(*                                                                         *)
(* The factual world is reduced to what a job sees of it: one launch at a  *)
(* time publishes the requests of its window and moves the head after      *)
(* that, or fails in between, and the next launch unpublishes what was     *)
(* left (FeedLaunch has the whole protocol).  Two attempts at a window have  *)
(* requests at the same times but not the same requests: a request         *)
(* partition is the number of attempts that had failed before it.          *)
(***************************************************************************)
EXTENDS Integers, FiniteSets

CONSTANTS Times,           \* event times that have a request partition
          Marks,           \* the last times of windows: watermarks of heads
          Writers,         \* materialization jobs
          KeyOrders,       \* how the keys of the times may sort as strings
          MaxFailures,     \* bound: launches that fail after they published
          MaxCrashes       \* bound: jobs that die

ASSUME DatasetAssumption ==
    /\ Times \subseteq Nat
    /\ Marks \subseteq Nat
    /\ IsFiniteSet(Times)
    /\ \A rank \in KeyOrders :
           /\ rank \in [Times -> Nat]
           /\ \A t, u \in Times : t # u => rank[t] # rank[u]
    /\ MaxFailures \in Nat
    /\ MaxCrashes \in Nat

VARIABLES now,             \* ingest watermark of the head; -1 before requests
          stream,          \* request-stream.json: event time -> requests
          failures,        \* launches that failed after they published
          keyRank,         \* event time -> place of its key; fixed by the digits
          installed,       \* partitions/: event time -> content
          listed,          \* dataset-manifest.json: event time -> content
          writer,          \* state of each job
          crashes

world == <<now, stream, failures, keyRank>>
dataset == <<installed, listed>>
datasetVars == <<world, dataset, writer, crashes>>

Requests == 0..MaxFailures

Manifest == UNION {[T -> Requests] : T \in SUBSET Times}

\* What is compared of a partition: the watermark of its labels and the
\* requests.
Content == [mark : Marks, request : Requests]

IsDataset(f) == DOMAIN f \subseteq Times /\ f \in [DOMAIN f -> Content]

\* "left": the refs that the loop of the job has not appended yet.
JobState == [pc : {"idle", "opened", "append", "list"},
             mark : Marks \cup {-1}, left : Manifest]

DatasetTypeOK ==
    /\ now \in Marks \cup {-1}
    /\ stream \in Manifest
    /\ failures \in Requests
    /\ keyRank \in KeyOrders
    /\ IsDataset(installed)
    /\ IsDataset(listed)
    /\ writer \in [Writers -> JobState]
    /\ crashes \in Nat

-----------------------------------------------------------------------------
Nothing == [t \in {} |-> t]

Stopped == [pc |-> "idle", mark |-> -1, left |-> Nothing]

Upto(m) == {t \in Times : t <= m}

Put(f, t, c) == [x \in DOMAIN f \cup {t} |-> IF x = t THEN c ELSE f[x]]

Only(f, S) == [x \in DOMAIN f \cap S |-> f[x]]

\* Seeded fault: partitions are appended in any order.
IsNextInAnyOrder(w, t) == t \in DOMAIN writer[w].left

\* for ref in refs: the order of the stream manifest.
IsNext(w, t) ==
    /\ t \in DOMAIN writer[w].left
    /\ \A u \in DOMAIN writer[w].left : keyRank[t] <= keyRank[u]

\* Seeded fault: the projection is not compared with the requests.
AdmitsAll(w, t) == t \in DOMAIN writer[w].left

\* FullFlowSnapshot: "full-flow projection predates request trace" when the
\* request is later than the head that was opened.
Admits(w, t) == t <= writer[w].mark

Joined(w, t) == [mark |-> writer[w].mark, request |-> writer[w].left[t]]

\* FileLock(".dataset.lock") is held across the directory and the manifest.
LockFree == \A w \in Writers : writer[w].pc # "list"

\* verify_full_flow_dataset: every listed partition exists as recorded.
Verifies == \A t \in DOMAIN listed : t \in DOMAIN installed
                                     /\ installed[t] = listed[t]

Stop(w) == writer' = [writer EXCEPT ![w] = Stopped]

Returned(w, t) ==
    writer' = [writer EXCEPT ![w].pc = "append",
                             ![w].left = Only(@, Times \ {t})]

-----------------------------------------------------------------------------
(* The launches.                                                           *)

\* commit_staged: the requests of a window after the head become visible.
Publish ==
    /\ DOMAIN stream = Upto(now)
    /\ \E m \in Marks :
           /\ m > now /\ Upto(m) # Upto(now)
           /\ stream' = [t \in Upto(m) |-> IF t \in DOMAIN stream THEN stream[t]
                                          ELSE failures]
    /\ UNCHANGED <<now, failures, keyRank, dataset, writer, crashes>>

\* advance: the head moves past what is published, or over a window without
\* requests.
MoveHead ==
    /\ \E m \in Marks : m > now /\ DOMAIN stream = Upto(m) /\ now' = m
    /\ UNCHANGED <<stream, failures, keyRank, dataset, writer, crashes>>

\* The launch failed; the next one reconciles the stream with the head.
Withdraw ==
    /\ DOMAIN stream # Upto(now)
    /\ failures < MaxFailures
    /\ failures' = failures + 1
    /\ stream' = Only(stream, Upto(now))
    /\ UNCHANGED <<now, keyRank, dataset, writer, crashes>>

-----------------------------------------------------------------------------
(* The jobs.                                                               *)

\* branches.get("main") and store.restore, which fix event_watermark.
Begin(w) ==
    /\ writer[w].pc = "idle"
    /\ writer' = [writer EXCEPT ![w].pc = "opened", ![w].mark = now]
    /\ UNCHANGED <<world, dataset, crashes>>

\* stream.refs(training=True): all that is published by now.
ReadStream(w) ==
    /\ writer[w].pc = "opened"
    /\ IF DOMAIN stream = {} THEN Stop(w)
       ELSE writer' = [writer EXCEPT ![w].pc = "append", ![w].left = stream]
    /\ UNCHANGED <<world, dataset, crashes>>

\* A request later than the head ends the job.
Predates(w, t) ==
    /\ writer[w].pc = "append"
    /\ IsNext(w, t)
    /\ ~Admits(w, t)
    /\ Stop(w)
    /\ UNCHANGED <<world, dataset, crashes>>

\* os.replace(staging, target) for a key without a directory.
Install(w, t) ==
    /\ writer[w].pc = "append"
    /\ IsNext(w, t) /\ Admits(w, t)
    /\ LockFree
    /\ Verifies
    /\ t \notin DOMAIN installed
    /\ installed' = Put(installed, t, Joined(w, t))
    /\ writer' = [writer EXCEPT ![w].pc = "list"]
    /\ UNCHANGED <<world, listed, crashes>>

\* Seeded fault: the manifest records the watermark of the head as it is now.
ListCurrentMark(w, t) ==
    /\ writer[w].pc = "list"
    /\ IsNext(w, t)
    /\ listed' = Put(listed, t, [Joined(w, t) EXCEPT !.mark = now])
    /\ Returned(w, t)
    /\ UNCHANGED <<world, installed, crashes>>

\* replace_json_atomic(manifest_path, dataset); the append returns "written".
List(w, t) ==
    /\ writer[w].pc = "list"
    /\ IsNext(w, t)
    /\ listed' = Put(listed, t, Joined(w, t))
    /\ Returned(w, t)
    /\ UNCHANGED <<world, installed, crashes>>

\* The directory exists with the same content; the append returns "resumed".
Resume(w, t) ==
    /\ writer[w].pc = "append"
    /\ IsNext(w, t) /\ Admits(w, t)
    /\ LockFree
    /\ Verifies
    /\ t \in DOMAIN installed
    /\ installed[t] = Joined(w, t)
    /\ Returned(w, t)
    /\ UNCHANGED <<world, dataset, crashes>>

\* "partition key already has different content" ends the job.  A partition also
\* records the hash of the stream manifest at the moment it was prepared, so
\* this may happen although labels and requests agree.
Conflict(w, t) ==
    /\ writer[w].pc = "append"
    /\ IsNext(w, t) /\ Admits(w, t)
    /\ LockFree
    /\ t \in DOMAIN installed
    /\ Stop(w)
    /\ UNCHANGED <<world, dataset, crashes>>

Finish(w) ==
    /\ writer[w].pc = "append"
    /\ DOMAIN writer[w].left = {}
    /\ Stop(w)
    /\ UNCHANGED <<world, dataset, crashes>>

\* The job dies; the system releases its lock.
JobCrash(w) ==
    /\ writer[w].pc # "idle"
    /\ crashes < MaxCrashes
    /\ crashes' = crashes + 1
    /\ Stop(w)
    /\ UNCHANGED <<world, dataset>>

DatasetInit ==
    /\ now = -1
    /\ stream = Nothing
    /\ failures = 0
    /\ keyRank \in KeyOrders
    /\ installed = Nothing
    /\ listed = Nothing
    /\ writer = [w \in Writers |-> Stopped]
    /\ crashes = 0

JobStep(w) == \/ Begin(w) \/ ReadStream(w)
              \/ \E t \in Times : \/ Predates(w, t)
                                  \/ Install(w, t) \/ List(w, t)
                                  \/ Resume(w, t) \/ Conflict(w, t)
              \/ Finish(w)

DatasetNext == \/ Publish \/ MoveHead \/ Withdraw
               \/ \E w \in Writers : JobStep(w) \/ JobCrash(w)

(***************************************************************************)
(* Properties.                                                             *)
(***************************************************************************)

\* verify_full_flow_dataset accepts the dataset in every state, also when a
\* job died between the two writes of an append.
AlwaysVerifies == Verifies

\* What a job trains on is factual history (README.md:30): although it reads the
\* whole stream long after it opened its head, and the stream may hold the
\* requests of a failed attempt by then, no partition of the dataset has other
\* requests than those of the window that became part of the history.
TrainedOnHistory ==
    \A t \in DOMAIN installed :
        t <= now /\ t \in DOMAIN stream /\ installed[t].request = stream[t]

\* Two times whose keys sort as they do; any two with equally many digits.
KeysFollow(t, u) == t < u /\ keyRank[t] < keyRank[u]

\* Labels joined at two watermarks meet in one dataset only across a change of
\* digits: where the keys follow the times, a job started after the head moved
\* is refused before it adds anything to what an earlier job left, however the
\* jobs overlap and wherever the earlier one died
\* ("partition key already has different content", dataset.py:271).
OneWatermarkPerWidth ==
    \A t, u \in DOMAIN installed :
        KeysFollow(t, u) => installed[t].mark = installed[u].mark
=============================================================================

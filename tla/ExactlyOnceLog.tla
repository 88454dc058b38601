--------------------------- MODULE ExactlyOnceLog ---------------------------
(***************************************************************************)
(* What ObservableEventLog promises: an append-only stream of batches in   *)
(* ingest order in which no event occurs twice, no event is older than the *)
(* allowed lateness when it arrives, and the last published checkpoint of  *)
(* the stream can always be recovered.  The whole history is remembered;   *)
(* EventLog implements this with a bounded memory of recent event ids.     *)
(***************************************************************************)
EXTENDS Integers, Sequences

CONSTANTS Ids,            \* event identities
          EventTime,      \* the time at which an event occurred
          AllowedLateness,
          MaxTime         \* bound: largest ingest time

VARIABLES delivered,      \* the stream seen by the running process
          durable         \* the stream of the last published checkpoint

vars == <<delivered, durable>>

\* The ingest time of the newest batch, -1 before the first.
Newest(s) == IF s = <<>> THEN -1 ELSE s[Len(s)].ingest

IdsOf(s) == UNION {s[i].ids : i \in DOMAIN s}

Init == delivered = <<>> /\ durable = <<>>

Deliver(ids, t) ==
    /\ ids \cap IdsOf(delivered) = {}
    /\ t >= Newest(delivered)
    /\ \A e \in ids : /\ EventTime[e] <= t
                      /\ EventTime[e] >= Newest(delivered) - AllowedLateness
    /\ delivered' = Append(delivered, [ids |-> ids, ingest |-> t])
    /\ UNCHANGED durable

Publish == durable' = delivered /\ UNCHANGED delivered

Lose == delivered' = <<>> /\ UNCHANGED durable

Recover == delivered' = durable /\ UNCHANGED durable

Next == \/ \E ids \in SUBSET Ids, t \in 0..MaxTime : Deliver(ids, t)
        \/ Publish
        \/ Lose
        \/ Recover

Spec == Init /\ [][Next]_vars
=============================================================================

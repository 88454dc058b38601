----------------------------- MODULE ModelRegistry -----------------------------
(***************************************************************************)
(* The persistent model registry (learning/registry.py).  Trainers         *)
(* register candidates, reviews move them to shadow and decide, promotion  *)
(* swaps the active and the fallback alias, and servers load the active    *)
(* version or, when that fails, the fallback.                              *)
(*                                                                         *)
(* Every update reads and replaces registry.json under one file lock; the  *)
(* artifact is in place before, so a crash leaves an artifact without a    *)
(* record.  Loading takes no lock: the alias, the file and the alias of    *)
(* the fallback are read one after the other.                              *)
(*                                                                         *)
(* An artifact file is named after its content, so a content is its file.  *)
(* "bad" is a file whose bytes are not what its name says.                 *)
(***************************************************************************)
EXTENDS Integers, Sequences, FiniteSets

CONSTANTS Contents,              \* what training can produce
          Servers,
          MaxVersions            \* bound: registered versions

ASSUME RegistryAssumption == MaxVersions \in Nat

None == -1
Version == 1..MaxVersions

ModelLanes == {"active", "candidate"}
Statuses == {"candidate", "shadow", "active", "retired", "rejected"}
Verdicts == {"pass", "hold", "reject"}

Model == [content : Contents, lane : ModelLanes, status : Statuses,
          validation : Verdicts \cup {"pending"},
          parent : Version \cup {None}, fallback : Version \cup {None}]

Aliases == [active : Version \cup {None}, fallback : Version \cup {None},
            candidate : Version \cup {None}, latest : [ModelLanes -> Version \cup {None}]]

VARIABLES models,                \* registry.json: the records by version
          aliases,               \* registry.json: the aliases
          files,                 \* artifacts/: content -> its file
          server                 \* what each server is doing

registryVars == <<models, aliases, files, server>>

ServerState == [pc : {"idle", "open", "fallback", "openFallback", "serving"},
                version : Version \cup {None}]

RegistryTypeOK ==
    /\ models \in Seq(Model)
    /\ Len(models) <= MaxVersions
    /\ aliases \in Aliases
    /\ files \in [Contents -> {"none", "good", "bad"}]
    /\ server \in [Servers -> ServerState]

Registered == DOMAIN models

RegistryInit ==
    /\ models = <<>>
    /\ aliases = [active |-> None, fallback |-> None, candidate |-> None,
                  latest |-> [l \in ModelLanes |-> None]]
    /\ files = [c \in Contents |-> "none"]
    /\ server = [s \in Servers |-> [pc |-> "idle", version |-> None]]

-----------------------------------------------------------------------------
(* Updates under the lock.                                                 *)

\* Content addressed: a file that is there and differs is not replaced.
CanStore(c) == files[c] # "bad"

Candidate(c, lane) ==
    [content |-> c, lane |-> lane, status |-> "candidate",
     validation |-> "pending",
     parent |-> aliases.active, fallback |-> aliases.fallback]

RegisterCandidate(c, lane) ==
    /\ Len(models) < MaxVersions
    /\ CanStore(c)
    /\ files' = [files EXCEPT ![c] = "good"]
    /\ models' = Append(models, Candidate(c, lane))
    /\ aliases' = [aliases EXCEPT !.latest[lane] = Len(models) + 1,
                                  !.candidate = Len(models) + 1]
    /\ UNCHANGED server

\* The process dies between the artifact and registry.json.
RegisterCrashes(c) ==
    /\ CanStore(c)
    /\ files' = [files EXCEPT ![c] = "good"]
    /\ UNCHANGED <<models, aliases, server>>

\* The alias goes with a rejected candidate, and only with that one.
CandidateAfter(v, status) ==
    IF status = "rejected" /\ aliases.candidate = v THEN None ELSE aliases.candidate

Transition(v, allowed, status, verdict) ==
    /\ v \in Registered
    /\ models[v].status \in allowed
    /\ models' = [models EXCEPT ![v].status = status, ![v].validation = verdict]
    /\ aliases' = [aliases EXCEPT !.candidate = CandidateAfter(v, status)]
    /\ UNCHANGED <<files, server>>

StatusFor(verdict) == IF verdict = "reject" THEN "rejected" ELSE "shadow"

Shadow(v, verdict) == Transition(v, {"candidate"}, StatusFor(verdict), verdict)

\* Seeded fault: any version can be reviewed again.
ReviewAny(v, verdict) ==
    Transition(v, Statuses \ {"candidate"}, StatusFor(verdict), verdict)

ReviewShadow(v, verdict) == Transition(v, {"shadow"}, StatusFor(verdict), verdict)

Reject(v) == Transition(v, {"candidate", "shadow"}, "rejected", "reject")

Promotable(v) == models[v].status = "shadow" /\ models[v].validation = "pass"

\* Seeded fault: the fallback is not moved on.
FallbackKept == IF aliases.fallback = None THEN aliases.active ELSE aliases.fallback

FallbackAfter == IF aliases.active = None THEN aliases.fallback ELSE aliases.active

Promoted(v) ==
    [w \in Registered |->
        IF w = v THEN [models[w] EXCEPT !.status = "active",
                                        !.fallback = aliases.active]
        ELSE IF w = aliases.active THEN [models[w] EXCEPT !.status = "retired"]
        ELSE models[w]]

\* The version active now need not be the parent of the promoted one.
Promote(v) ==
    /\ v \in Registered
    /\ Promotable(v)
    /\ models' = Promoted(v)
    /\ aliases' = [aliases EXCEPT
                    !.active = v,
                    !.fallback = FallbackAfter,
                    !.candidate = IF @ = v THEN None ELSE @]
    /\ UNCHANGED <<files, server>>

-----------------------------------------------------------------------------
(* load_active_with_fallback.                                              *)

Move(s, pc, v) == server' = [server EXCEPT ![s] = [pc |-> pc, version |-> v]]

ReadActive(s) ==
    /\ server[s].pc \in {"idle", "serving"}
    /\ IF aliases.active = None THEN Move(s, "fallback", None)
       ELSE Move(s, "open", aliases.active)
    /\ UNCHANGED <<models, aliases, files>>

Loads(v) == files[models[v].content] = "good"

OpenActive(s) ==
    /\ server[s].pc = "open"
    /\ IF Loads(server[s].version) THEN Move(s, "serving", server[s].version)
       ELSE Move(s, "fallback", None)
    /\ UNCHANGED <<models, aliases, files>>

\* Seeded fault: without a fallback the newest candidate will do.
FallbackOrCandidate == IF aliases.fallback = None THEN aliases.candidate ELSE aliases.fallback

Fallback == aliases.fallback

\* The alias may have moved since the active version failed.
ReadFallback(s) ==
    /\ server[s].pc = "fallback"
    /\ IF Fallback = None THEN Move(s, "idle", None)
       ELSE Move(s, "openFallback", Fallback)
    /\ UNCHANGED <<models, aliases, files>>

OpenFallback(s) ==
    /\ server[s].pc = "openFallback"
    /\ IF Loads(server[s].version) THEN Move(s, "serving", server[s].version)
       ELSE Move(s, "idle", None)
    /\ UNCHANGED <<models, aliases, files>>

\* The environment damages or loses an artifact, or puts the right one back.
Damage(c) ==
    /\ files[c] = "good"
    /\ \E f \in {"none", "bad"} : files' = [files EXCEPT ![c] = f]
    /\ UNCHANGED <<models, aliases, server>>

Repair(c) ==
    /\ files[c] = "bad"
    /\ files' = [files EXCEPT ![c] = "good"]
    /\ UNCHANGED <<models, aliases, server>>

-----------------------------------------------------------------------------
Update ==
    \/ \E c \in Contents, l \in ModelLanes : RegisterCandidate(c, l)
    \/ \E c \in Contents : RegisterCrashes(c)
    \/ \E v \in Version, verdict \in Verdicts :
            Shadow(v, verdict) \/ ReviewShadow(v, verdict)
    \/ \E v \in Version : Promote(v) \/ Reject(v)

Load(s) == ReadActive(s) \/ OpenActive(s) \/ ReadFallback(s) \/ OpenFallback(s)

RegistryNext ==
    \/ Update
    \/ \E s \in Servers : Load(s)
    \/ \E c \in Contents : Damage(c) \/ Repair(c)

RegistrySpec == RegistryInit /\ [][RegistryNext]_registryVars

-----------------------------------------------------------------------------
(* Properties.                                                             *)

EverServed == {v \in Registered : models[v].status \in {"active", "retired"}}

\* Promotions form a chain that nothing forks or shortcuts: the alias active
\* and the status active say the same, the fallback recorded with a promoted
\* version is the one it replaced, no version was replaced twice, and the alias
\* fallback is the end of the last link (promote, review_shadow, reject, and
\* register_candidate while versions are being promoted).
PromotionChain ==
    /\ \A v \in Registered : models[v].status = "active" <=> aliases.active = v
    /\ \A v \in EverServed :
        /\ models[v].validation = "pass"
        /\ models[v].fallback \in EverServed \cup {None}
        /\ models[v].fallback # v
        /\ models[v].fallback # None => models[v].fallback # aliases.active
    /\ \A v, w \in EverServed : models[v].fallback = models[w].fallback => v = w
    /\ aliases.active # None => aliases.fallback = models[aliases.active].fallback

\* The alias candidate never points at a version that was decided.
CandidateUndecided ==
    aliases.candidate # None =>
        models[aliases.candidate].status \in {"candidate", "shadow"}

RegistryConsistent == PromotionChain /\ CandidateUndecided

\* Whatever is damaged and whatever is promoted between the reads of a load, a
\* server ends up with a version that passed its review and was promoted
\* (load_active_with_fallback).
ServesPromoted ==
    \A s \in Servers : server[s].version # None => server[s].version \in EverServed

\* The registry implements the abstract one: retired versions never come back.
Served == INSTANCE ServedVersions WITH
    current <- aliases.active,
    previous <- aliases.fallback,
    past <- {v \in Registered : models[v].status = "retired"}

ImplementsServedVersions == Served!Spec
=============================================================================

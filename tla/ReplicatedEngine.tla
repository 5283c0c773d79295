-------------------------- MODULE ReplicatedEngine --------------------------
(***************************************************************************)
(* Data parallelism: ReplicatedEngine (python/cudaforge/replicated.py)     *)
(* routes each submit to the replica with the shallowest queue and shuts   *)
(* the replicas down one after the other.                                  *)
(*                                                                         *)
(* A replica is a ServingEngine, of which only the promise is used:        *)
(* ContinuousEngine is shown to implement it, and SettledOnce and          *)
(* NeverLeftPending say the same of InferenceEngine.  Queue depths are     *)
(* read one replica at a time, and used after.                             *)
(***************************************************************************)
EXTENDS Integers, Sequences, FiniteSets, FiniteSetsExt

CONSTANTS
    Callers,      \* threads that call submit, with one request each
    ReplicaCount  \* len(replicas)

ASSUME FrontAssumption == IsFiniteSet(Callers) /\ ReplicaCount \in Nat \ {0}

Replicas == 1 .. ReplicaCount

VARIABLES
    frontClosed, \* _closed
    rotation,    \* what next(_rotation) returns
    routed,      \* _routed
    caller,      \* where each caller is in submit
    seen,        \* the depths each caller has read so far
    at,          \* the replica each caller chose, 0 before that
    reply,       \* the future of each request, as its replica left it
    phase,       \* of each replica: open, closing, down, or broken by an error
    front,       \* shutdown: where it is
    stopping,    \* the replica shutdown is at
    capacity,    \* queue_capacity of every replica
    tied         \* history: all depths read by every _choose so far were equal

frontVars == <<frontClosed, rotation, routed, caller, seen, at, reply, phase, front, stopping,
               capacity, tied>>

FrontInit(capacities) ==
    /\ capacity \in capacities
    /\ frontClosed = FALSE /\ rotation = 1 /\ routed = [i \in Replicas |-> 0]
    /\ caller = [r \in Callers |-> "idle"] /\ seen = [r \in Callers |-> <<>>]
    /\ at = [r \in Callers |-> 0] /\ reply = [r \in Callers |-> "none"]
    /\ phase = [i \in Replicas |-> "open"]
    /\ front = "up" /\ stopping = 1 /\ tied = TRUE

\* Requests accepted by a replica that nobody has dequeued.
Depth(i) == Cardinality({r \in Callers : at[r] = i /\ reply[r] = "queued"})

\* queue_depth of the front: the sum over its replicas.
QueueDepth == Cardinality({r \in Callers : reply[r] = "queued"})

Unsettled == {"queued", "running"}
GotoCaller(r, pc) == caller' = [caller EXCEPT ![r] = pc]

-----------------------------------------------------------------------------
(* submit and _choose.                                                     *)

FrontCheckClosed(r) ==
    /\ caller[r] = "idle"
    /\ GotoCaller(r, IF frontClosed THEN "raised" ELSE "choose")
    /\ UNCHANGED <<frontClosed, rotation, routed, seen, at, reply, phase, front, stopping,
                   capacity, tied>>

ReadDepth(r) ==
    /\ caller[r] = "choose" /\ Len(seen[r]) < ReplicaCount
    /\ seen' = [seen EXCEPT ![r] = Append(@, Depth(Len(@) + 1))]
    /\ UNCHANGED <<frontClosed, rotation, routed, caller, at, reply, phase, front, stopping,
                   capacity, tied>>

ShallowestOf(depths) == {i \in DOMAIN depths : \A j \in DOMAIN depths : depths[i] <= depths[j]}

\* The k-th value next(_rotation) returns from now on, and what follows i.
Turn(k) == ((rotation - 1 + k) % ReplicaCount) + 1
After(i) == (i % ReplicaCount) + 1

\* Mutation: plain min.
RouteFirst(candidates) == [index |-> Min(candidates), rotation |-> rotation]

\* A single candidate, or the first one in rotation; the rotation moves past it.
Route(candidates) ==
    IF Cardinality(candidates) = 1
      THEN [index |-> CHOOSE i \in candidates : TRUE, rotation |-> rotation]
      ELSE LET k == Min({j \in 0 .. ReplicaCount - 1 : Turn(j) \in candidates})
           IN  [index |-> Turn(k), rotation |-> After(Turn(k))]

Choose(r) ==
    /\ caller[r] = "choose" /\ Len(seen[r]) = ReplicaCount
    /\ LET candidates == ShallowestOf(seen[r])
           route == Route(candidates)
       IN  /\ at' = [at EXCEPT ![r] = route.index]
           /\ rotation' = route.rotation
           /\ tied' = (tied /\ candidates = Replicas)
    /\ seen' = [seen EXCEPT ![r] = <<>>]
    /\ GotoCaller(r, "count")
    /\ UNCHANGED <<frontClosed, routed, reply, phase, front, stopping, capacity>>

CountRouted(r) ==
    /\ caller[r] = "count"
    /\ routed' = [routed EXCEPT ![at[r]] = @ + 1]
    /\ GotoCaller(r, "submit")
    /\ UNCHANGED <<frontClosed, rotation, seen, at, reply, phase, front, stopping, capacity, tied>>

FrontSubmit(r) == FrontCheckClosed(r) \/ ReadDepth(r) \/ Choose(r) \/ CountRouted(r)

-----------------------------------------------------------------------------
(* A replica, as far as the ServingEngine protocol describes it.           *)

\* Its submit may still accept while it is closing.
ReplicaAccepts(r) ==
    /\ caller[r] = "submit"
    /\ phase[at[r]] \in {"open", "closing"} /\ Depth(at[r]) < capacity
    /\ reply' = [reply EXCEPT ![r] = "queued"]
    /\ GotoCaller(r, "accepted")
    /\ UNCHANGED <<frontClosed, rotation, routed, seen, at, phase, front, stopping, capacity, tied>>

\* EngineClosedError: closed, or full and not to wait (block_when_full).
ReplicaRefuses(r, waits) ==
    /\ caller[r] = "submit"
    /\ phase[at[r]] # "open" \/ (~waits /\ Depth(at[r]) >= capacity)
    /\ GotoCaller(r, "raised")
    /\ UNCHANGED <<frontClosed, rotation, routed, seen, at, reply, phase, front, stopping,
                   capacity, tied>>

SetReply(r, how) ==
    /\ reply' = [reply EXCEPT ![r] = how]
    /\ UNCHANGED <<frontClosed, rotation, routed, caller, seen, at, phase, front, stopping,
                   capacity, tied>>

ReplicaDequeues(r) == reply[r] = "queued" /\ phase[at[r]] # "broken" /\ SetReply(r, "running")

ReplicaAnswers(r, hows) ==
    /\ reply[r] = "running" /\ phase[at[r]] # "broken"
    /\ \E how \in hows : SetReply(r, how)

\* What a shutdown finds unsettled it fails.
ReplicaAbandons(r) == reply[r] \in Unsettled /\ phase[at[r]] = "closing" /\ SetReply(r, "abandoned")

Replica(r, waits, hows) ==
    \/ ReplicaAccepts(r) \/ ReplicaRefuses(r, waits)
    \/ ReplicaDequeues(r) \/ ReplicaAnswers(r, hows) \/ ReplicaAbandons(r)

-----------------------------------------------------------------------------
(* shutdown.                                                               *)

CallFrontShutdown ==
    /\ front = "up"
    /\ front' = "closing"
    /\ UNCHANGED <<frontClosed, rotation, routed, caller, seen, at, reply, phase, stopping, capacity,
                   tied>>

CloseFront ==
    /\ front = "closing" /\ ~frontClosed
    /\ frontClosed' = TRUE
    /\ UNCHANGED <<rotation, routed, caller, seen, at, reply, phase, front, stopping, capacity, tied>>

\* replica.shutdown is called on the next replica ...
ShutReplica ==
    /\ front = "closing" /\ frontClosed /\ stopping <= ReplicaCount /\ phase[stopping] = "open"
    /\ phase' = [phase EXCEPT ![stopping] = "closing"]
    /\ UNCHANGED <<frontClosed, rotation, routed, caller, seen, at, reply, front, stopping,
                   capacity, tied>>

\* ... and returns with nothing pending, or raises.
ReplicaDown(how) ==
    /\ phase[stopping] = "closing"
    /\ how = "down" => \A r \in Callers : at[r] = stopping => reply[r] \notin Unsettled
    /\ phase' = [phase EXCEPT ![stopping] = how]

\* Mutation: the first error ends the loop.
NextReplicaUntilError ==
    /\ stopping <= ReplicaCount
    /\ \E how \in {"down", "broken"} :
         ReplicaDown(how) /\ stopping' = IF how = "down" THEN stopping + 1 ELSE ReplicaCount + 1
    /\ UNCHANGED <<frontClosed, rotation, routed, caller, seen, at, reply, front, capacity, tied>>

\* Every replica is shut down even if one raises ...
NextReplica ==
    /\ stopping <= ReplicaCount
    /\ \E how \in {"down", "broken"} : ReplicaDown(how) /\ stopping' = stopping + 1
    /\ UNCHANGED <<frontClosed, rotation, routed, caller, seen, at, reply, front, capacity, tied>>

\* ... and the first error is raised at the end.
FrontReturns ==
    /\ front = "closing" /\ stopping > ReplicaCount
    /\ front' = IF \E i \in Replicas : phase[i] = "broken" THEN "raised" ELSE "returned"
    /\ UNCHANGED <<frontClosed, rotation, routed, caller, seen, at, reply, phase, stopping,
                   capacity, tied>>

FrontShutdown == CloseFront \/ ShutReplica \/ NextReplica \/ FrontReturns

\* Threads that call generate or generate_many, and one that calls shutdown at any time.
FrontNext == \/ \E r \in Callers : FrontSubmit(r) \/ Replica(r, TRUE, {"answer"})
             \/ CallFrontShutdown \/ FrontShutdown

FrontSpec(capacities) == FrontInit(capacities) /\ [][FrontNext]_frontVars

-----------------------------------------------------------------------------
(* Properties.                                                             *)

\* What a caller sees of the front, in the terms of the protocol: its call, its future and
\* how far shutdown is.  What a replica that raised has not settled is owed, not pending.
FrontCall == [r \in Callers |-> IF caller[r] \in {"idle", "raised", "accepted"} THEN caller[r]
                                ELSE "inside"]
FrontFuture == [r \in Callers |->
    IF reply[r] = "abandoned" THEN "abandoned"
    ELSE IF reply[r] \notin {"none"} \cup Unsettled THEN "answered"
    ELSE IF at[r] # 0 /\ phase[at[r]] = "broken" THEN "owed" ELSE "pending"]
FrontPhase == IF ~frontClosed THEN "open"
              ELSE IF front \in {"returned", "raised"} THEN "down" ELSE "closing"

FrontServing == INSTANCE ServingEngine WITH
    Requests <- Callers, call <- FrontCall, future <- FrontFuture, phase <- FrontPhase

\* Routing and the order of shutdown keep the promise every replica keeps: the front as a
\* whole is a ServingEngine.  A submit that has passed the _closed test finds its replica
\* shut down when it gets there, and no future is pending when shutdown ends, with an error
\* or without, unless the replica that holds it is the one that raised.
FrontKeepsPromise == FrontServing!Spec

\* The rotation spreads the load: as long as every queue that was looked at was as deep as
\* the others (the common case at low load), the replicas are chosen in turn, whatever the
\* interleaving of the callers between their reads, the rotation and the counters.
RotationSpreads ==
    tied => \A i, j \in Replicas : Cardinality({r \in Callers : at[r] = i})
                                     <= Cardinality({r \in Callers : at[r] = j}) + 1

=============================================================================

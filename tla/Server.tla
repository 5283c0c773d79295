------------------------------- MODULE Server -------------------------------
(***************************************************************************)
(* The HTTP server (inference/server.py): the lifespan handler builds the  *)
(* engine, the generate handlers submit to it and wait for their futures,  *)
(* and at the end the lifespan handler shuts the engine down.  Each caller *)
(* of ReplicatedEngine is one /generate handler: build_engine makes a      *)
(* single engine, which is a front of one replica, and the server takes a  *)
(* replicated one in the same way.  Either engine class may be built; only *)
(* the continuous one serves on a thread that an error of the runner ends, *)
(* after which it accepts and can be shut down, and answers nobody.        *)
(*                                                                         *)
(* Everything runs on one event loop.  Neither submit nor shutdown awaits, *)
(* so that no other handler moves while one of them runs; only the wait    *)
(* for a future is left to a thread.                                       *)
(***************************************************************************)
EXTENDS ReplicatedEngine

CONSTANTS
    Handlers,   \* the callers that are handlers
    Capacities  \* the queue_capacity the server may be configured with: see Configuration

ASSUME ServerAssumption == Handlers \subseteq Callers /\ Capacities \subseteq Nat \ {0}

VARIABLES
    lifespan,   \* of the application
    scheduling, \* the class of the engine: static or continuous
    dead,       \* the replicas whose scheduler thread has ended
    http        \* each handler: waiting to arrive, inside, or its status code

serverVars == <<frontVars, lifespan, scheduling, dead, http>>

ServerInit(capacities) ==
    /\ FrontInit(capacities)
    /\ lifespan = "starting" /\ scheduling = "none" /\ dead = {}
    /\ http = [r \in Handlers |-> "none"]

Respond(r, status) == http' = [http EXCEPT ![r] = status]

\* The event loop is not inside a submit, other than r's, nor inside shutdown.
Submitting(r) == caller[r] \in {"choose", "count", "submit"}
LoopFree(r) == front # "closing" /\ \A o \in Callers \ {r} : ~Submitting(o)

-----------------------------------------------------------------------------
(* The lifespan.                                                           *)

\* _engine = build_engine().
Startup ==
    /\ lifespan = "starting"
    /\ capacity' \in Capacities /\ scheduling' \in {"static", "continuous"}
    /\ lifespan' = "serving"
    /\ UNCHANGED <<frontClosed, rotation, routed, caller, seen, at, reply, phase, front, stopping,
                   tied, dead, http>>

\* The application ends: engine.shutdown is called.
BeginEnd ==
    /\ lifespan = "serving" /\ \A r \in Callers : ~Submitting(r)
    /\ lifespan' = "ending"
    /\ CallFrontShutdown
    /\ UNCHANGED <<scheduling, dead, http>>

\* _engine = None, unless shutdown raised.
End ==
    /\ lifespan = "ending" /\ front \in {"returned", "raised"}
    /\ lifespan' = IF front = "returned" THEN "ended" ELSE "failed"
    /\ UNCHANGED <<frontVars, scheduling, dead, http>>

EngineSet == lifespan \notin {"starting", "ended"}

-----------------------------------------------------------------------------
(* The endpoints; a handler serves one request, POST /generate or a GET.   *)

\* GenerateRequest is validated before the handler runs, _require_engine is its first line.
Arrive(r) ==
    /\ http[r] = "none" /\ LoopFree(r)
    /\ \/ Respond(r, "422")
       \/ Respond(r, IF EngineSet THEN "inside" ELSE "503")
    /\ UNCHANGED <<frontVars, lifespan, scheduling, dead>>

\* GET /ready: less than 90 % of the configured capacity is queued.  A replicated engine has
\* the capacity of one replica in its config, and the depth of all of them.
ReadyStatus == IF EngineSet /\ 10 * QueueDepth < 9 * capacity THEN "200" ELSE "503"

\* GET /health and /metrics need an engine and read a snapshot; /ready has its own rule.
Observe(r) ==
    /\ http[r] = "none" /\ LoopFree(r)
    /\ \/ Respond(r, IF EngineSet THEN "200" ELSE "503")
       \/ Respond(r, ReadyStatus)
    /\ UNCHANGED <<frontVars, lifespan, scheduling, dead>>

\* engine.submit with block_when_full=False.
HandlerSubmits(r) ==
    /\ http[r] = "inside" /\ LoopFree(r)
    /\ FrontSubmit(r)
    /\ UNCHANGED <<lifespan, scheduling, dead, http>>

\* Mutation: EngineClosedError is taken for a full queue, and submit is tried again.
SubmitRaisedRetried(r) ==
    /\ http[r] = "inside" /\ LoopFree(r) /\ caller[r] = "raised"
    /\ GotoCaller(r, "idle")
    /\ UNCHANGED <<frontClosed, rotation, routed, seen, at, reply, phase, front, stopping,
                   capacity, tied, lifespan, scheduling, dead, http>>

\* EngineClosedError, or the ValueError of a prompt over max_prompt_chars.
SubmitRaised(r) ==
    /\ http[r] = "inside" /\ LoopFree(r)
    /\ \/ caller[r] = "raised" /\ Respond(r, "503") /\ UNCHANGED frontVars
       \/ /\ caller[r] = "submit" /\ phase[at[r]] = "open"
          /\ GotoCaller(r, "raised") /\ Respond(r, "422")
          /\ UNCHANGED <<frontClosed, rotation, routed, seen, at, reply, phase, front, stopping,
                         capacity, tied>>
    /\ UNCHANGED <<lifespan, scheduling, dead>>

\* The status a settled future leads to.  future.result raises what an abandoned one holds,
\* and nothing catches it.
StatusOf(how) ==
    CASE how = "result" -> "200" [] how = "expired" -> "503" [] OTHER -> "500"

FutureDone(r) ==
    /\ http[r] = "inside" /\ LoopFree(r) /\ caller[r] = "accepted" /\ reply[r] \notin Unsettled
    /\ Respond(r, StatusOf(reply[r]))
    /\ UNCHANGED <<frontVars, lifespan, scheduling, dead>>

\* future.result(300.0) gives up.
FutureTimeout(r) ==
    /\ http[r] = "inside" /\ LoopFree(r) /\ caller[r] = "accepted" /\ reply[r] \in Unsettled
    /\ Respond(r, "500")
    /\ UNCHANGED <<frontVars, lifespan, scheduling, dead>>

Handler(r) == HandlerSubmits(r) \/ SubmitRaised(r) \/ FutureDone(r)

-----------------------------------------------------------------------------
(* The engine.                                                             *)

\* What a replica does for one request; its serving thread, only while it lives.
ReplicaWork(r) ==
    \/ ReplicaAccepts(r) \/ ReplicaRefuses(r, FALSE) \/ ReplicaAbandons(r)
    \/ at[r] \notin dead /\ (ReplicaDequeues(r) \/ ReplicaAnswers(r, {"result", "error", "expired"}))

EngineWork ==
    /\ (\E r \in Handlers : ReplicaWork(r)) \/ FrontShutdown
    /\ UNCHANGED <<lifespan, scheduling, dead, http>>

\* prefill or decode_step raises in a continuous replica, with requests admitted.
SchedulerThreadDies(i) ==
    /\ scheduling = "continuous" /\ i \notin dead /\ phase[i] # "broken"
    /\ \E r \in Handlers : at[r] = i /\ reply[r] = "running"
    /\ dead' = dead \cup {i}
    /\ UNCHANGED <<frontVars, lifespan, scheduling, http>>

-----------------------------------------------------------------------------

ServerNext ==
    \/ Startup \/ BeginEnd \/ End
    \/ \E r \in Handlers : Arrive(r) \/ Observe(r) \/ Handler(r) \/ FutureTimeout(r)
    \/ EngineWork
    \/ \E i \in Replicas : SchedulerThreadDies(i)

\* The event loop and the engine's threads run on, those that are left; nobody has to send a
\* request or to end the application, and no handler is saved by its timeout.
ServerFairness ==
    /\ WF_serverVars(EngineWork)
    /\ \A r \in Handlers : WF_serverVars(Handler(r))

-----------------------------------------------------------------------------
(* Properties.                                                             *)

\* Every handler that got past the validation responds, without waiting for its 300 s
\* timeout, however the end of the application comes in between.  Two things may keep one
\* waiting: its replica's shutdown raised; or the scheduler thread of its continuous replica
\* is gone and nobody has shut that replica down, which would fail the future.
HandlersAnswer ==
    []<>(\A r \in Handlers : http[r] = "inside" =>
           /\ at[r] # 0
           /\ phase[at[r]] = "broken" \/ (at[r] \in dead /\ phase[at[r]] = "open"))

=============================================================================

--------------------------- MODULE ServingEngine ---------------------------
(***************************************************************************)
(* What a serving engine promises its callers, whichever way it schedules: *)
(* the ServingEngine protocol of python/cudaforge/engine.py.  submit       *)
(* returns a future or raises; a future is settled once; shutdown leaves   *)
(* no future pending.                                                      *)
(*                                                                         *)
(* A future is owed from the moment somebody has taken it out of the       *)
(* engine's dictionary to settle it: nobody else will.                     *)
(***************************************************************************)
CONSTANT Requests

VARIABLES
    call,      \* the submit call of each request
    future,    \* the future of each request
    phase      \* of the engine: open, closing, down

engineVars == <<call, future, phase>>

TypeOK ==
    /\ call \in [Requests -> {"idle", "inside", "accepted", "raised"}]
    /\ future \in [Requests -> {"pending", "owed", "answered", "abandoned", "cancelled"}]
    /\ phase \in {"open", "closing", "down"}

Init ==
    /\ call = [r \in Requests |-> "idle"]
    /\ future = [r \in Requests |-> "pending"]
    /\ phase = "open"

Call(r) ==
    /\ call[r] = "idle"
    /\ call' = [call EXCEPT ![r] = "inside"]
    /\ UNCHANGED <<future, phase>>

\* EngineClosedError: the queue is full or the engine is shutting down.
Refuse(r) ==
    /\ call[r] \in {"idle", "inside"}
    /\ call' = [call EXCEPT ![r] = "raised"]
    /\ UNCHANGED <<future, phase>>

\* Once the engine is down submit may still return, but never a future that is pending.
Accept(r) ==
    /\ call[r] = "inside"
    /\ phase = "down" => future[r] # "pending"
    /\ call' = [call EXCEPT ![r] = "accepted"]
    /\ UNCHANGED <<future, phase>>

\* Whoever takes futures out of the dictionary owes them an answer.
Owe ==
    /\ \E R \in SUBSET {r \in Requests : call[r] # "idle" /\ future[r] = "pending"} :
         future' = [r \in Requests |-> IF r \in R THEN "owed" ELSE future[r]]
    /\ UNCHANGED <<call, phase>>

\* A response, which may come before submit has returned, or EngineClosedError, which only
\* a shutdown brings.
Settle(r) ==
    /\ call[r] # "idle" /\ future[r] \in {"pending", "owed"}
    /\ \E how \in {"answered", "abandoned"} :
         /\ how = "abandoned" => phase # "open"
         /\ future' = [future EXCEPT ![r] = how]
    /\ UNCHANGED <<call, phase>>

\* The caller gives up on a future it holds.
Cancel(r) ==
    /\ call[r] = "accepted" /\ future[r] \in {"pending", "owed"}
    /\ future' = [future EXCEPT ![r] = "cancelled"]
    /\ UNCHANGED <<call, phase>>

BeginShutdown ==
    /\ phase = "open"
    /\ phase' = "closing"
    /\ UNCHANGED <<call, future>>

\* Never left pending.
EndShutdown ==
    /\ phase = "closing"
    /\ \A r \in Requests : call[r] = "accepted" => future[r] # "pending"
    /\ phase' = "down"
    /\ UNCHANGED <<call, future>>

Next == \/ \E r \in Requests : Call(r) \/ Refuse(r) \/ Accept(r) \/ Settle(r) \/ Cancel(r)
        \/ Owe \/ BeginShutdown \/ EndShutdown

Spec == Init /\ [][Next]_engineVars

=============================================================================

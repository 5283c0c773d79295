----------------------- MODULE ContinuousEngineProofs -----------------------
(***************************************************************************)
(* Theorems about ContinuousEngine, for any requests, callers of shutdown, *)
(* queue capacity, batch size, cache and runner.  The engine implements    *)
(* the ServingEngine protocol; the batcher holds a request in one place    *)
(* and settles it once; the counters account for every request; the blocks *)
(* of the cache belong to the running sequences and only what is larger    *)
(* than the cache is refused; the rows of the runner's batch belong to the *)
(* sequences that are decoded.                                             *)
(***************************************************************************)
EXTENDS ContinuousEngine, FilteringProofs

-----------------------------------------------------------------------------
(* The inductive invariant.                                                *)

ServeTypes ==
    /\ client = [r \in Requests |-> client[r]]
    /\ stopper = [k \in Stoppers |-> stopper[k]]
    /\ future \in [Requests -> {"pending", "answered", "abandoned", "cancelled"}]
    /\ futures \subseteq Requests /\ owed \subseteq Requests
    /\ setting \in [Threads -> Requests \cup {NoRequest}]
    /\ outstanding \in [Stoppers -> SUBSET Requests]

\* From its registration on a future is in the dictionary, or somebody has taken it out.
Registered ==
    \A r \in Requests :
        /\ r \in futures \cup owed => client[r] \notin {"idle", "register"}
        /\ client[r] \in {"stopping", "put", "accepted"} => r \in futures \cup owed

\* shutdown sets _closed, stops the batcher and takes the futures, in this order; what is
\* accepted after that was registered before.
ShutdownTakesAll ==
    /\ \A k \in Stoppers :
         /\ stopper[k] \notin {"idle", "close", "skipped"} => closed
         /\ stopper[k] \in {"sentinel", "join", "drained", "fail", "returned", "raised"} => stopping
    /\ (\E k \in Stoppers : stopper[k] \in {"fail", "returned", "raised"}) =>
         \A r \in Requests : client[r] \in {"put", "accepted"} => r \in owed

\* A thread sets only futures that were taken out of the dictionary.
SettersOwe ==
    /\ \A t \in Threads : setting[t] # NoRequest => setting[t] \in owed
    /\ \A k \in Stoppers : /\ setting[k] # NoRequest => stopper[k] = "fail"
                           /\ outstanding[k] \subseteq owed

ServeInv ==
    \/ deployed = "direct" /\ ~closed
    \/ deployed = "engine" /\ ServeTypes /\ Registered /\ ShutdownTakesAll /\ SettersOwe

-----------------------------------------------------------------------------
(* Steps keep the invariant.                                               *)

\* A new engine, or a batcher by itself.
LEMMA InitServeInv == EngineInit => ServeInv
<1> SUFFICES ASSUME EngineInit PROVE ServeInv
  OBVIOUS
<1>1. CASE deployed = "direct"
  BY <1>1 DEF EngineInit, ServeInv
<1>2. CASE deployed # "direct"
  <2>1. /\ deployed = "engine" /\ closed = FALSE /\ futures = {} /\ owed = {}
        /\ client = [r \in Requests |-> "idle"] /\ stopper = [k \in Stoppers |-> "idle"]
        /\ future = [r \in Requests |-> "pending"] /\ outstanding = [k \in Stoppers |-> {}]
        /\ setting = [t \in Threads |-> NoRequest]
    BY <1>2 DEF EngineInit, InitAt
  <2>2. ServeTypes /\ SettersOwe
    BY <2>1 DEF ServeTypes, SettersOwe, Threads
  <2>3. Registered /\ ShutdownTakesAll
    BY <2>1 DEF Registered, ShutdownTakesAll
  <2> QED BY <2>1, <2>2, <2>3 DEF ServeInv
<1> QED BY <1>1, <1>2

\* What a step of the batcher's scheduler leaves alone: it never unsets _stopping.
LEMMA BatcherLeaves ==
    ASSUME Scheduler \/ RunnerRaises
    PROVE  UNCHANGED <<client, stopper>> /\ (stopping => stopping')
<1>1. CASE AdmitDeferred \/ AdmitDone \/ RunnerRaises
  BY <1>1 DEF AdmitDeferred, AdmitDone, RunnerRaises, frontVars
<1>2. CASE ReserveStep
  BY <1>2 DEF ReserveStep, frontVars
<1>3. CASE DecodeAndRetire
  BY <1>3 DEF DecodeAndRetire, frontVars
<1>4. CASE Start
  BY <1>4 DEF Start, PrefillAdmitted, frontVars
<1>5. CASE AdmitNext
  BY <1>5 DEF AdmitNext
<1> QED BY <1>1, <1>2, <1>3, <1>4, <1>5 DEF Scheduler

\* A step of a submit call.
LEMMA ClientKeeps ==
    ASSUME ServeInv, deployed = "engine", NEW r \in Requests, Client(r)
    PROVE  ServeInv'
<1>0. ServeTypes /\ Registered /\ ShutdownTakesAll /\ SettersOwe
  BY DEF ServeInv
<1>1. /\ UNCHANGED <<deployed, closed, future, owed, outstanding, setting, stopper, stopping>>
      /\ futures' \in {futures, futures \cup {r}, futures \ {r}}
      /\ \E pc : client' = [client EXCEPT ![r] = pc]
  BY DEF Client, CheckClosed, Register, SubmitCounted, Withdraw, Submit, CheckStopping, Enqueue,
         ShedLoad, serveVars
<1>2. ServeTypes'
  BY <1>0, <1>1 DEF ServeTypes
<1>3. SettersOwe'
  BY <1>0, <1>1 DEF SettersOwe
<1>4. Registered' /\ ShutdownTakesAll'
  <2>1. /\ ShutdownTakesAll /\ Registered /\ client = [s \in Requests |-> client[s]]
        /\ UNCHANGED <<closed, owed, stopper, stopping>>
    BY <1>0, <1>1 DEF ServeTypes
  <2>2. CASE CheckClosed(r)
    <3>1. PICK pc \in {"raised", "register"} : client' = [client EXCEPT ![r] = pc]
      BY <2>2 DEF CheckClosed
    <3>2. client[r] = "idle" /\ UNCHANGED futures
      BY <2>2 DEF CheckClosed, serveVars
    <3> QED BY <2>1, <3>1, <3>2 DEF Registered, ShutdownTakesAll
  <2>3. CASE Register(r)
    <3>1. /\ client[r] = "register" /\ client' = [client EXCEPT ![r] = "stopping"]
          /\ futures' = futures \cup {r}
      BY <2>3 DEF Register
    <3> QED BY <2>1, <3>1 DEF Registered, ShutdownTakesAll
  <2>4. CASE Withdraw(r)
    <3>1. /\ client[r] = "refused" /\ client' = [client EXCEPT ![r] = "raised"]
          /\ futures' = futures \ {r}
      BY <2>4 DEF Withdraw
    <3> QED BY <2>1, <3>1 DEF Registered, ShutdownTakesAll
  <2>5. CASE SubmitCounted(r)
    <3>1. UNCHANGED futures
      BY <2>5 DEF SubmitCounted
    <3>2. CASE CheckStopping(r)
      <4>1. /\ client[r] = "stopping"
            /\ client' = [client EXCEPT ![r] = IF stopping THEN "refused" ELSE "put"]
        BY <3>2 DEF CheckStopping
      <4> QED BY <2>1, <3>1, <4>1 DEF Registered, ShutdownTakesAll
    <3>3. CASE Enqueue(r) \/ ShedLoad(r)
      <4>1. client[r] = "put"
        BY <3>3 DEF Enqueue, ShedLoad
      <4>2. PICK pc \in {"accepted", "refused"} : client' = [client EXCEPT ![r] = pc]
        BY <3>3 DEF Enqueue, ShedLoad
      <4> QED BY <2>1, <3>1, <4>1, <4>2 DEF Registered, ShutdownTakesAll
    <3> QED BY <2>5, <3>2, <3>3 DEF SubmitCounted, Submit
  <2> QED BY <2>2, <2>3, <2>4, <2>5 DEF Client
<1> QED BY <1>1, <1>2, <1>3, <1>4 DEF ServeInv

\* A caller cancels, or a deadline passes.
LEMMA OutsideKeeps ==
    ASSUME ServeInv, deployed = "engine", NEW r \in Requests,
           Cancel(r) \/ (DeadlinePasses(r) /\ UNCHANGED serveVars)
    PROVE  ServeInv'
<1>0. ServeTypes /\ Registered /\ ShutdownTakesAll /\ SettersOwe
  BY DEF ServeInv
<1>1. /\ UNCHANGED <<deployed, closed, futures, owed, outstanding, setting, client, stopper, stopping>>
      /\ future' \in {future, [future EXCEPT ![r] = "cancelled"]}
  BY DEF Cancel, DeadlinePasses, serveVars, vars, frontVars
<1>2. ServeTypes'
  BY <1>0, <1>1 DEF ServeTypes
<1>3. SettersOwe' /\ Registered' /\ ShutdownTakesAll'
  BY <1>0, <1>1 DEF SettersOwe, Registered, ShutdownTakesAll
<1> QED BY <1>1, <1>2, <1>3 DEF ServeInv

\* A step of the scheduler thread.
LEMMA SchedulerKeeps ==
    ASSUME ServeInv, deployed = "engine", SchedulerThread
    PROVE  ServeInv'
<1>0. /\ ServeTypes /\ Registered /\ ShutdownTakesAll /\ SettersOwe
      /\ "scheduler" \in Threads /\ "scheduler" \notin Stoppers /\ Stoppers \subseteq Threads
  BY ContinuousEngineAssumption DEF ServeInv, Threads
<1>1. CASE BatcherStep
  <2>1. /\ UNCHANGED <<deployed, closed, futures, future, owed, outstanding, setting, client, stopper>>
        /\ stopping => stopping'
    BY <1>1, BatcherLeaves DEF BatcherStep
  <2>2. ServeTypes' /\ SettersOwe' /\ Registered'
    BY <1>0, <2>1 DEF ServeTypes, SettersOwe, Registered
  <2>3. ShutdownTakesAll'
    BY <1>0, <2>1 DEF ShutdownTakesAll
  <2> QED BY <2>1, <2>2, <2>3 DEF ServeInv
<1>2. ASSUME NEW r \in Requests, Callback(r) PROVE ServeInv'
  <2>1. /\ UNCHANGED <<deployed, closed, future, outstanding, client, stopper, stopping>>
        /\ futures' = futures \ {r} /\ owed' = owed \cup ({r} \cap futures)
        /\ setting' = [setting EXCEPT !["scheduler"] =
                         IF r \in futures /\ future[r] = "pending" THEN r ELSE NoRequest]
    BY <1>2 DEF Callback, vars, frontVars
  <2>2. ServeTypes'
    BY <1>0, <2>1 DEF ServeTypes
  <2>3. Registered' /\ ShutdownTakesAll'
    BY <1>0, <2>1 DEF Registered, ShutdownTakesAll
  <2>4. SettersOwe'
    BY <1>0, <2>1 DEF SettersOwe, ServeTypes
  <2> QED BY <1>0, <2>1, <2>2, <2>3, <2>4 DEF ServeInv
<1>3. CASE SetResult
  <2>1. /\ UNCHANGED <<deployed, closed, futures, owed, outstanding, client, stopper, stopping>>
        /\ setting' = [setting EXCEPT !["scheduler"] = NoRequest]
        /\ future' \in {future, [future EXCEPT ![setting["scheduler"]] = "answered"]}
    BY <1>3 DEF SetResult, vars, frontVars
  <2>2. ServeTypes'
    BY <1>0, <2>1 DEF ServeTypes
  <2>3. Registered' /\ ShutdownTakesAll'
    BY <1>0, <2>1 DEF Registered, ShutdownTakesAll
  <2>4. SettersOwe'
    BY <1>0, <2>1 DEF SettersOwe, ServeTypes
  <2> QED BY <1>0, <2>1, <2>2, <2>3, <2>4 DEF ServeInv
<1> QED BY <1>1, <1>2, <1>3 DEF SchedulerThread

\* A step of the batcher's own shutdown.
LEMMA BatcherShutdown ==
    ASSUME NEW k \in Stoppers, Shutdown(k)
    PROVE  /\ UNCHANGED client
           /\ \/ stopper[k] = "batcher" /\ stopper' = [stopper EXCEPT ![k] = "flag"] /\ stopping' = stopping
              \/ stopper[k] = "flag" /\ stopper' = [stopper EXCEPT ![k] = "sentinel"] /\ stopping'
              \/ /\ stopper[k] \in {"sentinel", "join"} /\ stopping' = stopping
                 /\ \E pc \in {"join", "drained"} : stopper' = [stopper EXCEPT ![k] = pc]
              \/ /\ stopper[k] = "batcher" /\ stopping /\ stopping' = stopping
                 /\ stopper' = [stopper EXCEPT ![k] = "drained"]
BY DEF Shutdown, CheckAlreadyStopping, SetStopping, PutSentinel, SentinelRefused, Join, JoinTimeout, Goto

\* A step of a shutdown call.
LEMMA StopperKeeps ==
    ASSUME ServeInv, deployed = "engine", NEW k \in Stoppers, Stopper(k)
    PROVE  ServeInv'
<1>0. /\ ServeTypes /\ Registered /\ ShutdownTakesAll /\ SettersOwe /\ k \in Threads
      /\ NoRequest \notin Requests /\ stopper = [j \in Stoppers |-> stopper[j]]
  BY BatcherAssumption DEF ServeInv, ServeTypes, Threads
<1>1. CASE CallShutdown(k) \/ SetClosed(k) \/ ShutdownReturns(k)
  <2>1. /\ UNCHANGED <<deployed, futures, future, owed, outstanding, setting, client, stopping>>
        /\ closed => closed'
        /\ \/ stopper[k] = "idle" /\ stopper' = [stopper EXCEPT ![k] = "skipped"]
           \/ stopper[k] = "idle" /\ stopper' = [stopper EXCEPT ![k] = "close"]
           \/ stopper[k] = "close" /\ stopper' = [stopper EXCEPT ![k] = "batcher"] /\ closed'
           \/ stopper[k] = "fail" /\ stopper' = [stopper EXCEPT ![k] = "returned"] /\ setting[k] = NoRequest
    BY <1>1 DEF CallShutdown, SetClosed, ShutdownReturns, Goto, serveVars
  <2>2. ServeTypes' /\ Registered'
    BY <1>0, <2>1 DEF ServeTypes, Registered
  <2>3. ShutdownTakesAll'
    BY <1>0, <2>1 DEF ShutdownTakesAll
  <2>4. SettersOwe'
    BY <1>0, <2>1 DEF SettersOwe
  <2> QED BY <2>1, <2>2, <2>3, <2>4 DEF ServeInv
<1>2. CASE ShutdownBatcher(k)
  <2>1. UNCHANGED <<deployed, closed, futures, future, owed, outstanding, setting>> /\ Shutdown(k)
    BY <1>2 DEF ShutdownBatcher, serveVars
  <2>2. /\ UNCHANGED client
        /\ \/ stopper[k] = "batcher" /\ stopper' = [stopper EXCEPT ![k] = "flag"] /\ stopping' = stopping
           \/ stopper[k] = "flag" /\ stopper' = [stopper EXCEPT ![k] = "sentinel"] /\ stopping'
           \/ /\ stopper[k] \in {"sentinel", "join"} /\ stopping' = stopping
              /\ \E pc \in {"join", "drained"} : stopper' = [stopper EXCEPT ![k] = pc]
           \/ /\ stopper[k] = "batcher" /\ stopping /\ stopping' = stopping
              /\ stopper' = [stopper EXCEPT ![k] = "drained"]
    BY <2>1, BatcherShutdown
  <2>3. ServeTypes' /\ Registered'
    BY <1>0, <2>1, <2>2 DEF ServeTypes, Registered
  <2>4. ShutdownTakesAll'
    BY <1>0, <2>1, <2>2 DEF ShutdownTakesAll
  <2>5. SettersOwe'
    BY <1>0, <2>1, <2>2 DEF SettersOwe
  <2> QED BY <2>1, <2>3, <2>4, <2>5 DEF ServeInv
<1>3. CASE TakeOutstanding(k)
  <2>1. /\ UNCHANGED <<deployed, closed, future, setting, client, stopping>>
        /\ stopper[k] = "drained" /\ stopper' = [stopper EXCEPT ![k] = "fail"]
        /\ outstanding' = [outstanding EXCEPT ![k] = futures]
        /\ owed' = owed \cup futures /\ futures' = {}
    BY <1>3 DEF TakeOutstanding, Goto
  <2>2. ServeTypes' /\ Registered'
    BY <1>0, <2>1 DEF ServeTypes, Registered
  <2>3. ShutdownTakesAll'
    BY <1>0, <2>1 DEF ShutdownTakesAll, Registered
  <2>4. SettersOwe'
    BY <1>0, <2>1 DEF SettersOwe, ServeTypes
  <2> QED BY <2>1, <2>2, <2>3, <2>4 DEF ServeInv
<1>4. ASSUME NEW r \in Requests, LookAt(k, r) PROVE ServeInv'
  <2>1. /\ UNCHANGED <<deployed, closed, futures, future, owed, client, stopper, stopping>>
        /\ stopper[k] = "fail" /\ r \in outstanding[k]
        /\ outstanding' = [outstanding EXCEPT ![k] = @ \ {r}]
        /\ setting' = [setting EXCEPT ![k] = IF future[r] = "pending" THEN r ELSE NoRequest]
    BY <1>4 DEF LookAt, vars, frontVars
  <2>2. ServeTypes' /\ Registered'
    BY <1>0, <2>1 DEF ServeTypes, Registered
  <2>3. ShutdownTakesAll'
    BY <1>0, <2>1 DEF ShutdownTakesAll
  <2>4. SettersOwe'
    BY <1>0, <2>1 DEF SettersOwe, ServeTypes
  <2> QED BY <2>1, <2>2, <2>3, <2>4 DEF ServeInv
<1>5. CASE SetException(k)
  <2>1. /\ UNCHANGED <<deployed, closed, futures, owed, client, stopping>>
        /\ setting[k] # NoRequest /\ setting' = [setting EXCEPT ![k] = NoRequest]
        /\ \/ /\ future' = [future EXCEPT ![setting[k]] = "abandoned"]
              /\ UNCHANGED <<stopper, outstanding>>
           \/ /\ stopper' = [stopper EXCEPT ![k] = "raised"]
              /\ outstanding' = [outstanding EXCEPT ![k] = {}] /\ UNCHANGED future
    BY <1>5 DEF SetException, Goto
  <2>2. ServeTypes' /\ Registered'
    BY <1>0, <2>1 DEF ServeTypes, Registered
  <2>3. ShutdownTakesAll'
    <3>1. stopper[k] = "fail"
      BY <1>0, <2>1 DEF SettersOwe
    <3> QED BY <1>0, <2>1, <3>1 DEF ShutdownTakesAll
  <2>4. SettersOwe'
    BY <1>0, <2>1 DEF SettersOwe, ServeTypes
  <2> QED BY <2>1, <2>2, <2>3, <2>4 DEF ServeInv
<1> QED BY <1>1, <1>2, <1>3, <1>4, <1>5 DEF Stopper

\* Every step keeps the invariant.
LEMMA NextServeInv == ServeInv /\ [EngineNext]_allVars => ServeInv'
<1> SUFFICES ASSUME ServeInv, [EngineNext]_allVars PROVE ServeInv'
  OBVIOUS
<1>1. CASE DirectStep
  BY <1>1 DEF DirectStep, serveVars, ServeInv
<1>2. CASE EngineStep
  BY <1>2, ClientKeeps, OutsideKeeps, SchedulerKeeps, StopperKeeps DEF EngineStep
<1>3. CASE UNCHANGED allVars
  <2>1. UNCHANGED <<deployed, closed, futures, future, owed, outstanding, setting, client, stopper, stopping>>
    BY <1>3 DEF allVars, vars, frontVars, serveVars
  <2> QED BY <2>1 DEF ServeInv, ServeTypes, Registered, ShutdownTakesAll, SettersOwe
<1> QED BY <1>1, <1>2, <1>3 DEF EngineNext

\* Every reachable state satisfies the invariant, whichever way the batcher is deployed.
THEOREM ServeInvariance == EngineSpec => []ServeInv
BY InitServeInv, NextServeInv, PTL DEF EngineSpec

-----------------------------------------------------------------------------
(* The engine implements the protocol.                                     *)

\* What callers see of each request, and of the engine.
Calls == [r \in Requests |-> CallSeen(r)]
Futures == [r \in Requests |-> FutureSeen(r)]

\* A step of the engine is a step of the protocol, or is not seen by the callers.
SeenStep == Serving!Next \/ UNCHANGED <<Calls, Futures, PhaseSeen>>

\* The maps change where what is seen of a request does.
LEMMA SeenChange ==
    ASSUME NEW r \in Requests, NEW x
    PROVE  /\ (\A s \in Requests : CallSeen(s)' = CallSeen(s)) => Calls' = Calls
           /\ (\A s \in Requests : FutureSeen(s)' = FutureSeen(s)) => Futures' = Futures
           /\ (\A s \in Requests : CallSeen(s)' = IF s = r THEN x ELSE CallSeen(s))
                 => Calls' = [Calls EXCEPT ![r] = x]
           /\ (\A s \in Requests : FutureSeen(s)' = IF s = r THEN x ELSE FutureSeen(s))
                 => Futures' = [Futures EXCEPT ![r] = x]
           /\ Calls[r] = CallSeen(r) /\ Futures[r] = FutureSeen(r)
<1>1. (\A s \in Requests : CallSeen(s)' = CallSeen(s)) => Calls' = Calls
  BY DEF Calls
<1>2. (\A s \in Requests : FutureSeen(s)' = FutureSeen(s)) => Futures' = Futures
  BY DEF Futures
<1>3. (\A s \in Requests : CallSeen(s)' = IF s = r THEN x ELSE CallSeen(s))
         => Calls' = [Calls EXCEPT ![r] = x]
  BY DEF Calls
<1>4. (\A s \in Requests : FutureSeen(s)' = IF s = r THEN x ELSE FutureSeen(s))
         => Futures' = [Futures EXCEPT ![r] = x]
  BY DEF Futures
<1> QED BY <1>1, <1>2, <1>3, <1>4 DEF Calls, Futures

\* The protocol's actions, in the terms of the maps.
LEMMA Protocol ==
    ASSUME NEW r \in Requests
    PROVE  /\ Calls[r] = "idle" /\ Calls' = [Calls EXCEPT ![r] = "inside"]
                /\ UNCHANGED <<Futures, PhaseSeen>> => SeenStep
           /\ Calls[r] \in {"idle", "inside"} /\ Calls' = [Calls EXCEPT ![r] = "raised"]
                /\ UNCHANGED <<Futures, PhaseSeen>> => SeenStep
           /\ Calls[r] = "inside" /\ (PhaseSeen = "down" => Futures[r] # "pending")
                /\ Calls' = [Calls EXCEPT ![r] = "accepted"] /\ UNCHANGED <<Futures, PhaseSeen>> => SeenStep
           /\ Calls[r] # "idle" /\ Futures[r] \in {"pending", "owed"}
                /\ Futures' = [Futures EXCEPT ![r] = "answered"] /\ UNCHANGED <<Calls, PhaseSeen>> => SeenStep
           /\ Calls[r] # "idle" /\ Futures[r] \in {"pending", "owed"} /\ PhaseSeen # "open"
                /\ Futures' = [Futures EXCEPT ![r] = "abandoned"] /\ UNCHANGED <<Calls, PhaseSeen>> => SeenStep
           /\ Calls[r] = "accepted" /\ Futures[r] \in {"pending", "owed"}
                /\ Futures' = [Futures EXCEPT ![r] = "cancelled"] /\ UNCHANGED <<Calls, PhaseSeen>> => SeenStep
<1>1. Calls[r] = "idle" /\ Calls' = [Calls EXCEPT ![r] = "inside"]
        /\ UNCHANGED <<Futures, PhaseSeen>> => Serving!Call(r)
  BY DEF Serving!Call, Calls, Futures
<1>2. Calls[r] \in {"idle", "inside"} /\ Calls' = [Calls EXCEPT ![r] = "raised"]
        /\ UNCHANGED <<Futures, PhaseSeen>> => Serving!Refuse(r)
  BY DEF Serving!Refuse, Calls, Futures
<1>3. Calls[r] = "inside" /\ (PhaseSeen = "down" => Futures[r] # "pending")
        /\ Calls' = [Calls EXCEPT ![r] = "accepted"] /\ UNCHANGED <<Futures, PhaseSeen>> => Serving!Accept(r)
  BY DEF Serving!Accept, Calls, Futures
<1>4. Calls[r] # "idle" /\ Futures[r] \in {"pending", "owed"}
        /\ Futures' = [Futures EXCEPT ![r] = "answered"] /\ UNCHANGED <<Calls, PhaseSeen>> => Serving!Settle(r)
  BY DEF Serving!Settle, Calls, Futures
<1>5. Calls[r] # "idle" /\ Futures[r] \in {"pending", "owed"} /\ PhaseSeen # "open"
        /\ Futures' = [Futures EXCEPT ![r] = "abandoned"] /\ UNCHANGED <<Calls, PhaseSeen>> => Serving!Settle(r)
  BY DEF Serving!Settle, Calls, Futures
<1>6. Calls[r] = "accepted" /\ Futures[r] \in {"pending", "owed"}
        /\ Futures' = [Futures EXCEPT ![r] = "cancelled"] /\ UNCHANGED <<Calls, PhaseSeen>> => Serving!Cancel(r)
  BY DEF Serving!Cancel, Calls, Futures
<1>7. Serving!Call(r) \/ Serving!Refuse(r) \/ Serving!Accept(r) \/ Serving!Settle(r) \/ Serving!Cancel(r) => SeenStep
  BY DEF SeenStep, Serving!Next
<1> QED BY <1>1, <1>2, <1>3, <1>4, <1>5, <1>6, <1>7

\* Taking futures out of the dictionary.
LEMMA Owing ==
    ASSUME ServeInv, deployed = "engine", NEW R \in SUBSET futures, owed' = owed \cup R,
           UNCHANGED <<future, client, deployed, PhaseSeen>>
    PROVE  SeenStep
<1>0. ServeTypes /\ Registered
  BY DEF ServeInv
<1>1. PICK P : P = {r \in R : future[r] = "pending" /\ r \notin owed}
  OBVIOUS
<1>2. P \in SUBSET {r \in Requests : Calls[r] # "idle" /\ Futures[r] = "pending"}
  <2> SUFFICES ASSUME NEW r \in P PROVE r \in Requests /\ CallSeen(r) # "idle" /\ FutureSeen(r) = "pending"
    BY DEF Calls, Futures
  <2> QED BY <1>0, <1>1 DEF CallSeen, FutureSeen, ServeTypes, Registered
<1>3. \A r \in Requests : FutureSeen(r)' = IF r \in P THEN "owed" ELSE FutureSeen(r)
  BY <1>1 DEF FutureSeen
<1>4. Futures' = [r \in Requests |-> IF r \in P THEN "owed" ELSE Futures[r]]
  BY <1>3 DEF Futures
<1>5. Calls' = Calls
  <2>1. \A r \in Requests : CallSeen(r)' = CallSeen(r)
    BY DEF CallSeen
  <2> QED BY <2>1 DEF Calls
<1>6. Serving!Owe
  BY <1>2, <1>4, <1>5 DEF Serving!Owe, Calls, Futures
<1> QED BY <1>6 DEF SeenStep, Serving!Next

\* A step of a submit call.
LEMMA ClientRefines ==
    ASSUME ServeInv, deployed = "engine", NEW r \in Requests, Client(r)
    PROVE  SeenStep
<1>0. ServeTypes /\ Registered /\ ShutdownTakesAll /\ client = [s \in Requests |-> client[s]]
  BY DEF ServeInv, ServeTypes
<1>1. /\ UNCHANGED <<deployed, closed, future, owed, stopper>>
      /\ Calls[r] = CallSeen(r) /\ Futures[r] = FutureSeen(r)
  BY DEF Client, CheckClosed, Register, SubmitCounted, Withdraw, Submit, CheckStopping, Enqueue,
         ShedLoad, serveVars, Calls, Futures
<1>2. UNCHANGED <<Futures, PhaseSeen>>
  <2>1. \A s \in Requests : FutureSeen(s)' = FutureSeen(s)
    BY <1>1 DEF FutureSeen
  <2> QED BY <1>1, <2>1, SeenChange DEF PhaseSeen
<1>3. CASE CheckClosed(r)
  <2>1. PICK pc \in {"raised", "register"} : client' = [client EXCEPT ![r] = pc]
    BY <1>3 DEF CheckClosed
  <2>2. Calls[r] = "idle"
    BY <1>1, <1>3 DEF CheckClosed, CallSeen
  <2>3. CASE pc = "raised"
    <3>1. \A s \in Requests : CallSeen(s)' = IF s = r THEN "raised" ELSE CallSeen(s)
      BY <1>0, <1>1, <2>1, <2>3 DEF CallSeen
    <3> QED BY <1>2, <2>2, <3>1, SeenChange, Protocol
  <2>4. CASE pc = "register"
    <3>1. \A s \in Requests : CallSeen(s)' = IF s = r THEN "inside" ELSE CallSeen(s)
      BY <1>0, <1>1, <2>1, <2>4 DEF CallSeen
    <3> QED BY <1>2, <2>2, <3>1, SeenChange, Protocol
  <2> QED BY <2>1, <2>3, <2>4
<1>4. CASE Register(r) \/ CheckStopping(r) \/ ShedLoad(r)
  <2>1. /\ client[r] \in {"register", "stopping", "put"}
        /\ \E pc \in {"stopping", "put", "refused"} : client' = [client EXCEPT ![r] = pc]
    BY <1>4 DEF Register, CheckStopping, ShedLoad
  <2>2. \A s \in Requests : CallSeen(s)' = CallSeen(s)
    BY <1>0, <1>1, <2>1 DEF CallSeen
  <2> QED BY <1>2, <2>2, SeenChange DEF SeenStep
<1>5. CASE Withdraw(r)
  <2>1. client[r] = "refused" /\ client' = [client EXCEPT ![r] = "raised"]
    BY <1>5 DEF Withdraw
  <2>2. \A s \in Requests : CallSeen(s)' = IF s = r THEN "raised" ELSE CallSeen(s)
    BY <1>0, <1>1, <2>1 DEF CallSeen
  <2>3. Calls[r] = "inside"
    BY <1>1, <2>1 DEF CallSeen
  <2> QED BY <1>2, <2>2, <2>3, SeenChange, Protocol
<1>6. CASE Enqueue(r)
  <2>1. client[r] = "put" /\ client' = [client EXCEPT ![r] = "accepted"]
    BY <1>6 DEF Enqueue
  <2>2. \A s \in Requests : CallSeen(s)' = IF s = r THEN "accepted" ELSE CallSeen(s)
    BY <1>0, <1>1, <2>1 DEF CallSeen
  <2>3. Calls[r] = "inside"
    BY <1>1, <2>1 DEF CallSeen
  <2>4. PhaseSeen = "down" => Futures[r] # "pending"
    BY <1>0, <1>1, <2>1 DEF PhaseSeen, FutureSeen, ShutdownTakesAll
  <2> QED BY <1>2, <2>2, <2>3, <2>4, SeenChange, Protocol
<1> QED BY <1>3, <1>4, <1>5, <1>6 DEF Client, SubmitCounted, Submit

\* A caller cancels, or a deadline passes.
LEMMA OutsideRefines ==
    ASSUME ServeInv, deployed = "engine", NEW r \in Requests,
           Cancel(r) \/ (DeadlinePasses(r) /\ UNCHANGED serveVars)
    PROVE  SeenStep
<1>0. ServeTypes
  BY DEF ServeInv
<1>1. /\ UNCHANGED <<deployed, closed, owed, client, stopper>>
      /\ Calls[r] = CallSeen(r) /\ Futures[r] = FutureSeen(r)
  BY DEF Cancel, DeadlinePasses, serveVars, vars, frontVars, Calls, Futures
<1>2. UNCHANGED <<Calls, PhaseSeen>>
  <2>1. \A s \in Requests : CallSeen(s)' = CallSeen(s)
    BY <1>1 DEF CallSeen
  <2> QED BY <1>1, <2>1, SeenChange DEF PhaseSeen
<1>3. CASE Cancel(r)
  <2>1. client[r] = "accepted" /\ future[r] = "pending" /\ future' = [future EXCEPT ![r] = "cancelled"]
    BY <1>3 DEF Cancel
  <2>2. \A s \in Requests : FutureSeen(s)' = IF s = r THEN "cancelled" ELSE FutureSeen(s)
    BY <1>0, <1>1, <2>1 DEF FutureSeen, ServeTypes
  <2>3. Calls[r] = "accepted" /\ Futures[r] \in {"pending", "owed"}
    BY <1>1, <2>1 DEF CallSeen, FutureSeen
  <2> QED BY <1>2, <2>2, <2>3, SeenChange, Protocol
<1>4. CASE DeadlinePasses(r) /\ UNCHANGED serveVars
  <2>1. \A s \in Requests : FutureSeen(s)' = FutureSeen(s)
    BY <1>1, <1>4 DEF FutureSeen, serveVars
  <2> QED BY <1>2, <2>1, SeenChange DEF SeenStep
<1> QED BY <1>3, <1>4

\* A step that settles one future that was taken out of the dictionary, or none.
LEMMA Settling ==
    ASSUME ServeInv, deployed = "engine", NEW r \in owed, NEW how \in {"answered", "abandoned"},
           future[r] = "pending", future' = [future EXCEPT ![r] = how],
           how = "abandoned" => closed,
           UNCHANGED <<deployed, client, owed, PhaseSeen>>
    PROVE  SeenStep
<1>0. ServeTypes /\ Registered /\ r \in Requests
  BY DEF ServeInv, ServeTypes
<1>1. Calls' = Calls
  <2>1. \A s \in Requests : CallSeen(s)' = CallSeen(s)
    BY DEF CallSeen
  <2> QED BY <1>0, <2>1, SeenChange
<1>2. \A s \in Requests : FutureSeen(s)' = IF s = r THEN how ELSE FutureSeen(s)
  BY <1>0 DEF FutureSeen, ServeTypes
<1>3. Futures' = [Futures EXCEPT ![r] = how]
  BY <1>0, <1>2, SeenChange
<1>4. Calls[r] # "idle" /\ Futures[r] \in {"pending", "owed"}
  BY <1>0 DEF Calls, Futures, CallSeen, FutureSeen, Registered
<1>5. how = "abandoned" => PhaseSeen # "open"
  BY DEF PhaseSeen
<1> QED BY <1>0, <1>1, <1>3, <1>4, <1>5, Protocol

\* A step that settles no future, takes none and changes no submit call.
LEMMA Unseen ==
    ASSUME UNCHANGED <<deployed, client, future, owed, PhaseSeen>>
    PROVE  SeenStep
<1>1. \A s \in Requests : CallSeen(s)' = CallSeen(s) /\ FutureSeen(s)' = FutureSeen(s)
  BY DEF CallSeen, FutureSeen
<1> QED BY <1>1 DEF SeenStep, Calls, Futures

\* A step of the scheduler thread.
LEMMA SchedulerRefines ==
    ASSUME ServeInv, deployed = "engine", SchedulerThread
    PROVE  SeenStep
<1>0. /\ ServeTypes /\ SettersOwe /\ "scheduler" \in Threads
  BY DEF ServeInv, Threads
<1>1. CASE BatcherStep
  <2>1. UNCHANGED <<deployed, client, stopper, closed, future, owed>>
    BY <1>1, BatcherLeaves DEF BatcherStep
  <2> QED BY <2>1, Unseen DEF PhaseSeen
<1>2. ASSUME NEW r \in Requests, Callback(r) PROVE SeenStep
  <2>1. /\ UNCHANGED <<deployed, closed, future, client, stopper>>
        /\ owed' = owed \cup ({r} \cap futures)
    BY <1>2 DEF Callback, vars, frontVars
  <2>2. {r} \cap futures \in SUBSET futures /\ UNCHANGED PhaseSeen
    BY <2>1 DEF PhaseSeen
  <2> QED BY <2>1, <2>2, Owing
<1>3. CASE SetResult
  <2>1. /\ UNCHANGED <<deployed, closed, owed, client, stopper>>
        /\ setting["scheduler"] # NoRequest
        /\ \/ future' = future
           \/ /\ future[setting["scheduler"]] = "pending"
              /\ future' = [future EXCEPT ![setting["scheduler"]] = "answered"]
    BY <1>3 DEF SetResult, vars, frontVars
  <2>2. setting["scheduler"] \in owed /\ UNCHANGED PhaseSeen
    BY <1>0, <2>1 DEF SettersOwe, PhaseSeen
  <2> QED BY <2>1, <2>2, Unseen, Settling
<1> QED BY <1>1, <1>2, <1>3 DEF SchedulerThread

\* A step of a shutdown call.
LEMMA StopperRefines ==
    ASSUME ServeInv, deployed = "engine", NEW k \in Stoppers, Stopper(k)
    PROVE  SeenStep
<1>0. /\ ServeTypes /\ ShutdownTakesAll /\ SettersOwe /\ k \in Threads
      /\ stopper = [j \in Stoppers |-> stopper[j]]
  BY DEF ServeInv, ServeTypes, Threads
<1>1. ASSUME stopper[k] # "returned", NEW pc, pc # "returned", stopper' = [stopper EXCEPT ![k] = pc],
             UNCHANGED closed
      PROVE  UNCHANGED PhaseSeen
  <2>1. \A j \in Stoppers : stopper'[j] = "returned" <=> stopper[j] = "returned"
    BY <1>0, <1>1
  <2> QED BY <1>1, <2>1 DEF PhaseSeen
<1>2. CASE CallShutdown(k)
  <2>1. /\ UNCHANGED <<deployed, client, future, owed, closed>> /\ stopper[k] = "idle"
        /\ \E pc \in {"skipped", "close"} : stopper' = [stopper EXCEPT ![k] = pc]
    BY <1>2 DEF CallShutdown, Goto, serveVars
  <2> QED BY <1>1, <2>1, Unseen
<1>3. CASE SetClosed(k)
  <2>1. /\ UNCHANGED <<deployed, client, future, owed>> /\ stopper[k] = "close" /\ closed'
        /\ stopper' = [stopper EXCEPT ![k] = "batcher"]
    BY <1>3 DEF SetClosed, Goto
  <2>2. CASE closed
    <3>1. \A j \in Stoppers : stopper'[j] = "returned" <=> stopper[j] = "returned"
      BY <1>0, <2>1
    <3>2. UNCHANGED PhaseSeen
      BY <2>1, <2>2, <3>1 DEF PhaseSeen
    <3> QED BY <2>1, <3>2, Unseen
  <2>3. CASE ~closed
    <3>1. \A j \in Stoppers : stopper'[j] # "returned"
      BY <1>0, <2>1, <2>3 DEF ShutdownTakesAll
    <3>2. PhaseSeen = "open" /\ PhaseSeen' = "closing"
      BY <2>1, <2>3, <3>1 DEF PhaseSeen
    <3>3. UNCHANGED <<Calls, Futures>>
      <4>1. \A s \in Requests : CallSeen(s)' = CallSeen(s) /\ FutureSeen(s)' = FutureSeen(s)
        BY <2>1 DEF CallSeen, FutureSeen
      <4> QED BY <4>1 DEF Calls, Futures
    <3>4. Serving!BeginShutdown
      BY <3>2, <3>3 DEF Serving!BeginShutdown, Calls, Futures
    <3> QED BY <3>4 DEF SeenStep, Serving!Next
  <2> QED BY <2>2, <2>3
<1>4. CASE ShutdownBatcher(k)
  <2>1. UNCHANGED <<deployed, closed, future, owed>> /\ Shutdown(k)
    BY <1>4 DEF ShutdownBatcher, serveVars
  <2>2. /\ UNCHANGED client /\ stopper[k] # "returned"
        /\ \E pc \in {"flag", "sentinel", "join", "drained"} : stopper' = [stopper EXCEPT ![k] = pc]
    BY <2>1, BatcherShutdown
  <2> QED BY <1>1, <2>1, <2>2, Unseen
<1>5. CASE TakeOutstanding(k)
  <2>1. /\ UNCHANGED <<deployed, closed, future, client>> /\ owed' = owed \cup futures
        /\ stopper[k] = "drained" /\ stopper' = [stopper EXCEPT ![k] = "fail"]
    BY <1>5 DEF TakeOutstanding, Goto
  <2>2. UNCHANGED PhaseSeen
    BY <1>1, <2>1
  <2> QED BY <2>1, <2>2, Owing
<1>6. ASSUME NEW r \in Requests, LookAt(k, r) PROVE SeenStep
  <2>1. UNCHANGED <<deployed, closed, future, owed, client, stopper>>
    BY <1>6 DEF LookAt, vars, frontVars
  <2> QED BY <2>1, Unseen DEF PhaseSeen
<1>7. CASE SetException(k)
  <2>1. /\ UNCHANGED <<deployed, closed, owed, client>> /\ setting[k] # NoRequest
        /\ \/ /\ future[setting[k]] = "pending" /\ UNCHANGED stopper
              /\ future' = [future EXCEPT ![setting[k]] = "abandoned"]
           \/ stopper' = [stopper EXCEPT ![k] = "raised"] /\ UNCHANGED future
    BY <1>7 DEF SetException, Goto
  <2>2. stopper[k] = "fail" /\ closed /\ setting[k] \in owed
    BY <1>0, <2>1 DEF SettersOwe, ShutdownTakesAll
  <2>3. UNCHANGED PhaseSeen
    BY <1>1, <2>1, <2>2 DEF PhaseSeen
  <2> QED BY <2>1, <2>2, <2>3, Unseen, Settling
<1>8. CASE ShutdownReturns(k)
  <2>1. /\ UNCHANGED <<deployed, client, future, owed, closed>> /\ stopper[k] = "fail"
        /\ stopper' = [stopper EXCEPT ![k] = "returned"]
    BY <1>8 DEF ShutdownReturns, Goto, serveVars
  <2>2. closed /\ \A r \in Requests : client[r] = "accepted" => r \in owed
    BY <1>0, <2>1 DEF ShutdownTakesAll
  <2>3. PhaseSeen' = "down" /\ PhaseSeen \in {"closing", "down"}
    <3>1. stopper'[k] = "returned"
      BY <1>0, <2>1
    <3> QED BY <2>1, <2>2, <3>1 DEF PhaseSeen
  <2>4. UNCHANGED <<Calls, Futures>>
    <3>1. \A s \in Requests : CallSeen(s)' = CallSeen(s) /\ FutureSeen(s)' = FutureSeen(s)
      BY <2>1 DEF CallSeen, FutureSeen
    <3> QED BY <3>1 DEF Calls, Futures
  <2>5. CASE PhaseSeen = "down"
    BY <2>1, <2>3, <2>5, Unseen
  <2>6. CASE PhaseSeen = "closing"
    <3>1. \A r \in Requests : CallSeen(r) = "accepted" => FutureSeen(r) # "pending"
      BY <2>2 DEF CallSeen, FutureSeen
    <3>2. Serving!EndShutdown
      BY <2>3, <2>4, <2>6, <3>1 DEF Serving!EndShutdown, Calls, Futures
    <3> QED BY <3>2 DEF SeenStep, Serving!Next
  <2> QED BY <2>3, <2>5, <2>6
<1> QED BY <1>2, <1>3, <1>4, <1>5, <1>6, <1>7, <1>8 DEF Stopper

\* Every behaviour of the engine is, as callers see it, a behaviour of the ServingEngine
\* protocol: whatever the batcher and its runner do, and however callers, the scheduler
\* thread and any number of shutdowns interleave, a future is settled once, and none is
\* pending and nobody's when a shutdown has returned.
THEOREM ServingTheorem == EngineSpec => KeepsServingPromise
<1>1. EngineInit => Serving!Init
  <2> SUFFICES ASSUME EngineInit PROVE Serving!Init
    OBVIOUS
  <2>1. PhaseSeen = "open"
    BY DEF EngineInit, PhaseSeen
  <2>2. \A r \in Requests : CallSeen(r) = "idle"
    BY DEF EngineInit, InitAt, CallSeen
  <2>3. \A r \in Requests : FutureSeen(r) = "pending"
    BY DEF EngineInit, FutureSeen
  <2> QED BY <2>1, <2>2, <2>3 DEF Serving!Init
<1>2. ServeInv /\ [EngineNext]_allVars => [Serving!Next]_(Serving!engineVars)
  <2> SUFFICES ASSUME ServeInv, [EngineNext]_allVars PROVE SeenStep
    BY DEF SeenStep, Serving!engineVars, Calls, Futures
  <2>1. CASE DirectStep
    <3>1. UNCHANGED <<deployed, closed, future, owed>> /\ deployed = "direct"
      BY <2>1 DEF DirectStep, serveVars
    <3>2. \A s \in Requests : CallSeen(s)' = CallSeen(s) /\ FutureSeen(s)' = FutureSeen(s)
      BY <3>1 DEF CallSeen, FutureSeen
    <3>3. PhaseSeen' = PhaseSeen
      BY <3>1 DEF PhaseSeen, ServeInv
    <3> QED BY <3>2, <3>3 DEF SeenStep, Calls, Futures
  <2>2. CASE EngineStep
    BY <2>2, ClientRefines, OutsideRefines, SchedulerRefines, StopperRefines DEF EngineStep
  <2>3. CASE UNCHANGED allVars
    <3>1. UNCHANGED <<deployed, closed, future, owed, client, stopper>>
      BY <2>3 DEF allVars, vars, frontVars, serveVars
    <3> QED BY <3>1, Unseen DEF PhaseSeen
  <2> QED BY <2>1, <2>2, <2>3 DEF EngineNext
<1> QED BY <1>1, <1>2, ServeInvariance, PTL DEF EngineSpec, KeepsServingPromise, Serving!Spec

-----------------------------------------------------------------------------
(* The batcher holds a request in one place and settles it once.           *)

Entries == [req : Requests, id : Seqs, made : Nat, finished : BOOLEAN]
Outcomes == {"truncated", "rejected", "expired", "finished"}

\* A request has one entry in the running set.
OneRow(run) == \A e, f : Has(run, e) /\ Has(run, f) /\ e.req = f.req => e = f

HeldTypes ==
    /\ queue \in Seq(Requests \cup {Sentinel})
    /\ running \in Seq(Entries) /\ OneRow(running)
    /\ deferred \in Requests \cup {NoRequest}
    /\ outcome \in [Requests -> Outcomes \cup {"pending"}]
    /\ client = [r \in Requests |-> client[r]]

\* A request is at most once in the queue, in a row, or deferred.
Apart ==
    \A r \in Requests :
        /\ Once(queue, r)
        /\ Has(queue, r) => r \notin RequestsOf(running) /\ deferred # r
        /\ r \in RequestsOf(running) => deferred # r

\* What the batcher holds was accepted and has no outcome yet.
HeldArePending ==
    \A r \in Requests :
        /\ Has(queue, r) \/ r \in RequestsOf(running) \/ deferred = r
             => client[r] = "accepted" /\ outcome[r] = "pending"
        /\ outcome[r] # "pending" => client[r] = "accepted"

HeldInv == HeldTypes /\ Apart /\ HeldArePending

\* A step gives outcomes only to requests that had none.
SettlesPending ==
    \A r \in Requests : outcome'[r] # outcome[r] => outcome[r] = "pending" /\ client[r] = "accepted"

\* The requests of a running set, through its entries.
LEMMA RequestsListed ==
    ASSUME NEW X, NEW run \in Seq(X)
    PROVE  \A r : r \in RequestsOf(run) <=> \E e : Has(run, e) /\ e.req = r
<1>1. DOMAIN run = 1 .. Len(run)
  BY LenProperties
<1> QED BY <1>1 DEF RequestsOf, Has

\* A running set cut in two: no request is in both parts, and none is lost.
LEMMA TwoParts ==
    ASSUME NEW run \in Seq(Entries), OneRow(run), NEW A, NEW B, A \cap B = {},
           \A e : Has(run, e) => e \in A \cup B
    PROVE  /\ Keep(run, A) \in Seq(Entries) /\ OneRow(Keep(run, A))
           /\ RequestsOf(Keep(run, A)) \cap RequestsOf(Keep(run, B)) = {}
           /\ RequestsOf(Keep(run, A)) \cup RequestsOf(Keep(run, B)) = RequestsOf(run)
<1>1. Keep(run, A) \in Seq(Entries) /\ Keep(run, B) \in Seq(Entries)
  BY KeepType
<1>2. /\ \A e : Has(Keep(run, A), e) <=> e \in A /\ Has(run, e)
      /\ \A e : Has(Keep(run, B), e) <=> e \in B /\ Has(run, e)
  BY KeepMembers
<1>3. /\ \A r : r \in RequestsOf(Keep(run, A)) <=> \E e : Has(Keep(run, A), e) /\ e.req = r
      /\ \A r : r \in RequestsOf(Keep(run, B)) <=> \E e : Has(Keep(run, B), e) /\ e.req = r
      /\ \A r : r \in RequestsOf(run) <=> \E e : Has(run, e) /\ e.req = r
  BY <1>1, RequestsListed
<1>4. OneRow(Keep(run, A))
  BY <1>2 DEF OneRow
<1>5. RequestsOf(Keep(run, A)) \cap RequestsOf(Keep(run, B)) = {}
  <2> SUFFICES ASSUME NEW r, r \in RequestsOf(Keep(run, A)), r \in RequestsOf(Keep(run, B)) PROVE FALSE
    OBVIOUS
  <2>1. PICK e : e \in A /\ Has(run, e) /\ e.req = r
    BY <1>2, <1>3
  <2>2. PICK g : g \in B /\ Has(run, g) /\ g.req = r
    BY <1>2, <1>3
  <2>3. e = g
    BY <2>1, <2>2 DEF OneRow
  <2> QED BY <2>1, <2>2, <2>3
<1>6. \A r : r \in RequestsOf(Keep(run, A)) \cup RequestsOf(Keep(run, B)) <=> r \in RequestsOf(run)
  BY <1>2, <1>3
<1> QED BY <1>1, <1>4, <1>5, <1>6

\* A step of the runner changes what was made, not who is in a row.
LEMMA SameRows ==
    ASSUME NEW run \in Seq(Entries), OneRow(run), NEW new, new = [i \in DOMAIN run |-> new[i]],
           \A i \in DOMAIN run : new[i] \in Entries /\ new[i].req = run[i].req,
           \A i, j \in DOMAIN run : run[i] = run[j] => new[i] = new[j]
    PROVE  new \in Seq(Entries) /\ OneRow(new) /\ RequestsOf(new) = RequestsOf(run)
<1>1. DOMAIN run = 1 .. Len(run) /\ Len(run) \in Nat
  BY LenProperties
<1>2. new \in [1 .. Len(run) -> Entries]
  BY <1>1
<1>3. new \in Seq(Entries)
  BY <1>1, <1>2, SeqDef
<1>4. Len(new) = Len(run) /\ DOMAIN new = DOMAIN run
  BY <1>1, <1>2, <1>3, LenProperties
<1>5. RequestsOf(new) = RequestsOf(run)
  <2>1. {new[i].req : i \in DOMAIN run} = {run[i].req : i \in DOMAIN run}
    OBVIOUS
  <2> QED BY <1>4, <2>1 DEF RequestsOf
<1>6. OneRow(new)
  <2> SUFFICES ASSUME NEW m \in 1 .. Len(new), NEW n \in 1 .. Len(new), new[m].req = new[n].req
               PROVE  new[m] = new[n]
    BY DEF OneRow, Has
  <2>1. run[m].req = run[n].req /\ m \in 1 .. Len(run) /\ n \in 1 .. Len(run)
    BY <1>1, <1>4
  <2>2. run[m] = run[n]
    BY <2>1 DEF OneRow, Has
  <2> QED BY <1>1, <2>1, <2>2
<1> QED BY <1>3, <1>5, <1>6

\* A new entry.
LEMMA NewRow ==
    ASSUME NEW run \in Seq(Entries), OneRow(run), NEW e \in Entries, e.req \notin RequestsOf(run)
    PROVE  /\ Append(run, e) \in Seq(Entries) /\ OneRow(Append(run, e))
           /\ RequestsOf(Append(run, e)) = RequestsOf(run) \cup {e.req}
<1>1. Append(run, e) \in Seq(Entries)
  BY AppendProperties
<1>2. \A f : Has(Append(run, e), f) <=> Has(run, f) \/ f = e
  BY HasAppend
<1>3. /\ \A r : r \in RequestsOf(Append(run, e)) <=> \E f : Has(Append(run, e), f) /\ f.req = r
      /\ \A r : r \in RequestsOf(run) <=> \E f : Has(run, f) /\ f.req = r
  BY <1>1, RequestsListed
<1>4. OneRow(Append(run, e))
  BY <1>2, <1>3 DEF OneRow
<1>5. \A r : r \in RequestsOf(Append(run, e)) <=> r \in RequestsOf(run) \cup {e.req}
  BY <1>2, <1>3
<1> QED BY <1>1, <1>4, <1>5

\* Those that leave and those that stay.
LEMMA Parted ==
    ASSUME NEW run \in Seq(Entries), OneRow(run)
    PROVE  /\ \A S : /\ Without(run, S) \in Seq(Entries) /\ OneRow(Without(run, S))
                     /\ RequestsOf(Without(run, S)) \cap RequestsOf(With(run, S)) = {}
                     /\ RequestsOf(Without(run, S)) \cup RequestsOf(With(run, S)) = RequestsOf(run)
           /\ Unfinished(run) \in Seq(Entries) /\ OneRow(Unfinished(run))
           /\ RequestsOf(Unfinished(run)) \cap RequestsOf(Finished(run)) = {}
           /\ RequestsOf(Unfinished(run)) \cup RequestsOf(Finished(run)) = RequestsOf(run)
<1>1. \A e : Has(run, e) => e \in ToSet(run)
  <2>1. DOMAIN run = 1 .. Len(run)
    BY LenProperties
  <2> QED BY <2>1 DEF Has, ToSet
<1>2. ASSUME NEW S
      PROVE  /\ Without(run, S) \in Seq(Entries) /\ OneRow(Without(run, S))
             /\ RequestsOf(Without(run, S)) \cap RequestsOf(With(run, S)) = {}
             /\ RequestsOf(Without(run, S)) \cup RequestsOf(With(run, S)) = RequestsOf(run)
  <2>1. PICK A : A = {e \in ToSet(run) : e.id \notin S}
    OBVIOUS
  <2>2. PICK B : B = {e \in ToSet(run) : e.id \in S}
    OBVIOUS
  <2>3. A \cap B = {} /\ \A e : Has(run, e) => e \in A \cup B
    BY <1>1, <2>1, <2>2
  <2>4. Without(run, S) = Keep(run, A) /\ With(run, S) = Keep(run, B)
    BY <2>1, <2>2 DEF Without, With
  <2> QED BY <2>3, <2>4, TwoParts
<1>3. /\ Unfinished(run) \in Seq(Entries) /\ OneRow(Unfinished(run))
      /\ RequestsOf(Unfinished(run)) \cap RequestsOf(Finished(run)) = {}
      /\ RequestsOf(Unfinished(run)) \cup RequestsOf(Finished(run)) = RequestsOf(run)
  <2>1. PICK A : A = {e \in ToSet(run) : ~e.finished}
    OBVIOUS
  <2>2. PICK B : B = {e \in ToSet(run) : e.finished}
    OBVIOUS
  <2>3. A \cap B = {} /\ \A e : Has(run, e) => e \in A \cup B
    BY <1>1, <2>1, <2>2
  <2>4. Unfinished(run) = Keep(run, A) /\ Finished(run) = Keep(run, B)
    BY <2>1, <2>2 DEF Unfinished, Finished
  <2> QED BY <2>3, <2>4, TwoParts
<1> QED BY <1>2, <1>3

\* A submit call moves without entering or leaving the queue.
LEMMA CallMoves ==
    ASSUME HeldInv, NEW r \in Requests, NEW pc, client[r] # "accepted",
           client' = [client EXCEPT ![r] = pc], UNCHANGED <<queue, running, deferred, outcome>>
    PROVE  HeldInv'
<1>1. HeldTypes' /\ Apart'
  BY DEF HeldInv, HeldTypes, Apart
<1>2. HeldArePending'
  <2>1. \A s \in Requests : client'[s] = IF s = r THEN pc ELSE client[s]
    BY DEF HeldInv, HeldTypes
  <2> QED BY <2>1 DEF HeldInv, HeldArePending
<1> QED BY <1>1, <1>2 DEF HeldInv

\* A step of the batcher's submit.
LEMMA SubmitHolds ==
    ASSUME HeldInv, NEW r \in Requests, Submit(r), UNCHANGED <<running, deferred, outcome>>
    PROVE  HeldInv'
<1>0. HeldTypes /\ Apart /\ HeldArePending
  BY DEF HeldInv
<1>1. CASE CheckStopping(r) \/ ShedLoad(r)
  <2>1. client[r] # "accepted" /\ UNCHANGED queue /\ \E pc : client' = [client EXCEPT ![r] = pc]
    BY <1>1 DEF CheckStopping, ShedLoad
  <2> QED BY <2>1, CallMoves
<1>2. CASE Enqueue(r)
  <2>1. client[r] = "put" /\ queue' = Append(queue, r) /\ client' = [client EXCEPT ![r] = "accepted"]
    BY <1>2 DEF Enqueue
  <2>2. \A s \in Requests : client'[s] = IF s = r THEN "accepted" ELSE client[s]
    BY <1>0, <2>1 DEF HeldTypes
  <2>3. ~Has(queue, r) /\ r \notin RequestsOf(running) /\ deferred # r /\ outcome[r] = "pending"
    BY <1>0, <2>1 DEF HeldArePending
  <2>4. queue \in Seq(Requests \cup {Sentinel}) /\ r \in Requests \cup {Sentinel}
    BY <1>0 DEF HeldTypes
  <2>5. \A s : Has(queue', s) <=> Has(queue, s) \/ s = r
    BY <2>1, <2>4, HasAppend
  <2>6. \A s \in Requests : Once(queue', s)
    BY <1>0, <2>1, <2>3, <2>4, OnceAppend DEF Apart
  <2>7. HeldTypes'
    <3>1. queue' \in Seq(Requests \cup {Sentinel})
      BY <2>1, <2>4, AppendProperties
    <3> QED BY <1>0, <2>1, <3>1 DEF HeldTypes
  <2>8. Apart'
    BY <1>0, <2>3, <2>5, <2>6 DEF Apart
  <2>9. HeldArePending'
    BY <1>0, <2>2, <2>3, <2>5 DEF HeldArePending
  <2> QED BY <2>7, <2>8, <2>9 DEF HeldInv
<1> QED BY <1>1, <1>2 DEF Submit

\* A step of the batcher's shutdown: at most a sentinel enters the queue.
LEMMA ShutdownHolds ==
    ASSUME HeldInv, NEW k \in Stoppers, Shutdown(k)
    PROVE  HeldInv'
<1>0. HeldTypes /\ Apart /\ HeldArePending
  BY DEF HeldInv
<1>1. UNCHANGED <<client, running, deferred, outcome>> /\ queue' \in {queue, Append(queue, Sentinel)}
  BY DEF Shutdown, CheckAlreadyStopping, SetStopping, PutSentinel, SentinelRefused, Join, JoinTimeout, schedVars
<1>2. CASE queue' = queue
  BY <1>0, <1>1, <1>2 DEF HeldInv, HeldTypes, Apart, HeldArePending
<1>3. CASE queue' = Append(queue, Sentinel)
  <2>1. queue \in Seq(Requests \cup {Sentinel}) /\ Sentinel \in Requests \cup {Sentinel} /\ Sentinel \notin Requests
    BY <1>0, QueueAssumption DEF HeldTypes
  <2>2. \A s \in Requests : Has(queue', s) <=> Has(queue, s)
    BY <1>3, <2>1, HasAppend
  <2>3. \A s \in Requests : Once(queue', s)
    BY <1>0, <1>3, <2>1, OnceAppend DEF Apart
  <2>4. HeldTypes'
    <3>1. queue' \in Seq(Requests \cup {Sentinel})
      BY <1>3, <2>1, AppendProperties
    <3> QED BY <1>0, <1>1, <3>1 DEF HeldTypes
  <2>5. Apart' /\ HeldArePending'
    BY <1>0, <1>1, <2>2, <2>3 DEF Apart, HeldArePending
  <2> QED BY <2>4, <2>5 DEF HeldInv
<1> QED BY <1>1, <1>2, <1>3

\* Settling the requests G of those the batcher held: the rest is held as before.
LEMMA SettleHeld ==
    ASSUME HeldInv, NEW G, NEW how \in Outcomes, Settle(G, how), UNCHANGED client,
           \A r \in Requests \cap G : Has(queue, r) \/ r \in RequestsOf(running) \/ deferred = r,
           \A r \in Requests : Has(queue, r)' \/ (r \in RequestsOf(running)') \/ deferred' = r
              => /\ Has(queue, r) \/ r \in RequestsOf(running) \/ deferred = r
                 /\ r \notin G
    PROVE  /\ HeldArePending' /\ SettlesPending
           /\ outcome' \in [Requests -> Outcomes \cup {"pending"}]
<1>1. \A r \in Requests : outcome'[r] = IF r \in G THEN how ELSE outcome[r]
  BY DEF Settle
<1>2. outcome' \in [Requests -> Outcomes \cup {"pending"}]
  BY DEF Settle, HeldInv, HeldTypes
<1>3. HeldArePending' /\ SettlesPending
  BY <1>1 DEF HeldInv, HeldArePending, SettlesPending
<1> QED BY <1>2, <1>3

\* Nothing is settled.
LEMMA SettleNone ==
    ASSUME HeldInv, UNCHANGED outcome
    PROVE  Settle({}, "expired")
BY DEF HeldInv, HeldTypes, Settle

\* _offer_to_cache, whatever the cache answers and evicts.
LEMMA OfferHolds ==
    ASSUME HeldInv, NEW r \in Requests, Offer(r), UNCHANGED client,
           Has(queue, r) \/ deferred = r, r \notin RequestsOf(running), deferred \in {r, NoRequest},
           queue' \in Seq(Requests \cup {Sentinel}), ~Has(queue', r),
           \A s \in Requests : Once(queue', s) /\ (Has(queue', s) => Has(queue, s))
    PROVE  HeldInv' /\ SettlesPending
<1>0. HeldTypes /\ Apart /\ HeldArePending /\ running \in Seq(Entries) /\ OneRow(running)
      /\ NoRequest \notin Requests
  BY BatcherAssumption DEF HeldInv, HeldTypes
<1>1. ASSUME NEW S, NEW e \in Entries, e.req = r, running' = Append(Without(running, S), e),
             Settle(RequestsOf(With(running, S)), "truncated"), deferred' = NoRequest
      PROVE  HeldInv' /\ SettlesPending
  <2>1. PICK stay : stay = Without(running, S)
    OBVIOUS
  <2>2. PICK G : G = RequestsOf(With(running, S))
    OBVIOUS
  <2>3. /\ stay \in Seq(Entries) /\ OneRow(stay) /\ RequestsOf(stay) \cap G = {}
        /\ RequestsOf(stay) \cup G = RequestsOf(running)
    BY <1>0, <2>1, <2>2, Parted
  <2>4. /\ running' \in Seq(Entries) /\ OneRow(running')
        /\ RequestsOf(running') = RequestsOf(stay) \cup {r}
    <3>1. e.req \notin RequestsOf(stay)
      BY <1>1, <2>3
    <3> QED BY <1>1, <2>1, <2>3, <3>1, NewRow
  <2>5. /\ HeldArePending' /\ SettlesPending
        /\ outcome' \in [Requests -> Outcomes \cup {"pending"}]
    <3>1. \A s \in Requests \cap G : Has(queue, s) \/ s \in RequestsOf(running) \/ deferred = s
      BY <2>3
    <3>2. \A s \in Requests : Has(queue', s) \/ s \in RequestsOf(running') \/ deferred' = s
             => /\ Has(queue, s) \/ s \in RequestsOf(running) \/ deferred = s
                /\ s \notin G
      BY <1>0, <1>1, <2>3, <2>4 DEF Apart
    <3>3. Settle(G, "truncated") /\ "truncated" \in Outcomes
      BY <1>1, <2>2 DEF Outcomes
    <3> QED BY <3>1, <3>2, <3>3, SettleHeld
  <2>6. HeldTypes'
    BY <1>0, <1>1, <2>4, <2>5 DEF HeldTypes
  <2>7. Apart'
    BY <1>0, <1>1, <2>3, <2>4 DEF Apart
  <2> QED BY <2>5, <2>6, <2>7 DEF HeldInv
<1>2. ASSUME Settle({r}, "rejected"), deferred' = NoRequest, UNCHANGED running
      PROVE  HeldInv' /\ SettlesPending
  <2>1. /\ HeldArePending' /\ SettlesPending
        /\ outcome' \in [Requests -> Outcomes \cup {"pending"}]
    <3>1. \A s \in Requests : Has(queue', s) \/ s \in RequestsOf(running') \/ deferred' = s
             => /\ Has(queue, s) \/ s \in RequestsOf(running) \/ deferred = s
                /\ s \notin {r}
      BY <1>0, <1>2
    <3>2. \A s \in Requests \cap {r} : Has(queue, s) \/ s \in RequestsOf(running) \/ deferred = s
      OBVIOUS
    <3>3. "rejected" \in Outcomes
      BY DEF Outcomes
    <3> QED BY <1>2, <3>1, <3>2, <3>3, SettleHeld
  <2>2. HeldTypes'
    BY <1>0, <1>2, <2>1 DEF HeldTypes
  <2>3. Apart'
    BY <1>0, <1>2 DEF Apart
  <2> QED BY <2>1, <2>2, <2>3 DEF HeldInv
<1>3. ASSUME deferred' = r, UNCHANGED <<running, outcome>>
      PROVE  HeldInv' /\ SettlesPending
  <2>1. HeldTypes' /\ SettlesPending
    BY <1>0, <1>3 DEF HeldTypes, SettlesPending
  <2>2. Apart' /\ HeldArePending'
    BY <1>0, <1>3 DEF Apart, HeldArePending
  <2> QED BY <2>1, <2>2 DEF HeldInv
<1>4. PICK o : \/ Granted(o) /\ Begin(r, o)
               \/ Reject(r)
               \/ Defer(r)
  BY DEF Offer
<1>5. CASE Begin(r, o)
  <2>1. PICK e : e = NewEntry(r, ids + 1)
    OBVIOUS
  <2>2. e \in Entries /\ e.req = r
    <3>1. ids + 1 \in Seqs
      BY DEF Offer
    <3> QED BY <2>1, <3>1 DEF NewEntry, Entries
  <2>3. /\ running' = Append(Without(running, o.preempted), e) /\ deferred' = NoRequest
        /\ Settle(RequestsOf(With(running, o.preempted)), "truncated")
    BY <1>5, <2>1 DEF Begin, Leave
  <2> QED BY <1>1, <2>2, <2>3
<1>6. CASE Reject(r)
  BY <1>2, <1>6 DEF Reject
<1>7. CASE Defer(r)
  BY <1>3, <1>7 DEF Defer
<1> QED BY <1>4, <1>5, <1>6, <1>7

\* Taking one item out of the queue.
LEMMA Dequeued ==
    ASSUME HeldInv, queue # <<>>, queue' = Tail(queue)
    PROVE  /\ Head(queue) \in Requests \cup {Sentinel} /\ queue' \in Seq(Requests \cup {Sentinel})
           /\ \A s \in Requests : Once(queue', s) /\ (Has(queue', s) => Has(queue, s))
           /\ Head(queue) \in Requests => Has(queue, Head(queue)) /\ ~Has(queue', Head(queue))
<1>1. queue \in Seq(Requests \cup {Sentinel}) /\ \A s \in Requests : Once(queue, s)
  BY DEF HeldInv, HeldTypes, Apart
<1>2. Head(queue) \in Requests \cup {Sentinel} /\ queue' \in Seq(Requests \cup {Sentinel})
  BY <1>1, TailShift
<1>3. \A s : Has(queue, s) <=> s = Head(queue) \/ Has(queue', s)
  BY <1>1, HasTail
<1>4. \A s \in Requests : Once(queue', s) /\ (s = Head(queue) => ~Has(queue', s))
  BY <1>1, OnceTail
<1> QED BY <1>2, <1>3, <1>4

\* A step of the scheduler keeps every request in one place, and settles what had no outcome.
LEMMA SchedulerHolds ==
    ASSUME HeldInv, Scheduler \/ RunnerRaises
    PROVE  HeldInv' /\ SettlesPending
<1>0. /\ HeldTypes /\ Apart /\ HeldArePending /\ running \in Seq(Entries) /\ OneRow(running)
      /\ NoRequest \notin Requests /\ Sentinel \notin Requests /\ UNCHANGED client
  BY BatcherAssumption, QueueAssumption, BatcherLeaves DEF HeldInv, HeldTypes
<1>1. ASSUME UNCHANGED <<queue, running, deferred, outcome>> PROVE HeldInv' /\ SettlesPending
  BY <1>0, <1>1 DEF HeldInv, HeldTypes, Apart, HeldArePending, SettlesPending
<1>2. CASE AdmitDeferred
  <2>1. deferred \in Requests /\ Offer(deferred) /\ UNCHANGED queue
    BY <1>0, <1>2 DEF AdmitDeferred, frontVars, HeldTypes
  <2>2. /\ deferred \notin RequestsOf(running) /\ ~Has(queue', deferred)
        /\ queue' \in Seq(Requests \cup {Sentinel})
        /\ \A s \in Requests : Once(queue', s) /\ (Has(queue', s) => Has(queue, s))
    BY <1>0, <2>1 DEF Apart, HeldTypes
  <2> QED BY <1>0, <2>1, <2>2, OfferHolds
<1>3. CASE AdmitNext
  <2>1. queue # <<>> /\ queue' = Tail(queue) /\ deferred = NoRequest
    BY <1>3 DEF AdmitNext
  <2>2. PICK h : h = Head(queue)
    OBVIOUS
  <2>3. /\ h \in Requests \cup {Sentinel} /\ queue' \in Seq(Requests \cup {Sentinel})
        /\ \A s \in Requests : Once(queue', s) /\ (Has(queue', s) => Has(queue, s))
        /\ h \in Requests => Has(queue, h) /\ ~Has(queue', h)
    BY <2>1, <2>2, Dequeued
  <2>4. \/ UNCHANGED <<running, deferred, outcome>>
        \/ h \in late /\ Settle({h}, "expired") /\ UNCHANGED <<running, deferred>>
        \/ h \in Requests /\ Offer(h)
    BY <1>3, <2>2 DEF AdmitNext
  <2>5. CASE UNCHANGED <<running, deferred, outcome>>
    BY <1>0, <2>3, <2>5 DEF HeldInv, HeldTypes, Apart, HeldArePending, SettlesPending
  <2>6. CASE Settle({h}, "expired") /\ UNCHANGED <<running, deferred>>
    <3>1. \A s \in Requests : Has(queue', s) \/ s \in RequestsOf(running') \/ deferred' = s
             => /\ Has(queue, s) \/ s \in RequestsOf(running) \/ deferred = s
                /\ s \notin {h}
      BY <1>0, <2>1, <2>3, <2>6 DEF Apart
    <3>2. \A s \in Requests \cap {h} : Has(queue, s) \/ s \in RequestsOf(running) \/ deferred = s
      BY <2>3
    <3>3. "expired" \in Outcomes
      BY DEF Outcomes
    <3>4. /\ HeldArePending' /\ SettlesPending
          /\ outcome' \in [Requests -> Outcomes \cup {"pending"}]
      BY <1>0, <2>6, <3>1, <3>2, <3>3, SettleHeld
    <3>5. HeldTypes' /\ Apart'
      BY <1>0, <2>3, <2>6, <3>4 DEF HeldTypes, Apart
    <3> QED BY <3>4, <3>5 DEF HeldInv
  <2>7. CASE h \in Requests /\ Offer(h)
    <3>1. h \notin RequestsOf(running) /\ deferred \in {h, NoRequest}
      BY <1>0, <2>1, <2>3, <2>7 DEF Apart
    <3> QED BY <1>0, <2>3, <2>7, <3>1, OfferHolds
  <2> QED BY <2>4, <2>5, <2>6, <2>7
<1>4. CASE AdmitDone \/ RunnerRaises
  BY <1>1, <1>4 DEF AdmitDone, RunnerRaises, frontVars
<1>5. ASSUME running' \in Seq(Entries), OneRow(running'), NEW G,
             RequestsOf(running') \cap G = {}, RequestsOf(running') \cup G = RequestsOf(running),
             NEW how \in Outcomes, Settle(G, how), UNCHANGED <<queue, deferred>>
      PROVE  HeldInv' /\ SettlesPending
  <2>1. \A s \in Requests : Has(queue', s) \/ s \in RequestsOf(running') \/ deferred' = s
           => /\ Has(queue, s) \/ s \in RequestsOf(running) \/ deferred = s
              /\ s \notin G
    BY <1>0, <1>5 DEF Apart
  <2>2. \A s \in Requests \cap G : Has(queue, s) \/ s \in RequestsOf(running) \/ deferred = s
    BY <1>5
  <2>3. /\ HeldArePending' /\ SettlesPending
        /\ outcome' \in [Requests -> Outcomes \cup {"pending"}]
    BY <1>0, <1>5, <2>1, <2>2, SettleHeld
  <2>4. HeldTypes' /\ Apart'
    BY <1>0, <1>5, <2>3 DEF HeldTypes, Apart
  <2> QED BY <2>3, <2>4 DEF HeldInv
<1>6. ASSUME NEW e \in Entries, NEW eos
      PROVE  /\ Sampled(e, eos) \in Entries /\ Sampled(e, eos).req = e.req
  <2>1. (e.made + 1 >= MaxNewTokens[e.req]) \in BOOLEAN
    OBVIOUS
  <2>2. PICK b \in BOOLEAN : b = (e.made + 1 >= MaxNewTokens[e.req])
    BY <2>1
  <2>3. Sampled(e, eos) = IF e.id \in eos THEN [e EXCEPT !.finished = TRUE]
                          ELSE [e EXCEPT !.made = @ + 1, !.finished = b]
    BY <2>2 DEF Sampled
  <2>4. e \in [req : Requests, id : Seqs, made : Nat, finished : BOOLEAN]
    BY DEF Entries
  <2>5. [e EXCEPT !.finished = TRUE] \in Entries /\ [e EXCEPT !.finished = TRUE].req = e.req
    BY <2>4 DEF Entries
  <2>6. PICK m \in Nat : m = e.made + 1
    BY <2>4
  <2>7. [e EXCEPT !.made = m, !.finished = b] \in Entries /\ [e EXCEPT !.made = m, !.finished = b].req = e.req
    BY <2>4 DEF Entries
  <2> QED BY <2>3, <2>5, <2>6, <2>7
<1>7. CASE Start
  <2>1. PICK eos : running' = [i \in DOMAIN running |-> Prefilled(running[i], eos)]
    BY <1>7 DEF Start, PrefillAdmitted
  <2>2. \A i \in DOMAIN running : running[i] \in Entries
    BY <1>0
  <2>3. \A i \in DOMAIN running : running'[i] \in {running[i], Sampled(running[i], eos)}
    BY <2>1 DEF Prefilled
  <2>4. \A i, j \in DOMAIN running : running[i] = running[j] => running'[i] = running'[j]
    BY <2>1
  <2>5. running' = [i \in DOMAIN running |-> running'[i]]
    BY <2>1
  <2>6. \A i \in DOMAIN running : running'[i] \in Entries /\ running'[i].req = running[i].req
    BY <1>6, <2>2, <2>3
  <2>7. running' \in Seq(Entries) /\ OneRow(running') /\ RequestsOf(running') = RequestsOf(running)
    BY <1>0, <2>4, <2>5, <2>6, SameRows
  <2>8. UNCHANGED <<queue, deferred, outcome>>
    BY <1>7 DEF Start, PrefillAdmitted, frontVars
  <2>9. Settle({}, "expired") /\ "expired" \in Outcomes
    BY <2>8, SettleNone DEF Outcomes
  <2> QED BY <1>5, <2>7, <2>8, <2>9
<1>8. CASE ReserveStep
  <2>1. PICK S : running' = Without(running, S) /\ Settle(RequestsOf(With(running, S)), "truncated")
    <3>1. PICK after : /\ running' = Without(running, after.lost)
                       /\ Leave(after.cache, runner, With(running, after.lost), "truncated")
      BY <1>8 DEF ReserveStep
    <3> QED BY <3>1 DEF Leave
  <2>2. UNCHANGED <<queue, deferred>> /\ "truncated" \in Outcomes
    BY <1>8 DEF ReserveStep, frontVars, Outcomes
  <2>3. /\ running' \in Seq(Entries) /\ OneRow(running')
        /\ RequestsOf(running') \cap RequestsOf(With(running, S)) = {}
        /\ RequestsOf(running') \cup RequestsOf(With(running, S)) = RequestsOf(running)
    BY <1>0, <2>1, Parted
  <2> QED BY <1>5, <2>1, <2>2, <2>3
<1>9. CASE DecodeAndRetire
  <2>1. PICK eos, run : /\ run = [i \in DOMAIN running |-> IF running[i].id \in Reached
                                     THEN Sampled(running[i], eos) ELSE running[i]]
                        /\ running' = Unfinished(run)
                        /\ Leave(cache, DecodeStep(runner, Reached), Finished(run), "finished")
    BY <1>9 DEF DecodeAndRetire
  <2>2. /\ run = [i \in DOMAIN running |-> run[i]]
        /\ \A i, j \in DOMAIN running : running[i] = running[j] => run[i] = run[j]
        /\ \A i \in DOMAIN running : run[i] \in {running[i], Sampled(running[i], eos)}
    BY <2>1
  <2>3. \A i \in DOMAIN running : running[i] \in Entries
    BY <1>0
  <2>4. \A i \in DOMAIN running : run[i] \in Entries /\ run[i].req = running[i].req
    BY <1>6, <2>2, <2>3
  <2>5. run \in Seq(Entries) /\ OneRow(run) /\ RequestsOf(run) = RequestsOf(running)
    BY <1>0, <2>2, <2>4, SameRows
  <2>6. Settle(RequestsOf(Finished(run)), "finished") /\ "finished" \in Outcomes
    BY <2>1 DEF Leave, Outcomes
  <2>7. UNCHANGED <<queue, deferred>>
    BY <1>9 DEF DecodeAndRetire, frontVars
  <2>8. /\ running' \in Seq(Entries) /\ OneRow(running')
        /\ RequestsOf(running') \cap RequestsOf(Finished(run)) = {}
        /\ RequestsOf(running') \cup RequestsOf(Finished(run)) = RequestsOf(running)
    BY <2>1, <2>5, Parted
  <2> QED BY <1>5, <2>6, <2>7, <2>8
<1> QED BY <1>2, <1>3, <1>4, <1>7, <1>8, <1>9 DEF Scheduler

\* The first state.
LEMMA InitHeldInv == EngineInit => HeldInv
<1> SUFFICES ASSUME EngineInit PROVE HeldInv
  OBVIOUS
<1>1. PICK at : /\ queue = <<>> /\ running = <<>> /\ deferred = NoRequest
                /\ client = [r \in Requests |-> at] /\ outcome = [r \in Requests |-> "pending"]
  BY DEF EngineInit, Init, InitAt
<1>2. <<>> \in Seq(Entries) /\ <<>> \in Seq(Requests \cup {Sentinel}) /\ Len(<<>>) = 0 /\ DOMAIN <<>> = {}
  OBVIOUS
<1>3. /\ \A y : ~Has(<<>>, y) /\ Once(<<>>, y)
      /\ OneRow(<<>>) /\ RequestsOf(<<>>) = {}
  BY <1>2 DEF Has, Once, OneRow, RequestsOf
<1>4. NoRequest \notin Requests
  BY BatcherAssumption
<1>5. HeldTypes
  BY <1>1, <1>2, <1>3 DEF HeldTypes, Outcomes
<1>6. Apart /\ HeldArePending
  BY <1>1, <1>3, <1>4 DEF Apart, HeldArePending
<1> QED BY <1>5, <1>6 DEF HeldInv

\* Steps that leave the batcher alone.
LEMMA StillHeld ==
    ASSUME HeldInv, UNCHANGED <<queue, running, deferred, outcome, client>>
    PROVE  HeldInv'
BY DEF HeldInv, HeldTypes, Apart, HeldArePending

\* Every step, with an engine or without, keeps a request in one place.
LEMMA NextHeldInv == HeldInv /\ [EngineNext]_allVars => HeldInv'
<1> SUFFICES ASSUME HeldInv, [EngineNext]_allVars PROVE HeldInv'
  OBVIOUS
<1>1. CASE UNCHANGED allVars
  BY <1>1, StillHeld DEF allVars, vars, frontVars, schedVars
<1>2. ASSUME NEW r \in Requests, DeadlinePasses(r) PROVE HeldInv'
  BY <1>2, StillHeld DEF DeadlinePasses, frontVars
<1>3. CASE DirectStep
  <2>1. ASSUME NEW r \in Requests, SubmitRequest(r) PROVE HeldInv'
    BY <2>1, SubmitHolds DEF SubmitRequest, schedVars
  <2> QED BY <1>2, <1>3, <2>1, ShutdownHolds, SchedulerHolds DEF DirectStep, Next
<1>4. ASSUME NEW r \in Requests, Client(r) PROVE HeldInv'
  <2>1. CASE CheckClosed(r) \/ Register(r) \/ Withdraw(r)
    <3>1. /\ client[r] # "accepted" /\ UNCHANGED <<queue, running, deferred, outcome>>
          /\ \E pc : client' = [client EXCEPT ![r] = pc]
      BY <2>1 DEF CheckClosed, Register, Withdraw, schedVars
    <3> QED BY <3>1, CallMoves
  <2>2. CASE SubmitCounted(r)
    BY <2>2, SubmitHolds DEF SubmitCounted, schedVars
  <2> QED BY <1>4, <2>1, <2>2 DEF Client
<1>5. ASSUME NEW r \in Requests, Cancel(r) PROVE HeldInv'
  BY <1>5, StillHeld DEF Cancel, vars, frontVars, schedVars
<1>6. CASE SchedulerThread
  <2>1. CASE BatcherStep
    BY <2>1, SchedulerHolds DEF BatcherStep
  <2>2. CASE (\E r \in Requests : Callback(r)) \/ SetResult
    <3>1. UNCHANGED <<queue, running, deferred, outcome, client>>
      BY <2>2 DEF Callback, SetResult, vars, frontVars, schedVars
    <3> QED BY <3>1, StillHeld
  <2> QED BY <1>6, <2>1, <2>2 DEF SchedulerThread
<1>7. ASSUME NEW k \in Stoppers, Stopper(k) PROVE HeldInv'
  <2>1. CASE ShutdownBatcher(k)
    BY <2>1, ShutdownHolds DEF ShutdownBatcher
  <2>2. CASE ~ShutdownBatcher(k)
    <3>1. UNCHANGED <<queue, running, deferred, outcome, client>>
      BY <1>7, <2>2 DEF Stopper, CallShutdown, SetClosed, TakeOutstanding, LookAt, SetException,
                        ShutdownReturns, vars, frontVars, schedVars
    <3> QED BY <3>1, StillHeld
  <2> QED BY <2>1, <2>2
<1> QED BY <1>1, <1>2, <1>3, <1>4, <1>5, <1>6, <1>7 DEF EngineNext, EngineStep

\* At every moment a request is in the queue, in one row or deferred, or has an outcome.
THEOREM HeldInvariance == EngineSpec => []HeldInv
BY InitHeldInv, NextHeldInv, PTL DEF EngineSpec

-----------------------------------------------------------------------------
(* The counters add up.                                                    *)

CountsRecord == [received : Nat, rejected : Nat, expired : Nat, completed : Nat, failed : Nat]

Shed == Turned({"full"})
TurnedAway == Turned({"full", "stopping"})
Expired == {r \in Requests : outcome[r] = "expired"}
Answered == {r \in Requests : outcome[r] \notin {"pending", "expired"} /\ r \notin due}

\* A set_result that may still fail.
MayFail == IF setting["scheduler"] # NoRequest /\ outcome[setting["scheduler"]] # "expired" THEN 1 ELSE 0

\* Each counter counts the requests it is about: an expiry when the batcher reports it, a
\* completion when its callback runs.
CountsExact ==
    /\ counts \in CountsRecord
    /\ due \subseteq Requests /\ \A r \in due : outcome[r] # "pending"
    /\ counts.expired = Cardinality(Expired)
    /\ counts.completed = Cardinality(Answered)
    /\ counts.received = Cardinality(Received) + Cardinality(Shed)
    /\ counts.rejected = Cardinality(TurnedAway)
    /\ counts.failed + MayFail <= counts.completed

\* Who was turned away is not in the engine, and is not turned away again.
RefusalKnown ==
    /\ refusal \in [Requests -> {"none", "stopping", "full"}]
    /\ \A r \in TurnedAway : client[r] \in {"refused", "raised"}

CountsInv == CountsExact /\ RefusalKnown

\* Incrementing one counter.
LEMMA Counting ==
    ASSUME counts \in CountsRecord, NEW n \in Nat,
           NEW field \in {"received", "rejected", "expired", "completed", "failed"}, Count(field, n)
    PROVE  /\ counts' \in CountsRecord
           /\ counts'.received = counts.received + (IF field = "received" THEN n ELSE 0)
           /\ counts'.rejected = counts.rejected + (IF field = "rejected" THEN n ELSE 0)
           /\ counts'.expired = counts.expired + (IF field = "expired" THEN n ELSE 0)
           /\ counts'.completed = counts.completed + (IF field = "completed" THEN n ELSE 0)
           /\ counts'.failed = counts.failed + (IF field = "failed" THEN n ELSE 0)
BY DEF Count, CountsRecord

\* Sets of requests are finite.
LEMMA RequestSets ==
    ASSUME NEW S, S \subseteq Requests
    PROVE  IsFiniteSet(S) /\ Cardinality(S) \in Nat
BY QueueAssumption, FS_Subset, FS_CardinalityType

\* One request more.
LEMMA OneMore ==
    ASSUME NEW S, S \subseteq Requests, NEW r \in Requests, r \notin S
    PROVE  Cardinality(S \cup {r}) = Cardinality(S) + 1
BY RequestSets, FS_AddElement

\* Steps that count nothing.
LEMMA CountsKept ==
    ASSUME CountsInv, UNCHANGED <<outcome, due, counts, refusal>>, Received' = Received,
           \A r \in Requests : client[r] \in {"refused", "raised"} => client'[r] \in {"refused", "raised"},
           setting'["scheduler"] = setting["scheduler"]
    PROVE  CountsInv'
<1>1. Expired' = Expired /\ Answered' = Answered /\ MayFail' = MayFail
  BY DEF Expired, Answered, MayFail
<1>2. Shed' = Shed /\ TurnedAway' = TurnedAway /\ TurnedAway \subseteq Requests
  BY DEF Shed, TurnedAway, Turned
<1>3. CountsExact'
  BY <1>1, <1>2 DEF CountsInv, CountsExact
<1>4. RefusalKnown'
  BY <1>2 DEF CountsInv, RefusalKnown
<1> QED BY <1>3, <1>4 DEF CountsInv

\* A refused submit call: the request is counted as rejected, and is no longer received if
\* it was the queue that had no room.
LEMMA RefusalCounts ==
    ASSUME ServeInv, deployed = "engine", CountsInv, NEW r \in Requests, SubmitCounted(r),
           CheckStopping(r) \/ ShedLoad(r), client'[r] = "refused"
    PROVE  CountsInv'
<1>0. client = [s \in Requests |-> client[s]] /\ refusal \in [Requests -> {"none", "stopping", "full"}]
  BY DEF ServeInv, ServeTypes, CountsInv, RefusalKnown
<1>1. /\ UNCHANGED <<outcome, due, setting>> /\ client' = [client EXCEPT ![r] = "refused"]
      /\ client[r] = "put" \/ client[r] = "stopping"
  BY <1>0 DEF SubmitCounted, CheckStopping, ShedLoad, schedVars
<1>2. refusal' = [refusal EXCEPT ![r] = IF client[r] = "put" THEN "full" ELSE "stopping"]
  BY DEF SubmitCounted
<1>3. Expired' = Expired /\ Answered' = Answered /\ MayFail' = MayFail
  BY <1>1 DEF Expired, Answered, MayFail
<1>4. Count("rejected", 1)
  BY DEF SubmitCounted
<1>5. counts \in CountsRecord
  BY DEF CountsInv, CountsExact
<1>6. /\ counts' \in CountsRecord /\ counts'.rejected = counts.rejected + 1
      /\ counts'.received = counts.received + 0 /\ counts'.expired = counts.expired + 0
      /\ counts'.completed = counts.completed + 0 /\ counts'.failed = counts.failed + 0
  BY <1>4, <1>5, Counting
<1>7. /\ counts'.received = counts.received /\ counts'.expired = counts.expired
      /\ counts'.completed = counts.completed /\ counts'.failed = counts.failed
  BY <1>5, <1>6 DEF CountsRecord
<1>8. r \notin TurnedAway /\ r \notin Shed /\ TurnedAway \subseteq Requests /\ Shed \subseteq TurnedAway
  BY <1>1 DEF CountsInv, RefusalKnown, TurnedAway, Shed, Turned
<1>9. TurnedAway' = TurnedAway \cup {r}
  BY <1>0, <1>2 DEF TurnedAway, Turned
<1>10. counts'.rejected = Cardinality(TurnedAway')
  <2>1. Cardinality(TurnedAway') = Cardinality(TurnedAway) + 1
    BY <1>8, <1>9, OneMore
  <2>2. counts.rejected = Cardinality(TurnedAway)
    BY DEF CountsInv, CountsExact
  <2> QED BY <1>6, <2>1, <2>2
<1>11. counts'.received = Cardinality(Received') + Cardinality(Shed')
  <2>1. counts.received = Cardinality(Received) + Cardinality(Shed)
    BY DEF CountsInv, CountsExact
  <2>2. CASE client[r] = "stopping"
    <3>1. Received' = Received /\ Shed' = Shed
      BY <1>0, <1>1, <1>2, <1>8, <2>2 DEF Received, Shed, Turned
    <3> QED BY <1>7, <2>1, <3>1
  <2>3. CASE client[r] = "put"
    <3>1. Shed' = Shed \cup {r} /\ Received = Received' \cup {r} /\ r \notin Received'
      BY <1>0, <1>1, <1>2, <2>3 DEF Received, Shed, Turned
    <3>2. Received \subseteq Requests /\ Received' \subseteq Requests /\ Shed \subseteq Requests
      BY DEF Received, Shed, Turned
    <3>3. Cardinality(Shed') = Cardinality(Shed) + 1
      BY <1>8, <3>1, <3>2, OneMore
    <3>4. Cardinality(Received) = Cardinality(Received') + 1
      BY <3>1, <3>2, OneMore
    <3>5. Cardinality(Received') \in Nat /\ Cardinality(Shed) \in Nat
      BY <3>2, RequestSets
    <3> QED BY <1>7, <2>1, <3>3, <3>4, <3>5
  <2> QED BY <1>1, <2>2, <2>3
<1>12. RefusalKnown'
  <2>1. refusal' \in [Requests -> {"none", "stopping", "full"}]
    BY <1>0, <1>2
  <2>2. \A s \in TurnedAway' : client'[s] \in {"refused", "raised"}
    <3>1. \A s \in TurnedAway : client[s] \in {"refused", "raised"}
      BY DEF CountsInv, RefusalKnown
    <3> QED BY <1>0, <1>1, <1>8, <1>9, <3>1
  <2> QED BY <2>1, <2>2 DEF RefusalKnown
<1>13. CountsExact'
  BY <1>1, <1>3, <1>6, <1>7, <1>10, <1>11 DEF CountsInv, CountsExact
<1> QED BY <1>12, <1>13 DEF CountsInv

\* A step of a submit call: received is counted with the put.
LEMMA ClientCounts ==
    ASSUME ServeInv, deployed = "engine", CountsInv, NEW r \in Requests, Client(r)
    PROVE  CountsInv'
<1>0. client = [s \in Requests |-> client[s]] /\ refusal \in [Requests -> {"none", "stopping", "full"}]
  BY DEF ServeInv, ServeTypes, CountsInv, RefusalKnown
<1>1. CASE CheckClosed(r) \/ Register(r) \/ Withdraw(r)
  <2>1. /\ \/ client[r] \in {"idle", "register"} /\ client' = [client EXCEPT ![r] = "stopping"]
           \/ client[r] = "idle" /\ client' = [client EXCEPT ![r] = "register"]
           \/ client[r] \in {"idle", "refused"} /\ client' = [client EXCEPT ![r] = "raised"]
        /\ UNCHANGED <<outcome, due, counts, setting, refusal>>
    BY <1>1 DEF CheckClosed, Register, Withdraw, schedVars, serveVars
  <2>2. Received' = Received
    BY <1>0, <2>1 DEF Received
  <2>3. \A s \in Requests : client[s] \in {"refused", "raised"} => client'[s] \in {"refused", "raised"}
    BY <1>0, <2>1
  <2> QED BY <2>1, <2>2, <2>3, CountsKept
<1>2. CASE SubmitCounted(r)
  <2>1. /\ UNCHANGED <<outcome, due, setting>>
        /\ refusal' = [refusal EXCEPT ![r] = IF client'[r] # "refused" THEN @
                                            ELSE IF client[r] = "put" THEN "full" ELSE "stopping"]
    BY <1>2 DEF SubmitCounted, schedVars
  <2>2. Expired' = Expired /\ Answered' = Answered /\ MayFail' = MayFail
    BY <2>1 DEF Expired, Answered, MayFail
  <2>3. counts \in CountsRecord /\ counts.received = Cardinality(Received) + Cardinality(Shed)
    BY DEF CountsInv, CountsExact
  <2>4. /\ Received \subseteq Requests /\ Cardinality(Received) \in Nat
        /\ Shed \subseteq Requests /\ Cardinality(Shed) \in Nat
    BY RequestSets DEF Received, Shed, Turned
  <2>5. CASE client'[r] = "put"
    <3>1. Count("received", 1)
      BY <1>2, <2>5 DEF SubmitCounted
    <3>2. client[r] = "stopping" /\ client' = [client EXCEPT ![r] = "put"] /\ UNCHANGED refusal
      BY <1>0, <1>2, <2>1, <2>5 DEF SubmitCounted, Submit, CheckStopping, Enqueue, ShedLoad
    <3>3. Received' = Received \cup {r} /\ r \notin Received
      BY <1>0, <3>2 DEF Received
    <3>4. Cardinality(Received') = Cardinality(Received) + 1
      BY <2>4, <3>3, OneMore
    <3>5. /\ counts' \in CountsRecord /\ counts'.received = counts.received + 1
          /\ counts'.rejected = counts.rejected + 0
          /\ counts'.expired = counts.expired + 0 /\ counts'.completed = counts.completed + 0
          /\ counts'.failed = counts.failed + 0
      BY <2>3, <3>1, Counting
    <3>6. /\ counts'.expired = counts.expired /\ counts'.completed = counts.completed
          /\ counts'.failed = counts.failed /\ counts'.rejected = counts.rejected
      BY <2>3, <3>5 DEF CountsRecord
    <3>7. Shed' = Shed /\ TurnedAway' = TurnedAway /\ TurnedAway \subseteq Requests
      BY <3>2 DEF Shed, TurnedAway, Turned
    <3>8. counts'.received = Cardinality(Received') + Cardinality(Shed')
      BY <2>3, <2>4, <3>4, <3>5, <3>7
    <3>9. CountsExact'
      BY <2>1, <2>2, <3>5, <3>6, <3>7, <3>8 DEF CountsInv, CountsExact
    <3>10. RefusalKnown'
      BY <1>0, <3>2, <3>7 DEF CountsInv, RefusalKnown
    <3> QED BY <3>9, <3>10 DEF CountsInv
  <2>6. CASE Enqueue(r)
    <3>1. client[r] = "put" /\ client' = [client EXCEPT ![r] = "accepted"] /\ UNCHANGED refusal
      BY <1>0, <2>1, <2>6 DEF Enqueue
    <3>2. Count("rejected", 0)
      BY <1>0, <1>2, <3>1 DEF SubmitCounted
    <3>3. UNCHANGED counts
      <4>1. counts.rejected + 0 = counts.rejected /\ counts = [counts EXCEPT !["rejected"] = counts.rejected]
        BY <2>3 DEF CountsRecord
      <4> QED BY <3>2, <4>1 DEF Count
    <3>4. Received' = Received
      BY <1>0, <3>1 DEF Received
    <3>5. \A s \in Requests : client[s] \in {"refused", "raised"} => client'[s] \in {"refused", "raised"}
      BY <1>0, <3>1
    <3> QED BY <2>1, <3>1, <3>3, <3>4, <3>5, CountsKept
  <2>7. CASE client'[r] # "put" /\ ~Enqueue(r)
    <3>1. CheckStopping(r) \/ ShedLoad(r)
      BY <1>2, <2>7 DEF SubmitCounted, Submit
    <3>2. client'[r] = "refused"
      BY <1>0, <2>7, <3>1 DEF CheckStopping, ShedLoad
    <3> QED BY <1>2, <3>1, <3>2, RefusalCounts
  <2> QED BY <2>5, <2>6, <2>7
<1> QED BY <1>1, <1>2 DEF Client

\* A step of the batcher: what it settles gets due, and what it expires is counted.
LEMMA BatcherCounts ==
    ASSUME ServeInv, HeldInv, CountsInv, BatcherStep
    PROVE  CountsInv'
<1>1. SettlesPending
  BY SchedulerHolds DEF BatcherStep
<1>2. /\ due = {} /\ setting["scheduler"] = NoRequest /\ due' = {r \in Requests : outcome'[r] # outcome[r]}
      /\ UNCHANGED setting
  BY DEF BatcherStep, CallbacksDone
<1>3. UNCHANGED <<client, refusal>>
  BY BatcherLeaves DEF BatcherStep
<1>4. PICK E : E = {r \in due' : outcome'[r] = "expired"}
  OBVIOUS
<1>5. Count("expired", Cardinality(E))
  BY <1>4 DEF BatcherStep
<1>6. E \subseteq Requests /\ Expired \subseteq Requests /\ Expired \cap E = {} /\ Expired' = Expired \cup E
  BY <1>1, <1>2, <1>4 DEF Expired, SettlesPending
<1>7. Cardinality(Expired') = Cardinality(Expired) + Cardinality(E) /\ Cardinality(E) \in Nat
  BY <1>6, RequestSets, UnionSize
<1>8. Answered' = Answered
  BY <1>1, <1>2 DEF Answered, SettlesPending
<1>9. MayFail' = MayFail /\ Received' = Received /\ Shed' = Shed /\ TurnedAway' = TurnedAway
  BY <1>2, <1>3 DEF MayFail, Received, Shed, TurnedAway, Turned
<1>10. counts \in CountsRecord
  BY DEF CountsInv, CountsExact
<1>11. /\ counts' \in CountsRecord /\ counts'.received = counts.received + 0
       /\ counts'.rejected = counts.rejected + 0
       /\ counts'.expired = counts.expired + Cardinality(E) /\ counts'.completed = counts.completed + 0
       /\ counts'.failed = counts.failed + 0
  BY <1>5, <1>7, <1>10, Counting
<1>12. /\ counts'.received = counts.received /\ counts'.completed = counts.completed
       /\ counts'.failed = counts.failed /\ counts'.rejected = counts.rejected
  BY <1>10, <1>11 DEF CountsRecord
<1>13. \A r \in due' : outcome'[r] # "pending"
  BY <1>1, <1>2 DEF SettlesPending
<1>14. due' \subseteq Requests
  BY <1>2
<1>15. CountsExact'
  BY <1>7, <1>8, <1>9, <1>11, <1>12, <1>13, <1>14 DEF CountsInv, CountsExact
<1>16. RefusalKnown'
  BY <1>3, <1>9 DEF CountsInv, RefusalKnown
<1> QED BY <1>15, <1>16 DEF CountsInv

\* A callback: a completion is counted whether or not the future is still there.
LEMMA CallbackCounts ==
    ASSUME ServeInv, deployed = "engine", CountsInv, NEW r \in Requests, Callback(r)
    PROVE  CountsInv'
<1>0. /\ "scheduler" \in Threads /\ setting \in [Threads -> Requests \cup {NoRequest}]
      /\ counts \in CountsRecord /\ due \subseteq Requests
  BY DEF ServeInv, ServeTypes, Threads, CountsInv, CountsExact
<1>1. /\ r \in due /\ setting["scheduler"] = NoRequest /\ due' = due \ {r}
      /\ UNCHANGED <<outcome, client, refusal>>
      /\ setting'["scheduler"] \in {r, NoRequest}
  BY <1>0 DEF Callback, vars, frontVars, schedVars
<1>2. PICK n : n = (IF outcome[r] = "expired" THEN 0 ELSE 1)
  OBVIOUS
<1>3. n \in Nat /\ n \in {0, 1} /\ Count("completed", n)
  BY <1>2 DEF Callback
<1>4. /\ counts' \in CountsRecord /\ counts'.received = counts.received + 0
      /\ counts'.rejected = counts.rejected + 0
      /\ counts'.expired = counts.expired + 0 /\ counts'.completed = counts.completed + n
      /\ counts'.failed = counts.failed + 0
  BY <1>0, <1>3, Counting
<1>5. /\ counts'.received = counts.received /\ counts'.expired = counts.expired
      /\ counts'.failed = counts.failed /\ counts'.rejected = counts.rejected
  BY <1>0, <1>4 DEF CountsRecord
<1>6. outcome[r] # "pending" /\ r \notin Answered /\ Answered \subseteq Requests
  BY <1>1 DEF CountsInv, CountsExact, Answered
<1>7. Cardinality(Answered') = Cardinality(Answered) + n /\ Cardinality(Answered) \in Nat
  <2>1. Cardinality(Answered) \in Nat
    BY <1>6, RequestSets
  <2>2. CASE n = 0
    <3>1. Answered' = Answered
      BY <1>1, <1>2, <2>2 DEF Answered
    <3> QED BY <2>1, <2>2, <3>1
  <2>3. CASE n = 1
    <3>1. Answered' = Answered \cup {r}
      BY <1>1, <1>2, <1>6, <2>3 DEF Answered
    <3> QED BY <1>6, <2>1, <2>3, <3>1, OneMore
  <2> QED BY <1>3, <2>2, <2>3
<1>8. /\ Expired' = Expired /\ Received' = Received /\ Shed' = Shed /\ TurnedAway' = TurnedAway
  BY <1>1 DEF Expired, Received, Shed, TurnedAway, Turned
<1>9. counts'.failed + MayFail' <= counts'.completed
  <2>1. MayFail = 0 /\ MayFail' \in {0, 1} /\ MayFail' <= n
    <3>1. MayFail = 0
      BY <1>1 DEF MayFail
    <3>2. MayFail' = 0 \/ (MayFail' = 1 /\ n = 1)
      BY <1>1, <1>2 DEF MayFail
    <3> QED BY <1>3, <3>1, <3>2
  <2>2. counts.failed + MayFail <= counts.completed /\ counts.failed \in Nat /\ counts.completed \in Nat
    BY DEF CountsInv, CountsExact, CountsRecord
  <2> QED BY <1>3, <1>4, <1>5, <2>1, <2>2
<1>10. due' \subseteq Requests /\ \A s \in due' : outcome'[s] # "pending"
  BY <1>0, <1>1 DEF CountsInv, CountsExact
<1>11. CountsExact'
  BY <1>4, <1>5, <1>7, <1>8, <1>9, <1>10 DEF CountsInv, CountsExact
<1>12. RefusalKnown'
  BY <1>1, <1>8 DEF CountsInv, RefusalKnown
<1> QED BY <1>11, <1>12 DEF CountsInv

\* set_result: it fails at most once per completion that was counted.
LEMMA ResultCounts ==
    ASSUME ServeInv, deployed = "engine", CountsInv, SetResult
    PROVE  CountsInv'
<1>0. /\ "scheduler" \in Threads /\ setting \in [Threads -> Requests \cup {NoRequest}]
      /\ counts \in CountsRecord /\ counts.failed \in Nat /\ counts.completed \in Nat
      /\ counts.failed + MayFail <= counts.completed
  BY DEF ServeInv, ServeTypes, Threads, CountsInv, CountsExact, CountsRecord
<1>1. /\ setting'["scheduler"] = NoRequest /\ UNCHANGED <<outcome, client, due, refusal>>
      /\ setting["scheduler"] # NoRequest
  BY <1>0 DEF SetResult, vars, frontVars, schedVars
<1>2. /\ Expired' = Expired /\ Received' = Received /\ Answered' = Answered /\ MayFail' = 0
      /\ Shed' = Shed /\ TurnedAway' = TurnedAway
  BY <1>1 DEF Expired, Received, Answered, MayFail, Shed, TurnedAway, Turned
<1>5. RefusalKnown'
  BY <1>1, <1>2 DEF CountsInv, RefusalKnown
<1>3. CASE UNCHANGED counts
  <2>1. MayFail \in {0, 1}
    BY DEF MayFail
  <2>2. counts'.failed + MayFail' <= counts'.completed
    BY <1>0, <1>2, <1>3, <2>1
  <2>3. CountsExact'
    BY <1>1, <1>2, <1>3, <2>2 DEF CountsInv, CountsExact
  <2> QED BY <1>5, <2>3 DEF CountsInv
<1>4. CASE Count("failed", IF outcome[setting["scheduler"]] = "expired" THEN 0 ELSE 1)
  <2>1. MayFail \in {0, 1} /\ Count("failed", MayFail)
    BY <1>1, <1>4 DEF MayFail
  <2>2. /\ counts' \in CountsRecord /\ counts'.received = counts.received + 0
        /\ counts'.rejected = counts.rejected + 0
        /\ counts'.expired = counts.expired + 0 /\ counts'.completed = counts.completed + 0
        /\ counts'.failed = counts.failed + MayFail
    BY <1>0, <2>1, Counting
  <2>3. /\ counts'.received = counts.received /\ counts'.expired = counts.expired
        /\ counts'.completed = counts.completed /\ counts'.rejected = counts.rejected
    BY <1>0, <2>2 DEF CountsRecord
  <2>4. counts'.failed + MayFail' <= counts'.completed
    BY <1>0, <1>2, <2>1, <2>2, <2>3
  <2>5. CountsExact'
    BY <1>1, <1>2, <2>2, <2>3, <2>4 DEF CountsInv, CountsExact
  <2> QED BY <1>5, <2>5 DEF CountsInv
<1> QED BY <1>3, <1>4 DEF SetResult

\* A new engine has counted nothing.
LEMMA InitCounts == EngineInit => (deployed = "engine" => CountsInv)
<1> SUFFICES ASSUME EngineInit, deployed = "engine" PROVE CountsInv
  OBVIOUS
<1>1. /\ client = [r \in Requests |-> "idle"] /\ outcome = [r \in Requests |-> "pending"]
      /\ due = {} /\ setting = [t \in Threads |-> NoRequest]
      /\ counts = [received |-> 0, rejected |-> 0, expired |-> 0, completed |-> 0, failed |-> 0]
      /\ refusal = [r \in Requests |-> "none"]
  BY DEF EngineInit, InitAt
<1>2. Received = {} /\ Expired = {} /\ Answered = {} /\ Shed = {} /\ TurnedAway = {}
  BY <1>1 DEF Received, Expired, Answered, Shed, TurnedAway, Turned
<1>3. Cardinality({}) = 0
  BY FS_EmptySet
<1>4. MayFail = 0
  BY <1>1 DEF MayFail, Threads
<1>5. counts \in CountsRecord
  BY <1>1 DEF CountsRecord
<1>6. /\ counts.expired = 0 /\ counts.completed = 0 /\ counts.received = 0 /\ counts.failed = 0
      /\ counts.rejected = 0
  BY <1>1
<1>7. /\ counts.received = Cardinality(Received) + Cardinality(Shed)
      /\ counts.failed + MayFail <= counts.completed
  BY <1>2, <1>3, <1>4, <1>6
<1>8. RefusalKnown
  BY <1>1, <1>2 DEF RefusalKnown
<1>9. CountsExact
  BY <1>1, <1>2, <1>3, <1>5, <1>6, <1>7 DEF CountsExact
<1> QED BY <1>8, <1>9 DEF CountsInv

\* Every step of an engine keeps the counters exact.
LEMMA NextCounts ==
    ASSUME ServeInv, HeldInv, deployed = "engine" => CountsInv, [EngineNext]_allVars
    PROVE  (deployed = "engine" => CountsInv)'
<1>1. CASE DirectStep
  BY <1>1 DEF DirectStep, serveVars
<1>2. CASE UNCHANGED allVars
  <2>1. UNCHANGED <<client, outcome, due, counts, setting, deployed, refusal>>
    BY <1>2 DEF allVars, vars, frontVars, schedVars, serveVars
  <2>2. Received' = Received
    BY <2>1 DEF Received
  <2> QED BY <2>1, <2>2, CountsKept
<1>3. CASE EngineStep
  <2>0. deployed = "engine" /\ CountsInv /\ ServeTypes
    BY <1>3 DEF EngineStep, ServeInv
  <2>1. ASSUME NEW r \in Requests, Client(r) PROVE CountsInv'
    BY <2>0, <2>1, ClientCounts
  <2>2. ASSUME NEW r \in Requests, Cancel(r) \/ (DeadlinePasses(r) /\ UNCHANGED serveVars)
        PROVE  CountsInv'
    <3>1. UNCHANGED <<client, outcome, due, counts, setting, refusal>>
      BY <2>2 DEF Cancel, DeadlinePasses, vars, frontVars, schedVars, serveVars
    <3>2. Received' = Received
      BY <3>1 DEF Received
    <3> QED BY <2>0, <3>1, <3>2, CountsKept
  <2>3. CASE SchedulerThread
    BY <2>0, <2>3, BatcherCounts, CallbackCounts, ResultCounts DEF SchedulerThread
  <2>4. ASSUME NEW k \in Stoppers, Stopper(k) PROVE CountsInv'
    <3>1. k # "scheduler" /\ setting \in [Threads -> Requests \cup {NoRequest}]
      BY <2>0, ContinuousEngineAssumption DEF ServeTypes
    <3>2. UNCHANGED client
      BY <2>4, BatcherShutdown DEF Stopper, CallShutdown, SetClosed, ShutdownBatcher, TakeOutstanding,
                                   LookAt, SetException, ShutdownReturns, vars, frontVars
    <3>3. UNCHANGED <<outcome, due, counts, refusal>>
      BY <2>4 DEF Stopper, CallShutdown, SetClosed, ShutdownBatcher, Shutdown, TakeOutstanding,
                  LookAt, SetException, ShutdownReturns, vars, schedVars, serveVars
    <3>4. setting' = setting \/ \E x : setting' = [setting EXCEPT ![k] = x]
      BY <2>4 DEF Stopper, CallShutdown, SetClosed, ShutdownBatcher, TakeOutstanding,
                  LookAt, SetException, ShutdownReturns, serveVars
    <3>5. setting'["scheduler"] = setting["scheduler"]
      BY <3>1, <3>4 DEF Threads
    <3>6. Received' = Received
      BY <3>2 DEF Received
    <3> QED BY <2>0, <3>2, <3>3, <3>5, <3>6, CountsKept
  <2> QED BY <1>3, <2>1, <2>2, <2>3, <2>4 DEF EngineStep
<1> QED BY <1>1, <1>2, <1>3 DEF EngineNext

\* What arrived expired, was answered or is in the engine, and only one of the three.
LEMMA CountsSum ==
    ASSUME HeldInv, deployed = "engine" => CountsInv
    PROVE  CountersAddUp
<1> SUFFICES ASSUME deployed = "engine", CountsInv PROVE CountersAddUp
  BY DEF CountersAddUp
<1> USE DEF CountsInv
<1>1. \A r \in Requests : outcome[r] # "pending" => client[r] = "accepted"
  BY DEF HeldInv, HeldArePending
<1>2. /\ Received = (Expired \cup Answered) \cup InEngine
      /\ Expired \cap Answered = {} /\ (Expired \cup Answered) \cap InEngine = {}
  BY <1>1 DEF Received, Expired, Answered, InEngine
<1>3. /\ IsFiniteSet(Expired) /\ IsFiniteSet(Answered) /\ IsFiniteSet(InEngine)
      /\ IsFiniteSet(Expired \cup Answered)
      /\ Cardinality(Expired) \in Nat /\ Cardinality(Answered) \in Nat /\ Cardinality(InEngine) \in Nat
  <2>1. Expired \subseteq Requests /\ Answered \subseteq Requests /\ InEngine \subseteq Requests
    BY DEF Expired, Answered, InEngine, Received
  <2> QED BY <2>1, RequestSets
<1>4. Cardinality(Expired \cup Answered) = Cardinality(Expired) + Cardinality(Answered)
  BY <1>2, <1>3, UnionSize
<1>5. Cardinality(Received) = Cardinality(Expired \cup Answered) + Cardinality(InEngine)
  BY <1>2, <1>3, UnionSize
<1>6. Cardinality(Received) = counts.expired + counts.completed + Cardinality(InEngine)
  BY <1>3, <1>4, <1>5 DEF CountsExact
<1>7. counts.failed <= counts.completed
  <2>1. MayFail \in {0, 1}
    BY DEF MayFail
  <2>2. /\ counts.failed \in Nat /\ counts.completed \in Nat
        /\ counts.failed + MayFail <= counts.completed
    BY DEF CountsExact, CountsRecord
  <2> QED BY <2>1, <2>2
<1>8. /\ counts.received = Cardinality(Received) + Cardinality(Turned({"full"}))
      /\ counts.rejected = Cardinality(Turned({"full", "stopping"}))
  BY DEF CountsExact, Shed, TurnedAway
<1>9. \A r \in Turned({"full", "stopping"}) :
         client[r] \in {"refused", "raised"} /\ outcome[r] = "pending"
  <2>1. \A r \in TurnedAway : r \in Requests /\ client[r] \in {"refused", "raised"}
    BY DEF RefusalKnown, TurnedAway, Turned
  <2> QED BY <1>1, <2>1 DEF TurnedAway
<1> QED BY <1>6, <1>7, <1>8, <1>9 DEF CountersAddUp

\* In every reachable state of an engine the metrics account for each request that was
\* received: it is in the engine, or was counted once as expired or completed, or a full
\* queue turned it away; the rejected ones are exactly those turned away; and a failed
\* callback is a completion too.
THEOREM CountersTheorem == EngineSpec => []CountersAddUp
<1>1. EngineInit => (deployed = "engine" => CountsInv)
  BY InitCounts
<1>2. /\ ServeInv /\ HeldInv /\ (deployed = "engine" => CountsInv) /\ [EngineNext]_allVars
      => (deployed = "engine" => CountsInv)'
  BY NextCounts
<1>3. HeldInv /\ (deployed = "engine" => CountsInv) => CountersAddUp
  BY CountsSum
<1> QED BY <1>1, <1>2, <1>3, ServeInvariance, HeldInvariance, PTL DEF EngineSpec

-----------------------------------------------------------------------------
(* What the cache's operations do (KVCacheOps).                            *)

Caches == [policy : Policies, known : SUBSET Seqs, tokens : [Seqs -> Nat], held : [Seqs -> Nat],
           order : Seq(Seqs), free : Nat]

\* The sequences with blocks.
Holding(c) == {s \in Seqs : c.held[s] > 0}

\* A cache as the operations leave it: who has blocks or tokens is known, who is known has
\* a place in the order of admission, and no block is lost.
Sound(c) ==
    /\ c \in Caches
    /\ \A s \in Seqs : s \in c.known => Has(c.order, s)
    /\ \A s \in Seqs : s \notin c.known => c.tokens[s] = 0 /\ c.held[s] = 0
    /\ c.free + BlocksOf(c, Seqs) = TotalBlocks

\* The blocks of some sequences and of the others; those of the holders are all there are.
LEMMA BlocksAddUp ==
    ASSUME NEW c, Sound(c), NEW S \in SUBSET Seqs
    PROVE  /\ BlocksOf(c, S) \in Nat /\ c.free \in Nat
           /\ BlocksOf(c, S) = BlocksOf(c, S \cap Holding(c))
           /\ c.free + BlocksOf(c, S) <= TotalBlocks
           /\ Holding(c) \subseteq S => c.free + BlocksOf(c, S) = TotalBlocks
<1>1. IsFiniteSet(Seqs) /\ TotalBlocks \in Nat
  BY CacheAssumption
<1>2. Natural(c.held, Seqs) /\ c.free \in Nat
  BY DEF Sound, Caches, Natural
<1>3. \A T \in SUBSET Seqs : IsFiniteSet(T) /\ Natural(c.held, T)
  BY <1>1, <1>2, FS_Subset DEF Natural
<1>4. \A T \in SUBSET Seqs : \A U \in SUBSET T :
         /\ BlocksOf(c, T) = BlocksOf(c, U) + BlocksOf(c, T \ U)
         /\ BlocksOf(c, U) \in Nat /\ BlocksOf(c, T \ U) \in Nat
  BY <1>3, SumSubset DEF BlocksOf
<1>5. \A T \in SUBSET Seqs : T \cap Holding(c) = {} => BlocksOf(c, T) = 0
  <2> SUFFICES ASSUME NEW T \in SUBSET Seqs, T \cap Holding(c) = {} PROVE BlocksOf(c, T) = 0
    OBVIOUS
  <2>1. \A s \in T : c.held[s] = 0
    BY <1>2 DEF Natural, Holding
  <2> QED BY <1>3, <2>1, SumZero DEF BlocksOf
<1>6. BlocksOf(c, S) = BlocksOf(c, S \cap Holding(c))
  <2>1. PICK U : U = S \cap Holding(c)
    OBVIOUS
  <2>2. U \in SUBSET S /\ (S \ U) \cap Holding(c) = {} /\ S \ U \in SUBSET Seqs
    BY <2>1
  <2>3. BlocksOf(c, S) = BlocksOf(c, U) + BlocksOf(c, S \ U) /\ BlocksOf(c, U) \in Nat
    BY <1>4, <2>2
  <2>4. BlocksOf(c, S \ U) = 0
    BY <1>5, <2>2
  <2> QED BY <2>1, <2>3, <2>4
<1>7. BlocksOf(c, Seqs) = BlocksOf(c, S) + BlocksOf(c, Seqs \ S) /\ BlocksOf(c, S) \in Nat
        /\ BlocksOf(c, Seqs \ S) \in Nat
  BY <1>4
<1>8. Holding(c) \subseteq S => BlocksOf(c, Seqs \ S) = 0
  BY <1>5
<1>9. c.free + BlocksOf(c, Seqs) = TotalBlocks
  BY DEF Sound
<1> QED BY <1>1, <1>2, <1>6, <1>7, <1>8, <1>9

\* What the blocks of c sum to after those of the sequences in V were given back.
LEMMA BlocksGivenBack ==
    ASSUME NEW c, Sound(c), NEW V \in SUBSET Seqs, NEW d,
           \A s \in Seqs : d.held[s] = IF s \in V THEN 0 ELSE c.held[s],
           d.free = c.free + BlocksOf(c, V)
    PROVE  /\ d.free \in Nat /\ d.free + BlocksOf(d, Seqs) = TotalBlocks
           /\ Holding(d) = Holding(c) \ V
<1>1. IsFiniteSet(Seqs) /\ TotalBlocks \in Nat /\ IsFiniteSet(V) /\ IsFiniteSet(Seqs \ V)
  BY CacheAssumption, FS_Subset
<1>2. Natural(c.held, Seqs) /\ c.free \in Nat /\ c.free + BlocksOf(c, Seqs) = TotalBlocks
  BY DEF Sound, Caches, Natural
<1>3. Natural(d.held, Seqs)
  BY <1>2 DEF Natural
<1>4. /\ BlocksOf(c, Seqs) = BlocksOf(c, V) + BlocksOf(c, Seqs \ V)
      /\ BlocksOf(c, V) \in Nat /\ BlocksOf(c, Seqs \ V) \in Nat
  BY <1>1, <1>2, SumSubset DEF BlocksOf
<1>5. BlocksOf(d, Seqs) = BlocksOf(d, V) + BlocksOf(d, Seqs \ V)
  BY <1>1, <1>3, SumSubset DEF BlocksOf
<1>6. BlocksOf(d, V) = 0
  <2>1. \A s \in V : d.held[s] = 0
    OBVIOUS
  <2> QED BY <1>1, <2>1, SumZero DEF BlocksOf
<1>7. BlocksOf(d, Seqs \ V) = BlocksOf(c, Seqs \ V)
  <2>1. Same(d.held, c.held, Seqs \ V)
    BY DEF Same
  <2> QED BY <1>1, <2>1, SumSame DEF BlocksOf
<1>8. Holding(d) = Holding(c) \ V
  BY DEF Holding
<1> QED BY <1>1, <1>2, <1>4, <1>5, <1>6, <1>7, <1>8

\* Evict: the sequences stay known, with empty tables.
LEMMA EvictSound ==
    ASSUME NEW c, Sound(c), NEW V \in SUBSET Seqs
    PROVE  /\ Sound(Evict(c, V)) /\ Holding(Evict(c, V)) = Holding(c) \ V
           /\ Evict(c, V).known = c.known /\ Evict(c, V).free = c.free + BlocksOf(c, V)
           /\ \A s \in Seqs : /\ Evict(c, V).tokens[s] = IF s \in V THEN 0 ELSE c.tokens[s]
                              /\ Evict(c, V).held[s] = IF s \in V THEN 0 ELSE c.held[s]
<1>1. PICK d : d = Evict(c, V)
  OBVIOUS
<1>0. c \in Caches /\ BlocksOf(c, V) \in Nat /\ c.free \in Nat
  BY BlocksAddUp DEF Sound
<1>2. /\ d.policy = c.policy /\ d.known = c.known /\ d.order = c.order
      /\ d.free = c.free + BlocksOf(c, V)
      /\ d.tokens = [s \in Seqs |-> IF s \in V THEN 0 ELSE c.tokens[s]]
      /\ d.held = [s \in Seqs |-> IF s \in V THEN 0 ELSE c.held[s]]
      /\ d = [policy |-> d.policy, known |-> d.known, tokens |-> d.tokens, held |-> d.held,
              order |-> d.order, free |-> d.free]
  BY <1>0, <1>1 DEF Evict, Caches
<1>3. \A s \in Seqs : /\ d.tokens[s] = IF s \in V THEN 0 ELSE c.tokens[s]
                      /\ d.held[s] = IF s \in V THEN 0 ELSE c.held[s]
  BY <1>2
<1>4. d.free \in Nat /\ d.free + BlocksOf(d, Seqs) = TotalBlocks /\ Holding(d) = Holding(c) \ V
  BY <1>2, <1>3, BlocksGivenBack
<1>5. d \in Caches
  <2>1. d.tokens \in [Seqs -> Nat] /\ d.held \in [Seqs -> Nat]
    BY <1>0, <1>2 DEF Caches
  <2>2. d.policy \in Policies /\ d.known \in SUBSET Seqs /\ d.order \in Seq(Seqs)
    BY <1>0, <1>2 DEF Caches
  <2> QED BY <1>2, <1>4, <2>1, <2>2 DEF Caches
<1>6. Sound(d)
  <2>1. \A s \in Seqs : s \in d.known => Has(d.order, s)
    BY <1>2 DEF Sound
  <2>2. \A s \in Seqs : s \notin d.known => d.tokens[s] = 0 /\ d.held[s] = 0
    BY <1>2, <1>3 DEF Sound
  <2> QED BY <1>4, <1>5, <2>1, <2>2 DEF Sound
<1> QED BY <1>1, <1>2, <1>3, <1>4, <1>6

\* release of some sequences: they are forgotten.
LEMMA ReleaseSound ==
    ASSUME NEW c, Sound(c), NEW S \in SUBSET Seqs
    PROVE  /\ Sound(Releasing(c, S)) /\ Holding(Releasing(c, S)) = Holding(c) \ S
           /\ Releasing(c, S).known = c.known \ S
           /\ \A s \in Seqs : Releasing(c, S).tokens[s] = IF s \in S THEN 0 ELSE c.tokens[s]
<1>1. PICK d : d = Releasing(c, S)
  OBVIOUS
<1>0. c \in Caches /\ BlocksOf(c, S) \in Nat /\ c.free \in Nat
  BY BlocksAddUp DEF Sound
<1>2. /\ d.policy = c.policy /\ d.known = c.known \ S /\ d.order = Keep(c.order, Seqs \ S)
      /\ d.free = c.free + BlocksOf(c, S)
      /\ d.tokens = [s \in Seqs |-> IF s \in S THEN 0 ELSE c.tokens[s]]
      /\ d.held = [s \in Seqs |-> IF s \in S THEN 0 ELSE c.held[s]]
      /\ d = [policy |-> d.policy, known |-> d.known, tokens |-> d.tokens, held |-> d.held,
              order |-> d.order, free |-> d.free]
  BY <1>0, <1>1 DEF Releasing, Caches
<1>3. \A s \in Seqs : /\ d.tokens[s] = IF s \in S THEN 0 ELSE c.tokens[s]
                      /\ d.held[s] = IF s \in S THEN 0 ELSE c.held[s]
  BY <1>2
<1>4. d.free \in Nat /\ d.free + BlocksOf(d, Seqs) = TotalBlocks /\ Holding(d) = Holding(c) \ S
  BY <1>2, <1>3, BlocksGivenBack
<1>a. c.order \in Seq(Seqs)
  BY <1>0 DEF Caches
<1>b. d.order \in Seq(Seqs) /\ \A s : Has(d.order, s) <=> s \in Seqs \ S /\ Has(c.order, s)
  <2>1. PICK q \in Seq(Seqs) : q = c.order
    BY <1>a
  <2>2. PICK T : T = Seqs \ S
    OBVIOUS
  <2>3. Keep(q, T) \in Seq(Seqs)
    BY KeepType
  <2>4. \A s : Has(Keep(q, T), s) <=> s \in T /\ Has(q, s)
    BY KeepMembers
  <2> QED BY <1>2, <2>1, <2>2, <2>3, <2>4
<1>5. d \in Caches
  <2>1. d.tokens \in [Seqs -> Nat] /\ d.held \in [Seqs -> Nat]
    BY <1>0, <1>2 DEF Caches
  <2>2. d.policy \in Policies /\ d.known \in SUBSET Seqs
    BY <1>0, <1>2 DEF Caches
  <2> QED BY <1>2, <1>4, <1>b, <2>1, <2>2 DEF Caches
<1>6. Sound(d)
  <2>1. \A s \in Seqs : s \in d.known => Has(d.order, s)
    BY <1>2, <1>b DEF Sound
  <2>2. \A s \in Seqs : s \notin d.known => d.tokens[s] = 0 /\ d.held[s] = 0
    BY <1>2, <1>3 DEF Sound
  <2> QED BY <1>4, <1>5, <2>1, <2>2 DEF Sound
<1> QED BY <1>1, <1>2, <1>3, <1>4, <1>6

\* Blocks from the pool for one sequence.
LEMMA TakeSound ==
    ASSUME NEW c, Sound(c), NEW s \in c.known, NEW n \in Nat, NEW needed \in Nat, needed <= c.free
    PROVE  /\ Sound(Take(c, s, n, needed)) /\ Take(c, s, n, needed).known = c.known
           /\ Holding(Take(c, s, n, needed)) =
                IF c.held[s] + needed > 0 THEN Holding(c) \cup {s} ELSE Holding(c)
           /\ \A u \in Seqs : Take(c, s, n, needed).tokens[u] =
                                IF u = s THEN c.tokens[u] + n ELSE c.tokens[u]
<1>1. PICK d : d = Take(c, s, n, needed)
  OBVIOUS
<1>0. c \in Caches /\ c.free \in Nat /\ s \in Seqs /\ c.held[s] \in Nat /\ c.tokens[s] \in Nat
  BY DEF Sound, Caches
<1>2. /\ d.policy = c.policy /\ d.known = c.known /\ d.order = c.order
      /\ d.free = c.free - needed
      /\ d.tokens = [c.tokens EXCEPT ![s] = c.tokens[s] + n]
      /\ d.held = [c.held EXCEPT ![s] = c.held[s] + needed]
      /\ d = [policy |-> d.policy, known |-> d.known, tokens |-> d.tokens, held |-> d.held,
              order |-> d.order, free |-> d.free]
  BY <1>0, <1>1 DEF Take, Caches
<1>3. d.tokens \in [Seqs -> Nat] /\ d.held \in [Seqs -> Nat]
  BY <1>0, <1>2 DEF Caches
<1>4. \A u \in Seqs : /\ d.tokens[u] = IF u = s THEN c.tokens[u] + n ELSE c.tokens[u]
                      /\ d.held[u] = IF u = s THEN c.held[u] + needed ELSE c.held[u]
  BY <1>0, <1>2 DEF Caches
<1>5. d.free \in Nat /\ d.free + BlocksOf(d, Seqs) = TotalBlocks
  <2>1. IsFiniteSet(Seqs) /\ TotalBlocks \in Nat /\ Natural(c.held, Seqs) /\ Natural(d.held, Seqs)
    BY <1>0, <1>3, CacheAssumption DEF Caches, Natural
  <2>2. Same(c.held, d.held, Seqs \ {s})
    BY <1>4 DEF Same
  <2>3. SumFunctionOnSet(d.held, Seqs) + c.held[s] = SumFunctionOnSet(c.held, Seqs) + d.held[s]
    <3>1. PICK g : g = c.held
      OBVIOUS
    <3>2. PICK h : h = d.held
      OBVIOUS
    <3>3. s \in Seqs /\ IsFiniteSet(Seqs) /\ Natural(g, Seqs) /\ Natural(h, Seqs) /\ Same(g, h, Seqs \ {s})
      BY <1>0, <2>1, <2>2, <3>1, <3>2
    <3>4. SumFunctionOnSet(h, Seqs) + g[s] = SumFunctionOnSet(g, Seqs) + h[s]
      BY <3>3, SumChange
    <3> QED BY <3>1, <3>2, <3>4
  <2>4. SumFunctionOnSet(d.held, Seqs) \in Nat /\ SumFunctionOnSet(c.held, Seqs) \in Nat
    BY <2>1, SumNat
  <2>5. c.free + SumFunctionOnSet(c.held, Seqs) = TotalBlocks
    BY DEF Sound, BlocksOf
  <2>6. d.held[s] = c.held[s] + needed
    BY <1>0, <1>4
  <2>7. PICK a \in Nat, b \in Nat, h \in Nat :
           /\ a = SumFunctionOnSet(d.held, Seqs) /\ b = SumFunctionOnSet(c.held, Seqs) /\ h = c.held[s]
    BY <1>0, <2>4
  <2>8. a + h = b + (h + needed) /\ c.free + b = TotalBlocks /\ d.free = c.free - needed
    BY <1>2, <2>3, <2>5, <2>6, <2>7
  <2>9. d.free \in Nat /\ d.free + a = TotalBlocks
    BY <1>0, <2>1, <2>8
  <2> QED BY <2>7, <2>9 DEF BlocksOf
<1>6. Sound(d)
  <2>1. d \in Caches
    BY <1>0, <1>2, <1>3, <1>5 DEF Caches
  <2>2. \A u \in Seqs : u \in d.known => Has(d.order, u)
    BY <1>2 DEF Sound
  <2>3. \A u \in Seqs : u \notin d.known => d.tokens[u] = 0 /\ d.held[u] = 0
    BY <1>2, <1>4 DEF Sound
  <2> QED BY <1>5, <2>1, <2>2, <2>3 DEF Sound
<1>7. Holding(d) = IF c.held[s] + needed > 0 THEN Holding(c) \cup {s} ELSE Holding(c)
  <2>1. \A u \in Seqs : u \in Holding(d) <=> d.held[u] > 0
    BY DEF Holding
  <2>2. \A u \in Seqs : u \in Holding(c) <=> c.held[u] > 0
    BY DEF Holding
  <2>3. \A u \in Seqs : u # s => (u \in Holding(d) <=> u \in Holding(c))
    BY <1>4, <2>1, <2>2
  <2>4. s \in Holding(d) <=> c.held[s] + needed > 0
    BY <1>0, <1>4, <2>1
  <2>5. s \in Holding(c) => c.held[s] + needed > 0
    BY <1>0, <2>2
  <2>6. Holding(c) \subseteq Seqs /\ Holding(d) \subseteq Seqs
    BY DEF Holding
  <2> QED BY <1>0, <2>3, <2>4, <2>5, <2>6
<1> QED BY <1>1, <1>2, <1>4, <1>6, <1>7

\* Every known sequence has its own place in the order of admission.
LEMMA PlaceInOrder ==
    ASSUME NEW c, Sound(c), NEW s \in c.known
    PROVE  Position(c, s) \in Nat /\ c.order[Position(c, s)] = s
<1>1. c.order \in Seq(Seqs) /\ s \in Seqs /\ Has(c.order, s)
  BY DEF Sound, Caches
<1>2. DOMAIN c.order = 1 .. Len(c.order) /\ Len(c.order) \in Nat
  BY <1>1, LenProperties
<1>3. \E i \in DOMAIN c.order : c.order[i] = s
  BY <1>1, <1>2 DEF Has
<1>4. Position(c, s) \in DOMAIN c.order /\ c.order[Position(c, s)] = s
  BY <1>3 DEF Position
<1> QED BY <1>2, <1>4

\* Of two candidates one is chosen before the other.
LEMMA ChosenInOrder ==
    ASSUME NEW c, Sound(c), NEW u \in c.known, NEW v \in c.known, u # v
    PROVE  ChosenBefore(c, u, v) \/ ChosenBefore(c, v, u)
<1>1. Position(c, u) \in Nat /\ Position(c, v) \in Nat /\ Position(c, u) # Position(c, v)
  BY PlaceInOrder
<1>2. c.held[u] \in Nat /\ c.held[v] \in Nat
  BY DEF Sound, Caches
<1> QED BY <1>1, <1>2 DEF ChosenBefore

\* Of a chain of sets, not empty, one is in all others.
LEMMA LeastOfChain ==
    ASSUME NEW X, IsFiniteSet(X), NEW C \in SUBSET (SUBSET X), C # {},
           \A V \in C : \A W \in C : V \subseteq W \/ W \subseteq V
    PROVE  \E V \in C : \A W \in C : V \subseteq W
<1> DEFINE N == {Cardinality(V) : V \in C}
<1>1. \A V \in C : IsFiniteSet(V) /\ Cardinality(V) \in Nat
  BY FS_Subset, FS_CardinalityType
<1>2. N \subseteq Nat /\ N # {}
  BY <1>1
<1>3. PICK n \in N : \A m \in N : n <= m
  BY <1>2, LeastNat
<1>4. PICK V \in C : n = Cardinality(V)
  OBVIOUS
<1>5. ASSUME NEW W \in C PROVE V \subseteq W
  <2>1. CASE W \subseteq V
    <3>1. Cardinality(W) <= Cardinality(V) /\ (Cardinality(W) = Cardinality(V) => W = V)
      BY <1>1, <2>1, FS_Subset
    <3>2. Cardinality(V) <= Cardinality(W)
      BY <1>3, <1>4
    <3>3. W = V
      BY <1>1, <3>1, <3>2
    <3> QED BY <3>3
  <2> QED BY <2>1
<1> QED BY <1>5

\* The sets of candidates in the order of choice that free enough.
Enough(c, r, needed) ==
    {V \in SUBSET Candidates(c, r) :
        /\ \A v \in V, u \in Candidates(c, r) : ChosenBefore(c, u, v) => u \in V
        /\ c.free + BlocksOf(c, V) >= needed}

\* _evict_until finds its victims when the rest of the cache is enough.
LEMMA VictimsFound ==
    ASSUME NEW c, Sound(c), NEW r \in c.known, NEW needed \in Nat,
           c.free + ReclaimableBlocks(c, r) >= needed
    PROVE  /\ Victims(c, r, needed) \subseteq Candidates(c, r)
           /\ c.free + BlocksOf(c, Victims(c, r, needed)) >= needed
<1> DEFINE C == Candidates(c, r)
           E == Enough(c, r, needed)
<1>1. C \subseteq c.known /\ c.known \subseteq Seqs /\ C \subseteq Seqs /\ IsFiniteSet(C) /\ r \in Seqs
  <2>1. c.known \subseteq Seqs
    BY DEF Sound, Caches
  <2>2. C \subseteq c.known
    BY DEF Candidates
  <2>3. C \subseteq Seqs
    BY <2>1, <2>2
  <2> QED BY <2>1, <2>2, <2>3, CacheAssumption, FS_Subset
<1>2. C \in E
  <2>1. PICK R : R = c.known \ {r}
    OBVIOUS
  <2>2. R \in SUBSET Seqs /\ R \cap Holding(c) = C /\ C \cap Holding(c) = C
    BY <1>1, <2>1 DEF Candidates, Holding
  <2>3. BlocksOf(c, R) = BlocksOf(c, C)
    BY <2>2, BlocksAddUp
  <2>4. c.free + BlocksOf(c, C) >= needed
    BY <2>1, <2>3 DEF ReclaimableBlocks
  <2> QED BY <2>4 DEF Enough
<1>3. \A V \in E : \A W \in E : V \subseteq W \/ W \subseteq V
  <2> SUFFICES ASSUME NEW V \in E, NEW W \in E, NEW v \in V \ W, NEW w \in W \ V PROVE FALSE
    OBVIOUS
  <2>1. v \in C /\ w \in C /\ v # w
    BY DEF Enough
  <2>2. v \in c.known /\ w \in c.known
    BY <1>1, <2>1
  <2>3. CASE ChosenBefore(c, v, w)
    BY <2>1, <2>3 DEF Enough
  <2>4. CASE ChosenBefore(c, w, v)
    BY <2>1, <2>4 DEF Enough
  <2> QED BY <2>1, <2>2, <2>3, <2>4, ChosenInOrder
<1>4. E \in SUBSET (SUBSET C)
  BY DEF Enough
<1>5. \E V \in E : \A W \in E : V \subseteq W
  <2> HIDE DEF E, C
  <2>1. E # {}
    BY <1>2
  <2> QED BY <1>1, <1>3, <1>4, <2>1, LeastOfChain
<1>6. Victims(c, r, needed) = CHOOSE V \in E : \A W \in E : V \subseteq W
  <2> DEFINE prefixes == {V \in SUBSET Candidates(c, r) :
                            \A v \in V, u \in Candidates(c, r) : ChosenBefore(c, u, v) => u \in V}
             enough == {V \in prefixes : c.free + BlocksOf(c, V) >= needed}
  <2>1. enough = E
    BY DEF Enough
  <2>2. Victims(c, r, needed) = CHOOSE V \in enough : \A W \in enough : V \subseteq W
    BY DEF Victims
  <2> HIDE DEF enough, E
  <2> QED BY <2>1, <2>2
<1>7. Victims(c, r, needed) \in E
  <2> HIDE DEF E
  <2> QED BY <1>5, <1>6
<1> QED BY <1>7 DEF Enough

\* -(-a // b), for positive a.
LEMMA CeilDivBounds ==
    ASSUME NEW a \in Nat \ {0}, NEW b \in Nat \ {0}
    PROVE  /\ CeilDiv(a, b) \in Nat \ {0}
           /\ \A n \in Nat : CeilDiv(a, b) > n => a > n * b
<1>1. PICK q : q = (a + b - 1) \div b
  OBVIOUS
<1>2. q \in Nat /\ a <= q * b /\ q * b < a + b
  BY <1>1
<1>3. q # 0
  BY <1>2
<1>4. ASSUME NEW n \in Nat, q > n PROVE a > n * b
  <2>1. n + 1 <= q /\ (n + 1) * b <= q * b
    BY <1>2, <1>4
  <2>2. (n + 1) * b = n * b + b /\ n * b \in Nat
    OBVIOUS
  <2>3. q * b \in Nat
    BY <1>2
  <2> QED BY <1>2, <2>1, <2>2, <2>3
<1> QED BY <1>1, <1>2, <1>3, <1>4 DEF CeilDiv

\* The demand of a reservation; all that an empty table needs is for its tokens.
LEMMA Demand ==
    ASSUME NEW c, Sound(c), NEW s \in Seqs, NEW n \in Nat \ {0}
    PROVE  /\ AdditionalBlocksFor(c, s, n) \in Nat
           /\ c.held[s] = 0 => AdditionalBlocksFor(c, s, n) # 0
           /\ c.held[s] = 0 /\ c.tokens[s] = 0 => AdditionalBlocksFor(c, s, n) = CeilDiv(n, BlockSize)
<1>1. PICK t \in Nat, h \in Nat : t = c.tokens[s] /\ h = c.held[s]
  BY DEF Sound, Caches
<1>2. PICK b \in Nat \ {0} : b = BlockSize
  BY CacheAssumption
<1>3. PICK room \in Nat : room = h * b
  BY <1>2
<1>4. AdditionalBlocksFor(c, s, n) = IF t + n <= room THEN 0 ELSE CeilDiv(t + n - room, b)
  BY <1>1, <1>2, <1>3 DEF AdditionalBlocksFor
<1>5. ~(t + n <= room) => t + n - room \in Nat \ {0}
  OBVIOUS
<1>6. h = 0 => room = 0 /\ ~(t + n <= room)
  BY <1>2, <1>3
<1>7. h = 0 /\ t = 0 => t + n - room = n
  BY <1>6
<1> QED BY <1>1, <1>2, <1>4, <1>5, <1>6, <1>7, CeilDivBounds

\* _reserve for a sequence with a table: it gets its blocks, from the pool or from those it
\* evicts; or nothing changes, and then an empty table asked for more than the cache has.
LEMMA ReserveSound ==
    ASSUME NEW c, Sound(c), NEW s \in c.known, NEW n \in Nat \ {0}, NEW o, o = ReserveKnown(c, s, n)
    PROVE  /\ Sound(o.cache) /\ o.cache.known = c.known
           /\ o.preempted \subseteq Holding(c) \ {s}
           /\ Granted(o) => Holding(o.cache) = (Holding(c) \ o.preempted) \cup {s}
           /\ ~Granted(o) => /\ o.cache = c /\ o.preempted = {}
                             /\ c.held[s] = 0 => AdditionalBlocksFor(c, s, n) > TotalBlocks
<1>0. c \in Caches /\ c.known \in SUBSET Seqs /\ s \in Seqs /\ c.free \in Nat /\ c.held[s] \in Nat
  BY DEF Sound, Caches
<1>1. PICK needed \in Nat : /\ needed = AdditionalBlocksFor(c, s, n)
                            /\ c.held[s] = 0 => needed # 0
  BY <1>0, Demand
<1>2. c.held[s] + needed > 0
  BY <1>0, <1>1
<1>3. Holding(c) \subseteq c.known
  BY <1>0 DEF Sound, Holding
<1>4. CASE c.free >= needed
  <2>1. o = Outcome(Take(c, s, n, needed), "admitted", {})
    BY <1>1, <1>4 DEF ReserveKnown
  <2>2. o.cache = Take(c, s, n, needed) /\ o.preempted = {} /\ Granted(o)
    BY <2>1 DEF Outcome, Granted
  <2>3. /\ Sound(Take(c, s, n, needed)) /\ Take(c, s, n, needed).known = c.known
        /\ Holding(Take(c, s, n, needed)) = Holding(c) \cup {s}
    BY <1>0, <1>2, <1>4, TakeSound
  <2> QED BY <2>2, <2>3
<1>5. CASE ~(c.free >= needed) /\ (needed > TotalBlocks \/ c.free + ReclaimableBlocks(c, s) < needed)
  <2>1. o = Outcome(c, "insufficient_cache", {})
    BY <1>1, <1>5 DEF ReserveKnown
  <2>2. o.cache = c /\ o.preempted = {} /\ ~Granted(o)
    BY <2>1 DEF Outcome, Granted
  <2>3. ASSUME c.held[s] = 0 PROVE needed > TotalBlocks
    <3>1. PICK R : R = c.known \ {s}
      OBVIOUS
    <3>2. Holding(c) \subseteq R /\ R \in SUBSET Seqs
      BY <1>0, <1>3, <2>3, <3>1 DEF Holding
    <3>3. c.free + BlocksOf(c, R) = TotalBlocks
      BY <3>2, BlocksAddUp
    <3> QED BY <1>5, <3>1, <3>3 DEF ReclaimableBlocks
  <2> QED BY <1>1, <2>2, <2>3
<1>6. CASE ~(c.free >= needed) /\ ~(needed > TotalBlocks \/ c.free + ReclaimableBlocks(c, s) < needed)
  <2>1. PICK V : V = Victims(c, s, needed)
    OBVIOUS
  <2>2. o = Outcome(Take(Evict(c, V), s, n, needed), "preempted_others", V)
    BY <1>1, <1>6, <2>1 DEF ReserveKnown
  <2>3. o.cache = Take(Evict(c, V), s, n, needed) /\ o.preempted = V /\ Granted(o)
    BY <2>2 DEF Outcome, Granted
  <2>4. V \subseteq Candidates(c, s) /\ c.free + BlocksOf(c, V) >= needed
    <3>1. c.free + ReclaimableBlocks(c, s) >= needed
      <4>1. c.known \ {s} \in SUBSET Seqs
        BY <1>0
      <4>2. ReclaimableBlocks(c, s) \in Nat
        BY <4>1, BlocksAddUp DEF ReclaimableBlocks
      <4> QED BY <1>0, <1>6, <4>2
    <3> QED BY <2>1, <3>1, VictimsFound
  <2>5. V \subseteq Holding(c) \ {s} /\ V \in SUBSET Seqs
    BY <1>0, <2>4 DEF Candidates, Holding
  <2>6. PICK d : d = Evict(c, V)
    OBVIOUS
  <2>7. /\ Sound(d) /\ Holding(d) = Holding(c) \ V /\ d.known = c.known
        /\ d.free = c.free + BlocksOf(c, V) /\ d.held[s] = c.held[s]
    BY <1>0, <2>5, <2>6, EvictSound
  <2>8. needed <= d.free /\ d.held[s] + needed > 0 /\ s \in d.known
    <3>1. BlocksOf(c, V) \in Nat
      BY <2>5, BlocksAddUp
    <3> QED BY <1>0, <1>2, <2>4, <2>7, <3>1
  <2>9. /\ Sound(Take(d, s, n, needed)) /\ Take(d, s, n, needed).known = d.known
        /\ Holding(Take(d, s, n, needed)) = Holding(d) \cup {s}
    BY <2>7, <2>8, TakeSound
  <2> QED BY <2>3, <2>5, <2>6, <2>7, <2>9
<1> QED BY <1>4, <1>5, <1>6

\* admit of a new sequence; only a prompt that is larger than the whole cache is refused.
LEMMA AdmitSound ==
    ASSUME NEW c, Sound(c), NEW s \in Seqs, s \notin c.known, NEW n \in Nat \ {0},
           NEW o, o = Admitting(c, s, n)
    PROVE  /\ Sound(o.cache) /\ o.cache.known = c.known \cup {s}
           /\ o.preempted \subseteq Holding(c)
           /\ Granted(o) => Holding(o.cache) = (Holding(c) \ o.preempted) \cup {s}
           /\ ~Granted(o) => Holding(o.cache) = Holding(c) /\ n > TotalBlocks * BlockSize
<1>1. PICK d : d = [c EXCEPT !.known = c.known \cup {s}, !.order = Append(c.order, s)]
  OBVIOUS
<1>0. c \in Caches /\ c.order \in Seq(Seqs) /\ c.known \in SUBSET Seqs
  BY DEF Sound, Caches
<1>2. /\ d.policy = c.policy /\ d.known = c.known \cup {s} /\ d.order = Append(c.order, s)
      /\ d.tokens = c.tokens /\ d.held = c.held /\ d.free = c.free
      /\ d = [policy |-> d.policy, known |-> d.known, tokens |-> d.tokens, held |-> d.held,
              order |-> d.order, free |-> d.free]
  BY <1>0, <1>1 DEF Caches
<1>3. d.order \in Seq(Seqs) /\ \A u : Has(d.order, u) <=> Has(c.order, u) \/ u = s
  BY <1>0, <1>2, AppendProperties, HasAppend
<1>4. d \in Caches
  <2>1. d.tokens \in [Seqs -> Nat] /\ d.held \in [Seqs -> Nat] /\ d.policy \in Policies /\ d.free \in Nat
        /\ d.known \in SUBSET Seqs
    BY <1>0, <1>2 DEF Caches
  <2> QED BY <1>2, <1>3, <2>1 DEF Caches
<1>5. Sound(d) /\ Holding(d) = Holding(c) /\ d.held[s] = 0 /\ d.tokens[s] = 0
  <2>1. \A u \in Seqs : u \in d.known => Has(d.order, u)
    BY <1>2, <1>3 DEF Sound
  <2>2. \A u \in Seqs : u \notin d.known => d.tokens[u] = 0 /\ d.held[u] = 0
    BY <1>2 DEF Sound
  <2>3. d.free + BlocksOf(d, Seqs) = TotalBlocks
    BY <1>2 DEF Sound, BlocksOf
  <2>4. Holding(d) = Holding(c)
    BY <1>2 DEF Holding
  <2>5. d.held[s] = 0 /\ d.tokens[s] = 0
    BY <1>2 DEF Sound
  <2> QED BY <1>4, <2>1, <2>2, <2>3, <2>4, <2>5 DEF Sound
<1>6. o = ReserveKnown(d, s, n)
  BY <1>1 DEF Admitting
<1>7. /\ Sound(o.cache) /\ o.cache.known = d.known
      /\ o.preempted \subseteq Holding(d) \ {s}
      /\ Granted(o) => Holding(o.cache) = (Holding(d) \ o.preempted) \cup {s}
      /\ ~Granted(o) => /\ o.cache = d /\ o.preempted = {}
                        /\ d.held[s] = 0 => AdditionalBlocksFor(d, s, n) > TotalBlocks
  <2>1. s \in d.known
    BY <1>2
  <2> QED BY <1>5, <1>6, <2>1, ReserveSound
<1>8. AdditionalBlocksFor(d, s, n) = CeilDiv(n, BlockSize)
  BY <1>5, Demand
<1>9. CeilDiv(n, BlockSize) > TotalBlocks => n > TotalBlocks * BlockSize
  BY CeilDivBounds, CacheAssumption
<1> QED BY <1>2, <1>5, <1>7, <1>8, <1>9

\* extend of a known sequence.
LEMMA ExtendSound ==
    ASSUME NEW c, Sound(c), NEW s \in c.known, NEW o, o = Extending(c, s, 1)
    PROVE  /\ Sound(o.cache) /\ o.cache.known = c.known
           /\ o.preempted \subseteq Holding(c) \ {s}
           /\ Granted(o) => Holding(o.cache) = (Holding(c) \ o.preempted) \cup {s}
           /\ ~Granted(o) => o.cache = c
<1>1. o = ReserveKnown(c, s, 1)
  BY DEF Extending
<1>2. 1 \in Nat \ {0}
  OBVIOUS
<1> QED BY <1>1, <1>2, ReserveSound

\* A pass of reservations so far, of the running sequences R: what it has not lost has its
\* blocks, and nobody else has any.
Passes(R, K) ==
    {acc \in [cache : Caches, lost : SUBSET R] :
       /\ Sound(acc.cache) /\ acc.cache.known = K
       /\ R \ acc.lost \subseteq Holding(acc.cache) /\ Holding(acc.cache) \subseteq R}

\* One extend of a running sequence, evicted earlier in the pass or not.
LEMMA GrowPasses ==
    ASSUME NEW K, NEW R, R \subseteq K, NEW acc \in Passes(R, K), NEW e, e.id \in R
    PROVE  Grow(acc, e) \in Passes(R, K)
<1>1. PICK o : o = Extending(acc.cache, e.id, 1)
  OBVIOUS
<1>2. /\ Sound(acc.cache) /\ acc.cache.known = K /\ acc.lost \subseteq R
      /\ R \ acc.lost \subseteq Holding(acc.cache) /\ Holding(acc.cache) \subseteq R
  BY DEF Passes
<1>3. e.id \in acc.cache.known
  BY <1>2
<1>4. /\ Sound(o.cache) /\ o.cache.known = K
      /\ o.preempted \subseteq Holding(acc.cache)
      /\ Granted(o) => Holding(o.cache) = (Holding(acc.cache) \ o.preempted) \cup {e.id}
      /\ ~Granted(o) => o.cache = acc.cache
  BY <1>1, <1>2, <1>3, ExtendSound
<1>5. PICK lost : lost = acc.lost \cup (IF Granted(o) THEN o.preempted ELSE {e.id})
  OBVIOUS
<1>6. Grow(acc, e) = [cache |-> o.cache, lost |-> lost]
  BY <1>1, <1>5 DEF Grow
<1>7. lost \subseteq R /\ R \ lost \subseteq Holding(o.cache) /\ Holding(o.cache) \subseteq R
  BY <1>2, <1>4, <1>5
<1>8. o.cache \in Caches
  BY <1>4 DEF Sound
<1> QED BY <1>4, <1>6, <1>7, <1>8 DEF Passes

\* The whole pass.
LEMMA ReserveAllPasses ==
    ASSUME NEW run \in Seq(Entries), run = running, Sound(cache), Holding(cache) = IdsOf(run),
           IdsOf(run) \subseteq cache.known
    PROVE  ReserveAll \in Passes(IdsOf(run), cache.known)
<1> DEFINE T == Passes(IdsOf(run), cache.known)
           start == [cache |-> cache, lost |-> {}]
           Next1(acc, n) == CHOOSE next \in {Grow(a, run[n]) : a \in {acc}} : TRUE
           Run(f) == [n \in 0 .. Len(run) |-> IF n = 0 THEN start ELSE Next1(f[n - 1], n)]
           h == [n \in Nat |-> [acc \in T |-> IF n \in 1 .. Len(run) THEN Grow(acc, run[n]) ELSE acc]]
<1>0. Len(run) \in Nat /\ DOMAIN run = 1 .. Len(run)
  BY LenProperties
<1>1. start \in T
  BY DEF Passes, Sound
<1>2. \A n \in 1 .. Len(run) : run[n].id \in IdsOf(run)
  BY <1>0 DEF IdsOf
<1>3. h \in Steppers(T)
  <2>1. \A n \in Nat, acc \in T : (IF n \in 1 .. Len(run) THEN Grow(acc, run[n]) ELSE acc) \in T
    BY <1>2, GrowPasses
  <2> HIDE DEF T
  <2> QED BY <2>1 DEF Steppers
<1>4. \A n, acc : Next1(acc, n) = Grow(acc, run[n])
  <2> SUFFICES ASSUME NEW n, NEW acc PROVE Next1(acc, n) = Grow(acc, run[n])
    OBVIOUS
  <2>1. {Grow(a, run[n]) : a \in {acc}} = {Grow(acc, run[n])}
    OBVIOUS
  <2>2. \A g : (CHOOSE next \in {g} : TRUE) = g
    OBVIOUS
  <2> QED BY <2>1, <2>2, Zenon
<1> HIDE DEF Next1, T, start
<1>5. PICK f : Iterates(f, T, start, h, Len(run))
  <2> HIDE DEF h
  <2> QED BY <1>0, <1>1, <1>3, Iteration
<1>6. f \in [0 .. Len(run) -> T] /\ f[0] = start
  BY <1>5 DEF Iterates
<1>7. \A n \in 1 .. Len(run) : f[n] = Next1(f[n - 1], n)
  <2> SUFFICES ASSUME NEW n \in 1 .. Len(run) PROVE f[n] = Next1(f[n - 1], n)
    OBVIOUS
  <2>1. f[n - 1] \in T /\ n \in Nat
    BY <1>0, <1>6
  <2>2. f[n] = h[n][f[n - 1]]
    BY <1>5 DEF Iterates
  <2> QED BY <1>4, <2>1, <2>2
<1> HIDE DEF h
<1>8. f = Run(f)
  <2>1. f = [n \in 0 .. Len(run) |-> f[n]]
    BY <1>6
  <2>2. \A n \in 0 .. Len(run) : n # 0 => n \in 1 .. Len(run)
    BY <1>0
  <2>3. \A n \in 0 .. Len(run) : f[n] = IF n = 0 THEN start ELSE Next1(f[n - 1], n)
    BY <1>6, <1>7, <2>2, Zenon
  <2>4. [n \in 0 .. Len(run) |-> f[n]] = Run(f)
    BY <2>3, Zenon
  <2> QED BY <2>1, <2>4, Zenon
<1> DEFINE g == CHOOSE g : g = Run(g)
<1>9. g = Run(g)
  BY <1>8
<1>10. ReserveAll = g[Len(run)]
  BY DEF ReserveAll, Next1, start
<1> HIDE DEF g
<1>11. \A n \in 0 .. Len(run) : g[n] = IF n = 0 THEN start ELSE Next1(g[n - 1], n)
  <2>1. \A n : g[n] = Run(g)[n]
    BY <1>9, Zenon
  <2>2. \A n \in 0 .. Len(run) : Run(g)[n] = IF n = 0 THEN start ELSE Next1(g[n - 1], n)
    BY Zenon
  <2> QED BY <2>1, <2>2, Zenon
<1> DEFINE M == {k \in Nat : k <= Len(run) => g[k] = f[k]}
<1>12. 0 \in M
  BY <1>0, <1>6, <1>11
<1>13. \A n \in Nat : n \in M => n + 1 \in M
  <2> SUFFICES ASSUME NEW n \in Nat, n \in M PROVE n + 1 \in M
    OBVIOUS
  <2>1. ASSUME n + 1 <= Len(run) PROVE g[n + 1] = f[n + 1]
    <3>1. n + 1 \in 0 .. Len(run) /\ n + 1 # 0 /\ n + 1 \in 1 .. Len(run) /\ (n + 1) - 1 = n /\ n <= Len(run)
      BY <1>0, <2>1
    <3>2. g[n + 1] = Next1(g[n], n + 1)
      BY <1>11, <3>1
    <3>3. f[n + 1] = Next1(f[n], n + 1)
      BY <1>7, <3>1
    <3> QED BY <3>1, <3>2, <3>3
  <2> QED BY <2>1
<1> HIDE DEF M
<1>14. \A n \in Nat : n \in M
  BY <1>12, <1>13, InductionOnNat
<1>15. ReserveAll = f[Len(run)]
  BY <1>0, <1>10, <1>14 DEF M
<1> QED BY <1>0, <1>6, <1>15 DEF T

-----------------------------------------------------------------------------
(* Blocks are held by exactly the running sequences, and a request is      *)
(* refused only when it is larger than the cache.                          *)

\* A sequence id has one entry in the running set.
OwnIds(run) == \A e, f : Has(run, e) /\ Has(run, f) /\ e.id = f.id => e = f

CacheInv ==
    /\ ids \in 0 .. Cardinality(Seqs) /\ prompt \in [Requests -> Nat \ {0}]
    /\ OwnIds(running) /\ IdsOf(running) \subseteq 1 .. ids
    /\ cached => /\ Sound(cache) /\ cache.known \subseteq 1 .. ids
                 /\ Holding(cache) = IdsOf(running)
    /\ RefusedIsTooBig

\* The ids of a running set, through its entries.
LEMMA IdsListed ==
    ASSUME NEW X, NEW run \in Seq(X)
    PROVE  \A s : s \in IdsOf(run) <=> \E e : Has(run, e) /\ e.id = s
<1>1. DOMAIN run = 1 .. Len(run)
  BY LenProperties
<1> QED BY <1>1 DEF IdsOf, Has

\* Those that leave and those that stay: no id is in both parts, and none is lost.
LEMMA IdsParted ==
    ASSUME NEW run \in Seq(Entries), OwnIds(run)
    PROVE  /\ \A S : /\ OwnIds(Without(run, S)) /\ IdsOf(Without(run, S)) = IdsOf(run) \ S
                     /\ IdsOf(With(run, S)) = IdsOf(run) \cap S
           /\ OwnIds(Unfinished(run))
           /\ IdsOf(Unfinished(run)) = IdsOf(run) \ IdsOf(Finished(run))
           /\ IdsOf(Finished(run)) \subseteq IdsOf(run)
<1>1. \A A : Keep(run, A) \in Seq(Entries) /\ \A e : Has(Keep(run, A), e) <=> e \in A /\ Has(run, e)
  BY KeepType, KeepMembers
<1>2. \A e : Has(run, e) <=> e \in ToSet(run)
  <2>1. DOMAIN run = 1 .. Len(run)
    BY LenProperties
  <2> QED BY <2>1 DEF Has, ToSet
<1>3. \A s : s \in IdsOf(run) <=> \E e : Has(run, e) /\ e.id = s
  BY IdsListed
<1>4. \A A : \A s : s \in IdsOf(Keep(run, A)) <=> \E e : Has(run, e) /\ e \in A /\ e.id = s
  <2> SUFFICES ASSUME NEW A PROVE \A s : s \in IdsOf(Keep(run, A)) <=> \E e : Has(run, e) /\ e \in A /\ e.id = s
    OBVIOUS
  <2>1. \A s : s \in IdsOf(Keep(run, A)) <=> \E e : Has(Keep(run, A), e) /\ e.id = s
    BY <1>1, IdsListed
  <2> QED BY <1>1, <2>1
<1>5. \A A : OwnIds(Keep(run, A))
  BY <1>1 DEF OwnIds
<1>6. ASSUME NEW S
      PROVE  /\ OwnIds(Without(run, S)) /\ IdsOf(Without(run, S)) = IdsOf(run) \ S
             /\ IdsOf(With(run, S)) = IdsOf(run) \cap S
  <2>1. OwnIds(Without(run, S))
    BY <1>5 DEF Without
  <2>2. \A s : s \in IdsOf(Without(run, S)) <=> \E e : Has(run, e) /\ e.id \notin S /\ e.id = s
    BY <1>2, <1>4 DEF Without
  <2>3. \A s : s \in IdsOf(With(run, S)) <=> \E e : Has(run, e) /\ e.id \in S /\ e.id = s
    BY <1>2, <1>4 DEF With
  <2>4. \A s : s \in IdsOf(Without(run, S)) <=> s \in IdsOf(run) \ S
    BY <1>3, <2>2
  <2>5. \A s : s \in IdsOf(With(run, S)) <=> s \in IdsOf(run) \cap S
    BY <1>3, <2>3
  <2> QED BY <2>1, <2>4, <2>5
<1>7. OwnIds(Unfinished(run))
  BY <1>5 DEF Unfinished
<1>8. \A s : s \in IdsOf(Unfinished(run)) <=> \E e : Has(run, e) /\ ~e.finished /\ e.id = s
  BY <1>2, <1>4 DEF Unfinished
<1>9. \A s : s \in IdsOf(Finished(run)) <=> \E e : Has(run, e) /\ e.finished /\ e.id = s
  BY <1>2, <1>4 DEF Finished
<1>10. \A s : s \in IdsOf(Unfinished(run)) <=> s \in IdsOf(run) \ IdsOf(Finished(run))
  BY <1>3, <1>8, <1>9 DEF OwnIds
<1>11. \A s : s \in IdsOf(Finished(run)) => s \in IdsOf(run)
  BY <1>3, <1>9
<1> QED BY <1>6, <1>7, <1>10, <1>11

\* A new entry under a fresh id.
LEMMA NewId ==
    ASSUME NEW run \in Seq(Entries), OwnIds(run), NEW e \in Entries, e.id \notin IdsOf(run)
    PROVE  OwnIds(Append(run, e)) /\ IdsOf(Append(run, e)) = IdsOf(run) \cup {e.id}
<1>1. Append(run, e) \in Seq(Entries)
  BY AppendProperties
<1>2. \A f : Has(Append(run, e), f) <=> Has(run, f) \/ f = e
  BY HasAppend
<1>3. /\ \A s : s \in IdsOf(Append(run, e)) <=> \E f : Has(Append(run, e), f) /\ f.id = s
      /\ \A s : s \in IdsOf(run) <=> \E f : Has(run, f) /\ f.id = s
  BY <1>1, IdsListed
<1>4. OwnIds(Append(run, e))
  BY <1>2, <1>3 DEF OwnIds
<1>5. \A s : s \in IdsOf(Append(run, e)) <=> s \in IdsOf(run) \cup {e.id}
  BY <1>2, <1>3
<1> QED BY <1>4, <1>5

\* A step of the runner changes no id.
LEMMA SameIds ==
    ASSUME NEW run \in Seq(Entries), OwnIds(run), NEW new \in Seq(Entries), DOMAIN new = DOMAIN run,
           \A i \in DOMAIN run : new[i].id = run[i].id,
           \A i, j \in DOMAIN run : run[i] = run[j] => new[i] = new[j]
    PROVE  OwnIds(new) /\ IdsOf(new) = IdsOf(run)
<1>1. DOMAIN run = 1 .. Len(run) /\ DOMAIN new = 1 .. Len(new)
  BY LenProperties
<1>2. OwnIds(new)
  <2> SUFFICES ASSUME NEW m \in DOMAIN run, NEW n \in DOMAIN run, new[m].id = new[n].id
               PROVE  new[m] = new[n]
    BY <1>1 DEF OwnIds, Has
  <2>1. run[m].id = run[n].id
    OBVIOUS
  <2>2. run[m] = run[n]
    BY <1>1, <2>1 DEF OwnIds, Has
  <2> QED BY <2>2
<1>3. IdsOf(new) = IdsOf(run)
  <2>1. {new[i].id : i \in DOMAIN run} = {run[i].id : i \in DOMAIN run}
    OBVIOUS
  <2> QED BY <2>1 DEF IdsOf
<1> QED BY <1>2, <1>3

\* A sample changes neither the request nor the id of an entry.
LEMMA SampledEntry ==
    ASSUME NEW e \in Entries, NEW eos
    PROVE  /\ Sampled(e, eos) \in Entries
           /\ Sampled(e, eos).req = e.req /\ Sampled(e, eos).id = e.id
<1>1. (e.made + 1 >= MaxNewTokens[e.req]) \in BOOLEAN
  OBVIOUS
<1>2. PICK b \in BOOLEAN : b = (e.made + 1 >= MaxNewTokens[e.req])
  BY <1>1
<1>3. Sampled(e, eos) = IF e.id \in eos THEN [e EXCEPT !.finished = TRUE]
                        ELSE [e EXCEPT !.made = @ + 1, !.finished = b]
  BY <1>2 DEF Sampled
<1>4. e \in [req : Requests, id : Seqs, made : Nat, finished : BOOLEAN]
  BY DEF Entries
<1>5. PICK d : d = [e EXCEPT !.finished = TRUE]
  OBVIOUS
<1>6. d \in Entries /\ d.req = e.req /\ d.id = e.id
  BY <1>4, <1>5 DEF Entries
<1>7. PICK m \in Nat : m = e.made + 1
  BY <1>4
<1>8. PICK g : g = [e EXCEPT !.made = m, !.finished = b]
  OBVIOUS
<1>9. g \in Entries /\ g.req = e.req /\ g.id = e.id
  BY <1>4, <1>8 DEF Entries
<1> QED BY <1>3, <1>5, <1>6, <1>7, <1>8, <1>9

\* The first state.
LEMMA InitCacheInv == EngineInit => CacheInv
<1> SUFFICES ASSUME EngineInit PROVE CacheInv
  OBVIOUS
<1>1. PICK setup, a, b : setup \in Setups /\ InitAt(a, b, setup)
  BY ContinuousEngineAssumption DEF EngineInit, Init
<1>2. /\ running = <<>> /\ ids = 0 /\ deferred = NoRequest /\ prompt = setup.prompt
      /\ cached = (setup.cache # "none") /\ cache = EmptyCache(setup.cache)
      /\ outcome = [r \in Requests |-> "pending"]
  BY <1>1 DEF InitAt
<1>3. /\ setup.prompt \in [Requests -> Nat \ {0}] /\ setup.cache \in Policies \cup {"none"}
      /\ NoRequest \notin Requests
  BY <1>1, BatcherAssumption
<1>4. DOMAIN <<>> = {} /\ Len(<<>>) = 0 /\ <<>> \in Seq(Seqs)
  OBVIOUS
<1>5. OwnIds(running) /\ IdsOf(running) = {}
  BY <1>2, <1>4 DEF OwnIds, Has, IdsOf
<1>6. RefusedIsTooBig
  BY <1>2, <1>3 DEF RefusedIsTooBig
<1>7. cached => Sound(cache) /\ cache.known = {} /\ Holding(cache) = {}
  <2> SUFFICES ASSUME cached PROVE Sound(cache) /\ cache.known = {} /\ Holding(cache) = {}
    OBVIOUS
  <2>1. /\ cache.known = {} /\ cache.tokens = [s \in Seqs |-> 0] /\ cache.held = [s \in Seqs |-> 0]
        /\ cache.free = TotalBlocks
    BY <1>2 DEF EmptyCache
  <2>2. cache \in Caches
    BY <1>2, <1>3, <1>4, CacheAssumption DEF EmptyCache, Caches
  <2>3. BlocksOf(cache, Seqs) = 0
    <3>1. \A s \in Seqs : cache.held[s] = 0
      BY <2>1
    <3> QED BY <3>1, SumZero, CacheAssumption DEF BlocksOf
  <2>4. Sound(cache)
    BY <2>1, <2>2, <2>3, CacheAssumption DEF Sound
  <2> QED BY <2>1, <2>4 DEF Holding
<1>8. ids \in 0 .. Cardinality(Seqs)
  BY <1>2, FS_CardinalityType, CacheAssumption
<1> QED BY <1>2, <1>3, <1>5, <1>6, <1>7, <1>8 DEF CacheInv

\* Steps that leave the batcher and its cache alone.
LEMMA CacheKept ==
    ASSUME CacheInv, UNCHANGED <<prompt, ids, running, cached, cache, deferred, outcome>>
    PROVE  CacheInv'
BY DEF CacheInv, RefusedIsTooBig, Holding, Sound, BlocksOf

\* Requests that are settled otherwise than by a refusal.
LEMMA SettleOthers ==
    ASSUME RefusedIsTooBig, NEW G, NEW how, how # "rejected", Settle(G, how),
           deferred' = deferred \/ deferred' \notin Requests, UNCHANGED prompt
    PROVE  RefusedIsTooBig'
<1>1. \A r \in Requests : outcome'[r] = IF r \in G THEN how ELSE outcome[r]
  BY DEF Settle
<1> QED BY <1>1 DEF RefusedIsTooBig

\* The ids that are given are sequences.
LEMMA IdsAreSeqs ==
    ASSUME ids \in 0 .. Cardinality(Seqs)
    PROVE  /\ 1 .. ids \subseteq Seqs /\ ids \in Nat /\ ids + 1 \notin 1 .. ids
           /\ ids + 1 \in Seqs => ids + 1 \in 0 .. Cardinality(Seqs) /\ 1 .. (ids + 1) = (1 .. ids) \cup {ids + 1}
<1>1. PICK n : n = Cardinality(Seqs)
  OBVIOUS
<1>2. n \in Nat /\ Seqs = 1 .. n
  BY <1>1, FS_CardinalityType, CacheAssumption, BatcherAssumption
<1>3. PICK m : m = ids
  OBVIOUS
<1>4. m \in Nat /\ m <= n
  BY <1>1, <1>2, <1>3
<1>5. m + 1 \in Seqs => m + 1 \in 0 .. n
  BY <1>2, <1>4
<1>6. 1 .. (m + 1) = (1 .. m) \cup {m + 1} /\ m + 1 \notin 1 .. m
  BY <1>4
<1>7. 1 .. m \subseteq Seqs
  BY <1>2, <1>4
<1> QED BY <1>1, <1>3, <1>4, <1>5, <1>6, <1>7, Zenon

\* The part of the running set that leaves gives its blocks back, and nobody else does.
LEMMA LeaveKeeps ==
    ASSUME CacheInv, NEW c, NEW R, NEW G, NEW K, cached => Sound(c) /\ c.known \subseteq K /\ Holding(c) = R,
           R \subseteq Seqs, G \subseteq Seqs, cache' = IF cached THEN Releasing(c, G) ELSE c
    PROVE  cached => /\ Sound(cache') /\ cache'.known \subseteq K
                     /\ Holding(cache') = R \ G
BY ReleaseSound

\* _offer_to_cache: a request starts with blocks of its own, or is refused because it is too
\* large; the sequences evicted for it leave the running set.
LEMMA OfferCache ==
    ASSUME HeldInv, CacheInv, NEW r \in Requests, Offer(r), UNCHANGED <<prompt, cached>>,
           deferred \in {r, NoRequest}
    PROVE  CacheInv'
<1>1. PICK s : s = ids + 1
  OBVIOUS
<1>2. /\ s \in Seqs /\ ids' = s /\ s \notin 1 .. ids /\ 1 .. s = 1 .. ids \cup {s} /\ ids \in Nat
      /\ 1 .. ids \subseteq Seqs /\ s \in 0 .. Cardinality(Seqs)
  BY <1>1, IdsAreSeqs DEF Offer, CacheInv
<1>3. /\ running \in Seq(Entries) /\ OwnIds(running) /\ IdsOf(running) \subseteq 1 .. ids
      /\ RefusedIsTooBig /\ prompt[r] \in Nat \ {0} /\ NoRequest \notin Requests
  BY BatcherAssumption DEF CacheInv, HeldInv, HeldTypes
<1>4. PICK o : /\ o = AskCache(r)
               /\ \/ Granted(o) /\ Begin(r, o)
                  \/ ~Granted(o) /\ cache' = o.cache /\ (Reject(r) \/ Defer(r))
  BY DEF Offer
<1>5. cached =>
        /\ Sound(o.cache) /\ o.cache.known \subseteq 1 .. s
        /\ o.preempted \subseteq IdsOf(running)
        /\ Granted(o) => Holding(o.cache) = (IdsOf(running) \ o.preempted) \cup {s}
        /\ ~Granted(o) => Holding(o.cache) = IdsOf(running) /\ prompt[r] > TotalBlocks * BlockSize
  <2> SUFFICES ASSUME cached
      PROVE /\ Sound(o.cache) /\ o.cache.known \subseteq 1 .. s
            /\ o.preempted \subseteq IdsOf(running)
            /\ Granted(o) => Holding(o.cache) = (IdsOf(running) \ o.preempted) \cup {s}
            /\ ~Granted(o) => Holding(o.cache) = IdsOf(running) /\ prompt[r] > TotalBlocks * BlockSize
    OBVIOUS
  <2>1. Sound(cache) /\ cache.known \subseteq 1 .. ids /\ Holding(cache) = IdsOf(running)
    BY DEF CacheInv
  <2>2. o = Admitting(cache, s, prompt[r]) /\ s \notin cache.known
    BY <1>1, <1>2, <1>4, <2>1 DEF AskCache
  <2>3. /\ Sound(o.cache) /\ o.cache.known = cache.known \cup {s}
        /\ o.preempted \subseteq Holding(cache)
        /\ Granted(o) => Holding(o.cache) = (Holding(cache) \ o.preempted) \cup {s}
        /\ ~Granted(o) => Holding(o.cache) = Holding(cache) /\ prompt[r] > TotalBlocks * BlockSize
    BY <1>2, <1>3, <2>1, <2>2, AdmitSound
  <2> QED BY <1>2, <2>1, <2>3
<1>6. ~cached => Granted(o) /\ o.preempted = {}
  BY <1>4 DEF AskCache, Outcome, Granted
<1>7. CASE Granted(o) /\ Begin(r, o)
  <2>1. PICK P : P = o.preempted
    OBVIOUS
  <2>2. PICK e : e = NewEntry(r, s)
    OBVIOUS
  <2>3. e \in Entries /\ e.id = s
    BY <1>2, <2>2 DEF NewEntry, Entries
  <2>4. PICK stay : stay = Without(running, P)
    OBVIOUS
  <2>5. /\ stay \in Seq(Entries) /\ OwnIds(stay) /\ IdsOf(stay) = IdsOf(running) \ P
        /\ IdsOf(With(running, P)) = IdsOf(running) \cap P
    <3>1. stay \in Seq(Entries)
      BY <1>3, <2>4, Parted DEF HeldInv, HeldTypes
    <3> QED BY <1>3, <2>4, <3>1, IdsParted
  <2>6. /\ running' = Append(stay, e) /\ Settle(RequestsOf(With(running, P)), "truncated")
        /\ deferred' = NoRequest
        /\ cache' = IF cached THEN Releasing(o.cache, IdsOf(With(running, P))) ELSE o.cache
    BY <1>1, <1>7, <2>1, <2>2, <2>4 DEF Begin, Leave
  <2>7. OwnIds(running') /\ IdsOf(running') = (IdsOf(running) \ P) \cup {s}
    <3>1. e.id \notin IdsOf(stay)
      BY <1>2, <1>3, <2>3, <2>5
    <3> QED BY <2>3, <2>5, <2>6, <3>1, NewId
  <2>8. RefusedIsTooBig'
    BY <1>3, <2>6, SettleOthers
  <2>9. cached => Sound(cache') /\ cache'.known \subseteq 1 .. s /\ Holding(cache') = IdsOf(running')
    <3> SUFFICES ASSUME cached
        PROVE Sound(cache') /\ cache'.known \subseteq 1 .. s /\ Holding(cache') = IdsOf(running')
      OBVIOUS
    <3>1. PICK G : G = IdsOf(With(running, P))
      OBVIOUS
    <3>2. G = P /\ G \subseteq Seqs /\ cache' = Releasing(o.cache, G)
      BY <1>2, <1>3, <1>5, <2>1, <2>5, <2>6, <3>1
    <3>3. /\ Sound(cache') /\ Holding(cache') = Holding(o.cache) \ G /\ cache'.known = o.cache.known \ G
      BY <1>5, <3>2, ReleaseSound
    <3>4. Holding(o.cache) = (IdsOf(running) \ P) \cup {s} /\ s \notin P
      BY <1>2, <1>3, <1>5, <1>7, <2>1
    <3> QED BY <1>5, <2>7, <3>2, <3>3, <3>4
  <2>10. IdsOf(running') \subseteq 1 .. s
    BY <1>2, <1>3, <2>7
  <2> QED BY <1>2, <2>7, <2>8, <2>9, <2>10 DEF CacheInv
<1>8. CASE ~Granted(o) /\ cache' = o.cache /\ (Reject(r) \/ Defer(r))
  <2>1. cached /\ prompt[r] > TotalBlocks * BlockSize
    BY <1>5, <1>6, <1>8
  <2>2. UNCHANGED running
    BY <1>8 DEF Reject, Defer
  <2>3. RefusedIsTooBig'
    <3>1. \A q \in Requests : (outcome'[q] = "rejected" => outcome[q] = "rejected" \/ q = r)
                              /\ (deferred' = q => q = r)
      BY <1>3, <1>8 DEF Reject, Defer, Settle
    <3> QED BY <1>3, <2>1, <3>1 DEF RefusedIsTooBig
  <2>4. Sound(cache') /\ cache'.known \subseteq 1 .. s /\ Holding(cache') = IdsOf(running')
    BY <1>5, <1>8, <2>1, <2>2
  <2>5. IdsOf(running') \subseteq 1 .. s /\ OwnIds(running')
    BY <1>2, <1>3, <2>2
  <2> QED BY <1>2, <2>3, <2>4, <2>5 DEF CacheInv
<1> QED BY <1>4, <1>7, <1>8

\* What one step of the runner makes of the running set.
LEMMA RunnerStepIds ==
    ASSUME NEW run \in Seq(Entries), OneRow(run), OwnIds(run),
           NEW new, new = [i \in DOMAIN run |-> new[i]], NEW eos,
           \A i \in DOMAIN run : new[i] \in {run[i], Sampled(run[i], eos)},
           \A i, j \in DOMAIN run : run[i] = run[j] => new[i] = new[j]
    PROVE  /\ new \in Seq(Entries) /\ OneRow(new) /\ OwnIds(new)
           /\ IdsOf(new) = IdsOf(run)
<1>1. \A i \in DOMAIN run : run[i] \in Entries
  OBVIOUS
<1>2. \A i \in DOMAIN run : new[i] \in Entries /\ new[i].req = run[i].req /\ new[i].id = run[i].id
  BY <1>1, SampledEntry
<1>3. new \in Seq(Entries) /\ OneRow(new)
  BY <1>2, SameRows
<1>4. DOMAIN new = DOMAIN run
  OBVIOUS
<1> QED BY <1>2, <1>3, <1>4, SameIds

\* The scheduler's steps on the running set as a whole: the entries with ids in G leave, and
\* the cache, which has blocks for the ids in R, takes theirs back.
LEMMA RunningCache ==
    ASSUME CacheInv, NEW c, NEW R, NEW G, NEW how, how # "rejected", NEW S, Settle(S, how),
           UNCHANGED <<prompt, ids, cached, deferred>>,
           R \subseteq IdsOf(running), G \subseteq IdsOf(running),
           cached => Sound(c) /\ c.known = cache.known /\ Holding(c) = R,
           cache' = IF cached THEN Releasing(c, G) ELSE c,
           OwnIds(running'), IdsOf(running') \subseteq IdsOf(running), cached => IdsOf(running') = R \ G
    PROVE  CacheInv'
<1>1. 1 .. ids \subseteq Seqs /\ IdsOf(running) \subseteq 1 .. ids
  BY IdsAreSeqs DEF CacheInv
<1>2. R \subseteq Seqs /\ G \subseteq Seqs
  BY <1>1
<1>3. PICK K : K = 1 .. ids
  OBVIOUS
<1>4. cached => Sound(c) /\ c.known \subseteq K /\ Holding(c) = R
  BY <1>3 DEF CacheInv
<1>5. cached => Sound(cache') /\ cache'.known \subseteq K /\ Holding(cache') = R \ G
  BY <1>2, <1>4, LeaveKeeps
<1>6. RefusedIsTooBig'
  BY SettleOthers DEF CacheInv
<1>7. IdsOf(running') \subseteq 1 .. ids
  BY <1>1
<1> QED BY <1>3, <1>5, <1>6, <1>7 DEF CacheInv

\* A step of the scheduler keeps blocks with the running sequences.
LEMMA SchedulerCache ==
    ASSUME HeldInv, CacheInv, Scheduler \/ RunnerRaises
    PROVE  CacheInv'
<1>0. /\ running \in Seq(Entries) /\ OneRow(running) /\ OwnIds(running)
      /\ NoRequest \notin Requests /\ Sentinel \notin Requests
      /\ IdsOf(running) \subseteq 1 .. ids /\ 1 .. ids \subseteq Seqs
  BY BatcherAssumption, QueueAssumption, IdsAreSeqs DEF HeldInv, HeldTypes, CacheInv
<1>1. CASE AdmitDeferred
  <2>1. deferred \in Requests /\ Offer(deferred) /\ UNCHANGED <<prompt, cached>>
    BY <1>1 DEF AdmitDeferred, HeldInv, HeldTypes
  <2> QED BY <2>1, OfferCache
<1>2. CASE AdmitNext
  <2>1. PICK h : h = Head(queue)
    OBVIOUS
  <2>2. UNCHANGED <<prompt, cached>> /\ deferred = NoRequest
    BY <1>2 DEF AdmitNext
  <2>3. \/ UNCHANGED <<running, deferred, ids, cache, outcome>>
        \/ Settle({h}, "expired") /\ UNCHANGED <<running, deferred, ids, cache>>
        \/ h \in Requests /\ Offer(h)
    BY <1>2, <2>1 DEF AdmitNext
  <2>4. CASE UNCHANGED <<running, deferred, ids, cache, outcome>>
    BY <2>2, <2>4, CacheKept
  <2>5. CASE Settle({h}, "expired") /\ UNCHANGED <<running, deferred, ids, cache>>
    <3>1. RefusedIsTooBig'
      BY <2>2, <2>5, SettleOthers DEF CacheInv
    <3> QED BY <2>2, <2>5, <3>1 DEF CacheInv, Holding, Sound, BlocksOf
  <2>6. CASE h \in Requests /\ Offer(h)
    BY <2>2, <2>6, OfferCache
  <2> QED BY <2>3, <2>4, <2>5, <2>6
<1>3. CASE AdmitDone \/ RunnerRaises
  BY <1>3, CacheKept DEF AdmitDone, RunnerRaises
<1>4. CASE Start
  <2>1. PICK eos : running' = [i \in DOMAIN running |-> Prefilled(running[i], eos)]
    BY <1>4 DEF Start, PrefillAdmitted
  <2>2. UNCHANGED <<prompt, ids, cached, cache, deferred, outcome>>
    BY <1>4 DEF Start, PrefillAdmitted
  <2>3. /\ running' = [i \in DOMAIN running |-> running'[i]]
        /\ \A i \in DOMAIN running : running'[i] \in {running[i], Sampled(running[i], eos)}
        /\ \A i, j \in DOMAIN running : running[i] = running[j] => running'[i] = running'[j]
    BY <2>1 DEF Prefilled
  <2>4. OwnIds(running') /\ IdsOf(running') = IdsOf(running)
    BY <1>0, <2>3, RunnerStepIds
  <2>5. RefusedIsTooBig'
    BY <2>2 DEF CacheInv, RefusedIsTooBig
  <2>6. cached' => Sound(cache') /\ cache'.known \subseteq 1 .. ids' /\ Holding(cache') = IdsOf(running')
    BY <2>2, <2>4 DEF CacheInv, Holding, Sound, BlocksOf
  <2> QED BY <2>2, <2>4, <2>5, <2>6 DEF CacheInv
<1>5. CASE ReserveStep
  <2>1. PICK after : /\ after = IF cached THEN ReserveAll ELSE [cache |-> cache, lost |-> {}]
                     /\ running' = Without(running, after.lost)
                     /\ Leave(after.cache, runner, With(running, after.lost), "truncated")
    BY <1>5 DEF ReserveStep
  <2>2. UNCHANGED <<prompt, ids, cached, deferred>>
    BY <1>5 DEF ReserveStep
  <2>3. cached => after \in Passes(IdsOf(running), cache.known)
    <3>1. cached => Sound(cache) /\ Holding(cache) = IdsOf(running) /\ IdsOf(running) \subseteq cache.known
      <4> SUFFICES ASSUME cached, NEW s \in IdsOf(running) PROVE s \in cache.known
        BY DEF CacheInv
      <4>1. s \in Seqs /\ cache.held[s] > 0 /\ Sound(cache)
        BY DEF CacheInv, Holding
      <4> QED BY <4>1 DEF Sound
    <3>2. cached => ReserveAll \in Passes(IdsOf(running), cache.known)
      BY <1>0, <3>1, ReserveAllPasses
    <3> QED BY <2>1, <3>2
  <2>4. PICK S : S = after.lost
    OBVIOUS
  <2>5. PICK G : G = IdsOf(With(running, S))
    OBVIOUS
  <2>6. PICK R : R = IF cached THEN Holding(after.cache) ELSE {}
    OBVIOUS
  <2>7. OwnIds(running') /\ IdsOf(running') = IdsOf(running) \ S /\ G = IdsOf(running) \cap S
    BY <1>0, <2>1, <2>4, <2>5, IdsParted
  <2>8. cached => /\ Sound(after.cache) /\ after.cache.known = cache.known
                  /\ IdsOf(running) \ S \subseteq R /\ R \subseteq IdsOf(running)
    BY <2>3, <2>4, <2>6 DEF Passes
  <2>9. Settle(RequestsOf(With(running, S)), "truncated") /\ cache' = IF cached THEN Releasing(after.cache, G) ELSE after.cache
    BY <2>1, <2>4, <2>5 DEF Leave
  <2>10. /\ R \subseteq IdsOf(running) /\ G \subseteq IdsOf(running)
         /\ cached => IdsOf(running') = R \ G
    BY <2>6, <2>7, <2>8
  <2>11. cached => Sound(after.cache) /\ after.cache.known = cache.known /\ Holding(after.cache) = R
    BY <2>6, <2>8
  <2>12. IdsOf(running') \subseteq IdsOf(running)
    BY <2>7
  <2>13. PICK c : c = after.cache
    OBVIOUS
  <2>14. PICK Q, how : Q = RequestsOf(With(running, S)) /\ how = "truncated"
    OBVIOUS
  <2>15. how # "rejected" /\ Settle(Q, how) /\ cache' = IF cached THEN Releasing(c, G) ELSE c
    BY <2>9, <2>13, <2>14
  <2>16. cached => Sound(c) /\ c.known = cache.known /\ Holding(c) = R
    BY <2>11, <2>13
  <2> QED BY <2>2, <2>7, <2>10, <2>12, <2>15, <2>16, RunningCache
<1>6. CASE DecodeAndRetire
  <2>1. PICK eos, run : /\ run = [i \in DOMAIN running |-> IF running[i].id \in Reached
                                     THEN Sampled(running[i], eos) ELSE running[i]]
                        /\ running' = Unfinished(run)
                        /\ Leave(cache, DecodeStep(runner, Reached), Finished(run), "finished")
    BY <1>6 DEF DecodeAndRetire
  <2>2. UNCHANGED <<prompt, ids, cached, deferred>>
    BY <1>6 DEF DecodeAndRetire
  <2>3. /\ run = [i \in DOMAIN running |-> run[i]]
        /\ \A i \in DOMAIN running : run[i] \in {running[i], Sampled(running[i], eos)}
        /\ \A i, j \in DOMAIN running : running[i] = running[j] => run[i] = run[j]
    BY <2>1
  <2>4. run \in Seq(Entries) /\ OwnIds(run) /\ IdsOf(run) = IdsOf(running)
    BY <1>0, <2>3, RunnerStepIds
  <2>5. PICK G : G = IdsOf(Finished(run))
    OBVIOUS
  <2>6. OwnIds(running') /\ IdsOf(running') = IdsOf(running) \ G /\ G \subseteq IdsOf(running)
    BY <2>1, <2>4, <2>5, IdsParted
  <2>7. Settle(RequestsOf(Finished(run)), "finished") /\ cache' = IF cached THEN Releasing(cache, G) ELSE cache
    BY <2>1, <2>5 DEF Leave
  <2>8. PICK R : R = IdsOf(running)
    OBVIOUS
  <2>9. /\ R \subseteq IdsOf(running)
        /\ IdsOf(running') \subseteq IdsOf(running)
        /\ cached => Sound(cache) /\ cache.known = cache.known /\ Holding(cache) = R
        /\ cached => IdsOf(running') = R \ G
    BY <2>6, <2>8 DEF CacheInv
  <2> QED BY <2>2, <2>6, <2>7, <2>9, RunningCache
<1> QED BY <1>1, <1>2, <1>3, <1>4, <1>5, <1>6 DEF Scheduler

\* Every step, with an engine or without.
LEMMA NextCacheInv == HeldInv /\ CacheInv /\ [EngineNext]_allVars => CacheInv'
<1> SUFFICES ASSUME HeldInv, CacheInv, [EngineNext]_allVars PROVE CacheInv'
  OBVIOUS
<1>1. CASE Scheduler \/ RunnerRaises
  BY <1>1, SchedulerCache
<1>2. CASE ~(Scheduler \/ RunnerRaises)
  <2>1. ASSUME NEW r \in Requests, SubmitRequest(r) \/ DeadlinePasses(r)
        PROVE  UNCHANGED <<prompt, ids, running, cached, cache, deferred, outcome>>
    BY <2>1 DEF SubmitRequest, DeadlinePasses, schedVars
  <2>2. ASSUME NEW k \in Stoppers, Shutdown(k)
        PROVE  UNCHANGED <<prompt, ids, running, cached, cache, deferred, outcome>>
    BY <2>2 DEF Shutdown, schedVars
  <2>3. ASSUME NEW r \in Requests, Client(r) \/ Cancel(r)
        PROVE  UNCHANGED <<prompt, ids, running, cached, cache, deferred, outcome>>
    BY <2>3 DEF Client, Cancel, CheckClosed, Register, SubmitCounted, Withdraw, vars, schedVars
  <2>4. ASSUME NEW k \in Stoppers, Stopper(k)
        PROVE  UNCHANGED <<prompt, ids, running, cached, cache, deferred, outcome>>
    BY <2>4 DEF Stopper, CallShutdown, SetClosed, ShutdownBatcher, Shutdown, TakeOutstanding, LookAt,
                SetException, ShutdownReturns, vars, schedVars
  <2>5. ASSUME SchedulerThread
        PROVE  UNCHANGED <<prompt, ids, running, cached, cache, deferred, outcome>>
    BY <1>2, <2>5 DEF SchedulerThread, BatcherStep, Callback, SetResult, vars, schedVars
  <2>6. CASE DirectStep
    <3>1. UNCHANGED <<prompt, ids, running, cached, cache, deferred, outcome>>
      BY <1>2, <2>1, <2>2, <2>6 DEF DirectStep, Next
    <3> QED BY <3>1, CacheKept
  <2>7. CASE EngineStep
    <3>1. UNCHANGED <<prompt, ids, running, cached, cache, deferred, outcome>>
      BY <2>1, <2>3, <2>4, <2>5, <2>7 DEF EngineStep
    <3> QED BY <3>1, CacheKept
  <2>8. CASE UNCHANGED allVars
    <3>1. UNCHANGED <<prompt, ids, running, cached, cache, deferred, outcome>>
      BY <2>8 DEF allVars, vars, schedVars
    <3> QED BY <3>1, CacheKept
  <2> QED BY <2>6, <2>7, <2>8 DEF EngineNext
<1> QED BY <1>1, <1>2

\* The cache stays sound, and has blocks for exactly the running sequences.
THEOREM CacheInvariance == EngineSpec => []CacheInv
BY InitCacheInv, NextCacheInv, HeldInvariance, PTL DEF EngineSpec

\* Through every refusal, deferral, eviction and retirement, each block of the cache is free or
\* belongs to a running sequence.
THEOREM BlocksTheorem == EngineSpec => []BlocksBelongToRunning
<1>1. CacheInv => BlocksBelongToRunning
  <2> SUFFICES ASSUME CacheInv, cached
      PROVE /\ {s \in Seqs : cache.held[s] > 0} = IdsOf(running)
            /\ IdsOf(running) \subseteq cache.known
            /\ cache.free + BlocksOf(cache, IdsOf(running)) = TotalBlocks
    BY DEF BlocksBelongToRunning
  <2>1. PICK H : H = Holding(cache)
    OBVIOUS
  <2>2. Sound(cache) /\ H = IdsOf(running) /\ H \subseteq Seqs
    BY <2>1 DEF CacheInv, Holding
  <2>3. cache.free + BlocksOf(cache, H) = TotalBlocks
    BY <2>1, <2>2, BlocksAddUp
  <2>4. H = {s \in Seqs : cache.held[s] > 0}
    BY <2>1 DEF Holding
  <2>5. H \subseteq cache.known
    BY <2>2, <2>4 DEF Sound
  <2> QED BY <2>2, <2>3, <2>4, <2>5
<1> QED BY <1>1, CacheInvariance, PTL

\* The cache refuses a request only when it is larger than the whole cache.
THEOREM RefusalTheorem == EngineSpec => []RefusedIsTooBig
<1>1. CacheInv => RefusedIsTooBig
  BY DEF CacheInv
<1> QED BY <1>1, CacheInvariance, PTL

-----------------------------------------------------------------------------
(* The rows of the batch belong to the sequences that are decoded.         *)

MaskRows == [pad : Nat, ones : Nat]
Samples == [id : Seqs, n : Nat]
Runners == [kind : RunnerKinds, active : SUBSET Seqs, rows : Seq(Seqs), mask : Seq(MaskRows),
            last : Seq(Samples), width : Nat]

\* The three sequences of the runner are aligned: what RowsAligned says of the runner alone.
Aligned(run) ==
    /\ run \in Runners
    /\ Len(run.mask) = Len(run.rows) /\ Len(run.last) = Len(run.rows)
    /\ \A i, j \in 1 .. Len(run.rows) : run.rows[i] = run.rows[j] => i = j
    /\ \A i \in 1 .. Len(run.rows) : /\ run.last[i].id = run.rows[i]
                                     /\ run.mask[i].pad + run.mask[i].ones = run.width
    /\ run.kind = "echo" => run.rows = <<>>
    /\ run.kind = "transformers" => run.active = {}

\* Sequence s has a row whose last token is its n-th sample and whose mask shows m positions.
Row(run, s, n, m) ==
    \E i \in 1 .. Len(run.rows) : run.rows[i] = s /\ run.last[i].n = n /\ run.mask[i].ones = m

\* A runner without rows.
LEMMA IdleAligned ==
    ASSUME NEW kind \in RunnerKinds
    PROVE  /\ Aligned(IdleRunner(kind)) /\ IdleRunner(kind).kind = kind
           /\ RowsHeld(IdleRunner(kind)) = {} /\ Len(IdleRunner(kind).rows) = 0
           /\ \A s, n, m : ~Row(IdleRunner(kind), s, n, m)
<1>1. PICK run : run = IdleRunner(kind)
  OBVIOUS
<1>2. /\ run.kind = kind /\ run.active = {} /\ run.rows = <<>> /\ run.mask = <<>>
      /\ run.last = <<>> /\ run.width = 0
  BY <1>1 DEF IdleRunner
<1>3. Len(<<>>) = 0 /\ DOMAIN <<>> = {} /\ 1 .. 0 = {}
  OBVIOUS
<1>4. run \in Runners
  BY <1>1 DEF IdleRunner, Runners
<1>5. Aligned(run)
  BY <1>2, <1>3, <1>4 DEF Aligned
<1>6. RowsHeld(run) = {}
  BY <1>2, <1>3 DEF RowsHeld, ToSet
<1>7. \A s, n, m : ~Row(run, s, n, m)
  BY <1>2, <1>3 DEF Row
<1> QED BY <1>1, <1>2, <1>3, <1>5, <1>6, <1>7

\* A runner with rows, and what its parts have to be: k rows that are aligned.
Batch(rows, mask, last, w) ==
    [kind |-> "transformers", active |-> {}, rows |-> rows, mask |-> mask, last |-> last, width |-> w]

Parts(k, rows, mask, last, w) ==
    /\ k \in Nat /\ w \in Nat
    /\ rows = [i \in 1 .. k |-> rows[i]] /\ mask = [i \in 1 .. k |-> mask[i]]
    /\ last = [i \in 1 .. k |-> last[i]]
    /\ \A i \in 1 .. k : /\ rows[i] \in Seqs /\ mask[i] \in MaskRows /\ last[i] \in Samples
                         /\ last[i].id = rows[i] /\ mask[i].pad + mask[i].ones = w
    /\ \A i, j \in 1 .. k : rows[i] = rows[j] => i = j

\* What can be seen of a runner: who has a row, the row's last token and its mask.
Shows(run, k, rows, mask, last) ==
    /\ \A s : s \in RowsHeld(run) <=> \E i \in 1 .. k : rows[i] = s
    /\ \A s, n, m : Row(run, s, n, m) <=>
          \E i \in 1 .. k : rows[i] = s /\ last[i].n = n /\ mask[i].ones = m

\* Its fields.
LEMMA BatchFields ==
    ASSUME NEW a, NEW b, NEW c, NEW d
    PROVE  /\ Batch(a, b, c, d).kind = "transformers" /\ Batch(a, b, c, d).active = {}
           /\ Batch(a, b, c, d).rows = a /\ Batch(a, b, c, d).mask = b
           /\ Batch(a, b, c, d).last = c /\ Batch(a, b, c, d).width = d
BY DEF Batch

\* Some of its fields replaced: by _keep_rows, decode_step, _merge_cache and prefill.
Reindexed(run, x, y, z) == [run EXCEPT !.rows = x, !.mask = y, !.last = z]
Stepped(run, y, w, z) == [run EXCEPT !.mask = y, !.width = w, !.last = z]
Merged(run, y, w) == [run EXCEPT !.mask = y, !.width = w]
Extended(run, x, z) == [run EXCEPT !.rows = x, !.last = z]

\* What replacing them makes.
LEMMA BatchReplaced ==
    ASSUME NEW a, NEW b, NEW c, NEW d, NEW x, NEW y, NEW z, NEW w
    PROVE  /\ Reindexed(Batch(a, b, c, d), x, y, z) = Batch(x, y, z, d)
           /\ Stepped(Batch(a, b, c, d), y, w, z) = Batch(a, y, z, w)
           /\ Extended(Batch(a, b, c, d), x, z) = Batch(x, b, z, d)
<1>1. ASSUME NEW new, new = Reindexed(Batch(a, b, c, d), x, y, z) PROVE new = Batch(x, y, z, d)
  <2>1. /\ new.kind = "transformers" /\ new.active = {} /\ new.rows = x /\ new.mask = y
        /\ new.last = z /\ new.width = d
    BY <1>1 DEF Batch, Reindexed
  <2>2. new = [kind |-> new.kind, active |-> new.active, rows |-> new.rows, mask |-> new.mask,
               last |-> new.last, width |-> new.width]
    BY <1>1 DEF Batch, Reindexed
  <2> QED BY <2>1, <2>2 DEF Batch
<1>2. ASSUME NEW new, new = Stepped(Batch(a, b, c, d), y, w, z) PROVE new = Batch(a, y, z, w)
  <2>1. /\ new.kind = "transformers" /\ new.active = {} /\ new.rows = a /\ new.mask = y
        /\ new.last = z /\ new.width = w
    BY <1>2 DEF Batch, Stepped
  <2>2. new = [kind |-> new.kind, active |-> new.active, rows |-> new.rows, mask |-> new.mask,
               last |-> new.last, width |-> new.width]
    BY <1>2 DEF Batch, Stepped
  <2> QED BY <2>1, <2>2 DEF Batch
<1>4. ASSUME NEW new, new = Extended(Batch(a, b, c, d), x, z) PROVE new = Batch(x, b, z, d)
  <2>1. /\ new.kind = "transformers" /\ new.active = {} /\ new.rows = x /\ new.mask = b
        /\ new.last = z /\ new.width = d
    BY <1>4 DEF Batch, Extended
  <2>2. new = [kind |-> new.kind, active |-> new.active, rows |-> new.rows, mask |-> new.mask,
               last |-> new.last, width |-> new.width]
    BY <1>4 DEF Batch, Extended
  <2> QED BY <2>1, <2>2 DEF Batch
<1> QED BY <1>1, <1>2, <1>4

\* And by _merge_cache.
LEMMA BatchMerged ==
    ASSUME NEW a, NEW b, NEW c, NEW d, NEW y, NEW w, NEW new, new = Merged(Batch(a, b, c, d), y, w)
    PROVE  new = Batch(a, y, c, w)
<1>1. /\ new.kind = "transformers" /\ new.active = {} /\ new.rows = a /\ new.mask = y
      /\ new.last = c /\ new.width = w
  BY DEF Batch, Merged
<1>2. new = [kind |-> new.kind, active |-> new.active, rows |-> new.rows, mask |-> new.mask,
             last |-> new.last, width |-> new.width]
  BY DEF Batch, Merged
<1> QED BY <1>1, <1>2 DEF Batch

\* A runner put together from aligned parts.
LEMMA BatchAligned ==
    ASSUME NEW k, NEW rows, NEW mask, NEW last, NEW w, Parts(k, rows, mask, last, w),
           NEW run, run = Batch(rows, mask, last, w)
    PROVE  /\ Aligned(run) /\ run.kind = "transformers" /\ Shows(run, k, rows, mask, last)
           /\ rows = <<>> <=> k = 0
<1>1. rows \in [1 .. k -> Seqs] /\ mask \in [1 .. k -> MaskRows] /\ last \in [1 .. k -> Samples]
      /\ k \in Nat /\ w \in Nat
  BY DEF Parts
<1>2. rows \in Seq(Seqs) /\ mask \in Seq(MaskRows) /\ last \in Seq(Samples)
  BY <1>1, SeqDef
<1>3. Len(rows) = k /\ Len(mask) = k /\ Len(last) = k /\ DOMAIN rows = 1 .. k
  BY <1>1, <1>2, LenProperties
<1>4. /\ run.kind = "transformers" /\ run.active = {} /\ run.rows = rows /\ run.mask = mask
      /\ run.last = last /\ run.width = w
  BY BatchFields
<1>5. run \in Runners
  <2>1. run = [kind |-> "transformers", active |-> {}, rows |-> rows, mask |-> mask, last |-> last,
               width |-> w]
    BY DEF Batch
  <2> QED BY <1>1, <1>2, <2>1 DEF Runners, RunnerKinds
<1>6. Aligned(run)
  <2>1. /\ \A i, j \in 1 .. k : rows[i] = rows[j] => i = j
        /\ \A i \in 1 .. k : last[i].id = rows[i] /\ mask[i].pad + mask[i].ones = w
    BY DEF Parts
  <2>2. run.kind # "echo"
    BY <1>4
  <2> QED BY <1>3, <1>4, <1>5, <2>1, <2>2 DEF Aligned
<1>7. \A s : s \in RowsHeld(run) <=> \E i \in 1 .. k : rows[i] = s
  BY <1>3, <1>4 DEF RowsHeld, ToSet
<1>8. \A s, n, m : Row(run, s, n, m) <=>
         \E i \in 1 .. k : rows[i] = s /\ last[i].n = n /\ mask[i].ones = m
  BY <1>3, <1>4 DEF Row
<1>9. rows = <<>> <=> k = 0
  BY <1>2, <1>3, EmptySeq
<1> QED BY <1>4, <1>6, <1>7, <1>8, <1>9 DEF Shows

\* Every aligned runner with a batch is put together so.
LEMMA AlignedBatch ==
    ASSUME NEW run, Aligned(run), run.kind = "transformers"
    PROVE  \E k, rows, mask, last, w :
             /\ run = Batch(rows, mask, last, w) /\ Parts(k, rows, mask, last, w)
             /\ k = Len(run.rows) /\ rows = run.rows
<1>1. PICK k, rows, mask, last, w :
        k = Len(run.rows) /\ rows = run.rows /\ mask = run.mask /\ last = run.last /\ w = run.width
  OBVIOUS
<1>2. run \in Runners
  BY DEF Aligned
<1>3. /\ rows \in Seq(Seqs) /\ mask \in Seq(MaskRows) /\ last \in Seq(Samples) /\ w \in Nat
  BY <1>1, <1>2 DEF Runners
<1>4. run = Batch(rows, mask, last, w)
  BY <1>1, <1>2 DEF Runners, Aligned, Batch
<1>5. k \in Nat /\ Len(rows) = k /\ Len(mask) = k /\ Len(last) = k
  BY <1>1, <1>3, LenProperties DEF Aligned
<1>6. rows \in [1 .. k -> Seqs] /\ mask \in [1 .. k -> MaskRows] /\ last \in [1 .. k -> Samples]
  BY <1>3, <1>5, LenProperties
<1>7. /\ rows = [i \in 1 .. k |-> rows[i]] /\ mask = [i \in 1 .. k |-> mask[i]]
      /\ last = [i \in 1 .. k |-> last[i]]
      /\ \A i \in 1 .. k : rows[i] \in Seqs /\ mask[i] \in MaskRows /\ last[i] \in Samples
  BY <1>6
<1>8. /\ \A i, j \in 1 .. k : rows[i] = rows[j] => i = j
      /\ \A i \in 1 .. k : last[i].id = rows[i] /\ mask[i].pad + mask[i].ones = w
  BY <1>1 DEF Aligned
<1>9. Parts(k, rows, mask, last, w)
  BY <1>3, <1>5, <1>7, <1>8 DEF Parts
<1> QED BY <1>1, <1>4, <1>9

\* The positions of the rows to keep: those rows, each once.
LEMMA PositionsOfRows ==
    ASSUME NEW run, Aligned(run), NEW ids1, NEW keep, keep = Positions(run, ids1),
           NEW k, k = Len(run.rows)
    PROVE  /\ keep \in Seq(Nat)
           /\ \A j \in 1 .. Len(keep) : keep[j] \in 1 .. k /\ run.rows[keep[j]] \in ids1
           /\ \A i \in 1 .. k : run.rows[i] \in ids1 => \E j \in 1 .. Len(keep) : keep[j] = i
           /\ \A i, j \in 1 .. Len(keep) : keep[i] = keep[j] => i = j
<1>1. run.rows \in Seq(Seqs) /\ k \in Nat /\ DOMAIN run.rows = 1 .. k
  BY LenProperties DEF Aligned, Runners
<1>2. PICK q : q = [i \in 1 .. k |-> i]
  OBVIOUS
<1>3. PICK A : A = {i \in 1 .. k : run.rows[i] \in ids1}
  OBVIOUS
<1>4. keep = Keep(q, A)
  BY <1>1, <1>2, <1>3 DEF Positions
<1>5. q \in [1 .. k -> Nat]
  BY <1>1, <1>2
<1>6. q \in Seq(Nat)
  BY <1>1, <1>5, SeqDef
<1>7. Len(q) = k
  BY <1>1, <1>5, <1>6, LenProperties
<1>8. Distinct(q) /\ \A y : Has(q, y) <=> y \in 1 .. k
  BY <1>1, <1>2, <1>7 DEF Distinct, Has
<1>9. keep \in Seq(Nat) /\ Distinct(keep) /\ \A y : Has(keep, y) <=> y \in A /\ Has(q, y)
  <2>1. Keep(q, A) \in Seq(Nat)
    BY <1>6, KeepType
  <2>2. Distinct(Keep(q, A))
    BY <1>6, <1>8, KeepDistinct
  <2>3. \A y : Has(Keep(q, A), y) <=> y \in A /\ Has(q, y)
    BY <1>6, KeepMembers
  <2> QED BY <1>4, <2>1, <2>2, <2>3
<1>10. \A y : Has(keep, y) <=> y \in 1 .. k /\ run.rows[y] \in ids1
  BY <1>3, <1>8, <1>9
<1> QED BY <1>9, <1>10 DEF Has, Distinct

\* Reindexing keeps the rows of some sequences, with their last tokens and masks.
LEMMA KeepRowsAligned ==
    ASSUME NEW run, Aligned(run), run.kind = "transformers", NEW ids1,
           NEW new, new = KeepRows(run, Positions(run, ids1))
    PROVE  /\ Aligned(new) /\ new.kind = "transformers" /\ RowsHeld(new) = RowsHeld(run) \cap ids1
           /\ \A s, n, m : Row(new, s, n, m) => Row(run, s, n, m)
<1>1. PICK keep : keep = Positions(run, ids1)
  OBVIOUS
<1>2. PICK k, rows, mask, last, w : /\ run = Batch(rows, mask, last, w)
                                    /\ Parts(k, rows, mask, last, w)
                                    /\ k = Len(run.rows) /\ rows = run.rows
  BY AlignedBatch
<1>3. Shows(run, k, rows, mask, last)
  BY <1>2, BatchAligned
<1>4. /\ keep \in Seq(Nat)
      /\ \A j \in 1 .. Len(keep) : keep[j] \in 1 .. k /\ rows[keep[j]] \in ids1
      /\ \A i \in 1 .. k : rows[i] \in ids1 => \E j \in 1 .. Len(keep) : keep[j] = i
      /\ \A i, j \in 1 .. Len(keep) : keep[i] = keep[j] => i = j
  BY <1>1, <1>2, PositionsOfRows
<1>5. PICK p : p = Len(keep)
  OBVIOUS
<1>6. p \in Nat /\ DOMAIN keep = 1 .. p
  BY <1>4, <1>5, LenProperties
<1>7. CASE keep = <<>>
  <2>1. new = IdleRunner("transformers") /\ "transformers" \in RunnerKinds
    BY <1>1, <1>7 DEF KeepRows, RunnerKinds
  <2>2. RowsHeld(run) \cap ids1 = {}
    <3>1. 1 .. Len(keep) = {}
      BY <1>7
    <3> QED BY <1>3, <1>4, <3>1 DEF Shows
  <2> QED BY <2>1, <2>2, IdleAligned
<1>8. CASE keep # <<>>
  <2>1. PICK rows1, mask1, last1 :
          /\ rows1 = [j \in 1 .. p |-> rows[keep[j]]]
          /\ mask1 = [j \in 1 .. p |-> mask[keep[j]]]
          /\ last1 = [j \in 1 .. p |-> last[keep[j]]]
    OBVIOUS
  <2>2. new = Batch(rows1, mask1, last1, w)
    <3>1. run.rows = rows /\ run.mask = mask /\ run.last = last
      BY <1>2, BatchFields
    <3>2. Pick(run.rows, keep) = rows1 /\ Pick(run.mask, keep) = mask1 /\ Pick(run.last, keep) = last1
      BY <1>6, <2>1, <3>1 DEF Pick
    <3>3. new = [run EXCEPT !.rows = rows1, !.mask = mask1, !.last = last1]
      BY <1>1, <1>8, <3>2 DEF KeepRows
    <3>4. new = Reindexed(run, rows1, mask1, last1)
      BY <3>3 DEF Reindexed
    <3>5. run = Batch(rows, mask, last, w)
      BY <1>2
    <3> QED BY <3>4, <3>5, BatchReplaced
  <2>3. \A j \in 1 .. p : /\ rows1[j] = rows[keep[j]] /\ mask1[j] = mask[keep[j]]
                          /\ last1[j] = last[keep[j]] /\ keep[j] \in 1 .. k
    BY <1>4, <1>5, <2>1
  <2>4. Parts(p, rows1, mask1, last1, w)
    <3>5. /\ \A i \in 1 .. k : /\ rows[i] \in Seqs /\ mask[i] \in MaskRows /\ last[i] \in Samples
                               /\ last[i].id = rows[i] /\ mask[i].pad + mask[i].ones = w
          /\ \A i, j \in 1 .. k : rows[i] = rows[j] => i = j
      BY <1>2 DEF Parts
    <3>1. \A j \in 1 .. p : /\ rows1[j] \in Seqs /\ mask1[j] \in MaskRows /\ last1[j] \in Samples
                            /\ last1[j].id = rows1[j] /\ mask1[j].pad + mask1[j].ones = w
      BY <2>3, <3>5
    <3>2. \A i, j \in 1 .. p : rows1[i] = rows1[j] => i = j
      BY <1>4, <1>5, <2>3, <3>5
    <3>3. rows1 = [j \in 1 .. p |-> rows1[j]] /\ mask1 = [j \in 1 .. p |-> mask1[j]]
          /\ last1 = [j \in 1 .. p |-> last1[j]]
      BY <2>1
    <3>4. w \in Nat
      BY <1>2 DEF Parts
    <3> QED BY <1>6, <3>1, <3>2, <3>3, <3>4 DEF Parts
  <2>5. Aligned(new) /\ new.kind = "transformers" /\ Shows(new, p, rows1, mask1, last1)
    BY <2>2, <2>4, BatchAligned
  <2>6. \A s : s \in RowsHeld(new) => s \in RowsHeld(run) \cap ids1
    BY <1>3, <1>4, <1>5, <2>3, <2>5 DEF Shows
  <2>7. \A s : s \in RowsHeld(run) \cap ids1 => s \in RowsHeld(new)
    <3> SUFFICES ASSUME NEW s, s \in RowsHeld(run), s \in ids1 PROVE s \in RowsHeld(new)
      OBVIOUS
    <3>1. PICK i \in 1 .. k : rows[i] = s
      BY <1>3 DEF Shows
    <3>2. PICK j \in 1 .. p : keep[j] = i
      BY <1>4, <1>5, <3>1
    <3> QED BY <2>3, <2>5, <3>1, <3>2 DEF Shows
  <2>8. ASSUME NEW s, NEW n, NEW m, Row(new, s, n, m) PROVE Row(run, s, n, m)
    <3>1. PICK j \in 1 .. p : rows1[j] = s /\ last1[j].n = n /\ mask1[j].ones = m
      BY <2>5, <2>8 DEF Shows
    <3>2. /\ keep[j] \in 1 .. k /\ rows[keep[j]] = s /\ last[keep[j]].n = n
          /\ mask[keep[j]].ones = m
      BY <2>3, <3>1
    <3> QED BY <1>3, <3>2 DEF Shows
  <2> QED BY <2>5, <2>6, <2>7, <2>8
<1> QED BY <1>7, <1>8

\* evict of every sequence of a set: nobody else's row changes.
LEMMA EvictAligned ==
    ASSUME NEW run, Aligned(run), NEW gone, NEW new, new = EvictAll(run, gone)
    PROVE  /\ Aligned(new) /\ new.kind = run.kind /\ RowsHeld(new) = RowsHeld(run) \ gone
           /\ \A s, n, m : Row(new, s, n, m) => Row(run, s, n, m)
<1>0. run \in Runners
  BY DEF Aligned
<1>1. CASE run.kind = "echo"
  <2>1. new = [run EXCEPT !.active = run.active \ gone]
    BY <1>1 DEF EvictAll
  <2>2. /\ new.kind = run.kind /\ new.active = run.active \ gone /\ new.rows = run.rows
        /\ new.mask = run.mask /\ new.last = run.last /\ new.width = run.width
        /\ new = [kind |-> new.kind, active |-> new.active, rows |-> new.rows, mask |-> new.mask,
                  last |-> new.last, width |-> new.width]
    BY <1>0, <2>1 DEF Runners
  <2>3. new \in Runners
    <3>1. new.active \in SUBSET Seqs
      BY <1>0, <2>2 DEF Runners
    <3>2. /\ new.kind \in RunnerKinds /\ new.rows \in Seq(Seqs) /\ new.mask \in Seq(MaskRows)
          /\ new.last \in Seq(Samples) /\ new.width \in Nat
      BY <1>0, <2>2 DEF Runners
    <3> QED BY <2>2, <3>1, <3>2 DEF Runners
  <2>4. Aligned(new)
    BY <1>1, <2>2, <2>3 DEF Aligned
  <2>5. run.rows = <<>> /\ DOMAIN <<>> = {}
    BY <1>1 DEF Aligned
  <2>6. RowsHeld(new) = RowsHeld(run) \ gone
    BY <2>2, <2>5 DEF RowsHeld, ToSet
  <2>7. \A s, n, m : Row(new, s, n, m) <=> Row(run, s, n, m)
    BY <2>2 DEF Row
  <2> QED BY <2>2, <2>4, <2>6, <2>7
<1>2. CASE run.kind # "echo"
  <2>1. run.kind = "transformers"
    BY <1>0, <1>2 DEF Runners, RunnerKinds
  <2>2. RowsHeld(run) = ToSet(run.rows)
    BY <2>1 DEF Aligned, RowsHeld
  <2>3. CASE ToSet(run.rows) \cap gone = {}
    <3>1. new = run
      BY <1>2, <2>3 DEF EvictAll
    <3> QED BY <2>2, <2>3, <3>1
  <2>4. CASE ToSet(run.rows) \cap gone # {}
    <3>1. PICK stay : stay = ToSet(run.rows) \ gone
      OBVIOUS
    <3>2. new = KeepRows(run, Positions(run, stay))
      BY <1>2, <2>4, <3>1 DEF EvictAll
    <3>3. /\ Aligned(new) /\ new.kind = "transformers" /\ RowsHeld(new) = RowsHeld(run) \cap stay
          /\ \A s, n, m : Row(new, s, n, m) => Row(run, s, n, m)
      BY <2>1, <3>2, KeepRowsAligned
    <3> QED BY <2>1, <2>2, <3>1, <3>3
  <2> QED BY <2>3, <2>4
<1> QED BY <1>1, <1>2

\* A row after one more token.
LEMMA OneLonger ==
    /\ \A e \in MaskRows : /\ Longer(e) \in MaskRows /\ Longer(e).pad = e.pad
                            /\ Longer(e).ones = e.ones + 1 /\ e.pad \in Nat /\ e.ones \in Nat
    /\ \A e \in Samples : /\ NextToken(e) \in Samples /\ NextToken(e).id = e.id
                           /\ NextToken(e).n = e.n + 1 /\ e.n \in Nat
BY DEF MaskRows, Samples, Longer, NextToken

\* What decode_step makes of the rows it keeps.
LEMMA DecodeStepIs ==
    ASSUME NEW run, NEW ids1, ids1 # {}, run.rows # <<>>,
           NEW kept, kept = KeepRows(run, Positions(run, ids1)),
           NEW mask, mask = [i \in DOMAIN kept.mask |-> Longer(kept.mask[i])],
           NEW last, last = [i \in DOMAIN kept.last |-> NextToken(kept.last[i])],
           NEW w, w = IF kept.rows = <<>> THEN 0 ELSE kept.width + 1
    PROVE  DecodeStep(run, ids1) = Stepped(kept, mask, w, last)
BY DEF DecodeStep, Stepped

\* decode_step: the rows of the sequences that are decoded, each one sample and one position on.
LEMMA DecodeAligned ==
    ASSUME NEW run, Aligned(run), NEW ids1, NEW new, new = DecodeStep(run, ids1)
    PROVE  /\ Aligned(new) /\ new.kind = run.kind
           /\ RowsHeld(new) = IF ids1 = {} \/ run.rows = <<>> THEN RowsHeld(run) ELSE RowsHeld(run) \cap ids1
           /\ \A s, n, m : Row(new, s, n, m) =>
                 IF ids1 = {} THEN Row(run, s, n, m)
                 ELSE \E a, b \in Nat : Row(run, s, a, b) /\ n = a + 1 /\ m = b + 1
<1>1. CASE ids1 = {} \/ run.rows = <<>>
  <2>1. new = run
    BY <1>1 DEF DecodeStep
  <2>2. run.rows = <<>> => \A s, n, m : ~Row(run, s, n, m)
    <3>1. Len(<<>>) = 0 /\ 1 .. 0 = {}
      OBVIOUS
    <3> QED BY <3>1 DEF Row
  <2> QED BY <1>1, <2>1, <2>2
<1>2. CASE ids1 # {} /\ run.rows # <<>>
  <2>1. run.kind = "transformers"
    BY <1>2 DEF Aligned, Runners, RunnerKinds
  <2>2. PICK kept : kept = KeepRows(run, Positions(run, ids1))
    OBVIOUS
  <2>3. /\ Aligned(kept) /\ kept.kind = "transformers" /\ RowsHeld(kept) = RowsHeld(run) \cap ids1
        /\ \A s, n, m : Row(kept, s, n, m) => Row(run, s, n, m)
    BY <2>1, <2>2, KeepRowsAligned
  <2>4. PICK k, rows, mask, last, v : /\ kept = Batch(rows, mask, last, v)
                                      /\ Parts(k, rows, mask, last, v)
    BY <2>3, AlignedBatch
  <2>5. Shows(kept, k, rows, mask, last) /\ (rows = <<>> <=> k = 0)
    BY <2>4, BatchAligned
  <2>6. PICK w : w = IF rows = <<>> THEN 0 ELSE v + 1
    OBVIOUS
  <2>7. PICK mask1, last1 : /\ mask1 = [i \in 1 .. k |-> Longer(mask[i])]
                            /\ last1 = [i \in 1 .. k |-> NextToken(last[i])]
    OBVIOUS
  <2>8. new = Batch(rows, mask1, last1, w)
    <3>1. kept.rows = rows /\ kept.mask = mask /\ kept.last = last /\ kept.width = v
      BY <2>4, BatchFields
    <3>2. DOMAIN mask = 1 .. k /\ DOMAIN last = 1 .. k
      BY <2>4 DEF Parts
    <3>3. /\ mask1 = [i \in DOMAIN kept.mask |-> Longer(kept.mask[i])]
          /\ last1 = [i \in DOMAIN kept.last |-> NextToken(kept.last[i])]
          /\ w = IF kept.rows = <<>> THEN 0 ELSE kept.width + 1
      BY <2>6, <2>7, <3>1, <3>2
    <3>4. new = Stepped(kept, mask1, w, last1)
      BY <1>2, <2>2, <3>3, DecodeStepIs
    <3> QED BY <2>4, <3>4, BatchReplaced
  <2>9. \A i \in 1 .. k :
          /\ mask1[i] \in MaskRows /\ mask1[i].pad = mask[i].pad
          /\ mask1[i].ones = mask[i].ones + 1 /\ mask[i].ones \in Nat /\ mask[i].pad \in Nat
    BY <2>4, <2>7, OneLonger DEF Parts
  <2>10. \A i \in 1 .. k :
          /\ last1[i] \in Samples /\ last1[i].id = last[i].id
          /\ last1[i].n = last[i].n + 1 /\ last[i].n \in Nat
    BY <2>4, <2>7, OneLonger DEF Parts
  <2>11. w \in Nat /\ v \in Nat /\ k \in Nat /\ \A i \in 1 .. k : w = v + 1
    BY <2>4, <2>5, <2>6 DEF Parts
  <2>12. \A i \in 1 .. k : last1[i].id = rows[i] /\ mask1[i].pad + mask1[i].ones = w
    <3>1. \A i \in 1 .. k : last[i].id = rows[i] /\ mask[i].pad + mask[i].ones = v
      BY <2>4 DEF Parts
    <3> QED BY <2>9, <2>10, <2>11, <3>1
  <2>13. Parts(k, rows, mask1, last1, w)
    <3>1. mask1 = [i \in 1 .. k |-> mask1[i]] /\ last1 = [i \in 1 .. k |-> last1[i]]
      BY <2>7
    <3>2. /\ rows = [i \in 1 .. k |-> rows[i]] /\ \A i \in 1 .. k : rows[i] \in Seqs
          /\ \A i, j \in 1 .. k : rows[i] = rows[j] => i = j
      BY <2>4 DEF Parts
    <3>3. \A i \in 1 .. k : mask1[i] \in MaskRows /\ last1[i] \in Samples
      BY <2>9, <2>10
    <3> QED BY <2>11, <2>12, <3>1, <3>2, <3>3 DEF Parts
  <2>14. Aligned(new) /\ new.kind = "transformers" /\ Shows(new, k, rows, mask1, last1)
    BY <2>8, <2>13, BatchAligned
  <2>15. RowsHeld(new) = RowsHeld(run) \cap ids1
    <3>1. \A s : s \in RowsHeld(new) <=> s \in RowsHeld(kept)
      BY <2>5, <2>14 DEF Shows
    <3> QED BY <2>3, <3>1
  <2>16. ASSUME NEW s, NEW n, NEW m, Row(new, s, n, m)
         PROVE  \E a, b \in Nat : Row(run, s, a, b) /\ n = a + 1 /\ m = b + 1
    <3>1. PICK i \in 1 .. k : rows[i] = s /\ last1[i].n = n /\ mask1[i].ones = m
      BY <2>14, <2>16 DEF Shows
    <3>2. PICK a, b \in Nat : a = last[i].n /\ b = mask[i].ones
      BY <2>9, <2>10
    <3>3. Row(kept, s, a, b)
      BY <2>5, <3>1, <3>2 DEF Shows
    <3> QED BY <2>3, <2>9, <2>10, <3>1, <3>2, <3>3
  <2>17. Aligned(new) /\ new.kind = run.kind
    BY <2>1, <2>14
  <2>18. RowsHeld(new) = IF ids1 = {} \/ run.rows = <<>> THEN RowsHeld(run) ELSE RowsHeld(run) \cap ids1
    BY <1>2, <2>15
  <2>19. ASSUME NEW s, NEW n, NEW m, Row(new, s, n, m)
         PROVE  IF ids1 = {} THEN Row(run, s, n, m)
                ELSE \E a, b \in Nat : Row(run, s, a, b) /\ n = a + 1 /\ m = b + 1
    <3>1. \E a, b \in Nat : Row(run, s, a, b) /\ n = a + 1 /\ m = b + 1
      BY <2>16, <2>19
    <3> QED BY <1>2, <3>1
  <2> QED BY <2>17, <2>18, <2>19
<1> QED BY <1>1, <1>2

Admissions == [id : Seqs, tokens : Nat \ {0}]

\* Sequences joined.
LEMMA Joined ==
    ASSUME NEW X, NEW s \in Seq(X), NEW t \in Seq(X), NEW k, k = Len(s), NEW j, j = Len(t)
    PROVE  s \o t = [i \in 1 .. (k + j) |-> IF i <= k THEN s[i] ELSE t[i - k]]
<1>1. k \in Nat /\ j \in Nat
  OBVIOUS
<1>2. PICK c : c = s \o t
  OBVIOUS
<1>3. /\ c \in Seq(X) /\ Len(c) = k + j
      /\ \A i \in 1 .. (k + j) : c[i] = IF i <= k THEN s[i] ELSE t[i - k]
  BY <1>2, ConcatProperties
<1>4. c = [i \in 1 .. (k + j) |-> c[i]]
  BY <1>3, LenProperties
<1> QED BY <1>2, <1>3, <1>4

\* _left_pad of a row that is not too long.
LEMMA LeftPadded ==
    ASSUME NEW row \in MaskRows, NEW to \in Nat, row.pad + row.ones <= to
    PROVE  /\ LeftPad(row, to) \in MaskRows /\ LeftPad(row, to).ones = row.ones
           /\ LeftPad(row, to).pad + row.ones = to
<1>1. row.pad \in Nat /\ row.ones \in Nat
  BY DEF MaskRows
<1>2. PICK p : p = IF row.pad + row.ones >= to THEN row.pad ELSE to - row.ones
  OBVIOUS
<1>3. p \in Nat /\ p + row.ones = to
  BY <1>1, <1>2
<1>4. LeftPad(row, to) = [row EXCEPT !.pad = p]
  BY <1>2 DEF LeftPad
<1>5. PICK new : new = [row EXCEPT !.pad = p]
  OBVIOUS
<1>6. new \in MaskRows /\ new.pad = p /\ new.ones = row.ones
  BY <1>3, <1>5 DEF MaskRows
<1> QED BY <1>3, <1>4, <1>5, <1>6

\* The longest prompt of the sequences that are prefilled together.
LEMMA LongestPrompt ==
    ASSUME NEW states \in Seq(Admissions), states # <<>>,
           NEW length, length = Max({states[i].tokens : i \in DOMAIN states})
    PROVE  length \in Nat /\ \A i \in 1 .. Len(states) : states[i].tokens <= length
<1>1. PICK j : j = Len(states)
  OBVIOUS
<1>2. j \in Nat /\ DOMAIN states = 1 .. j /\ \A i \in 1 .. j : states[i].tokens \in Nat
  <2>1. j \in Nat /\ DOMAIN states = 1 .. j /\ \A i \in 1 .. j : states[i] \in Admissions
    BY <1>1, LenProperties
  <2>2. \A e \in Admissions : e.tokens \in Nat
    BY DEF Admissions
  <2> QED BY <2>1, <2>2
<1> DEFINE N == {n \in Nat : n <= j => \E b \in Nat : \A i \in 1 .. n : states[i].tokens <= b}
<1>3. 0 \in N
  <2>1. 1 .. 0 = {} /\ 0 \in Nat
    OBVIOUS
  <2> QED BY <2>1
<1>4. \A n \in Nat : n \in N => n + 1 \in N
  <2> SUFFICES ASSUME NEW n \in Nat, n \in N PROVE n + 1 \in N
    OBVIOUS
  <2>0. n + 1 \in Nat
    OBVIOUS
  <2> SUFFICES n + 1 <= j => \E b \in Nat : \A i \in 1 .. (n + 1) : states[i].tokens <= b
    BY <2>0, Zenon
  <2> HAVE n + 1 <= j
  <2>1. PICK b \in Nat : \A i \in 1 .. n : states[i].tokens <= b
    BY <1>2
  <2>2. PICK t \in Nat : t = states[n + 1].tokens
    BY <1>2
  <2>3. b + t \in Nat
    OBVIOUS
  <2>4. \A i \in 1 .. (n + 1) : states[i].tokens <= b + t
    <3> SUFFICES ASSUME NEW i \in 1 .. (n + 1) PROVE states[i].tokens <= b + t
      OBVIOUS
    <3>1. i \in 1 .. n \/ i = n + 1
      OBVIOUS
    <3>2. PICK u \in Nat : u = states[i].tokens
      BY <1>2
    <3> QED BY <2>1, <2>2, <3>1, <3>2
  <2> QED BY <2>3, <2>4
<1> HIDE DEF N
<1>5. j \in N
  BY <1>2, <1>3, <1>4, InductionOnNat
<1>6. PICK b \in Nat : \A i \in 1 .. j : states[i].tokens <= b
  BY <1>2, <1>5 DEF N
<1>7. PICK T : T = {states[i].tokens : i \in DOMAIN states}
  OBVIOUS
<1>8. T \subseteq Nat /\ T # {} /\ \A t \in T : t <= b
  <2>1. 1 \in 1 .. j
    BY <1>1, <1>2, EmptySeq
  <2> QED BY <1>2, <1>6, <1>7, <2>1
<1>9. \E x \in T : \A y \in T : x >= y
  <2>1. PICK x \in T : \A y \in T : y <= x
    BY <1>8, GreatestNat
  <2>2. \A y \in T : x >= y
    BY <1>8, <2>1
  <2> QED BY <2>2
<1>10. length \in T /\ \A y \in T : length >= y
  BY <1>7, <1>9 DEF Max
<1> QED BY <1>1, <1>2, <1>7, <1>8, <1>10

\* prefill of an echo runner.
LEMMA EchoPrefill ==
    ASSUME NEW run, Aligned(run), run.kind = "echo", NEW A \in SUBSET Seqs,
           NEW new, new = [run EXCEPT !.active = @ \cup A]
    PROVE  /\ Aligned(new) /\ new.kind = "echo" /\ RowsHeld(new) = RowsHeld(run) \cup A
           /\ \A s, n, m : Row(new, s, n, m) => Row(run, s, n, m)
<1>0. run \in Runners
  BY DEF Aligned
<1>2. /\ new.kind = run.kind /\ new.active = run.active \cup A /\ new.rows = run.rows
      /\ new.mask = run.mask /\ new.last = run.last /\ new.width = run.width
      /\ new = [kind |-> new.kind, active |-> new.active, rows |-> new.rows, mask |-> new.mask,
                last |-> new.last, width |-> new.width]
  BY <1>0 DEF Runners
<1>3. new \in Runners
  <2>1. new.active \in SUBSET Seqs
    BY <1>0, <1>2 DEF Runners
  <2>2. /\ new.kind \in RunnerKinds /\ new.rows \in Seq(Seqs) /\ new.mask \in Seq(MaskRows)
        /\ new.last \in Seq(Samples) /\ new.width \in Nat
    BY <1>0, <1>2 DEF Runners
  <2> QED BY <1>2, <2>1, <2>2 DEF Runners
<1>4. Aligned(new)
  BY <1>2, <1>3 DEF Aligned
<1>5. run.rows = <<>> /\ DOMAIN <<>> = {}
  BY DEF Aligned
<1>6. RowsHeld(new) = RowsHeld(run) \cup A
  BY <1>2, <1>5 DEF RowsHeld, ToSet
<1>7. \A s, n, m : Row(new, s, n, m) <=> Row(run, s, n, m)
  BY <1>2 DEF Row
<1> QED BY <1>2, <1>4, <1>6, <1>7

\* prefill of a runner with rows: the new rows come after the old ones, as wide as they are.
LEMMA PrefillAligned ==
    ASSUME NEW run, Aligned(run), run.kind = "transformers",
           NEW states \in Seq(Admissions), states # <<>>,
           NEW j, j = Len(states),
           \A a, b \in 1 .. j : states[a].id = states[b].id => a = b,
           \A a \in 1 .. j : states[a].id \notin RowsHeld(run),
           NEW new, new = Prefill(run, states)
    PROVE  /\ Aligned(new) /\ new.kind = "transformers"
           /\ RowsHeld(new) = RowsHeld(run) \cup {states[i].id : i \in DOMAIN states}
           /\ \A s, n, m : Row(new, s, n, m) =>
                 Row(run, s, n, m) \/ \E i \in 1 .. j : s = states[i].id /\ n = 1 /\ m = states[i].tokens
<1>1. PICK k, rows, mask, last, v : run = Batch(rows, mask, last, v) /\ Parts(k, rows, mask, last, v)
  BY AlignedBatch
<1>2. Shows(run, k, rows, mask, last) /\ (rows = <<>> <=> k = 0)
  BY <1>1, BatchAligned
<1>3. /\ k \in Nat /\ v \in Nat
      /\ \A i \in 1 .. k : /\ rows[i] \in Seqs /\ mask[i] \in MaskRows /\ last[i] \in Samples
                           /\ last[i].id = rows[i] /\ mask[i].pad + mask[i].ones = v
      /\ \A a, b \in 1 .. k : rows[a] = rows[b] => a = b
  BY <1>1 DEF Parts
<1>4. rows \in Seq(Seqs) /\ mask \in Seq(MaskRows) /\ last \in Seq(Samples)
      /\ Len(rows) = k /\ Len(mask) = k /\ Len(last) = k
  <2>1. rows \in [1 .. k -> Seqs] /\ mask \in [1 .. k -> MaskRows] /\ last \in [1 .. k -> Samples]
    BY <1>1 DEF Parts
  <2>2. rows \in Seq(Seqs) /\ mask \in Seq(MaskRows) /\ last \in Seq(Samples)
    BY <1>3, <2>1, SeqDef
  <2> QED BY <1>3, <2>1, <2>2, LenProperties
<1>5. j \in Nat /\ DOMAIN states = 1 .. j
      /\ \A i \in 1 .. j : states[i].id \in Seqs /\ states[i].tokens \in Nat
  <2>1. j \in Nat /\ DOMAIN states = 1 .. j /\ \A i \in 1 .. j : states[i] \in Admissions
    BY LenProperties
  <2>2. \A e \in Admissions : e.id \in Seqs /\ e.tokens \in Nat
    BY DEF Admissions
  <2> QED BY <2>1, <2>2
<1>6. PICK length : length = Max({states[i].tokens : i \in DOMAIN states})
  OBVIOUS
<1>7. length \in Nat /\ \A i \in 1 .. j : states[i].tokens <= length
  BY <1>6, LongestPrompt
<1>8. PICK in, mask1, last1 :
        /\ in = [i \in 1 .. j |-> states[i].id]
        /\ mask1 = [i \in 1 .. j |-> LeftPad([pad |-> 0, ones |-> states[i].tokens], length)]
        /\ last1 = [i \in 1 .. j |-> [id |-> states[i].id, n |-> 1]]
  OBVIOUS
<1>9. \A i \in 1 .. j : /\ in[i] = states[i].id /\ in[i] \in Seqs
                        /\ last1[i] \in Samples /\ last1[i].id = in[i] /\ last1[i].n = 1
  BY <1>5, <1>8 DEF Samples
<1>10. \A i \in 1 .. j : /\ mask1[i] \in MaskRows /\ mask1[i].ones = states[i].tokens
                         /\ mask1[i].pad + mask1[i].ones = length
  <2> SUFFICES ASSUME NEW i \in 1 .. j
      PROVE /\ mask1[i] \in MaskRows /\ mask1[i].ones = states[i].tokens
            /\ mask1[i].pad + mask1[i].ones = length
    OBVIOUS
  <2>1. PICK row : row = [pad |-> 0, ones |-> states[i].tokens]
    OBVIOUS
  <2>2. row \in MaskRows /\ row.ones = states[i].tokens /\ row.pad + row.ones <= length
    BY <1>5, <1>7, <2>1 DEF MaskRows
  <2>3. mask1[i] = LeftPad(row, length)
    BY <1>8, <2>1
  <2>4. mask1[i] \in MaskRows /\ mask1[i].ones = row.ones /\ mask1[i].pad + row.ones = length
    BY <1>7, <2>2, <2>3, LeftPadded
  <2> QED BY <2>2, <2>4
<1>11. in \in Seq(Seqs) /\ mask1 \in Seq(MaskRows) /\ last1 \in Seq(Samples)
       /\ Len(in) = j /\ Len(mask1) = j /\ Len(last1) = j
  <2>1. in \in [1 .. j -> Seqs] /\ mask1 \in [1 .. j -> MaskRows] /\ last1 \in [1 .. j -> Samples]
    BY <1>8, <1>9, <1>10
  <2>2. in \in Seq(Seqs) /\ mask1 \in Seq(MaskRows) /\ last1 \in Seq(Samples)
    <3>1. j \in Nat
      BY <1>5
    <3>2. in \in Seq(Seqs)
      BY <2>1, <3>1, SeqDef
    <3>3. mask1 \in Seq(MaskRows)
      BY <2>1, <3>1, SeqDef
    <3>4. last1 \in Seq(Samples)
      BY <2>1, <3>1, SeqDef
    <3> QED BY <3>2, <3>3, <3>4
  <2> QED BY <1>5, <2>1, <2>2, LenProperties
<1>12. PICK t : t = k + j
  OBVIOUS
<1>13. PICK w : w = IF rows = <<>> THEN length ELSE IF v > length THEN v ELSE length
  OBVIOUS
<1>14. w \in Nat /\ length <= w /\ (rows # <<>> => v <= w) /\ t \in Nat
  BY <1>3, <1>5, <1>7, <1>12, <1>13
<1>15. PICK rows2, last2 : rows2 = rows \o in /\ last2 = last \o last1
  OBVIOUS
<1>16. /\ rows2 = [i \in 1 .. t |-> IF i <= k THEN rows[i] ELSE in[i - k]]
       /\ last2 = [i \in 1 .. t |-> IF i <= k THEN last[i] ELSE last1[i - k]]
  <2>1. rows \o in = [i \in 1 .. (k + j) |-> IF i <= k THEN rows[i] ELSE in[i - k]]
    BY <1>4, <1>11, Joined
  <2>2. last \o last1 = [i \in 1 .. (k + j) |-> IF i <= k THEN last[i] ELSE last1[i - k]]
    BY <1>4, <1>11, Joined
  <2> QED BY <1>12, <1>15, <2>1, <2>2
<1>17. PICK mask2 : mask2 = IF rows = <<>> THEN mask1
                            ELSE LET all == mask \o mask1 IN [i \in DOMAIN all |-> LeftPad(all[i], w)]
  OBVIOUS
<1>18. mask2 = [i \in 1 .. t |-> IF rows = <<>> THEN mask1[i]
                                 ELSE IF i <= k THEN LeftPad(mask[i], w) ELSE LeftPad(mask1[i - k], w)]
  <2>1. CASE rows = <<>>
    <3>1. t = j /\ mask2 = mask1
      BY <1>2, <1>5, <1>12, <1>17, <2>1
    <3>2. mask1 = [i \in 1 .. j |-> mask1[i]]
      BY <1>8
    <3> QED BY <2>1, <3>1, <3>2
  <2>2. CASE rows # <<>>
    <3>1. PICK all : all = mask \o mask1
      OBVIOUS
    <3>2. all = [i \in 1 .. t |-> IF i <= k THEN mask[i] ELSE mask1[i - k]]
      BY <1>4, <1>11, <1>12, <3>1, Joined
    <3>3. mask2 = [i \in DOMAIN all |-> LeftPad(all[i], w)]
      BY <1>17, <2>2, <3>1
    <3>4. DOMAIN all = 1 .. t /\ \A i \in 1 .. t : all[i] = IF i <= k THEN mask[i] ELSE mask1[i - k]
      BY <3>2
    <3> QED BY <2>2, <3>3, <3>4
  <2> QED BY <2>1, <2>2
<1>19. new = Batch(rows2, mask2, last2, w)
  <2>1. run.rows = rows /\ run.mask = mask /\ run.last = last /\ run.width = v
        /\ run.kind = "transformers"
    BY <1>1, BatchFields
  <2>2. PICK merged : merged = MergeCache(run, mask1, length)
    OBVIOUS
  <2>3. merged = Merged(run, mask2, w)
    <3>1. CASE rows = <<>>
      BY <1>13, <1>17, <2>1, <2>2, <3>1 DEF MergeCache, Merged
    <3>2. CASE rows # <<>>
      BY <1>13, <1>17, <2>1, <2>2, <3>2 DEF MergeCache, Merged
    <3> QED BY <3>1, <3>2
  <2>4. merged = Batch(rows, mask2, last, w)
    <3>1. merged = Merged(Batch(rows, mask, last, v), mask2, w)
      BY <1>1, <2>3
    <3> QED BY <3>1, BatchMerged
  <2>5. merged.rows = rows /\ merged.last = last
    BY <2>4, BatchFields
  <2>6. /\ mask1 = [i \in DOMAIN states |-> LeftPad([pad |-> 0, ones |-> states[i].tokens], length)]
        /\ in = [i \in DOMAIN states |-> states[i].id]
        /\ last1 = [i \in DOMAIN states |-> [id |-> states[i].id, n |-> 1]]
    BY <1>5, <1>8
  <2>7. Prefill(run, states) = [merged EXCEPT !.rows = @ \o in, !.last = @ \o last1]
    BY <1>6, <2>1, <2>2, <2>6 DEF Prefill
  <2>8. new = Extended(merged, rows2, last2)
    BY <1>15, <2>5, <2>7 DEF Extended
  <2> QED BY <2>4, <2>8, BatchReplaced
<1>20. \A i \in 1 .. k : i \in 1 .. t /\ rows2[i] = rows[i] /\ last2[i] = last[i]
  BY <1>3, <1>5, <1>12, <1>16
<1>21. \A i \in 1 .. t : i \in 1 .. k \/ (i - k \in 1 .. j /\ rows2[i] = in[i - k] /\ last2[i] = last1[i - k]
                                          /\ i = k + (i - k))
  BY <1>3, <1>5, <1>12, <1>16
<1>22. \A i \in 1 .. j : k + i \in 1 .. t /\ rows2[k + i] = in[i]
  BY <1>3, <1>5, <1>12, <1>16
<1>23. ASSUME NEW i \in 1 .. t
       PROVE  /\ mask2[i] \in MaskRows /\ mask2[i].pad + mask2[i].ones = w
              /\ i \in 1 .. k => mask2[i].ones = mask[i].ones
              /\ i \notin 1 .. k => mask2[i].ones = states[i - k].tokens
  <2>1. CASE rows = <<>>
    <3>1. mask2[i] = mask1[i] /\ i \in 1 .. j /\ i - k = i /\ 1 .. k = {} /\ w = length
      BY <1>2, <1>5, <1>12, <1>13, <1>18, <2>1
    <3> QED BY <1>10, <3>1
  <2>2. CASE rows # <<>> /\ i \in 1 .. k
    <3>1. mask2[i] = LeftPad(mask[i], w)
      BY <1>3, <1>18, <2>2
    <3>2. mask[i] \in MaskRows /\ mask[i].pad + mask[i].ones <= w
      BY <1>3, <1>14, <2>2
    <3>3. mask2[i] \in MaskRows /\ mask2[i].ones = mask[i].ones /\ mask2[i].pad + mask[i].ones = w
      BY <1>14, <3>1, <3>2, LeftPadded
    <3> QED BY <2>2, <3>3
  <2>3. CASE rows # <<>> /\ i \notin 1 .. k
    <3>0. ~(i <= k) /\ i - k \in 1 .. j
      BY <1>3, <1>21, <2>3
    <3>1. mask2[i] = LeftPad(mask1[i - k], w)
      BY <1>18, <2>3, <3>0
    <3>2. mask1[i - k] \in MaskRows /\ mask1[i - k].pad + mask1[i - k].ones <= w
      BY <1>10, <1>14, <3>0
    <3>3. mask2[i] \in MaskRows /\ mask2[i].ones = mask1[i - k].ones /\ mask2[i].pad + mask1[i - k].ones = w
      BY <1>14, <3>1, <3>2, LeftPadded
    <3> QED BY <1>10, <2>3, <3>0, <3>3
  <2> QED BY <2>1, <2>2, <2>3
<1>24. Parts(t, rows2, mask2, last2, w)
  <2>1. rows2 = [i \in 1 .. t |-> rows2[i]] /\ mask2 = [i \in 1 .. t |-> mask2[i]]
        /\ last2 = [i \in 1 .. t |-> last2[i]]
    BY <1>16, <1>18
  <2>2. \A i \in 1 .. t : rows2[i] \in Seqs /\ last2[i] \in Samples /\ last2[i].id = rows2[i]
    BY <1>3, <1>9, <1>20, <1>21
  <2>3. ASSUME NEW a \in 1 .. t, NEW b \in 1 .. t, rows2[a] = rows2[b] PROVE a = b
    <3>1. CASE a \in 1 .. k /\ b \in 1 .. k
      BY <1>3, <1>20, <2>3, <3>1
    <3>2. CASE a \in 1 .. k /\ b \notin 1 .. k
      <4>1. rows[a] = states[b - k].id /\ b - k \in 1 .. j
        BY <1>9, <1>20, <1>21, <2>3, <3>2
      <4> QED BY <1>2, <3>2, <4>1 DEF Shows
    <3>3. CASE a \notin 1 .. k /\ b \in 1 .. k
      <4>1. rows[b] = states[a - k].id /\ a - k \in 1 .. j
        BY <1>9, <1>20, <1>21, <2>3, <3>3
      <4> QED BY <1>2, <3>3, <4>1 DEF Shows
    <3>4. CASE a \notin 1 .. k /\ b \notin 1 .. k
      <4>1. states[a - k].id = states[b - k].id /\ a - k \in 1 .. j /\ b - k \in 1 .. j
            /\ a = k + (a - k) /\ b = k + (b - k)
        BY <1>9, <1>21, <2>3, <3>4
      <4> QED BY <4>1
    <3> QED BY <3>1, <3>2, <3>3, <3>4
  <2> QED BY <1>14, <1>23, <2>1, <2>2, <2>3 DEF Parts
<1>25. Aligned(new) /\ new.kind = "transformers" /\ Shows(new, t, rows2, mask2, last2)
  BY <1>19, <1>24, BatchAligned
<1>26. ASSUME NEW s PROVE s \in RowsHeld(new) <=> s \in RowsHeld(run) \/ \E i \in 1 .. j : states[i].id = s
  <2>1. s \in RowsHeld(new) <=> \E i \in 1 .. t : rows2[i] = s
    BY <1>25 DEF Shows
  <2>2. s \in RowsHeld(run) <=> \E i \in 1 .. k : rows[i] = s
    BY <1>2 DEF Shows
  <2>3. (\E i \in 1 .. t : rows2[i] = s) => (\E i \in 1 .. k : rows[i] = s) \/ \E i \in 1 .. j : states[i].id = s
    BY <1>9, <1>20, <1>21
  <2>4. (\E i \in 1 .. k : rows[i] = s) => \E i \in 1 .. t : rows2[i] = s
    BY <1>20
  <2>5. (\E i \in 1 .. j : states[i].id = s) => \E i \in 1 .. t : rows2[i] = s
    BY <1>9, <1>22
  <2> QED BY <2>1, <2>2, <2>3, <2>4, <2>5
<1>27. RowsHeld(new) = RowsHeld(run) \cup {states[i].id : i \in DOMAIN states}
  BY <1>5, <1>26
<1>28. ASSUME NEW s, NEW n, NEW m, Row(new, s, n, m)
       PROVE  Row(run, s, n, m) \/ \E i \in 1 .. j : s = states[i].id /\ n = 1 /\ m = states[i].tokens
  <2>1. PICK i \in 1 .. t : rows2[i] = s /\ last2[i].n = n /\ mask2[i].ones = m
    BY <1>25, <1>28 DEF Shows
  <2>2. CASE i \in 1 .. k
    <3>1. rows[i] = s /\ last[i].n = n /\ mask[i].ones = m
      BY <1>20, <1>23, <2>1, <2>2
    <3> QED BY <1>2, <2>2, <3>1 DEF Shows
  <2>3. CASE i \notin 1 .. k
    BY <1>9, <1>21, <1>23, <2>1, <2>3
  <2> QED BY <2>2, <2>3
<1> QED BY <1>25, <1>27, <1>28

\* A row is somebody's.
LEMMA RowIsHeld ==
    ASSUME NEW run, Aligned(run), NEW s, NEW n, NEW m, Row(run, s, n, m)
    PROVE  s \in RowsHeld(run)
<1>1. run.rows \in Seq(Seqs)
  BY DEF Aligned, Runners
<1>2. DOMAIN run.rows = 1 .. Len(run.rows)
  BY <1>1, LenProperties
<1> QED BY <1>2 DEF Row, RowsHeld, ToSet

\* The runner, what was admitted in this pass and the running set agree: run is the runner's
\* state, adm is admitted, rs is the running set, ids up to last were given, and p is prompt.
Linked(run, adm, rs, last, p) ==
    /\ Aligned(run) /\ adm \in Seq(Admissions)
    /\ \A i, j \in 1 .. Len(adm) : adm[i].id = adm[j].id => i = j
    /\ RowsHeld(run) \subseteq 1 .. last /\ IdsOf(adm) \subseteq 1 .. last
    /\ IdsOf(adm) \cap RowsHeld(run) = {}
    /\ IdsOf(rs) \subseteq RowsHeld(run) \cup IdsOf(adm)
    /\ \A e, a : Has(rs, e) /\ Has(adm, a) /\ a.id = e.id =>
          e.made = 0 /\ ~e.finished /\ a.tokens = p[e.req]
    /\ \A e, n, m : Has(rs, e) /\ ~e.finished /\ Row(run, e.id, n, m) =>
          n = e.made /\ m = p[e.req] + e.made - 1

RowInv ==
    /\ Linked(runner, admitted, running, ids, prompt)
    /\ Len(running) <= MaxBatch
    /\ sched \in {"reserve", "decode"} => admitted = <<>>

\* Sequences leave the running set and the runner.
LEMMA LinkedLeave ==
    ASSUME NEW run, NEW adm, NEW rs \in Seq(Entries), NEW last, NEW p, Linked(run, adm, rs, last, p),
           NEW stay \in Seq(Entries), \A e : Has(stay, e) => Has(rs, e),
           NEW gone, IdsOf(stay) \cap gone = {}, NEW new, new = EvictAll(run, gone)
    PROVE  Linked(new, adm, stay, last, p)
<1>1. /\ Aligned(run) /\ adm \in Seq(Admissions)
      /\ \A i, j \in 1 .. Len(adm) : adm[i].id = adm[j].id => i = j
      /\ RowsHeld(run) \subseteq 1 .. last /\ IdsOf(adm) \subseteq 1 .. last
      /\ IdsOf(adm) \cap RowsHeld(run) = {} /\ IdsOf(rs) \subseteq RowsHeld(run) \cup IdsOf(adm)
      /\ \A e, a : Has(rs, e) /\ Has(adm, a) /\ a.id = e.id =>
            e.made = 0 /\ ~e.finished /\ a.tokens = p[e.req]
      /\ \A e, n, m : Has(rs, e) /\ ~e.finished /\ Row(run, e.id, n, m) =>
            n = e.made /\ m = p[e.req] + e.made - 1
  BY DEF Linked
<1>2. /\ Aligned(new) /\ new.kind = run.kind /\ RowsHeld(new) = RowsHeld(run) \ gone
      /\ \A s, n, m : Row(new, s, n, m) => Row(run, s, n, m)
  BY <1>1, EvictAligned
<1>3. IdsOf(stay) \subseteq IdsOf(rs)
  <2>1. /\ \A s : s \in IdsOf(stay) <=> \E e : Has(stay, e) /\ e.id = s
        /\ \A s : s \in IdsOf(rs) <=> \E e : Has(rs, e) /\ e.id = s
    BY IdsListed
  <2> QED BY <2>1
<1>4. \A e, a : Has(stay, e) /\ Has(adm, a) /\ a.id = e.id =>
         e.made = 0 /\ ~e.finished /\ a.tokens = p[e.req]
  BY <1>1
<1>5. \A e, n, m : Has(stay, e) /\ ~e.finished /\ Row(new, e.id, n, m) =>
         n = e.made /\ m = p[e.req] + e.made - 1
  BY <1>1, <1>2
<1> QED BY <1>1, <1>2, <1>3, <1>4, <1>5 DEF Linked

\* And when all the others stay.
LEMMA LinkedRetire ==
    ASSUME NEW run, NEW adm, NEW rs \in Seq(Entries), NEW last, NEW p, Linked(run, adm, rs, last, p),
           NEW gone, IdsOf(rs) \cap gone = {}
    PROVE  /\ Linked(EvictAll(run, gone), adm, rs, last, p)
           /\ RowsHeld(EvictAll(run, gone)) = RowsHeld(run) \ gone
<1>1. PICK new : new = EvictAll(run, gone)
  OBVIOUS
<1>2. PICK stay : stay = rs
  OBVIOUS
<1>3. \A e : Has(stay, e) => Has(rs, e)
  BY <1>2
<1>4. stay \in Seq(Entries) /\ IdsOf(stay) \cap gone = {}
  BY <1>2
<1>5. Linked(new, adm, stay, last, p)
  BY <1>1, <1>3, <1>4, LinkedLeave
<1>6. RowsHeld(new) = RowsHeld(run) \ gone
  BY <1>1, EvictAligned DEF Linked
<1> QED BY <1>1, <1>2, <1>5, <1>6

\* A request starts: it is in the running set and among the admissions, under a new id.
LEMMA LinkedBegin ==
    ASSUME NEW run, NEW adm, NEW rs \in Seq(Entries), NEW last \in Nat, NEW p,
           Linked(run, adm, rs, last, p), NEW s, s = last + 1,
           NEW e \in Entries, e.id = s, e.made = 0, ~e.finished,
           NEW a \in Admissions, a.id = s, a.tokens = p[e.req]
    PROVE  Linked(run, Append(adm, a), Append(rs, e), s, p)
<1>1. /\ Aligned(run) /\ adm \in Seq(Admissions)
      /\ \A i, j \in 1 .. Len(adm) : adm[i].id = adm[j].id => i = j
      /\ RowsHeld(run) \subseteq 1 .. last /\ IdsOf(adm) \subseteq 1 .. last
      /\ IdsOf(adm) \cap RowsHeld(run) = {} /\ IdsOf(rs) \subseteq RowsHeld(run) \cup IdsOf(adm)
      /\ \A f, b : Has(rs, f) /\ Has(adm, b) /\ b.id = f.id =>
            f.made = 0 /\ ~f.finished /\ b.tokens = p[f.req]
      /\ \A f, n, m : Has(rs, f) /\ ~f.finished /\ Row(run, f.id, n, m) =>
            n = f.made /\ m = p[f.req] + f.made - 1
  BY DEF Linked
<1>2. 1 .. last \subseteq 1 .. s /\ s \in 1 .. s /\ s \notin 1 .. last
  OBVIOUS
<1>3. PICK adm1, rs1 : adm1 = Append(adm, a) /\ rs1 = Append(rs, e)
  OBVIOUS
<1>4. adm1 \in Seq(Admissions) /\ rs1 \in Seq(Entries)
  BY <1>1, <1>3, AppendProperties
<1>5. /\ \A f : Has(rs1, f) <=> Has(rs, f) \/ f = e
      /\ \A b : Has(adm1, b) <=> Has(adm, b) \/ b = a
  BY <1>1, <1>3, HasAppend
<1>6. /\ \A x : x \in IdsOf(rs) <=> \E f : Has(rs, f) /\ f.id = x
      /\ \A x : x \in IdsOf(adm) <=> \E b : Has(adm, b) /\ b.id = x
      /\ \A x : x \in IdsOf(rs1) <=> \E f : Has(rs1, f) /\ f.id = x
      /\ \A x : x \in IdsOf(adm1) <=> \E b : Has(adm1, b) /\ b.id = x
  BY <1>1, <1>4, IdsListed
<1>7. IdsOf(rs1) = IdsOf(rs) \cup {s} /\ IdsOf(adm1) = IdsOf(adm) \cup {s}
  BY <1>5, <1>6
<1>8. s \notin RowsHeld(run) /\ s \notin IdsOf(adm) /\ s \notin IdsOf(rs)
  BY <1>1, <1>2
<1>9. ASSUME NEW i \in 1 .. Len(adm1), NEW j \in 1 .. Len(adm1), adm1[i].id = adm1[j].id PROVE i = j
  <2>1. PICK k : k = Len(adm)
    OBVIOUS
  <2>2. k \in Nat /\ Len(adm1) = k + 1 /\ adm1[k + 1] = a /\ \A x \in 1 .. k : adm1[x] = adm[x]
    BY <1>1, <1>3, <2>1, AppendProperties, LenProperties
  <2>3. \A x \in 1 .. k + 1 : x \in 1 .. k \/ x = k + 1
    BY <2>2
  <2>4. \A x \in 1 .. k : adm1[x].id # s
    <3>1. \A x \in 1 .. k : Has(adm, adm[x])
      BY <2>1 DEF Has
    <3> QED BY <1>6, <1>8, <2>2, <3>1
  <2> QED BY <1>1, <1>9, <2>1, <2>2, <2>3, <2>4
<1>10. ASSUME NEW f, NEW b, Has(rs1, f), Has(adm1, b), b.id = f.id
       PROVE  f.made = 0 /\ ~f.finished /\ b.tokens = p[f.req]
  <2>1. \/ Has(rs, f) /\ Has(adm, b)
        \/ f = e /\ b = a
    BY <1>5, <1>6, <1>8, <1>10
  <2> QED BY <1>1, <1>10, <2>1
<1>11. ASSUME NEW f, NEW n, NEW m, Has(rs1, f), ~f.finished, Row(run, f.id, n, m)
       PROVE  n = f.made /\ m = p[f.req] + f.made - 1
  <2>1. f.id \in RowsHeld(run)
    BY <1>1, <1>11, RowIsHeld
  <2>2. Has(rs, f)
    BY <1>5, <1>8, <1>11, <2>1
  <2> QED BY <1>1, <1>11, <2>2
<1>12. RowsHeld(run) \subseteq 1 .. s /\ IdsOf(adm1) \subseteq 1 .. s
       /\ IdsOf(adm1) \cap RowsHeld(run) = {} /\ IdsOf(rs1) \subseteq RowsHeld(run) \cup IdsOf(adm1)
  BY <1>1, <1>2, <1>7, <1>8
<1>13. Linked(run, adm1, rs1, s, p)
  BY <1>1, <1>4, <1>9, <1>10, <1>11, <1>12 DEF Linked
<1> QED BY <1>3, <1>13

\* An id that is given and not used.
LEMMA LinkedSkip ==
    ASSUME NEW run, NEW adm, NEW rs, NEW last \in Nat, NEW p, Linked(run, adm, rs, last, p)
    PROVE  Linked(run, adm, rs, last + 1, p)
<1>1. 1 .. last \subseteq 1 .. (last + 1)
  OBVIOUS
<1>2. RowsHeld(run) \subseteq 1 .. (last + 1) /\ IdsOf(adm) \subseteq 1 .. (last + 1)
  BY <1>1 DEF Linked
<1> QED BY <1>2 DEF Linked

\* Those that stay were there, and are no more than before.
LEMMA StayedBefore ==
    ASSUME NEW run \in Seq(Entries)
    PROVE  /\ \A S : /\ Without(run, S) \in Seq(Entries) /\ Len(Without(run, S)) <= Len(run)
                     /\ \A e : Has(Without(run, S), e) => Has(run, e)
           /\ Unfinished(run) \in Seq(Entries) /\ Len(Unfinished(run)) <= Len(run)
           /\ \A e : Has(Unfinished(run), e) => Has(run, e) /\ ~e.finished
<1>1. \A A : /\ Keep(run, A) \in Seq(Entries) /\ Len(Keep(run, A)) <= Len(run)
             /\ \A e : Has(Keep(run, A), e) <=> e \in A /\ Has(run, e)
  BY KeepType, KeepMembers
<1>2. \A S : /\ Without(run, S) \in Seq(Entries) /\ Len(Without(run, S)) <= Len(run)
             /\ \A e : Has(Without(run, S), e) => Has(run, e)
  BY <1>1 DEF Without
<1>3. PICK A : A = {e \in ToSet(run) : ~e.finished}
  OBVIOUS
<1>4. Unfinished(run) = Keep(run, A) /\ \A e \in A : ~e.finished
  BY <1>3 DEF Unfinished
<1> QED BY <1>1, <1>2, <1>4

\* _offer_to_cache.
LEMMA OfferRows ==
    ASSUME HeldInv, CacheInv, RowInv, NEW r \in Requests, Offer(r), RowFree, sched = "admit",
           UNCHANGED prompt
    PROVE  RowInv'
<1>1. PICK s : s = ids + 1
  OBVIOUS
<1>2. /\ s \in Seqs /\ ids' = s /\ s \notin 1 .. ids /\ 1 .. ids \subseteq Seqs /\ ids \in Nat
  BY <1>1, IdsAreSeqs DEF Offer, CacheInv
<1>3. /\ running \in Seq(Entries) /\ OwnIds(running) /\ IdsOf(running) \subseteq 1 .. ids
      /\ prompt[r] \in Nat \ {0}
  BY DEF CacheInv, HeldInv, HeldTypes
<1>4. PICK o : Begin(r, o) \/ Reject(r) \/ Defer(r)
  BY DEF Offer
<1>5. Linked(runner, admitted, running, ids, prompt) /\ Len(running) <= MaxBatch
  BY DEF RowInv
<1>6. CASE Begin(r, o)
  <2>1. PICK P : P = o.preempted
    OBVIOUS
  <2>2. PICK e, a : e = NewEntry(r, s) /\ a = [id |-> s, tokens |-> prompt[r]]
    OBVIOUS
  <2>3. /\ e \in Entries /\ e.id = s /\ e.made = 0 /\ ~e.finished /\ e.req = r
        /\ a \in Admissions /\ a.id = s /\ a.tokens = prompt[e.req]
    BY <1>2, <1>3, <2>2 DEF NewEntry, Entries, Admissions
  <2>4. PICK stay, gone : stay = Without(running, P) /\ gone = IdsOf(With(running, P))
    OBVIOUS
  <2>5. /\ stay \in Seq(Entries) /\ Len(stay) <= Len(running) /\ \A f : Has(stay, f) => Has(running, f)
        /\ IdsOf(stay) \cap gone = {}
    BY <1>3, <2>4, IdsParted, StayedBefore
  <2>6. /\ running' = Append(stay, e) /\ admitted' = Append(admitted, a) /\ UNCHANGED sched
        /\ runner' = EvictAll(runner, gone)
    BY <1>1, <1>6, <2>1, <2>2, <2>4 DEF Begin, Leave
  <2>7. Linked(runner', admitted, stay, ids, prompt)
    BY <1>3, <1>5, <2>5, <2>6, LinkedLeave
  <2>8. Linked(runner', admitted', running', s, prompt)
    BY <1>1, <1>2, <2>3, <2>5, <2>6, <2>7, LinkedBegin
  <2>9. Len(running') <= MaxBatch
    <3>1. Len(running') = Len(stay) + 1 /\ Len(stay) \in Nat /\ Len(running) \in Nat
      BY <1>3, <2>3, <2>5, <2>6, AppendProperties, LenProperties
    <3>2. Len(admitted) \in Nat /\ Len(running) + Len(admitted) < MaxBatch
      BY <1>5, LenProperties DEF Linked, RowFree
    <3>3. MaxBatch \in Nat
      BY BatcherAssumption, QueueAssumption
    <3> QED BY <2>5, <3>1, <3>2, <3>3
  <2>10. ids' = s /\ prompt' = prompt /\ sched' = "admit"
    BY <1>2, <2>6
  <2> QED BY <2>8, <2>9, <2>10 DEF RowInv
<1>7. CASE Reject(r) \/ Defer(r)
  <2>1. UNCHANGED <<running, admitted, runner, prompt>> /\ sched' \in {"admit", "start"} /\ ids' = ids + 1
    BY <1>1, <1>2, <1>7 DEF Reject, Defer
  <2>2. Linked(runner, admitted, running, ids + 1, prompt)
    BY <1>2, <1>5, LinkedSkip
  <2>3. Len(running') <= MaxBatch
    BY <1>5, <2>1
  <2> QED BY <2>1, <2>2, <2>3 DEF RowInv
<1> QED BY <1>4, <1>6, <1>7

\* A sample that does not finish a sequence is a token of it.
LEMMA SampledOnce ==
    ASSUME NEW e \in Entries, NEW eos, ~Sampled(e, eos).finished
    PROVE  /\ Sampled(e, eos).made = e.made + 1 /\ e.made \in Nat
<1>1. PICK b : b = (e.made + 1 >= MaxNewTokens[e.req])
  OBVIOUS
<1>2. e \in [req : Requests, id : Seqs, made : Nat, finished : BOOLEAN]
  BY DEF Entries
<1>3. [e EXCEPT !.finished = TRUE].finished = TRUE
  BY <1>2
<1>4. e.id \notin eos
  BY <1>3 DEF Sampled
<1>5. Sampled(e, eos) = [e EXCEPT !.made = @ + 1, !.finished = b]
  BY <1>1, <1>4 DEF Sampled
<1>6. [e EXCEPT !.made = @ + 1, !.finished = b].made = e.made + 1
  BY <1>2
<1> QED BY <1>2, <1>5, <1>6

\* prefill of what was admitted.
LEMMA StartRows ==
    ASSUME HeldInv, CacheInv, RowInv, PrefillAdmitted
    PROVE  RowInv'
<1>0. /\ Aligned(runner) /\ admitted \in Seq(Admissions)
      /\ \A i, j \in 1 .. Len(admitted) : admitted[i].id = admitted[j].id => i = j
      /\ RowsHeld(runner) \subseteq 1 .. ids /\ IdsOf(admitted) \subseteq 1 .. ids
      /\ IdsOf(admitted) \cap RowsHeld(runner) = {}
      /\ IdsOf(running) \subseteq RowsHeld(runner) \cup IdsOf(admitted)
      /\ \A e, a : Has(running, e) /\ Has(admitted, a) /\ a.id = e.id =>
            e.made = 0 /\ ~e.finished /\ a.tokens = prompt[e.req]
      /\ \A e, n, m : Has(running, e) /\ ~e.finished /\ Row(runner, e.id, n, m) =>
            n = e.made /\ m = prompt[e.req] + e.made - 1
      /\ Len(running) <= MaxBatch
  BY DEF RowInv, Linked
<1>1. /\ running \in Seq(Entries) /\ OneRow(running) /\ OwnIds(running) /\ prompt \in [Requests -> Nat \ {0}]
      /\ running = [i \in DOMAIN running |-> running[i]] /\ DOMAIN running = 1 .. Len(running)
  BY LenProperties DEF HeldInv, HeldTypes, CacheInv
<1>2. PICK eos : running' = [i \in DOMAIN running |-> Prefilled(running[i], eos)]
  BY DEF PrefillAdmitted
<1>3. /\ runner' = Prefill(runner, admitted) /\ admitted' = <<>> /\ UNCHANGED <<prompt, ids>>
      /\ AdmittedIds = IdsOf(admitted)
  BY DEF PrefillAdmitted, AdmittedIds, IdsOf
<1>4. /\ running' = [i \in DOMAIN running |-> running'[i]]
      /\ \A i \in DOMAIN running : running'[i] \in {running[i], Sampled(running[i], eos)}
      /\ \A i, j \in DOMAIN running : running[i] = running[j] => running'[i] = running'[j]
  BY <1>2 DEF Prefilled
<1>5. running' \in Seq(Entries) /\ IdsOf(running') = IdsOf(running)
  BY <1>1, <1>4, RunnerStepIds
<1>6. Len(running') = Len(running)
  <2>1. DOMAIN running' = DOMAIN running
    BY <1>4
  <2> QED BY <1>1, <1>5, <2>1, LenProperties
<1>7. <<>> \in Seq(Admissions) /\ Len(<<>>) = 0 /\ 1 .. 0 = {} /\ DOMAIN <<>> = {}
      /\ IdsOf(<<>>) = {} /\ \A a : ~Has(<<>>, a)
  <2>1. <<>> \in Seq(Admissions) /\ Len(<<>>) = 0 /\ 1 .. 0 = {} /\ DOMAIN <<>> = {}
    OBVIOUS
  <2> QED BY <2>1 DEF IdsOf, Has
<1>8. /\ Aligned(runner') /\ RowsHeld(runner') = RowsHeld(runner) \cup IdsOf(admitted)
      /\ \A e, n, m : Has(running', e) /\ ~e.finished /\ Row(runner', e.id, n, m) =>
            n = e.made /\ m = prompt[e.req] + e.made - 1
  <2>1. CASE admitted = <<>>
    <3>1. runner' = runner /\ AdmittedIds = {}
      BY <1>3, <1>7, <2>1 DEF Prefill
    <3>2. \A i \in DOMAIN running : Prefilled(running[i], eos) = running[i]
      BY <3>1 DEF Prefilled
    <3>3. running' = running
      BY <1>1, <1>2, <3>2
    <3> QED BY <1>0, <1>3, <3>1, <3>3
  <2>2. CASE admitted # <<>> /\ runner.kind = "echo"
    <3>1. runner' = [runner EXCEPT !.active = @ \cup IdsOf(admitted)]
      BY <1>3, <2>2 DEF Prefill, IdsOf
    <3>2. IdsOf(admitted) \subseteq Seqs
      BY <1>0, IdsAreSeqs DEF CacheInv
    <3>3. /\ Aligned(runner') /\ RowsHeld(runner') = RowsHeld(runner) \cup IdsOf(admitted)
          /\ \A s, n, m : Row(runner', s, n, m) => Row(runner, s, n, m)
      BY <1>0, <2>2, <3>1, <3>2, EchoPrefill
    <3>4. \A i \in DOMAIN running : Prefilled(running[i], eos) = running[i]
      BY <2>2 DEF Prefilled, PrefillTokens
    <3>5. running' = running
      BY <1>1, <1>2, <3>4
    <3> QED BY <1>0, <3>3, <3>5
  <2>3. CASE admitted # <<>> /\ runner.kind # "echo"
    <3>1. runner.kind = "transformers"
      BY <1>0, <2>3 DEF Aligned, Runners, RunnerKinds
    <3>2. PICK j : j = Len(admitted)
      OBVIOUS
    <3>3. DOMAIN admitted = 1 .. j
      BY <1>0, <3>2, LenProperties
    <3>4. \A a \in 1 .. j : admitted[a].id \in IdsOf(admitted) /\ Has(admitted, admitted[a])
      BY <3>2, <3>3 DEF IdsOf, Has
    <3>5. \A a \in 1 .. j : admitted[a].id \notin RowsHeld(runner)
      BY <1>0, <3>4
    <3>6. \A a, b \in 1 .. j : admitted[a].id = admitted[b].id => a = b
      BY <1>0, <3>2
    <3>7. /\ Aligned(runner')
          /\ RowsHeld(runner') = RowsHeld(runner) \cup {admitted[i].id : i \in DOMAIN admitted}
          /\ \A s, n, m : Row(runner', s, n, m) =>
                Row(runner, s, n, m) \/ \E i \in 1 .. j : s = admitted[i].id /\ n = 1 /\ m = admitted[i].tokens
      BY <1>0, <1>3, <2>3, <3>1, <3>2, <3>5, <3>6, PrefillAligned
    <3>8. RowsHeld(runner') = RowsHeld(runner) \cup IdsOf(admitted)
      BY <3>7 DEF IdsOf
    <3>9. ASSUME NEW f, NEW n, NEW m, Has(running', f), ~f.finished, Row(runner', f.id, n, m)
          PROVE  n = f.made /\ m = prompt[f.req] + f.made - 1
      <4>1. PICK i \in DOMAIN running : f = running'[i]
        BY <1>1, <1>6, <3>9 DEF Has
      <4>2. PICK e : e = running[i]
        OBVIOUS
      <4>3. e \in Entries /\ Has(running, e) /\ f = Prefilled(e, eos) /\ f \in {e, Sampled(e, eos)}
        BY <1>1, <1>2, <1>4, <4>1, <4>2 DEF Has
      <4>4. f.id = e.id /\ f.req = e.req
        BY <4>3, SampledEntry
      <4>5. CASE Row(runner, f.id, n, m)
        <5>1. e.id \notin AdmittedIds
          BY <1>0, <1>3, <4>4, <4>5, RowIsHeld
        <5>2. f = e
          BY <4>3, <5>1 DEF Prefilled
        <5> QED BY <1>0, <3>9, <4>3, <4>5, <5>2
      <4>6. CASE \E a \in 1 .. j : f.id = admitted[a].id /\ n = 1 /\ m = admitted[a].tokens
        <5>1. PICK a \in 1 .. j : e.id = admitted[a].id /\ n = 1 /\ m = admitted[a].tokens
          BY <4>4, <4>6
        <5>2. e.made = 0 /\ m = prompt[e.req] /\ e.id \in AdmittedIds
          BY <1>0, <1>3, <3>4, <4>3, <5>1
        <5>3. f = Sampled(e, eos)
          BY <3>1, <4>3, <5>2 DEF Prefilled, PrefillTokens
        <5>4. f.made = 1
          BY <3>9, <4>3, <5>2, <5>3, SampledOnce
        <5>5. prompt[e.req] \in Nat
          BY <1>1, <4>3 DEF Entries
        <5> QED BY <4>4, <5>1, <5>2, <5>4, <5>5
      <4> QED BY <3>7, <3>9, <4>5, <4>6
    <3> QED BY <3>7, <3>8, <3>9
  <2> QED BY <2>1, <2>2, <2>3
<1>9. Linked(runner', <<>>, running', ids, prompt)
  <2>1. RowsHeld(runner') \subseteq 1 .. ids /\ IdsOf(running') \subseteq RowsHeld(runner') \cup IdsOf(<<>>)
    BY <1>0, <1>5, <1>8
  <2> QED BY <1>7, <1>8, <2>1 DEF Linked
<1> QED BY <1>0, <1>3, <1>6, <1>9 DEF RowInv

\* _reserve_step and what it makes leave.
LEMMA ReserveRows ==
    ASSUME HeldInv, CacheInv, RowInv, ReserveStep
    PROVE  RowInv'
<1>1. PICK after : /\ running' = Without(running, after.lost)
                   /\ Leave(after.cache, runner, With(running, after.lost), "truncated")
  BY DEF ReserveStep
<1>2. UNCHANGED <<prompt, ids, admitted>> /\ sched = "reserve"
  BY DEF ReserveStep
<1>3. running \in Seq(Entries) /\ OwnIds(running)
  BY DEF HeldInv, HeldTypes, CacheInv
<1>4. PICK S, gone : S = after.lost /\ gone = IdsOf(With(running, S))
  OBVIOUS
<1>5. /\ running' \in Seq(Entries) /\ Len(running') <= Len(running)
      /\ \A f : Has(running', f) => Has(running, f)
      /\ IdsOf(running') \cap gone = {}
  BY <1>1, <1>3, <1>4, IdsParted, StayedBefore
<1>6. runner' = EvictAll(runner, gone)
  BY <1>1, <1>4 DEF Leave
<1>7. Linked(runner, admitted, running, ids, prompt)
  BY DEF RowInv
<1>8. Linked(runner', admitted, running', ids, prompt)
  BY <1>3, <1>5, <1>6, <1>7, LinkedLeave
<1>9. Len(running') <= MaxBatch
  <2>1. Len(running') \in Nat /\ Len(running) \in Nat /\ MaxBatch \in Nat /\ Len(running) <= MaxBatch
    BY <1>3, <1>5, LenProperties, BatcherAssumption, QueueAssumption DEF RowInv
  <2> QED BY <1>5, <2>1
<1>10. admitted = <<>>
  BY <1>2 DEF RowInv
<1> QED BY <1>2, <1>8, <1>9, <1>10 DEF RowInv

\* decode_step and _retire; no row is left that belongs to nobody.
LEMMA DecodeRows ==
    ASSUME HeldInv, CacheInv, RowInv, DecodeAndRetire
    PROVE  /\ RowInv'
           /\ runner.kind = "transformers" /\ Reached # {} => RowsHeld(runner') \subseteq IdsOf(running')
<1>0. admitted = <<>> /\ UNCHANGED <<prompt, ids, admitted>> /\ sched' = "admit"
  BY DEF DecodeAndRetire, RowInv
<1>1. IdsOf(admitted) = {} /\ \A a : ~Has(admitted, a)
  <2>1. Len(<<>>) = 0 /\ 1 .. 0 = {} /\ DOMAIN <<>> = {}
    OBVIOUS
  <2> QED BY <1>0, <2>1 DEF IdsOf, Has
<1>2. /\ Aligned(runner) /\ admitted \in Seq(Admissions)
      /\ \A i, j \in 1 .. Len(admitted) : admitted[i].id = admitted[j].id => i = j
      /\ RowsHeld(runner) \subseteq 1 .. ids /\ IdsOf(running) \subseteq RowsHeld(runner)
      /\ \A e, n, m : Has(running, e) /\ ~e.finished /\ Row(runner, e.id, n, m) =>
            n = e.made /\ m = prompt[e.req] + e.made - 1
      /\ Len(running) <= MaxBatch
  BY <1>1 DEF RowInv, Linked
<1>3. /\ running \in Seq(Entries) /\ OneRow(running) /\ OwnIds(running) /\ prompt \in [Requests -> Nat \ {0}]
      /\ DOMAIN running = 1 .. Len(running)
  BY LenProperties DEF HeldInv, HeldTypes, CacheInv
<1>4. PICK eos, run : /\ run = [i \in DOMAIN running |-> IF running[i].id \in Reached
                                   THEN Sampled(running[i], eos) ELSE running[i]]
                      /\ running' = Unfinished(run)
                      /\ Leave(cache, DecodeStep(runner, Reached), Finished(run), "finished")
  BY DEF DecodeAndRetire
<1>5. /\ run = [i \in DOMAIN running |-> run[i]]
      /\ \A i \in DOMAIN running : run[i] \in {running[i], Sampled(running[i], eos)}
      /\ \A i, j \in DOMAIN running : running[i] = running[j] => run[i] = run[j]
  BY <1>4
<1>6. run \in Seq(Entries) /\ OwnIds(run) /\ IdsOf(run) = IdsOf(running)
  BY <1>3, <1>5, RunnerStepIds
<1>7. Len(run) = Len(running) /\ Len(running) \in Nat
  <2>1. DOMAIN run = DOMAIN running
    BY <1>5
  <2> QED BY <1>3, <1>6, <2>1, LenProperties
<1>8. PICK reached, mid, gone : /\ reached = Reached /\ mid = DecodeStep(runner, reached)
                                /\ gone = IdsOf(Finished(run))
  OBVIOUS
<1>9. runner' = EvictAll(mid, gone)
  BY <1>4, <1>8 DEF Leave
<1>10. reached \subseteq IdsOf(running)
  BY <1>8 DEF Reached, IdsOf
<1>11. ASSUME NEW e, Has(running, e) PROVE e.id \in reached <=> ~e.finished
  <2>1. PICK i \in DOMAIN running : e = running[i]
    BY <1>3, <1>11 DEF Has
  <2>2. e.id \in RowsHeld(runner)
    BY <1>2, <2>1 DEF IdsOf
  <2>3. ~e.finished => e.id \in reached
    BY <1>8, <2>1, <2>2 DEF Reached
  <2>4. ASSUME e.id \in reached PROVE ~e.finished
    <3>1. PICK j \in DOMAIN running : ~running[j].finished /\ e.id = running[j].id
      BY <1>8, <2>4 DEF Reached
    <3>2. Has(running, running[j])
      BY <1>3 DEF Has
    <3>3. e = running[j]
      BY <1>3, <1>11, <3>1, <3>2 DEF OwnIds
    <3> QED BY <3>1, <3>3
  <2> QED BY <2>3, <2>4
<1>12. /\ Aligned(mid) /\ mid.kind = runner.kind
       /\ RowsHeld(mid) = IF reached = {} \/ runner.rows = <<>> THEN RowsHeld(runner)
                          ELSE RowsHeld(runner) \cap reached
       /\ \A s, n, m : Row(mid, s, n, m) =>
             IF reached = {} THEN Row(runner, s, n, m)
             ELSE \E a, b \in Nat : Row(runner, s, a, b) /\ n = a + 1 /\ m = b + 1
  BY <1>2, <1>8, DecodeAligned
<1>13. /\ running' \in Seq(Entries) /\ Len(running') <= Len(run)
       /\ \A f : Has(running', f) => Has(run, f) /\ ~f.finished
       /\ IdsOf(running') = IdsOf(run) \ gone
  BY <1>4, <1>6, <1>8, IdsParted, StayedBefore
<1>14. ASSUME NEW f, Has(running', f)
       PROVE  \E e : /\ Has(running, e) /\ ~e.finished /\ e.id \in reached /\ e \in Entries
                     /\ f = Sampled(e, eos) /\ f.id = e.id /\ f.req = e.req
  <2>1. PICK i \in DOMAIN running : f = run[i]
    BY <1>3, <1>7, <1>13, <1>14 DEF Has
  <2>2. PICK e : e = running[i]
    OBVIOUS
  <2>3. Has(running, e) /\ e \in Entries
    BY <1>3, <2>2 DEF Has
  <2>4. f = IF e.id \in reached THEN Sampled(e, eos) ELSE e
    BY <1>4, <1>8, <2>1, <2>2
  <2>5. e.id \in reached
    BY <1>11, <1>13, <1>14, <2>3, <2>4
  <2> QED BY <1>11, <2>3, <2>4, <2>5, SampledEntry
<1>15. RowsHeld(mid) \subseteq 1 .. ids
  BY <1>2, <1>12
<1>16. IdsOf(running') \subseteq RowsHeld(mid)
  <2> SUFFICES ASSUME NEW s \in IdsOf(running') PROVE s \in RowsHeld(mid)
    OBVIOUS
  <2>1. PICK f : Has(running', f) /\ f.id = s
    BY <1>13, IdsListed
  <2>2. s \in reached
    BY <1>14, <2>1
  <2>3. s \in RowsHeld(runner)
    BY <1>2, <1>10, <2>2
  <2> QED BY <1>12, <2>2, <2>3
<1>17. ASSUME NEW f, NEW n, NEW m, Has(running', f), ~f.finished, Row(mid, f.id, n, m)
       PROVE  n = f.made /\ m = prompt[f.req] + f.made - 1
  <2>1. PICK e : /\ Has(running, e) /\ ~e.finished /\ e.id \in reached /\ e \in Entries
                 /\ f = Sampled(e, eos) /\ f.id = e.id /\ f.req = e.req
    BY <1>14, <1>17
  <2>2. PICK a, b \in Nat : Row(runner, e.id, a, b) /\ n = a + 1 /\ m = b + 1
    BY <1>12, <1>17, <2>1
  <2>3. a = e.made /\ b = prompt[e.req] + e.made - 1
    BY <1>2, <2>1, <2>2
  <2>4. f.made = e.made + 1 /\ e.made \in Nat
    BY <1>17, <2>1, SampledOnce
  <2>5. prompt[e.req] \in Nat
    BY <1>3, <2>1 DEF Entries
  <2> QED BY <2>1, <2>2, <2>3, <2>4, <2>5
<1>18. Linked(mid, admitted, running', ids, prompt)
  <2>1. IdsOf(admitted) \subseteq 1 .. ids /\ IdsOf(admitted) \cap RowsHeld(mid) = {}
        /\ IdsOf(running') \subseteq RowsHeld(mid) \cup IdsOf(admitted)
    BY <1>1, <1>16
  <2> QED BY <1>1, <1>2, <1>12, <1>15, <1>17, <2>1 DEF Linked
<1>19. IdsOf(running') \cap gone = {}
  BY <1>13
<1>20. Linked(runner', admitted, running', ids, prompt) /\ RowsHeld(runner') = RowsHeld(mid) \ gone
  <2>1. PICK left, new : left = running' /\ new = runner'
    OBVIOUS
  <2>2. left \in Seq(Entries) /\ IdsOf(left) \cap gone = {} /\ new = EvictAll(mid, gone)
    BY <1>9, <1>13, <1>19, <2>1
  <2>4. PICK i, p : i = ids /\ p = prompt
    OBVIOUS
  <2>5. Linked(mid, admitted, left, i, p)
    BY <1>18, <2>1, <2>4
  <2>6. Linked(new, admitted, left, i, p) /\ RowsHeld(new) = RowsHeld(mid) \ gone
    BY <2>2, <2>5, LinkedRetire
  <2> QED BY <2>1, <2>4, <2>6
<1>21. Len(running') <= MaxBatch
  <2>1. Len(running') \in Nat /\ MaxBatch \in Nat
    BY <1>13, LenProperties, BatcherAssumption, QueueAssumption
  <2> QED BY <1>2, <1>7, <1>13, <2>1
<1>22. RowInv'
  BY <1>0, <1>20, <1>21 DEF RowInv
<1>23. ASSUME runner.kind = "transformers", reached # {} PROVE RowsHeld(runner') \subseteq IdsOf(running')
  <2>1. RowsHeld(mid) \subseteq reached
    <3>1. CASE runner.rows = <<>>
      <4>1. RowsHeld(runner) = {}
        <5>1. DOMAIN <<>> = {}
          OBVIOUS
        <5> QED BY <1>2, <1>23, <3>1, <5>1 DEF Aligned, RowsHeld, ToSet
      <4> QED BY <1>12, <3>1, <4>1
    <3>2. CASE runner.rows # <<>>
      BY <1>12, <1>23, <3>2
    <3> QED BY <3>1, <3>2
  <2> QED BY <1>6, <1>10, <1>13, <1>20, <2>1
<1> QED BY <1>8, <1>22, <1>23

\* The first state.
LEMMA InitRows == EngineInit => RowInv
<1> SUFFICES ASSUME EngineInit PROVE RowInv
  OBVIOUS
<1>1. PICK setup, a, b : setup \in Setups /\ InitAt(a, b, setup)
  BY ContinuousEngineAssumption DEF EngineInit, Init
<1>2. /\ running = <<>> /\ ids = 0 /\ admitted = <<>> /\ sched = "admit"
      /\ runner = IdleRunner(setup.runner)
  BY <1>1 DEF InitAt
<1>3. Aligned(runner) /\ RowsHeld(runner) = {} /\ \A s, n, m : ~Row(runner, s, n, m)
  BY <1>1, <1>2, IdleAligned, BatcherAssumption
<1>4. /\ <<>> \in Seq(Admissions) /\ Len(<<>>) = 0 /\ 1 .. 0 = {} /\ DOMAIN <<>> = {}
  OBVIOUS
<1>5. IdsOf(<<>>) = {} /\ \A e : ~Has(<<>>, e)
  BY <1>4 DEF IdsOf, Has
<1>6. Linked(runner, admitted, running, ids, prompt)
  BY <1>2, <1>3, <1>4, <1>5 DEF Linked
<1>7. MaxBatch \in Nat
  BY BatcherAssumption, QueueAssumption
<1> QED BY <1>2, <1>4, <1>6, <1>7 DEF RowInv

\* Steps that leave the running set, the admissions and the runner alone.
LEMMA RowsKept ==
    ASSUME RowInv, UNCHANGED <<runner, admitted, running, ids, prompt>>,
           sched' \in {"reserve", "decode"} => sched' = sched
    PROVE  RowInv'
BY DEF RowInv

\* A step of the scheduler.
LEMMA SchedulerRows ==
    ASSUME HeldInv, CacheInv, RowInv, Scheduler \/ RunnerRaises
    PROVE  RowInv'
<1>1. CASE AdmitDeferred
  <2>1. deferred \in Requests /\ Offer(deferred) /\ UNCHANGED prompt /\ RowFree /\ sched = "admit"
    BY <1>1 DEF AdmitDeferred, HeldInv, HeldTypes
  <2> QED BY <2>1, OfferRows
<1>2. CASE AdmitNext
  <2>1. PICK h : h = Head(queue)
    OBVIOUS
  <2>2. UNCHANGED prompt /\ RowFree /\ sched = "admit"
    BY <1>2 DEF AdmitNext
  <2>3. \/ UNCHANGED <<running, admitted, ids, runner>> /\ sched' \in {"admit", "start"}
        \/ h \in Requests /\ Offer(h)
    BY <1>2, <2>1, <2>2 DEF AdmitNext
  <2>4. CASE UNCHANGED <<running, admitted, ids, runner>> /\ sched' \in {"admit", "start"}
    BY <2>2, <2>4, RowsKept
  <2>5. CASE h \in Requests /\ Offer(h)
    BY <2>2, <2>5, OfferRows
  <2> QED BY <2>3, <2>4, <2>5
<1>3. CASE AdmitDone \/ RunnerRaises
  <2>1. UNCHANGED <<runner, admitted, running, ids, prompt>> /\ sched' \in {"start", "dead"}
    BY <1>3 DEF AdmitDone, RunnerRaises
  <2> QED BY <2>1, RowsKept
<1>4. CASE Start
  BY <1>4, StartRows DEF Start
<1>5. CASE ReserveStep
  BY <1>5, ReserveRows
<1>6. CASE DecodeAndRetire
  BY <1>6, DecodeRows
<1> QED BY <1>1, <1>2, <1>3, <1>4, <1>5, <1>6 DEF Scheduler

\* Every step, with an engine or without.
LEMMA NextRows == HeldInv /\ CacheInv /\ RowInv /\ [EngineNext]_allVars => RowInv'
<1> SUFFICES ASSUME HeldInv, CacheInv, RowInv, [EngineNext]_allVars PROVE RowInv'
  OBVIOUS
<1>1. CASE Scheduler \/ RunnerRaises
  BY <1>1, SchedulerRows
<1>2. CASE ~(Scheduler \/ RunnerRaises)
  <2>1. ASSUME NEW r \in Requests, SubmitRequest(r) \/ DeadlinePasses(r)
        PROVE  UNCHANGED <<runner, admitted, running, ids, prompt, sched>>
    BY <2>1 DEF SubmitRequest, DeadlinePasses, schedVars
  <2>2. ASSUME NEW k \in Stoppers, Shutdown(k)
        PROVE  UNCHANGED <<runner, admitted, running, ids, prompt, sched>>
    BY <2>2 DEF Shutdown, schedVars
  <2>3. ASSUME NEW r \in Requests, Client(r) \/ Cancel(r)
        PROVE  UNCHANGED <<runner, admitted, running, ids, prompt, sched>>
    BY <2>3 DEF Client, Cancel, CheckClosed, Register, SubmitCounted, Withdraw, vars, schedVars
  <2>4. ASSUME NEW k \in Stoppers, Stopper(k)
        PROVE  UNCHANGED <<runner, admitted, running, ids, prompt, sched>>
    BY <2>4 DEF Stopper, CallShutdown, SetClosed, ShutdownBatcher, Shutdown, TakeOutstanding, LookAt,
                SetException, ShutdownReturns, vars, schedVars
  <2>5. ASSUME SchedulerThread
        PROVE  UNCHANGED <<runner, admitted, running, ids, prompt, sched>>
    BY <1>2, <2>5 DEF SchedulerThread, BatcherStep, Callback, SetResult, vars, schedVars
  <2>6. UNCHANGED <<runner, admitted, running, ids, prompt, sched>>
    <3>1. CASE DirectStep
      BY <1>2, <2>1, <2>2, <3>1 DEF DirectStep, Next
    <3>2. CASE EngineStep
      BY <2>1, <2>3, <2>4, <2>5, <3>2 DEF EngineStep
    <3>3. CASE UNCHANGED allVars
      BY <3>3 DEF allVars, vars, schedVars
    <3> QED BY <3>1, <3>2, <3>3 DEF EngineNext
  <2> QED BY <2>6, RowsKept
<1> QED BY <1>1, <1>2

\* The runner, the admissions and the running set agree in every state.
THEOREM RowInvariance == EngineSpec => []RowInv
BY InitRows, NextRows, HeldInvariance, CacheInvariance, PTL DEF EngineSpec

\* Through every merge, eviction and retirement each row of the cache, its mask and its last token
\* belong to one sequence, and show the prompt and the tokens it has made.
THEOREM RowsTheorem == EngineSpec => []RowsAligned
<1>1. HeldInv /\ RowInv => RowsAligned
  <2> SUFFICES ASSUME HeldInv, RowInv PROVE RowsAligned
    OBVIOUS
  <2>1. /\ Aligned(runner) /\ IdsOf(running) \subseteq RowsHeld(runner) \cup IdsOf(admitted)
        /\ \A e, n, m : Has(running, e) /\ ~e.finished /\ Row(runner, e.id, n, m) =>
              n = e.made /\ m = prompt[e.req] + e.made - 1
        /\ Len(running) <= MaxBatch
    BY DEF RowInv, Linked
  <2>2. sched = "decode" => IdsOf(running) \subseteq RowsHeld(runner)
    <3>1. DOMAIN <<>> = {}
      OBVIOUS
    <3>2. sched = "decode" => IdsOf(admitted) = {}
      BY <3>1 DEF RowInv, IdsOf
    <3> QED BY <2>1, <3>2
  <2>3. PICK k : k = Len(runner.rows)
    OBVIOUS
  <2>4. DOMAIN runner.rows = 1 .. k
    BY <2>1, <2>3, LenProperties DEF Aligned, Runners
  <2>5. /\ Len(runner.mask) = Len(runner.rows) /\ Len(runner.last) = Len(runner.rows)
        /\ \A i, j \in 1 .. k : runner.rows[i] = runner.rows[j] => i = j
        /\ \A i \in 1 .. k : /\ runner.last[i].id = runner.rows[i]
                             /\ runner.mask[i].pad + runner.mask[i].ones = runner.width
    BY <2>1, <2>3 DEF Aligned
  <2>6. IsInjective(runner.rows)
    BY <2>4, <2>5 DEF IsInjective
  <2>7. ASSUME NEW e \in ToSet(running), NEW i \in 1 .. k, runner.rows[i] = e.id, ~e.finished
        PROVE  /\ runner.last[i].n = e.made
               /\ runner.mask[i].ones = prompt[e.req] + e.made - 1
    <3>1. DOMAIN running = 1 .. Len(running)
      BY LenProperties DEF HeldInv, HeldTypes
    <3>2. Has(running, e)
      BY <3>1 DEF Has, ToSet
    <3>3. Row(runner, e.id, runner.last[i].n, runner.mask[i].ones)
      BY <2>3, <2>7 DEF Row
    <3> QED BY <2>1, <2>7, <3>2, <3>3
  <2> QED BY <2>1, <2>2, <2>4, <2>5, <2>6, <2>7 DEF RowsAligned
<1> QED BY <1>1, HeldInvariance, RowInvariance, PTL

\* A decode step leaves no row of a sequence that is not running.
THEOREM StaleRowsTheorem == EngineSpec => StaleRowsLeave
<1>1. HeldInv /\ CacheInv /\ RowInv =>
        [DecodeAndRetire /\ runner.kind = "transformers" /\ Reached # {}
           => RowsHeld(runner') \subseteq IdsOf(running')]_vars
  BY DecodeRows
<1> QED BY <1>1, HeldInvariance, CacheInvariance, RowInvariance, PTL DEF StaleRowsLeave

=============================================================================

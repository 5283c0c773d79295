----------------------- MODULE InferenceEngineProofs -----------------------
(***************************************************************************)
(* Theorems about InferenceEngine, for any number of requests, workers and *)
(* shutdown calls and any queue_capacity and max_batch_size.               *)
(*                                                                         *)
(* The inductive invariant IInv has five parts: where a request is         *)
(* (OnePlaceEach), which futures are registered and in whose hands the     *)
(* others are (FuturesTracked), what the progress of the shutdown calls    *)
(* says about the flags and the threads (ShutdownOrder, Swept,             *)
(* OneShutdown, Joined), what a worker still has to do for its batch       *)
(* (WorkersSettle), and that work enqueued before the stop reaches the     *)
(* executor before the executor stops (the rest).  For each part there is  *)
(* a lemma per thread: a step of a client, of the batcher thread, of a     *)
(* worker, of a shutdown call.                                             *)
(***************************************************************************)
EXTENDS InferenceEngine, FilteringProofs

-----------------------------------------------------------------------------
(* Where a request is.                                                     *)

\* r is in one of the batches of a list, and in one only once.
HasIn(qs, r) == \E i \in 1 .. Len(qs) : Has(qs[i], r)
OnceIn(qs, r) ==
    /\ \A i \in 1 .. Len(qs) : Once(qs[i], r)
    /\ \A i, j \in 1 .. Len(qs) : Has(qs[i], r) /\ Has(qs[j], r) => i = j

\* The same for the batches of the workers.
Running(w, r) == Has(worker[w].batch, r)
OnceRunning(r) ==
    /\ \A w \in Workers : Once(worker[w].batch, r)
    /\ \A v, w \in Workers : Running(v, r) /\ Running(w, r) => v = w

\* The batcher thread is about to answer r as expired.
Dropping(r) == setting["batcher"] = r

\* r is in the queue, in a batch, or on its way out of the batcher thread.
Placed(r) ==
    \/ Has(queue, r) \/ Has(collector.batch, r) \/ HasIn(work, r) \/ Dropping(r)
    \/ \E w \in Workers : Running(w, r)

\* r is in one place at most.
OnePlace(r) ==
    /\ Once(queue, r) /\ Once(collector.batch, r) /\ OnceIn(work, r) /\ OnceRunning(r)
    /\ Has(queue, r) => ~Has(collector.batch, r) /\ ~HasIn(work, r)
    /\ Has(collector.batch, r) => ~HasIn(work, r)
    /\ Dropping(r) => ~Has(queue, r) /\ ~Has(collector.batch, r) /\ ~HasIn(work, r)
    /\ \A w \in Workers :
         Running(w, r) => /\ ~Has(queue, r) /\ ~Has(collector.batch, r) /\ ~HasIn(work, r)
                          /\ ~Dropping(r)

\* No request is in two places, and only accepted ones are anywhere.
OnePlaceEach == \A r \in Requests : OnePlace(r) /\ (Placed(r) => Accepted(r))

-----------------------------------------------------------------------------
(* Futures.                                                                *)

\* A shutdown call took the future of r and has not looked at it; a thread is about to
\* set the future of r.
Outstanding(r) == \E k \in Stoppers : r \in outstanding[k]
InHand(r) == \E t \in Threads : setting[t] = r

\* A future is registered, taken by one shutdown call, or in the hands of one thread, and
\* then nobody but its caller has settled it.  The pending future of a call that is under
\* way is one of these, unless a shutdown call raised.
FuturesTracked ==
    /\ \A r \in Requests : client[r] \in {"idle", "register"} =>
          r \notin futures /\ ~Outstanding(r) /\ ~InHand(r) /\ outcome[r] = "pending"
    /\ \A r \in Requests : r \in futures \/ Outstanding(r) \/ InHand(r) =>
          outcome[r] \in {"pending", "cancelled"}
    /\ \A r \in futures : ~Outstanding(r) /\ ~InHand(r)
    /\ \A r \in Requests : Outstanding(r) => ~InHand(r)
    /\ \A t, u \in Threads : ~Free(t) /\ setting[u] = setting[t] => u = t
    /\ \A j, k \in Stoppers : outstanding[j] \cap outstanding[k] # {} => j = k
    /\ \A r \in Requests :
          client[r] \in {"stopping", "put", "accepted"} /\ outcome[r] = "pending" =>
              \/ r \in futures \/ Outstanding(r) \/ InHand(r)
              \/ \E k \in Stoppers : stopper[k] = "raised"
    /\ \A k \in Stoppers : outstanding[k] # {} \/ ~Free(k) => stopper[k] = "fail"

-----------------------------------------------------------------------------
(* The order of a shutdown.                                                *)

\* Where a shutdown call is before it clears the dictionary, and after it set _stopping.
Closing == {"batcher", "flag", "sentinel", "join", "drained", "wait", "collect"}
Stopped == {"sentinel", "join", "drained", "wait", "collect", "fail"}

\* How far the shutdown calls are tells which flags are set.
ShutdownOrder ==
    /\ \A k \in Stoppers :
         /\ stopper[k] \notin {"idle", "close"} => closed
         /\ stopper[k] \in Stopped => stopping
         /\ stopper[k] \in {"wait", "collect", "fail", "raised"} => ~open
    /\ stopping => closed
    /\ ~open => stopping

\* Nothing is left in the executor, and nothing will be.
ExecutorEmpty == ~open /\ work = <<>> /\ \A w \in Workers : worker[w].pc = "idle"

\* After the last shutdown call that cleared the dictionary, the executor is empty, and
\* the futures in the dictionary belong to submit calls that will see _stopping.
Swept ==
    /\ \A k \in Stoppers : stopper[k] = "collect" => ExecutorEmpty
    /\ closed => \/ \E k \in Stoppers : stopper[k] \in Closing
                 \/ /\ stopping /\ ExecutorEmpty
                    /\ \A r \in Requests : client[r] \in {"put", "accepted"} => r \notin futures

\* Unless two calls raced past the test of _closed, one of them does all the work.
OneShutdown ==
    ~raced =>
        /\ \A j, k \in Stoppers :
             stopper[j] \in Closing \cup {"fail"} /\ stopper[k] \in Closing \cup {"fail"} => j = k
        /\ \A k \in Stoppers : stopper[k] \in {"batcher", "flag"} => ~stopping

\* Who set _stopping waits for the batcher thread, and one that has exited sets nothing.
Joined ==
    /\ stopping => \/ Exited \/ gaveUp
                   \/ \E k \in Stoppers : stopper[k] \in {"sentinel", "join"}
    /\ Exited => Free("batcher")

-----------------------------------------------------------------------------
(* What a worker has to do for its batch.                                  *)

\* What a worker has to do, for its state b, the future in its hand, the registered
\* futures F and the requests L whose deadline has passed: it sets futures of its own
\* batch only; what it does not run has expired, and what is still registered it runs, or
\* comes to in the loop it is in.
Tracks(b, hand, F, L) ==
    /\ hand # NoRequest => b.pc \in {"expire", "complete", "fail"} /\ Has(b.batch, hand)
    /\ \A r \in Requests : Has(b.live, r) \/ Has(b.rest, r) => Has(b.batch, r)
    /\ \A r \in Requests : Has(b.batch, r) /\ b.pc = "expire" => Has(b.live, r) \/ r \in L
    /\ \A r \in Requests : Has(b.batch, r) /\ r \in F =>
         /\ b.pc = "expire" => Has(b.live, r) \/ Has(b.rest, r)
         /\ b.pc \in {"run", "complete", "fail"} => Has(b.live, r)
         /\ b.pc \in {"complete", "fail"} => Has(b.rest, r)

WorkersSettle == \A w \in Workers : Tracks(worker[w], setting[w], futures, late)

-----------------------------------------------------------------------------
(* Work enqueued before the stop.                                          *)

\* No wait ran out and no two shutdown calls raced.
Orderly == ~gaveUp /\ ~raced

\* Early work is in front of every sentinel, also of one that was reposted.
SentinelsLast(q, E) == \A i, j \in 1 .. Len(q) : i < j /\ q[i] = Sentinel => q[j] \notin E
EarlyFirst ==
    /\ SentinelsLast(queue, early)
    /\ Has(queue, Sentinel) => stopping
    /\ collector.pc \in {"drain", "repost", "exited"} => stopping
    /\ \A r \in early : Accepted(r) /\ (Exited => ~Has(queue, r))

\* The batcher thread has exited before the executor is shut down.
ExitFirst ==
    Orderly =>
        /\ \A k \in Stoppers : stopper[k] \in {"drained", "wait", "collect", "fail"} => Exited
        /\ ~open => Exited

\* A worker or the batcher thread is about to set the future of r.
BeingSet(r) == \E t \in Workers \cup {"batcher"} : setting[t] = r

\* Work that may not be abandoned is somewhere until it is settled, with its future
\* registered or about to be set, unless its batch was broken.
Kept ==
    \A r \in Requests :
        (open \/ (r \in early /\ Orderly)) /\ Accepted(r) /\ outcome[r] = "pending" =>
            (Placed(r) /\ (r \in futures \/ BeingSet(r))) \/ Stranded(r)

\* When the executor has drained, early work is settled.
EarlySettled ==
    Orderly => \A k \in Stoppers : stopper[k] \in {"collect", "fail"} =>
                  \A r \in early : outcome[r] # "pending" \/ Stranded(r)

\* Only a shutdown call abandons a request.
AbandonedLate ==
    \A r \in Requests :
        outcome[r] = "abandoned" => stopping /\ (r \in early => ~Orderly \/ Stranded(r))

\* A batch that is being filled has room.
Filling == collector.pc \in {"first", "fill", "drain"} => Len(collector.batch) < MaxBatch

\* The inductive invariant.
IInv ==
    /\ TypeOK
    /\ Filling
    /\ OnePlaceEach
    /\ FuturesTracked
    /\ ShutdownOrder
    /\ Swept
    /\ OneShutdown
    /\ Joined
    /\ WorkersSettle
    /\ EarlyFirst
    /\ ExitFirst
    /\ Kept
    /\ EarlySettled
    /\ AbandonedLate

-----------------------------------------------------------------------------
(* Types.                                                                  *)

\* A batch is a list of requests, not longer than max_batch_size.
LEMMA BatchMember == \A b : b \in Batches <=> b \in Seq(Requests) /\ Len(b) <= MaxBatch
<1>1. MaxBatch \in Nat
  BY EngineAssumption, QueueAssumption
<1>2. ASSUME NEW b \in Batches PROVE b \in Seq(Requests) /\ Len(b) <= MaxBatch
  <2>1. PICK m \in 0 .. MaxBatch : b \in [1 .. m -> Requests]
    BY DEF Batches, SeqOf
  <2>2. b \in Seq(Requests)
    BY <1>1, <2>1, SeqDef
  <2>3. DOMAIN b = 1 .. Len(b) /\ Len(b) \in Nat /\ DOMAIN b = 1 .. m
    BY <2>1, <2>2, LenProperties
  <2> QED BY <1>1, <2>2, <2>3
<1>3. ASSUME NEW b \in Seq(Requests), Len(b) <= MaxBatch PROVE b \in Batches
  <2>1. b \in [1 .. Len(b) -> Requests] /\ Len(b) \in 0 .. MaxBatch
    BY <1>1, <1>3, LenProperties
  <2> QED BY <2>1 DEF Batches, SeqOf
<1> QED BY <1>2, <1>3

\* The empty list is a batch.
LEMMA EmptyBatch == <<>> \in Batches
<1>1. <<>> \in Seq(Requests) /\ Len(<<>>) = 0 /\ 0 <= MaxBatch
  BY EngineAssumption, QueueAssumption
<1> QED BY <1>1, BatchMember

\* Appending to a batch that has room, and to the list of batches.
LEMMA BatchAppend ==
    ASSUME NEW b \in Batches, Len(b) < MaxBatch, NEW r \in Requests
    PROVE  Append(b, r) \in Batches /\ Append(b, r) # <<>>
<1>1. b \in Seq(Requests) /\ MaxBatch \in Nat /\ Len(b) \in Nat
  BY BatchMember, EngineAssumption, QueueAssumption
<1>2. Append(b, r) \in Seq(Requests) /\ Len(Append(b, r)) = Len(b) + 1
  BY <1>1, AppendProperties
<1>3. Append(b, r) # <<>>
  BY <1>1, <1>2
<1>4. Len(Append(b, r)) <= MaxBatch
  BY <1>1, <1>2
<1> QED BY <1>2, <1>3, <1>4, BatchMember

ClientTypes ==
    /\ client \in [Requests -> ClientStates]
    /\ early \subseteq Requests
QueueTypes == queue \in Seq(Requests \cup {Sentinel}) /\ Len(queue) <= Capacity
FlagTypes ==
    /\ stopping \in BOOLEAN /\ closed \in BOOLEAN /\ open \in BOOLEAN
    /\ gaveUp \in BOOLEAN /\ raced \in BOOLEAN
FutureTypes ==
    /\ futures \subseteq Requests /\ late \subseteq Deadlined /\ ran \subseteq Requests
    /\ outcome \in [Requests -> Outcomes]
    /\ setting \in [Threads -> Requests \cup {NoRequest}] /\ broken \subseteq SUBSET Requests
StopperTypes ==
    /\ stopper \in [Stoppers -> StopperStates]
    /\ outstanding \in [Stoppers -> SUBSET Requests]
CollectorTypes ==
    /\ collector \in [pc : {"first", "fill", "drain", "repost", "dispatch", "exited"},
                      batch : Batches]
    /\ collector.pc \in {"first", "exited"} <=> collector.batch = <<>>
WorkerTypes ==
    /\ work \in Seq(Batches \ {<<>>})
    /\ worker \in [Workers -> [pc : {"idle", "expire", "run", "complete", "fail"},
                               batch : Batches, live : Batches, rest : Batches]]
    /\ \A w \in Workers :
          /\ worker[w].pc = "idle" <=> worker[w].batch = <<>>
          /\ worker[w].pc = "run" => worker[w].live # <<>>

\* The type invariant, split into the parts that different threads touch.
LEMMA TypeParts ==
    TypeOK <=> /\ ClientTypes /\ QueueTypes /\ FlagTypes /\ FutureTypes /\ StopperTypes
               /\ CollectorTypes /\ WorkerTypes
BY DEF TypeOK, ClientTypes, QueueTypes, FlagTypes, FutureTypes, StopperTypes, CollectorTypes,
       WorkerTypes

\* put: the guard keeps the queue within its capacity.
LEMMA QueueAppend ==
    ASSUME QueueTypes, ~Full, NEW x \in Requests \cup {Sentinel}, queue' = Append(queue, x)
    PROVE  QueueTypes'
<1>1. Len(queue) \in Nat /\ Capacity \in Nat
  BY QueueAssumption DEF QueueTypes
<1>2. queue' \in Seq(Requests \cup {Sentinel}) /\ Len(queue') = Len(queue) + 1
  BY AppendProperties DEF QueueTypes
<1> QED BY <1>1, <1>2 DEF QueueTypes, Full

\* get.
LEMMA QueueTail ==
    ASSUME QueueTypes, queue # <<>>, queue' = Tail(queue)
    PROVE  QueueTypes' /\ Head(queue) \in Requests \cup {Sentinel}
<1>1. Len(queue) \in Nat /\ Capacity \in Nat
  BY QueueAssumption DEF QueueTypes
<1>2. /\ Tail(queue) \in Seq(Requests \cup {Sentinel}) /\ Len(Tail(queue)) = Len(queue) - 1
      /\ Head(queue) \in Requests \cup {Sentinel}
  BY TailShift DEF QueueTypes
<1> QED BY <1>1, <1>2 DEF QueueTypes

\* A step of a submit call, and of a caller who cancels, keeps the types.
LEMMA ClientTypeStep ==
    ASSUME TypeOK, NEW r \in Requests, Client(r) \/ DeadlinePasses(r) \/ Cancel(r)
    PROVE  TypeOK'
<1>1. CASE CheckClosed(r)
  BY <1>1 DEF CheckClosed, engineVars, TypeOK, ClientStates
<1>2. CASE Register(r)
  BY <1>2 DEF Register, TypeOK, ClientStates
<1>3. CASE CheckStopping(r) /\ UNCHANGED engineVars
  BY <1>3 DEF CheckStopping, engineVars, TypeOK, ClientStates
<1>4. CASE Enqueue(r) /\ UNCHANGED engineVars
  <2>1. QueueTypes'
    BY <1>4, QueueAppend, TypeParts DEF Enqueue
  <2> QED BY <1>4, <2>1 DEF Enqueue, engineVars, TypeOK, ClientStates, QueueTypes
<1>5. CASE ShedLoad(r) /\ UNCHANGED engineVars
  BY <1>5 DEF ShedLoad, engineVars, TypeOK, ClientStates
<1>6. CASE Withdraw(r)
  BY <1>6 DEF Withdraw, TypeOK, ClientStates
<1>7. CASE DeadlinePasses(r)
  BY <1>7 DEF DeadlinePasses, frontVars, TypeOK
<1>8. CASE Cancel(r)
  BY <1>8 DEF Cancel, frontVars, TypeOK, Outcomes
<1> QED BY <1>1, <1>2, <1>3, <1>4, <1>5, <1>6, <1>7, <1>8 DEF Client, SubmitToBatcher, Submit

\* Popping a future, and setting it.
LEMMA PopTypes ==
    ASSUME NEW t \in Threads, NEW r \in Requests, Pop(t, r), futures \subseteq Requests,
           setting \in [Threads -> Requests \cup {NoRequest}]
    PROVE  /\ futures' \subseteq Requests
           /\ setting' \in [Threads -> Requests \cup {NoRequest}]
BY DEF Pop

\* set_result keeps the shapes of the outcomes and of what is in hand.
LEMMA SetTypes ==
    ASSUME NEW t \in Threads, NEW how \in Outcomes, SetFuture(t, how),
           outcome \in [Requests -> Outcomes],
           setting \in [Threads -> Requests \cup {NoRequest}]
    PROVE  /\ outcome' \in [Requests -> Outcomes]
           /\ setting' \in [Threads -> Requests \cup {NoRequest}]
BY DEF SetFuture

\* Who the threads are.
LEMMA ThreadsApart ==
    /\ "batcher" \in Threads /\ Workers \subseteq Threads /\ Stoppers \subseteq Threads
    /\ "batcher" \notin Workers /\ "batcher" \notin Stoppers /\ NoRequest \notin Requests
    /\ \A w \in Workers : w \notin Stoppers
BY EngineAssumption DEF Threads

\* The request at the head of the queue expires or joins the batch.
LEMMA TakeHeadTypes ==
    ASSUME TypeOK, NEW more \in {"fill", "drain"}, NEW whenFull \in {"dispatch", "repost"},
           queue # <<>>, Head(queue) \in Requests, Len(collector.batch) < MaxBatch,
           TakeHead(more, whenFull)
    PROVE  /\ futures' \subseteq Requests
           /\ setting' \in [Threads -> Requests \cup {NoRequest}]
           /\ CollectorTypes'
<1>1. CASE Expired(Head(queue))
  <2>1. Pop("batcher", Head(queue)) /\ UNCHANGED collector
    BY <1>1 DEF TakeHead
  <2>2. CollectorTypes'
    BY <2>1, TypeParts DEF CollectorTypes
  <2> QED BY <2>1, <2>2, PopTypes, ThreadsApart DEF TypeOK
<1>2. CASE ~Expired(Head(queue))
  <2> DEFINE b == Append(collector.batch, Head(queue))
  <2>1. /\ collector' = [pc |-> IF Len(b) < MaxBatch THEN more ELSE whenFull, batch |-> b]
        /\ UNCHANGED <<futures, setting>>
    BY <1>2 DEF TakeHead, Collect
  <2>2. collector.batch \in Batches
    BY DEF TypeOK
  <2>3. b \in Batches /\ b # <<>>
    BY <2>2, BatchAppend
  <2> HIDE DEF b
  <2>4. CollectorTypes'
    BY <2>1, <2>3 DEF CollectorTypes
  <2> QED BY <2>1, <2>4 DEF TypeOK
<1> QED BY <1>1, <1>2

\* What no step of the batcher thread touches.
LEMMA CollectorFrame ==
    ASSUME Collector
    PROVE  UNCHANGED <<stopping, client, stopper, early, closed, late, worker, outstanding,
                       ran, broken, gaveUp, raced, open>>
BY DEF Collector, CollectFirst, CollectNext, CollectTimeout, CollectDrain, RepostSentinel,
       Dispatch, SettleDropped, CollectorUnchanged

\* _collect goes on filling a batch only while there is room in it.
LEMMA FillingStep ==
    ASSUME TypeOK, Filling, Collector
    PROVE  Filling'
<1>1. MaxBatch \in Nat \ {0} /\ Len(<<>>) = 0
  BY EngineAssumption, QueueAssumption
<1>2. ASSUME NEW more, NEW whenFull \in {"dispatch", "repost"}, TakeHead(more, whenFull)
      PROVE  Filling'
  BY <1>2 DEF TakeHead, Collect, Filling
<1>3. CASE CollectFirst
  <2>1. CASE Head(queue) = Sentinel
    BY <1>3, <2>1 DEF CollectFirst, Filling, TypeOK
  <2>2. CASE Head(queue) # Sentinel
    BY <1>2, <1>3, <2>2 DEF CollectFirst
  <2> QED BY <2>1, <2>2
<1>4. CASE CollectNext
  <2>1. CASE Head(queue) = Sentinel
    BY <1>4, <2>1 DEF CollectNext, Filling, TypeOK
  <2>2. CASE Head(queue) # Sentinel
    BY <1>2, <1>4, <2>2 DEF CollectNext
  <2> QED BY <2>1, <2>2
<1>5. CASE CollectTimeout
  BY <1>5 DEF CollectTimeout, Filling, TypeOK
<1>6. CASE CollectDrain
  <2>1. CASE queue = <<>> \/ Head(queue) = Sentinel
    BY <1>6, <2>1 DEF CollectDrain, Filling, TypeOK
  <2>2. CASE ~(queue = <<>> \/ Head(queue) = Sentinel)
    BY <1>2, <1>6, <2>2 DEF CollectDrain
  <2> QED BY <2>1, <2>2
<1>7. CASE RepostSentinel
  BY <1>7 DEF RepostSentinel, Filling, TypeOK
<1>8. CASE Dispatch
  BY <1>1, <1>8 DEF Dispatch, Filling
<1>9. CASE SettleDropped
  BY <1>9 DEF SettleDropped, Filling
<1> QED BY <1>3, <1>4, <1>5, <1>6, <1>7, <1>8, <1>9 DEF Collector

\* A step of the batcher thread: what it dispatches is neither empty nor too large.
LEMMA CollectorTypeStep ==
    ASSUME TypeOK, Filling, Collector
    PROVE  TypeOK'
<1>f. UNCHANGED <<stopping, client, stopper, early, closed, late, worker, outstanding,
                  ran, broken, gaveUp, raced, open>>
  BY CollectorFrame
<1>w. ASSUME UNCHANGED <<work, outcome>>, QueueTypes', CollectorTypes',
             futures' \subseteq Requests, setting' \in [Threads -> Requests \cup {NoRequest}]
      PROVE  TypeOK'
  BY <1>f, <1>w DEF TypeOK, QueueTypes, CollectorTypes
<1>t. /\ QueueTypes /\ CollectorTypes /\ futures \subseteq Requests
      /\ setting \in [Threads -> Requests \cup {NoRequest}]
  BY TypeParts DEF FutureTypes
<1>c. CollectFirst \/ CollectNext \/ CollectTimeout \/ CollectDrain \/ RepostSentinel
        \/ Dispatch => UNCHANGED outcome
  BY DEF Collector, CollectFirst, CollectNext, CollectTimeout, CollectDrain, RepostSentinel,
         Dispatch, CollectorUnchanged
<1>3. CASE CollectFirst
  <2>1. QueueTypes' /\ Head(queue) \in Requests \cup {Sentinel}
    BY <1>3, <1>t, QueueTail DEF CollectFirst
  <2>2. CASE Head(queue) = Sentinel
    <3>1. /\ collector' = [collector EXCEPT !.pc = "exited"]
          /\ UNCHANGED <<futures, setting, work>> /\ collector.pc = "first"
      BY <1>3, <2>2 DEF CollectFirst
    <3>2. CollectorTypes'
      BY <1>t, <3>1 DEF CollectorTypes
    <3> QED BY <1>3, <1>c, <1>t, <1>w, <2>1, <3>1, <3>2
  <2>3. CASE Head(queue) # Sentinel
    <3>1. /\ TakeHead("fill", "dispatch") /\ UNCHANGED work /\ queue # <<>>
          /\ Head(queue) \in Requests /\ Len(collector.batch) < MaxBatch
      BY <1>3, <2>1, <2>3 DEF CollectFirst, Filling
    <3> QED BY <1>3, <1>c, <1>w, <2>1, <3>1, TakeHeadTypes
  <2> QED BY <2>2, <2>3
<1>4. CASE CollectNext
  <2>1. QueueTypes' /\ Head(queue) \in Requests \cup {Sentinel}
    BY <1>4, <1>t, QueueTail DEF CollectNext
  <2>2. CASE Head(queue) = Sentinel
    <3>1. /\ collector' = [collector EXCEPT !.pc = "drain"]
          /\ UNCHANGED <<futures, setting, work>> /\ collector.pc = "fill"
      BY <1>4, <2>2 DEF CollectNext
    <3>2. CollectorTypes'
      BY <1>t, <3>1 DEF CollectorTypes
    <3> QED BY <1>4, <1>c, <1>t, <1>w, <2>1, <3>1, <3>2
  <2>3. CASE Head(queue) # Sentinel
    <3>1. /\ TakeHead("fill", "dispatch") /\ UNCHANGED work /\ queue # <<>>
          /\ Head(queue) \in Requests /\ Len(collector.batch) < MaxBatch
      BY <1>4, <2>1, <2>3 DEF CollectNext, Filling
    <3> QED BY <1>4, <1>c, <1>w, <2>1, <3>1, TakeHeadTypes
  <2> QED BY <2>2, <2>3
<1>5. CASE CollectTimeout
  <2>1. CollectorTypes'
    BY <1>5, <1>t DEF CollectTimeout, CollectorTypes
  <2>2. QueueTypes'
    BY <1>5, <1>t DEF CollectTimeout, QueueTypes
  <2> QED BY <1>5, <1>c, <1>t, <1>w, <2>1, <2>2 DEF CollectTimeout
<1>6. CASE CollectDrain
  <2>1. CASE queue = <<>>
    <3>1. CollectorTypes'
      BY <1>6, <1>t, <2>1 DEF CollectDrain, CollectorTypes
    <3>2. QueueTypes'
      BY <1>6, <1>t, <2>1 DEF CollectDrain, QueueTypes
    <3> QED BY <1>6, <1>c, <1>t, <1>w, <2>1, <3>1, <3>2 DEF CollectDrain
  <2>2. CASE queue # <<>>
    <3>1. QueueTypes' /\ Head(queue) \in Requests \cup {Sentinel}
      BY <1>6, <1>t, <2>2, QueueTail DEF CollectDrain
    <3>2. CASE Head(queue) = Sentinel
      <4>1. /\ collector' = [collector EXCEPT !.pc = "repost"]
            /\ UNCHANGED <<futures, setting, work>> /\ collector.pc = "drain"
        BY <1>6, <2>2, <3>2 DEF CollectDrain
      <4>2. CollectorTypes'
        BY <1>t, <4>1 DEF CollectorTypes
      <4> QED BY <1>6, <1>c, <1>t, <1>w, <3>1, <4>1, <4>2
    <3>3. CASE Head(queue) # Sentinel
      <4>1. /\ TakeHead("drain", "repost") /\ UNCHANGED work
            /\ Head(queue) \in Requests /\ Len(collector.batch) < MaxBatch
        BY <1>6, <2>2, <3>1, <3>3 DEF CollectDrain, Filling
      <4> QED BY <1>6, <1>c, <1>w, <2>2, <3>1, <4>1, TakeHeadTypes
    <3> QED BY <3>2, <3>3
  <2> QED BY <2>1, <2>2
<1>7. CASE RepostSentinel
  <2>1. CollectorTypes'
    BY <1>7, <1>t DEF RepostSentinel, CollectorTypes
  <2>2. QueueTypes'
    <3>1. CASE Full
      BY <1>7, <1>t, <3>1 DEF RepostSentinel, QueueTypes
    <3>2. CASE ~Full
      BY <1>7, <1>t, <3>2, QueueAppend DEF RepostSentinel
    <3> QED BY <3>1, <3>2
  <2> QED BY <1>7, <1>c, <1>t, <1>w, <2>1, <2>2 DEF RepostSentinel
<1>8. CASE Dispatch
  <2>1. collector.batch \in Batches \ {<<>>} /\ work \in Seq(Batches \ {<<>>})
    BY <1>8 DEF Dispatch, TypeOK
  <2>2. work' \in Seq(Batches \ {<<>>})
    BY <1>8, <2>1, AppendProperties DEF Dispatch
  <2>3. CollectorTypes'
    BY <1>8, EmptyBatch DEF Dispatch, CollectorTypes
  <2> QED BY <1>8, <1>c, <1>f, <2>2, <2>3 DEF Dispatch, TypeOK, CollectorTypes
<1>9. CASE SettleDropped
  <2>1. /\ SetFuture("batcher", "expired") /\ UNCHANGED <<queue, futures, collector, work>>
        /\ outcome \in [Requests -> Outcomes]
    BY <1>9 DEF SettleDropped, TypeOK
  <2>2. /\ outcome' \in [Requests -> Outcomes]
        /\ setting' \in [Threads -> Requests \cup {NoRequest}]
    BY <1>t, <2>1, SetTypes, ThreadsApart DEF Outcomes
  <2> QED BY <1>f, <2>1, <2>2 DEF TypeOK
<1> QED BY <1>3, <1>4, <1>5, <1>6, <1>7, <1>8, <1>9 DEF Collector

\* What no step of a worker touches.
LEMMA WorkerFrame ==
    ASSUME NEW w \in Workers, Worker(w)
    PROVE  UNCHANGED <<frontVars, closed, late, collector, open, outstanding, gaveUp, raced>>
BY DEF Worker, StartBatch, Generate, SettleNext, SettleSet, WorkerUnchanged

\* The loops that settle, and what they settle futures with.
LEMMA Answers ==
    /\ DOMAIN Answer = {"expire", "complete", "fail"}
    /\ \A pc \in DOMAIN Answer : Answer[pc] \in {"expired", "result", "error"}
BY DEF Answer

\* The states of a worker.
WorkerStates == [pc : {"idle", "expire", "run", "complete", "fail"},
                 batch : Batches, live : Batches, rest : Batches]

\* A worker that is busy is about to go on with something: it is idle exactly when it has
\* no batch, and runs no empty one.
Sound(b) == /\ b.pc = "idle" <=> b.batch = <<>>
            /\ b.pc = "run" => b.live # <<>>

\* A worker that has nothing to do.
LEMMA IdleIsSound == IdleWorker \in WorkerStates /\ Sound(IdleWorker)
BY EmptyBatch DEF IdleWorker, WorkerStates, Sound

\* A worker that goes on.
LEMMA OnwardIsSound ==
    ASSUME NEW b \in WorkerStates, Sound(b), b.pc # "idle"
    PROVE  Onward(b) \in WorkerStates /\ Sound(Onward(b))
<1>1. CASE b.rest # <<>>
  BY <1>1 DEF Onward
<1>2. CASE b.rest = <<>> /\ b.pc = "expire" /\ b.live # <<>>
  BY <1>2 DEF Onward, WorkerStates, Sound
<1>3. CASE b.rest = <<>> /\ ~(b.pc = "expire" /\ b.live # <<>>)
  BY <1>3, IdleIsSound DEF Onward
<1> QED BY <1>1, <1>2, <1>3

\* Leaving the first element of a batch out.
LEMMA BatchTail ==
    ASSUME NEW b \in Batches, b # <<>>
    PROVE  Tail(b) \in Batches /\ Head(b) \in Requests
<1>1. b \in Seq(Requests) /\ Len(b) <= MaxBatch /\ MaxBatch \in Nat
  BY BatchMember, EngineAssumption, QueueAssumption
<1>2. /\ Tail(b) \in Seq(Requests) /\ Len(Tail(b)) = Len(b) - 1 /\ Head(b) \in Requests
      /\ Len(b) \in Nat
  BY <1>1, TailShift
<1>3. Len(Tail(b)) <= MaxBatch
  BY <1>1, <1>2
<1> QED BY <1>2, <1>3, BatchMember

\* Filtering a batch.
LEMMA BatchKeep ==
    ASSUME NEW b \in Batches, NEW S
    PROVE  Keep(b, S) \in Batches
<1> DEFINE live == Keep(b, S)
<1>1. b \in Seq(Requests) /\ Len(b) <= MaxBatch /\ MaxBatch \in Nat /\ Len(b) \in Nat
  BY BatchMember, EngineAssumption, QueueAssumption
<1>2. live \in Seq(Requests) /\ Len(live) <= Len(b)
  BY <1>1, KeepType
<1> HIDE DEF live
<1>3. Len(live) \in Nat /\ Len(live) <= MaxBatch
  BY <1>1, <1>2
<1>4. live \in Batches
  BY <1>2, <1>3, BatchMember
<1> QED BY <1>4 DEF live

\* r is one of the elements of a batch.
LEMMA BatchSet ==
    ASSUME NEW b \in Batches
    PROVE  ToSet(b) \subseteq Requests /\ \A r : r \in ToSet(b) <=> Has(b, r)
<1>1. b \in Seq(Requests)
  BY BatchMember
<1>2. DOMAIN b = 1 .. Len(b)
  BY <1>1
<1> QED BY <1>1, <1>2 DEF ToSet, Has

\* The state of a worker that has fetched a batch and made the first pass over it.
Started(b, batch) ==
    /\ b.batch = batch /\ b.live = Keep(batch, {r \in Requests : ~Expired(r)})
    /\ b.pc = IF b.live = batch THEN "run" ELSE "expire"
    /\ b.rest = IF b.live = batch THEN <<>> ELSE batch

\* A worker starts with the head of the executor's queue.
LEMMA StartsWith ==
    ASSUME TypeOK, NEW w \in Workers, StartBatch(w)
    PROVE  /\ \E b \in WorkerStates :
                worker' = [worker EXCEPT ![w] = b] /\ Sound(b) /\ Started(b, Head(work))
           /\ Head(work) \in Batches \ {<<>>} /\ work # <<>> /\ work' = Tail(work)
           /\ work' \in Seq(Batches \ {<<>>}) /\ worker[w].batch = <<>>
<1> DEFINE live == Keep(Head(work), {r \in Requests : ~Expired(r)})
           b == [pc |-> IF live = Head(work) THEN "run" ELSE "expire", batch |-> Head(work),
                 live |-> live, rest |-> IF live = Head(work) THEN <<>> ELSE Head(work)]
<1>1. /\ work # <<>> /\ work' = Tail(work) /\ work \in Seq(Batches \ {<<>>})
      /\ worker[w].batch = <<>>
  BY DEF StartBatch, TypeOK
<1>2. Head(work) \in Batches \ {<<>>} /\ work' \in Seq(Batches \ {<<>>})
  BY <1>1, TailShift
<1>3. worker' = [worker EXCEPT ![w] = b]
  BY DEF StartBatch
<1>4. live \in Batches
  BY <1>2, BatchKeep
<1>5. Started(b, Head(work))
  BY DEF Started
<1> HIDE DEF live
<1>6. b \in WorkerStates
  BY <1>2, <1>4, EmptyBatch DEF WorkerStates
<1>7. Sound(b)
  BY <1>2 DEF Sound
<1> HIDE DEF b
<1> QED BY <1>1, <1>2, <1>3, <1>5, <1>6, <1>7

\* A step of a worker keeps the types.
LEMMA WorkerTypeStep ==
    ASSUME TypeOK, NEW w \in Workers, Worker(w)
    PROVE  TypeOK'
<1>f. UNCHANGED <<frontVars, closed, late, collector, open, outstanding, gaveUp, raced>>
  BY WorkerFrame
<1>t. /\ WorkerTypes /\ worker \in [Workers -> WorkerStates] /\ worker[w] \in WorkerStates
      /\ Sound(worker[w]) /\ work \in Seq(Batches \ {<<>>})
      /\ futures \subseteq Requests /\ ran \subseteq Requests
      /\ outcome \in [Requests -> Outcomes] /\ broken \subseteq SUBSET Requests
      /\ setting \in [Threads -> Requests \cup {NoRequest}] /\ w \in Threads
  BY TypeParts, ThreadsApart DEF FutureTypes, WorkerTypes, WorkerStates, Sound
<1>w. ASSUME WorkerTypes', futures' \subseteq Requests, ran' \subseteq Requests,
             outcome' \in [Requests -> Outcomes], broken' \subseteq SUBSET Requests,
             setting' \in [Threads -> Requests \cup {NoRequest}]
      PROVE  TypeOK'
  BY <1>f, <1>w DEF frontVars, TypeOK, WorkerTypes
<1>i. ASSUME work' \in Seq(Batches \ {<<>>}), NEW x \in WorkerStates, Sound(x),
             worker' = [worker EXCEPT ![w] = x]
      PROVE  WorkerTypes'
  BY <1>i, <1>t DEF WorkerTypes, WorkerStates, Sound
<1>1. CASE StartBatch(w)
  <2>1. WorkerTypes'
    BY <1>1, <1>i, StartsWith
  <2> QED BY <1>1, <1>t, <1>w, <2>1 DEF StartBatch
<1>2. CASE Generate(w)
  <2>1. PICK pc \in {"complete", "fail"} :
             worker' = [worker EXCEPT ![w].pc = pc, ![w].rest = worker[w].live]
    BY <1>2 DEF Generate
  <2> DEFINE x == [worker[w] EXCEPT !.pc = pc, !.rest = worker[w].live]
  <2>2. worker' = [worker EXCEPT ![w] = x]
    BY <1>t, <2>1
  <2>3. x \in WorkerStates /\ Sound(x)
    BY <1>2, <1>t DEF WorkerStates, Sound, Generate
  <2> HIDE DEF x
  <2>4. WorkerTypes'
    BY <1>2, <1>i, <1>t, <2>2, <2>3 DEF Generate
  <2>5. ToSet(worker[w].live) \subseteq Requests
    BY <1>t, BatchSet DEF WorkerStates
  <2> QED BY <1>2, <1>t, <1>w, <2>4, <2>5 DEF Generate
<1>3. CASE SettleNext(w)
  <2> DEFINE b == [worker[w] EXCEPT !.rest = Tail(@)]
             x == IF setting'[w] = NoRequest THEN Onward(b) ELSE b
  <2>1. /\ worker' = [worker EXCEPT ![w] = x] /\ UNCHANGED <<work, outcome, ran, broken>>
        /\ worker[w].pc \in {"expire", "complete", "fail"} /\ worker[w].rest # <<>>
        /\ Pop(w, Head(worker[w].rest)) \/ UNCHANGED <<futures, setting>>
    BY <1>3, Answers DEF SettleNext
  <2>2. Tail(worker[w].rest) \in Batches /\ Head(worker[w].rest) \in Requests
    BY <1>t, <2>1, BatchTail DEF WorkerStates
  <2>3. b \in WorkerStates /\ Sound(b) /\ b.pc # "idle"
    BY <1>t, <2>1, <2>2 DEF WorkerStates, Sound
  <2> HIDE DEF b
  <2>4. x \in WorkerStates /\ Sound(x)
    BY <2>3, OnwardIsSound
  <2> HIDE DEF x
  <2>5. WorkerTypes'
    BY <1>i, <1>t, <2>1, <2>4
  <2>6. futures' \subseteq Requests /\ setting' \in [Threads -> Requests \cup {NoRequest}]
    BY <1>t, <2>1, <2>2, PopTypes
  <2> QED BY <1>t, <1>w, <2>1, <2>5, <2>6
<1>4. CASE SettleSet(w)
  <2>1. /\ SetFuture(w, Answer[worker[w].pc]) /\ UNCHANGED <<work, futures, ran>>
        /\ worker[w].pc \in DOMAIN Answer
    BY <1>4 DEF SettleSet
  <2>2. outcome' \in [Requests -> Outcomes] /\ setting' \in [Threads -> Requests \cup {NoRequest}]
    BY <1>t, <2>1, Answers, SetTypes DEF Outcomes
  <2>3. worker[w].pc \in {"expire", "complete", "fail"}
    BY <2>1, Answers
  <2>4. WorkerTypes' /\ broken' \subseteq SUBSET Requests
    <3>1. CASE ~Raises(w)
      <4>1. worker' = [worker EXCEPT ![w] = Onward(worker[w])] /\ UNCHANGED broken
        BY <1>4, <1>t, <3>1 DEF SettleSet
      <4> QED BY <1>i, <1>t, <2>1, <2>3, <4>1, OnwardIsSound
    <3>2. CASE Raises(w) /\ worker[w].pc = "complete"
      <4> DEFINE x == [worker[w] EXCEPT !.pc = "fail", !.rest = worker[w].live]
      <4>1. worker' = [worker EXCEPT ![w].pc = "fail", ![w].rest = worker[w].live]
            /\ UNCHANGED broken
        BY <1>4, <3>2 DEF SettleSet
      <4>2. worker' = [worker EXCEPT ![w] = x]
        BY <1>t, <4>1
      <4>3. x \in WorkerStates /\ Sound(x)
        BY <1>t, <3>2 DEF WorkerStates, Sound
      <4> HIDE DEF x
      <4> QED BY <1>i, <1>t, <2>1, <4>1, <4>2, <4>3
    <3>3. CASE Raises(w) /\ worker[w].pc # "complete"
      <4>1. /\ worker' = [worker EXCEPT ![w] = IdleWorker]
            /\ broken' = broken \cup {ToSet(worker[w].batch)}
        BY <1>4, <3>3 DEF SettleSet
      <4>2. ToSet(worker[w].batch) \subseteq Requests
        BY <1>t, BatchSet DEF WorkerStates
      <4>3. WorkerTypes'
        BY <1>i, <1>t, <2>1, <4>1, IdleIsSound
      <4>4. broken' \subseteq SUBSET Requests
        BY <1>t, <4>1, <4>2
      <4> QED BY <4>3, <4>4
    <3> QED BY <3>1, <3>2, <3>3
  <2> QED BY <1>t, <1>w, <2>1, <2>2, <2>4
<1> QED BY <1>1, <1>2, <1>3, <1>4 DEF Worker

\* A step of a shutdown call keeps the types.
LEMMA StopperTypeStep ==
    ASSUME TypeOK, NEW k \in Stoppers, Stopper(k)
    PROVE  TypeOK'
<1>1. CASE CallShutdown(k)
  BY <1>1 DEF CallShutdown, Goto, engineVars, TypeOK, StopperStates
<1>2. CASE SetClosed(k)
  BY <1>2 DEF SetClosed, Goto, TypeOK, StopperStates
<1>3. CASE CheckAlreadyStopping(k) /\ UNCHANGED engineVars
  BY <1>3 DEF CheckAlreadyStopping, Goto, engineVars, TypeOK, StopperStates
<1>4. CASE SetStopping(k) /\ UNCHANGED engineVars
  BY <1>4 DEF SetStopping, Goto, engineVars, TypeOK, StopperStates
<1>5. CASE PutSentinel(k) /\ UNCHANGED engineVars
  <2>1. QueueTypes'
    BY <1>5, QueueAppend, TypeParts DEF PutSentinel
  <2> QED BY <1>5, <2>1 DEF PutSentinel, Goto, engineVars, TypeOK, StopperStates, QueueTypes
<1>6. CASE SentinelRefused(k) /\ UNCHANGED engineVars
  BY <1>6 DEF SentinelRefused, Goto, engineVars, TypeOK, StopperStates
<1>7. CASE Join(k, Exited) /\ UNCHANGED engineVars
  BY <1>7 DEF Join, Goto, engineVars, TypeOK, StopperStates
<1>8. CASE /\ JoinTimeout(k, Exited) /\ gaveUp' = TRUE
           /\ UNCHANGED <<closed, futures, outcome, late, collector, open, work, worker,
                          outstanding, setting, ran, broken, raced>>
  BY <1>8 DEF JoinTimeout, Goto, TypeOK, StopperStates
<1>9. CASE ShutdownExecutor(k)
  BY <1>9 DEF ShutdownExecutor, Goto, TypeOK, StopperStates
<1>10. CASE AwaitExecutor(k)
  BY <1>10 DEF AwaitExecutor, Goto, engineVars, TypeOK, StopperStates
<1>11. CASE TakeOutstanding(k)
  BY <1>11 DEF TakeOutstanding, Goto, TypeOK, StopperStates
<1>12. ASSUME NEW r \in Requests, LookAt(k, r) PROVE TypeOK'
  BY <1>12, ThreadsApart DEF LookAt, FailUnchanged, TypeOK
<1>13. CASE SetException(k)
  <2>1. /\ outcome' \in [Requests -> Outcomes]
        /\ setting' \in [Threads -> Requests \cup {NoRequest}]
    BY <1>13, SetTypes, ThreadsApart DEF SetException, TypeOK, Outcomes
  <2>2. StopperTypes'
    BY <1>13, TypeParts DEF SetException, StopperTypes, Goto, StopperStates
  <2> QED BY <1>13, <2>1, <2>2 DEF SetException, FailUnchanged, TypeOK, StopperTypes
<1>14. CASE FailingEnds(k)
  BY <1>14 DEF FailingEnds, FailUnchanged, Goto, TypeOK, StopperStates
<1> QED BY <1>1, <1>2, <1>3, <1>4, <1>5, <1>6, <1>7, <1>8, <1>9, <1>10, <1>11, <1>12, <1>13, <1>14
        DEF Stopper, ShutdownBatcher

-----------------------------------------------------------------------------
(* A future is popped by one thread, and set by that one.                  *)

\* What a thread that serves requests does to futures in one step: nothing, or it pops
\* one, or it sets the one in its hand.
Handles(t) ==
    \/ UNCHANGED <<futures, outcome, setting>>
    \/ \E r \in Requests : Free(t) /\ Pop(t, r) /\ UNCHANGED outcome
    \/ \E how \in {"result", "error", "expired"} : SetFuture(t, how) /\ UNCHANGED futures

\* The batcher thread pops what has expired.
LEMMA CollectorHandles ==
    ASSUME TypeOK, Collector
    PROVE  Handles("batcher")
<1>1. CASE UNCHANGED <<futures, outcome, setting>>
  BY <1>1 DEF Handles
<1>2. ASSUME queue # <<>>, Head(queue) # Sentinel, Free("batcher"), UNCHANGED outcome,
             NEW more, NEW whenFull, TakeHead(more, whenFull)
      PROVE  Handles("batcher")
  <2>1. Head(queue) \in Requests
    BY <1>2, QueueTail, TailShift DEF TypeOK
  <2> QED BY <1>2, <2>1 DEF TakeHead, Handles
<1>3. CASE CollectFirst
  BY <1>1, <1>2, <1>3 DEF CollectFirst, CollectorUnchanged
<1>4. CASE CollectNext
  BY <1>1, <1>2, <1>4 DEF CollectNext, CollectorUnchanged
<1>5. CASE CollectTimeout \/ RepostSentinel \/ Dispatch
  BY <1>1, <1>5 DEF CollectTimeout, RepostSentinel, Dispatch, CollectorUnchanged
<1>6. CASE CollectDrain
  BY <1>1, <1>2, <1>6 DEF CollectDrain, CollectorUnchanged
<1>7. CASE SettleDropped
  BY <1>7 DEF SettleDropped, Handles
<1> QED BY <1>3, <1>4, <1>5, <1>6, <1>7 DEF Collector

\* A worker pops the next member of its loop.
LEMMA WorkerHandles ==
    ASSUME TypeOK, NEW w \in Workers, Worker(w)
    PROVE  Handles(w)
<1>1. CASE StartBatch(w) \/ Generate(w)
  BY <1>1 DEF StartBatch, Generate, Handles
<1>2. CASE SettleNext(w)
  <2>1. worker[w].rest \in Batches /\ worker[w].rest # <<>>
    BY <1>2 DEF SettleNext, TypeOK
  <2>2. Head(worker[w].rest) \in Requests
    BY <2>1, BatchTail
  <2> QED BY <1>2, <2>2 DEF SettleNext, Handles
<1>3. CASE SettleSet(w)
  BY <1>3, Answers DEF SettleSet, Handles
<1> QED BY <1>1, <1>2, <1>3 DEF Worker

\* What is in the hands of the threads after a pop,
LEMMA HandsAfterPop ==
    ASSUME TypeOK, FuturesTracked, NEW t \in Threads, NEW r \in Requests, Free(t), Pop(t, r)
    PROVE  /\ \A u \in Requests :
                InHand(u)' <=> InHand(u) \/ (u = r /\ r \in futures /\ outcome[r] = "pending")
           /\ \A v, u \in Threads : setting'[v] # NoRequest /\ setting'[u] = setting'[v] => u = v
<1> DEFINE hand == IF r \in futures /\ outcome[r] = "pending" THEN r ELSE NoRequest
<1>1. /\ setting'[t] = hand /\ setting[t] = NoRequest /\ NoRequest \notin Requests
      /\ \A v \in Threads : v # t => setting'[v] = setting[v]
  BY ThreadsApart DEF Pop, TypeOK, Free
<1>2. r \in futures => ~InHand(r)
  BY DEF FuturesTracked
<1>3. \A v, u \in Threads : setting[v] # NoRequest /\ setting[u] = setting[v] => u = v
  BY DEF FuturesTracked, Free
<1>4. \A u \in Requests : InHand(u)' <=> InHand(u) \/ (u = r /\ r \in futures /\ outcome[r] = "pending")
  BY <1>1 DEF InHand
<1>5. ASSUME NEW v \in Threads, NEW u \in Threads, setting'[v] # NoRequest, setting'[u] = setting'[v]
      PROVE  u = v
  BY <1>1, <1>2, <1>3, <1>5 DEF InHand
<1> QED BY <1>4, <1>5

\* and after a set.
LEMMA HandsAfterSet ==
    ASSUME TypeOK, FuturesTracked, NEW t \in Threads, NEW how \in Outcomes, SetFuture(t, how)
    PROVE  /\ setting[t] \in Requests /\ InHand(setting[t])
           /\ \A u \in Requests : InHand(u)' <=> InHand(u) /\ u # setting[t]
           /\ \A v, u \in Threads : setting'[v] # NoRequest /\ setting'[u] = setting'[v] => u = v
           /\ \A u \in Requests :
                outcome'[u] = IF u = setting[t] /\ outcome[u] = "pending" THEN how ELSE outcome[u]
<1>1. /\ setting'[t] = NoRequest /\ setting[t] \in Requests /\ NoRequest \notin Requests
      /\ \A v \in Threads : v # t => setting'[v] = setting[v]
  BY ThreadsApart DEF SetFuture, TypeOK, Free
<1>3. \A v, u \in Threads : setting[v] # NoRequest /\ setting[u] = setting[v] => u = v
  BY DEF FuturesTracked, Free
<1>4. \A u \in Requests : InHand(u)' <=> InHand(u) /\ u # setting[t]
  BY <1>1, <1>3 DEF InHand
<1>5. \A v, u \in Threads : setting'[v] # NoRequest /\ setting'[u] = setting'[v] => u = v
  BY <1>1, <1>3
<1>6. \A u \in Requests :
         outcome'[u] = IF u = setting[t] /\ outcome[u] = "pending" THEN how ELSE outcome[u]
  BY <1>1 DEF SetFuture, Raises, TypeOK
<1> QED BY <1>1, <1>4, <1>5, <1>6 DEF InHand

\* Steps that touch no future.
LEMMA FuturesKept ==
    ASSUME FuturesTracked, UNCHANGED <<client, futures, outcome, setting, outstanding, stopper>>
    PROVE  FuturesTracked'
BY DEF FuturesTracked, Outstanding, InHand, Free

\* A thread that serves requests takes futures out of the dictionary, one at a time, and
\* settles those it took.
LEMMA FuturesHandle ==
    ASSUME TypeOK, FuturesTracked, NEW t \in Threads \ Stoppers, Handles(t),
           UNCHANGED <<client, outstanding, stopper>>
    PROVE  FuturesTracked'
<1>t. futures \subseteq Requests /\ Stoppers \subseteq Threads
  BY ThreadsApart DEF TypeOK
<1>o. /\ \A r : Outstanding(r)' <=> Outstanding(r)
      /\ \A r \in Requests : Outstanding(r) => ~InHand(r)
      /\ \A r \in futures : ~Outstanding(r) /\ ~InHand(r)
  BY DEF Outstanding, FuturesTracked
<1>k. \A k \in Stoppers : outstanding'[k] # {} \/ setting'[k] # NoRequest => stopper'[k] = "fail"
  BY <1>t DEF Handles, Pop, SetFuture, FuturesTracked, Free, TypeOK
<1>1. CASE UNCHANGED <<futures, outcome, setting>>
  BY <1>1, FuturesKept
<1>2. ASSUME NEW r \in Requests, Free(t), Pop(t, r), UNCHANGED outcome PROVE FuturesTracked'
  <2>1. futures' = futures \ {r}
    BY <1>2 DEF Pop
  <2>2. /\ \A u \in Requests :
             InHand(u)' <=> InHand(u) \/ (u = r /\ r \in futures /\ outcome[r] = "pending")
        /\ \A v, u \in Threads : setting'[v] # NoRequest /\ setting'[u] = setting'[v] => u = v
    BY <1>2, HandsAfterPop
  <2> QED BY <1>2, <1>k, <1>o, <1>t, <2>1, <2>2 DEF FuturesTracked, Free
<1>3. ASSUME NEW how \in {"result", "error", "expired"}, SetFuture(t, how), UNCHANGED futures
      PROVE  FuturesTracked'
  <2>1. /\ setting[t] \in Requests /\ InHand(setting[t])
        /\ \A u \in Requests : InHand(u)' <=> InHand(u) /\ u # setting[t]
        /\ \A v, u \in Threads : setting'[v] # NoRequest /\ setting'[u] = setting'[v] => u = v
        /\ \A u \in Requests :
             outcome'[u] = IF u = setting[t] /\ outcome[u] = "pending" THEN how ELSE outcome[u]
    BY <1>3, HandsAfterSet DEF Outcomes
  <2> QED BY <1>3, <1>k, <1>o, <1>t, <2>1 DEF FuturesTracked, Free
<1> QED BY <1>1, <1>2, <1>3 DEF Handles

\* A submit call registers its future before it can be refused or accepted; a caller
\* cancels a future that is pending.
LEMMA FuturesClientStep ==
    ASSUME TypeOK, FuturesTracked, NEW r \in Requests, Client(r) \/ DeadlinePasses(r) \/ Cancel(r)
    PROVE  FuturesTracked'
<1>t. /\ client \in [Requests -> ClientStates] /\ futures \subseteq Requests
      /\ outcome \in [Requests -> Outcomes] /\ Stoppers \subseteq Threads
  BY ThreadsApart DEF TypeOK
<1>k. ASSUME UNCHANGED <<setting, outstanding, stopper>>
      PROVE  /\ \A u : (Outstanding(u)' <=> Outstanding(u)) /\ (InHand(u)' <=> InHand(u))
             /\ \A v \in Threads : Free(v)' <=> Free(v)
  BY <1>k DEF Outstanding, InHand, Free
<1>1. CASE CheckClosed(r)
  BY <1>1, <1>k, <1>t DEF CheckClosed, engineVars, FuturesTracked
<1>2. CASE Register(r)
  BY <1>2, <1>k, <1>t DEF Register, FuturesTracked
<1>3. CASE CheckStopping(r) /\ UNCHANGED engineVars
  BY <1>3, <1>k, <1>t DEF CheckStopping, engineVars, FuturesTracked
<1>4. CASE Enqueue(r) /\ UNCHANGED engineVars
  BY <1>4, <1>k, <1>t DEF Enqueue, engineVars, FuturesTracked
<1>5. CASE ShedLoad(r) /\ UNCHANGED engineVars
  BY <1>5, <1>k, <1>t DEF ShedLoad, engineVars, FuturesTracked
<1>6. CASE Withdraw(r)
  BY <1>6, <1>k, <1>t DEF Withdraw, FuturesTracked
<1>7. CASE DeadlinePasses(r)
  BY <1>7, FuturesKept DEF DeadlinePasses, frontVars
<1>8. CASE Cancel(r)
  BY <1>8, <1>k, <1>t DEF Cancel, frontVars, FuturesTracked
<1> QED BY <1>1, <1>2, <1>3, <1>4, <1>5, <1>6, <1>7, <1>8 DEF Client, SubmitToBatcher, Submit

\* A step of shutdown that touches neither futures nor outcomes.
Passing(k) ==
    /\ stopper[k] \notin {"collect", "fail", "returned", "raised"}
    /\ \E pc \in StopperStates \ {"fail", "raised"} : stopper' = [stopper EXCEPT ![k] = pc]
    /\ UNCHANGED <<client, early, futures, outcome, outstanding, setting, broken, late, collector,
                   work, worker, ran>>

\* A step of the loop that fails what is left.
Fails(k) == (\E r \in Requests : LookAt(k, r)) \/ SetException(k) \/ FailingEnds(k)

\* Only the end of a shutdown call touches futures.
LEMMA StopperSteps ==
    ASSUME NEW k \in Stoppers, Stopper(k)
    PROVE  Passing(k) \/ TakeOutstanding(k) \/ Fails(k)
<1>1. CASE CallShutdown(k) \/ SetClosed(k)
  BY <1>1 DEF CallShutdown, SetClosed, Goto, engineVars, Passing, StopperStates
<1>2. CASE (CheckAlreadyStopping(k) \/ SetStopping(k)) /\ UNCHANGED engineVars
  BY <1>2 DEF CheckAlreadyStopping, SetStopping, Goto, engineVars, Passing, StopperStates
<1>3. CASE (PutSentinel(k) \/ SentinelRefused(k)) /\ UNCHANGED engineVars
  BY <1>3 DEF PutSentinel, SentinelRefused, Goto, engineVars, Passing, StopperStates
<1>4. CASE Join(k, Exited) /\ UNCHANGED engineVars
  BY <1>4 DEF Join, Goto, engineVars, Passing, StopperStates
<1>5. CASE /\ JoinTimeout(k, Exited)
           /\ UNCHANGED <<closed, futures, outcome, late, collector, open, work, worker,
                          outstanding, setting, ran, broken, raced>>
  BY <1>5 DEF JoinTimeout, Goto, Passing, StopperStates
<1>6. CASE ShutdownExecutor(k) \/ AwaitExecutor(k)
  BY <1>6 DEF ShutdownExecutor, AwaitExecutor, Goto, engineVars, Passing, StopperStates
<1> QED BY <1>1, <1>2, <1>3, <1>4, <1>5, <1>6 DEF Stopper, ShutdownBatcher, Fails

\* What the loop that fails futures leaves alone.
LEMMA FailsFrame ==
    ASSUME NEW k \in Stoppers, Fails(k)
    PROVE  UNCHANGED <<queue, stopping, client, early, closed, futures, late, collector,
                       open, work, worker, ran, broken, gaveUp, raced>>
BY DEF Fails, LookAt, SetException, FailingEnds, FailUnchanged

\* The end of a shutdown call empties the dictionary and fails what was in it.
LEMMA FuturesStopperStep ==
    ASSUME TypeOK, FuturesTracked, NEW k \in Stoppers, Stopper(k)
    PROVE  FuturesTracked'
<1>t. /\ stopper \in [Stoppers -> StopperStates] /\ futures \subseteq Requests
      /\ outstanding \in [Stoppers -> SUBSET Requests] /\ outcome \in [Requests -> Outcomes]
      /\ setting \in [Threads -> Requests \cup {NoRequest}] /\ k \in Threads
      /\ Stoppers \subseteq Threads /\ NoRequest \notin Requests
  BY ThreadsApart DEF TypeOK
<1>k. ASSUME UNCHANGED setting
      PROVE  (\A u : InHand(u)' <=> InHand(u)) /\ \A v \in Threads : Free(v)' <=> Free(v)
  BY <1>k DEF InHand, Free
<1>1. CASE Passing(k)
  <2>1. PICK pc \in StopperStates \ {"fail", "raised"} : stopper' = [stopper EXCEPT ![k] = pc]
    BY <1>1 DEF Passing
  <2>2. /\ stopper[k] \notin {"fail", "raised"}
        /\ UNCHANGED <<client, futures, outcome, outstanding, setting>>
    BY <1>1 DEF Passing
  <2>3. \A u : Outstanding(u)' <=> Outstanding(u)
    BY <2>2 DEF Outstanding
  <2> QED BY <1>k, <1>t, <2>1, <2>2, <2>3 DEF FuturesTracked
<1>2. CASE TakeOutstanding(k)
  <2>1. /\ stopper[k] = "collect" /\ futures' = {} /\ UNCHANGED <<client, outcome, setting>>
        /\ outstanding' = [outstanding EXCEPT ![k] = futures]
        /\ stopper' = [stopper EXCEPT ![k] = "fail"]
    BY <1>2 DEF TakeOutstanding, Goto
  <2>2. outstanding[k] = {} /\ Free(k)
    BY <2>1 DEF FuturesTracked
  <2>3. \A r : Outstanding(r)' <=> Outstanding(r) \/ r \in futures
    BY <1>t, <2>1, <2>2 DEF Outstanding
  <2>4. \A i, j \in Stoppers : outstanding'[i] \cap outstanding'[j] # {} => i = j
    <3>1. \A j \in Stoppers : outstanding[j] \cap futures = {}
      BY DEF FuturesTracked, Outstanding
    <3>2. \A j \in Stoppers : outstanding'[j] = IF j = k THEN futures ELSE outstanding[j]
      BY <1>t, <2>1
    <3> QED BY <3>1, <3>2 DEF FuturesTracked
  <2>5. \A j \in Stoppers : stopper[j] = "raised" => stopper'[j] = "raised"
    BY <1>t, <2>1
  <2>6. \A j \in Stoppers : outstanding'[j] # {} \/ ~Free(j) => stopper'[j] = "fail"
    BY <1>t, <2>1 DEF FuturesTracked
  <2> QED BY <1>k, <1>t, <2>1, <2>3, <2>4, <2>5, <2>6 DEF FuturesTracked
<1>3. ASSUME NEW r \in Requests, LookAt(k, r) PROVE FuturesTracked'
  <2>1. /\ stopper[k] = "fail" /\ setting[k] = NoRequest /\ r \in outstanding[k]
        /\ outstanding' = [outstanding EXCEPT ![k] = @ \ {r}]
        /\ setting' = [setting EXCEPT ![k] = IF outcome[r] = "pending" THEN r ELSE NoRequest]
        /\ UNCHANGED <<stopper, outcome, client, futures>>
    BY <1>3 DEF LookAt, FailUnchanged, Free
  <2>2. Outstanding(r) /\ ~InHand(r) /\ r \notin futures
    BY <1>t, <2>1 DEF Outstanding, FuturesTracked
  <2>3. \A j \in Stoppers : outstanding'[j] = IF j = k THEN outstanding[k] \ {r} ELSE outstanding[j]
    BY <1>t, <2>1
  <2>4. \A j \in Stoppers : r \in outstanding[j] => j = k
    BY <2>1 DEF FuturesTracked
  <2>5. \A u : Outstanding(u)' <=> Outstanding(u) /\ u # r
    BY <2>3, <2>4 DEF Outstanding
  <2>6. \A u \in Requests : InHand(u)' <=> InHand(u) \/ (u = r /\ outcome[r] = "pending")
    BY <1>t, <2>1 DEF InHand
  <2>7. \A v, u \in Threads : setting'[v] # NoRequest /\ setting'[u] = setting'[v] => u = v
    BY <1>t, <2>1, <2>2 DEF FuturesTracked, Free, InHand
  <2>8. \A i, j \in Stoppers : outstanding'[i] \cap outstanding'[j] # {} => i = j
    BY <2>3 DEF FuturesTracked
  <2>9. \A j \in Stoppers : outstanding'[j] # {} \/ setting'[j] # NoRequest => stopper'[j] = "fail"
    BY <1>t, <2>1 DEF FuturesTracked, Free
  <2> QED BY <1>t, <2>1, <2>2, <2>5, <2>6, <2>7, <2>8, <2>9 DEF FuturesTracked, Free
<1>4. CASE SetException(k)
  <2>1. /\ stopper[k] = "fail" /\ SetFuture(k, "abandoned") /\ UNCHANGED <<client, futures>>
    BY <1>4 DEF SetException, FailUnchanged
  <2>2. /\ setting[k] \in Requests /\ InHand(setting[k])
        /\ \A u \in Requests : InHand(u)' <=> InHand(u) /\ u # setting[k]
        /\ \A v, u \in Threads : setting'[v] # NoRequest /\ setting'[u] = setting'[v] => u = v
        /\ \A u \in Requests : outcome'[u] = IF u = setting[k] /\ outcome[u] = "pending"
                                               THEN "abandoned" ELSE outcome[u]
    BY <1>t, <2>1, HandsAfterSet DEF Outcomes
  <2>3. setting' = [setting EXCEPT ![k] = NoRequest]
    BY <2>1 DEF SetFuture
  <2>4. CASE ~Raises(k)
    <3>1. UNCHANGED <<stopper, outstanding>>
      BY <1>4, <2>4 DEF SetException
    <3>2. \A u : Outstanding(u)' <=> Outstanding(u)
      BY <3>1 DEF Outstanding
    <3>3. \A j \in Stoppers : outstanding'[j] # {} \/ setting'[j] # NoRequest => stopper'[j] = "fail"
      BY <1>t, <2>3, <3>1 DEF FuturesTracked, Free
    <3> QED BY <1>t, <2>1, <2>2, <3>1, <3>2, <3>3 DEF FuturesTracked, Free
  <2>5. CASE Raises(k)
    <3>1. stopper' = [stopper EXCEPT ![k] = "raised"] /\ outstanding' = [outstanding EXCEPT ![k] = {}]
      BY <1>4, <2>5 DEF SetException, Goto
    <3>2. \A u : Outstanding(u)' => Outstanding(u)
      BY <1>t, <3>1 DEF Outstanding
    <3>3. \A j \in Stoppers : outstanding'[j] # {} \/ setting'[j] # NoRequest => stopper'[j] = "fail"
      BY <1>t, <2>3, <3>1 DEF FuturesTracked, Free
    <3>4. stopper'[k] = "raised"
      BY <1>t, <3>1
    <3>5. \A i, j \in Stoppers : outstanding'[i] \cap outstanding'[j] # {} => i = j
      BY <1>t, <3>1 DEF FuturesTracked
    <3> QED BY <1>t, <2>1, <2>2, <3>2, <3>3, <3>4, <3>5 DEF FuturesTracked, Free
  <2> QED BY <2>4, <2>5
<1>5. CASE FailingEnds(k)
  <2>1. /\ stopper[k] = "fail" /\ outstanding[k] = {} /\ Free(k)
        /\ UNCHANGED <<client, futures, outcome, outstanding, setting>>
        /\ stopper' = [stopper EXCEPT ![k] = "returned"]
    BY <1>5 DEF FailingEnds, FailUnchanged, Goto
  <2>2. \A u : Outstanding(u)' <=> Outstanding(u)
    BY <2>1 DEF Outstanding
  <2> QED BY <1>k, <1>t, <2>1, <2>2 DEF FuturesTracked
<1> QED BY <1>1, <1>2, <1>3, <1>4, <1>5, StopperSteps DEF Fails

-----------------------------------------------------------------------------
(* Shutdown goes through its stages in order.                              *)

ShutdownStages == ShutdownOrder /\ Swept /\ OneShutdown /\ Joined

\* A step of another thread registers futures only for calls that have yet to look at
\* _stopping, lets a call pass only while it is not set, gives an empty executor nothing
\* to do, and does not bring a batcher thread that has exited back.
LEMMA StagesKept ==
    ASSUME ShutdownStages, UNCHANGED <<stopper, closed, stopping, open, raced, gaveUp>>,
           ExecutorEmpty => UNCHANGED <<work, worker>>, Exited => Exited',
           Exited' => Free("batcher")',
           stopping => \A r \in Requests : client'[r] \in {"put", "accepted"} /\ r \in futures' =>
                                           client[r] \in {"put", "accepted"} /\ r \in futures
    PROVE  ShutdownStages'
<1>1. ExecutorEmpty => ExecutorEmpty'
  BY DEF ExecutorEmpty
<1>2. ShutdownOrder' /\ OneShutdown'
  BY DEF ShutdownStages, ShutdownOrder, OneShutdown
<1>3. Swept'
  BY <1>1 DEF ShutdownStages, Swept
<1>4. Joined'
  BY DEF ShutdownStages, Joined
<1> QED BY <1>2, <1>3, <1>4 DEF ShutdownStages

\* A submit call passes the test of _stopping only while it is not set.
LEMMA StagesClientStep ==
    ASSUME TypeOK, ShutdownStages, NEW r \in Requests, Client(r) \/ DeadlinePasses(r) \/ Cancel(r)
    PROVE  ShutdownStages'
<1>t. client \in [Requests -> ClientStates] /\ (Exited => Free("batcher"))
  BY DEF TypeOK, ShutdownStages, Joined
<1>k. ASSUME UNCHANGED <<stopper, closed, stopping, open, raced, gaveUp, work, worker, collector,
                         setting>>,
             stopping => \A u \in Requests : client'[u] \in {"put", "accepted"} /\ u \in futures' =>
                                             client[u] \in {"put", "accepted"} /\ u \in futures
      PROVE  ShutdownStages'
  BY <1>k, <1>t, StagesKept DEF Exited, Free
<1>1. CASE CheckClosed(r)
  BY <1>1, <1>k, <1>t DEF CheckClosed, engineVars
<1>2. CASE Register(r)
  BY <1>2, <1>k, <1>t DEF Register
<1>3. CASE CheckStopping(r) /\ UNCHANGED engineVars
  BY <1>3, <1>k, <1>t DEF CheckStopping, engineVars
<1>4. CASE Enqueue(r) /\ UNCHANGED engineVars
  BY <1>4, <1>k, <1>t DEF Enqueue, engineVars
<1>5. CASE ShedLoad(r) /\ UNCHANGED engineVars
  BY <1>5, <1>k, <1>t DEF ShedLoad, engineVars
<1>6. CASE Withdraw(r)
  BY <1>6, <1>k, <1>t DEF Withdraw
<1>7. CASE DeadlinePasses(r) \/ Cancel(r)
  BY <1>7, <1>k DEF DeadlinePasses, Cancel, frontVars
<1> QED BY <1>1, <1>2, <1>3, <1>4, <1>5, <1>6, <1>7 DEF Client, SubmitToBatcher, Submit

\* Serving registers no future.
LEMMA HandlesForgets ==
    ASSUME NEW t, Handles(t)
    PROVE  futures' \subseteq futures
BY DEF Handles, Pop

\* The batcher thread gives an executor that was shut down nothing to do, and once it has
\* exited it makes no step.
LEMMA StagesCollectorStep ==
    ASSUME TypeOK, ShutdownStages, Collector
    PROVE  ShutdownStages' /\ ~Exited
<1>1. ~Exited
  BY DEF Collector, CollectFirst, CollectNext, CollectTimeout, CollectDrain, RepostSentinel,
         Dispatch, SettleDropped, SetFuture, Exited, ShutdownStages, Joined
<1>2. collector'.pc = "exited" => setting'["batcher"] = NoRequest
  BY <1>1 DEF Collector, CollectFirst, CollectNext, CollectTimeout, CollectDrain, RepostSentinel,
         Dispatch, SettleDropped, TakeHead, Collect, Free, TypeOK, Exited
<1>3. ~open => UNCHANGED work
  BY DEF Collector, CollectFirst, CollectNext, CollectTimeout, CollectDrain, RepostSentinel,
         Dispatch, SettleDropped
<1>4. UNCHANGED <<stopper, closed, stopping, open, raced, gaveUp, worker, client>>
  BY CollectorFrame
<1>5. futures' \subseteq futures
  BY CollectorHandles, HandlesForgets
<1> QED BY <1>1, <1>2, <1>3, <1>4, <1>5, StagesKept DEF Exited, Free, ExecutorEmpty

\* A worker of an empty executor makes no step.
LEMMA StagesWorkerStep ==
    ASSUME TypeOK, ShutdownStages, NEW w \in Workers, Worker(w)
    PROVE  ShutdownStages'
<1>1. UNCHANGED <<stopper, closed, stopping, open, raced, gaveUp, collector, client>>
  BY WorkerFrame DEF frontVars
<1>2. ~ExecutorEmpty
  BY Answers DEF Worker, StartBatch, Generate, SettleNext, SettleSet, ExecutorEmpty
<1>3. setting'["batcher"] = setting["batcher"]
  BY WorkerHandles, ThreadsApart DEF Handles, Pop, SetFuture, TypeOK
<1>4. futures' \subseteq futures
  BY WorkerHandles, HandlesForgets
<1> QED BY <1>1, <1>2, <1>3, <1>4, StagesKept DEF Exited, Free, ShutdownStages, Joined

\* The shutdown calls themselves.
LEMMA StagesStopperStep ==
    ASSUME TypeOK, ShutdownStages, NEW k \in Stoppers, Stopper(k)
    PROVE  ShutdownStages'
<1>t. /\ stopper \in [Stoppers -> StopperStates] /\ stopping \in BOOLEAN /\ closed \in BOOLEAN
      /\ raced \in BOOLEAN /\ open \in BOOLEAN /\ gaveUp \in BOOLEAN
  BY DEF TypeOK
<1>h. (Exited <=> Exited') /\ (Free("batcher") <=> Free("batcher")')
  <2>1. UNCHANGED collector
    BY StopperSteps, FailsFrame DEF Passing, TakeOutstanding
  <2>2. setting'["batcher"] = setting["batcher"]
    BY StopperSteps, ThreadsApart
       DEF Passing, TakeOutstanding, Fails, LookAt, SetException, FailingEnds, SetFuture, TypeOK
  <2> QED BY <2>1, <2>2 DEF Exited, Free
<1>e. ASSUME UNCHANGED <<open, work, worker>> PROVE ExecutorEmpty' <=> ExecutorEmpty
  BY <1>e DEF ExecutorEmpty
<1> USE DEF ShutdownStages, ShutdownOrder, Swept, OneShutdown, Joined, Closing, Stopped
<1>1. CASE CallShutdown(k)
  BY <1>1, <1>t, <1>h, <1>e DEF CallShutdown, Goto, engineVars
<1>2. CASE SetClosed(k)
  BY <1>2, <1>t, <1>h, <1>e DEF SetClosed, Goto
<1>3. CASE CheckAlreadyStopping(k) /\ UNCHANGED engineVars
  BY <1>3, <1>t, <1>h, <1>e DEF CheckAlreadyStopping, Goto, engineVars
<1>4. CASE SetStopping(k) /\ UNCHANGED engineVars
  BY <1>4, <1>t, <1>h, <1>e DEF SetStopping, Goto, engineVars
<1>5. CASE PutSentinel(k) /\ UNCHANGED engineVars
  BY <1>5, <1>t, <1>h, <1>e DEF PutSentinel, Goto, engineVars
<1>6. CASE SentinelRefused(k) /\ UNCHANGED engineVars
  BY <1>6, <1>t, <1>h, <1>e DEF SentinelRefused, Goto, engineVars
<1>7. CASE Join(k, Exited) /\ UNCHANGED engineVars
  BY <1>7, <1>t, <1>h, <1>e DEF Join, Goto, engineVars
<1>8. CASE /\ JoinTimeout(k, Exited) /\ gaveUp' = TRUE
           /\ UNCHANGED <<closed, futures, outcome, late, collector, open, work, worker,
                          outstanding, setting, ran, broken, raced>>
  BY <1>8, <1>t, <1>h, <1>e DEF JoinTimeout, Goto
<1>9. CASE ShutdownExecutor(k)
  <2>1. ExecutorEmpty => ExecutorEmpty'
    BY <1>9 DEF ShutdownExecutor, ExecutorEmpty
  <2> QED BY <1>9, <2>1, <1>t, <1>h DEF ShutdownExecutor, Goto
<1>10. CASE AwaitExecutor(k)
  <2>1. ExecutorEmpty
    BY <1>10 DEF AwaitExecutor, ExecutorEmpty
  <2> QED BY <1>10, <2>1, <1>t, <1>h, <1>e DEF AwaitExecutor, Goto, engineVars
<1>11. CASE TakeOutstanding(k)
  BY <1>11, <1>t, <1>h, <1>e DEF TakeOutstanding, Goto
<1>12. CASE Fails(k)
  <2>1. UNCHANGED <<stopping, closed, open, raced, gaveUp, work, worker, client, futures>>
    BY <1>12, FailsFrame
  <2>2. /\ stopper[k] = "fail"
        /\ \E pc \in {"fail", "returned", "raised"} : stopper' = [stopper EXCEPT ![k] = pc]
    BY <1>12, <1>t DEF Fails, LookAt, SetException, FailingEnds, Goto
  <2> QED BY <2>1, <2>2, <1>t, <1>h, <1>e
<1> QED BY <1>1, <1>2, <1>3, <1>4, <1>5, <1>6, <1>7, <1>8, <1>9, <1>10, <1>11, <1>12
        DEF Stopper, ShutdownBatcher, Fails

-----------------------------------------------------------------------------
(* A request is in one place.                                              *)

\* A batch at the end of a list of batches.
LEMMA BatchesAppend ==
    ASSUME NEW Y, NEW qs \in Seq(Y), NEW b \in Y, NEW r, OnceIn(qs, r), Once(b, r),
           Has(b, r) => ~HasIn(qs, r)
    PROVE  /\ OnceIn(Append(qs, b), r)
           /\ HasIn(Append(qs, b), r) <=> HasIn(qs, r) \/ Has(b, r)
<1> DEFINE q == Append(qs, b)
<1>1. /\ Len(q) = Len(qs) + 1 /\ q[Len(qs) + 1] = b /\ Len(qs) \in Nat
      /\ \A i \in 1 .. Len(qs) : q[i] = qs[i]
  BY AppendProperties
<1> HIDE DEF q
<1>2. \A i \in 1 .. Len(q) : i \in 1 .. Len(qs) \/ i = Len(qs) + 1
  BY <1>1
<1>3. \A i \in 1 .. Len(qs) : i \in 1 .. Len(q)
  BY <1>1
<1>4. Len(qs) + 1 \in 1 .. Len(q)
  BY <1>1
<1>5. HasIn(q, r) <=> HasIn(qs, r) \/ Has(b, r)
  <2>1. ASSUME HasIn(q, r) PROVE HasIn(qs, r) \/ Has(b, r)
    BY <1>1, <1>2, <2>1 DEF HasIn
  <2>2. ASSUME HasIn(qs, r) PROVE HasIn(q, r)
    BY <1>1, <1>3, <2>2 DEF HasIn
  <2>3. ASSUME Has(b, r) PROVE HasIn(q, r)
    BY <1>1, <1>4, <2>3 DEF HasIn
  <2> QED BY <2>1, <2>2, <2>3
<1>6. \A i \in 1 .. Len(q) : Once(q[i], r)
  BY <1>1, <1>2 DEF OnceIn
<1>7. ASSUME NEW i \in 1 .. Len(q), NEW j \in 1 .. Len(q), Has(q[i], r), Has(q[j], r)
      PROVE  i = j
  <2>1. CASE Has(b, r)
    <3>1. \A m \in 1 .. Len(q) : Has(q[m], r) => m = Len(qs) + 1
      BY <1>1, <1>2, <2>1 DEF HasIn
    <3> QED BY <1>7, <3>1
  <2>2. CASE ~Has(b, r)
    <3>1. i \in 1 .. Len(qs) /\ j \in 1 .. Len(qs)
      BY <1>1, <1>2, <1>7, <2>2
    <3> QED BY <1>1, <1>7, <3>1 DEF OnceIn
  <2> QED BY <2>1, <2>2
<1> QED BY <1>5, <1>6, <1>7 DEF OnceIn, q

\* The first batch of a list of batches.
LEMMA BatchesTail ==
    ASSUME NEW Y, NEW qs \in Seq(Y), qs # <<>>, NEW r, OnceIn(qs, r)
    PROVE  /\ OnceIn(Tail(qs), r) /\ Once(Head(qs), r)
           /\ HasIn(qs, r) <=> Has(Head(qs), r) \/ HasIn(Tail(qs), r)
           /\ Has(Head(qs), r) => ~HasIn(Tail(qs), r)
<1> DEFINE q == Tail(qs)
<1>1. /\ Len(qs) \in Nat \ {0} /\ Head(qs) = qs[1] /\ Len(q) \in Nat
      /\ \A i \in 1 .. Len(q) : q[i] = qs[i + 1] /\ i + 1 \in 1 .. Len(qs)
      /\ \A i \in 1 .. Len(qs) : i = 1 \/ (i - 1 \in 1 .. Len(q) /\ qs[i] = q[i - 1])
  BY TailShift
<1> HIDE DEF q
<1>2. 1 \in 1 .. Len(qs)
  BY <1>1
<1>3. HasIn(qs, r) <=> Has(Head(qs), r) \/ HasIn(q, r)
  <2>1. ASSUME HasIn(qs, r) PROVE Has(Head(qs), r) \/ HasIn(q, r)
    BY <1>1, <2>1 DEF HasIn
  <2>2. ASSUME HasIn(q, r) PROVE HasIn(qs, r)
    BY <1>1, <2>2 DEF HasIn
  <2>3. ASSUME Has(Head(qs), r) PROVE HasIn(qs, r)
    BY <1>1, <1>2, <2>3 DEF HasIn
  <2> QED BY <2>1, <2>2, <2>3
<1>4. \A i \in 1 .. Len(q) : Once(q[i], r)
  BY <1>1 DEF OnceIn
<1>5. ASSUME NEW i \in 1 .. Len(q), NEW j \in 1 .. Len(q), Has(q[i], r), Has(q[j], r)
      PROVE  i = j
  <2>1. i + 1 = j + 1
    BY <1>1, <1>5 DEF OnceIn
  <2> QED BY <1>1, <2>1
<1>6. ASSUME Has(Head(qs), r), HasIn(q, r) PROVE FALSE
  <2>1. PICK i \in 1 .. Len(q) : Has(q[i], r)
    BY <1>6 DEF HasIn
  <2>2. i + 1 = 1
    BY <1>1, <1>2, <1>6, <2>1 DEF OnceIn
  <2> QED BY <1>1, <2>2
<1>7. Once(Head(qs), r)
  BY <1>1, <1>2 DEF OnceIn
<1> QED BY <1>3, <1>4, <1>5, <1>6, <1>7 DEF OnceIn, q

\* Steps that leave every list alone, and that withdraw no acceptance.
LEMMA PlacesKept ==
    ASSUME TypeOK, OnePlaceEach, UNCHANGED <<queue, work>>, collector'.batch = collector.batch,
           \A w \in Workers : worker'[w].batch = worker[w].batch,
           setting'["batcher"] = setting["batcher"],
           \A r \in Requests : Accepted(r) => client'[r] = "accepted"
    PROVE  OnePlaceEach' /\ \A r \in Requests : Placed(r)' <=> Placed(r)
<1>1. \A r \in Requests : OnceRunning(r)' <=> OnceRunning(r)
  BY DEF OnceRunning, Running
<1>2. \A w \in Workers : \A r \in Requests : Running(w, r)' <=> Running(w, r)
  BY DEF Running
<1>3. \A r \in Requests : Placed(r)' <=> Placed(r)
  BY <1>2 DEF Placed, Dropping
<1>4. \A r \in Requests : OnePlace(r)' <=> OnePlace(r)
  BY <1>1, <1>2 DEF OnePlace, Dropping
<1> QED BY <1>3, <1>4 DEF OnePlaceEach, Accepted

\* Steps that leave the workers alone.
LEMMA WorkersKept ==
    ASSUME UNCHANGED worker
    PROVE  \A r : /\ OnceRunning(r)' <=> OnceRunning(r)
                  /\ \A w \in Workers : Running(w, r)' <=> Running(w, r)
BY DEF OnceRunning, Running

\* Enqueue: an accepted request was nowhere before.
LEMMA EnqueuePlaces ==
    ASSUME TypeOK, OnePlaceEach, NEW r \in Requests, Enqueue(r), UNCHANGED engineVars
    PROVE  /\ OnePlaceEach'
           /\ \A u \in Requests : Placed(u)' <=> Placed(u) \/ u = r
<1>1. /\ queue \in Seq(Requests \cup {Sentinel}) /\ queue' = Append(queue, r)
      /\ client \in [Requests -> ClientStates] /\ client' = [client EXCEPT ![r] = "accepted"]
      /\ client[r] = "put" /\ UNCHANGED <<collector, work, worker, setting>>
  BY DEF Enqueue, engineVars, TypeOK
<1>2. ~Placed(r)
  BY <1>1 DEF OnePlaceEach, Accepted
<1>3. \A u \in Requests : Has(queue', u) <=> Has(queue, u) \/ u = r
  BY <1>1, HasAppend
<1>4. \A u \in Requests : Once(queue, u) => Once(queue', u)
  BY <1>1, <1>2, OnceAppend DEF Placed
<1>5. \A u \in Requests : OnceRunning(u)' <=> OnceRunning(u)
  BY <1>1, WorkersKept
<1>6. \A u \in Requests : \A w \in Workers : Running(w, u)' <=> Running(w, u)
  BY <1>1, WorkersKept
<1>7. \A u \in Requests : Placed(u)' <=> Placed(u) \/ u = r
  BY <1>1, <1>3, <1>6 DEF Placed, Dropping
<1>8. \A u \in Requests : OnePlace(u) => OnePlace(u)'
  BY <1>1, <1>2, <1>3, <1>4, <1>5, <1>6 DEF OnePlace, Placed, Dropping
<1> QED BY <1>1, <1>7, <1>8 DEF OnePlaceEach, Accepted

\* A sentinel at the end of the queue.
LEMMA SentinelPlaces ==
    ASSUME TypeOK, OnePlaceEach, queue' = Append(queue, Sentinel),
           collector'.batch = collector.batch, UNCHANGED <<work, worker, client>>,
           setting'["batcher"] = setting["batcher"]
    PROVE  OnePlaceEach' /\ \A u \in Requests : Placed(u)' <=> Placed(u)
<1>1. queue \in Seq(Requests \cup {Sentinel}) /\ Sentinel \notin Requests
  BY QueueAssumption DEF TypeOK
<1>3. \A u \in Requests : Has(queue', u) <=> Has(queue, u)
  BY <1>1, HasAppend
<1>4. \A u \in Requests : Once(queue, u) => Once(queue', u)
  BY <1>1, OnceAppend
<1>5. \A u \in Requests : OnceRunning(u)' <=> OnceRunning(u)
  BY WorkersKept
<1>6. \A u \in Requests : \A w \in Workers : Running(w, u)' <=> Running(w, u)
  BY WorkersKept
<1>7. \A u \in Requests : Placed(u)' <=> Placed(u)
  BY <1>3, <1>6 DEF Placed, Dropping
<1>8. \A u \in Requests : OnePlace(u) => OnePlace(u)'
  BY <1>3, <1>4, <1>5, <1>6 DEF OnePlace, Dropping
<1> QED BY <1>7, <1>8 DEF OnePlaceEach, Accepted

\* The head of the queue is dropped: a sentinel, or a request that has expired, which the
\* batcher thread may be about to answer.
LEMMA DropHeadPlaces ==
    ASSUME TypeOK, OnePlaceEach, queue # <<>>, queue' = Tail(queue),
           collector'.batch = collector.batch, UNCHANGED <<work, worker, client>>,
           Free("batcher"), setting'["batcher"] \in {NoRequest, Head(queue)}
    PROVE  /\ OnePlaceEach'
           /\ \A u \in Requests : Placed(u) => Placed(u)' \/ u = Head(queue)
           /\ \A u \in Requests : Dropping(u)' => Placed(u)'
<1>1. queue \in Seq(Requests \cup {Sentinel})
  BY DEF TypeOK
<1>3. \A u \in Requests : Has(queue, u) <=> u = Head(queue) \/ Has(queue', u)
  BY <1>1, HasTail
<1>4. \A u \in Requests : Once(queue, u) => Once(queue', u) /\ (u = Head(queue) => ~Has(queue', u))
  BY <1>1, OnceTail
<1>5. \A u \in Requests : OnceRunning(u)' <=> OnceRunning(u)
  BY WorkersKept
<1>6. \A u \in Requests : \A w \in Workers : Running(w, u)' <=> Running(w, u)
  BY WorkersKept
<1>9. \A u \in Requests : ~Dropping(u) /\ (Dropping(u)' => u = Head(queue))
  BY ThreadsApart DEF Dropping, Free
<1>7. \A u \in Requests : /\ Placed(u) => Placed(u)' \/ u = Head(queue)
                          /\ Placed(u)' => Placed(u)
                          /\ Dropping(u)' => Placed(u)'
  BY <1>3, <1>6, <1>9 DEF Placed
<1>8. \A u \in Requests : OnePlace(u) => OnePlace(u)'
  BY <1>3, <1>4, <1>5, <1>6, <1>9 DEF OnePlace
<1> QED BY <1>7, <1>8 DEF OnePlaceEach, Accepted

\* The head of the queue joins the batch.
LEMMA JoinBatchPlaces ==
    ASSUME TypeOK, OnePlaceEach, queue # <<>>, queue' = Tail(queue), Head(queue) \in Requests,
           collector'.batch = Append(collector.batch, Head(queue)),
           UNCHANGED <<work, worker, client, setting>>
    PROVE  OnePlaceEach' /\ \A u \in Requests : Placed(u)' <=> Placed(u)
<1>1. queue \in Seq(Requests \cup {Sentinel}) /\ collector.batch \in Seq(Requests)
  BY BatchMember DEF TypeOK
<1>2. OnePlace(Head(queue)) /\ Has(queue, Head(queue))
  BY <1>1, HasTail DEF OnePlaceEach
<1>3. \A u \in Requests : Has(queue, u) <=> u = Head(queue) \/ Has(queue', u)
  BY <1>1, HasTail
<1>4. \A u \in Requests : Once(queue, u) => Once(queue', u) /\ (u = Head(queue) => ~Has(queue', u))
  BY <1>1, OnceTail
<1>5. \A u \in Requests : OnceRunning(u)' <=> OnceRunning(u)
  BY WorkersKept
<1>6. \A u \in Requests : \A w \in Workers : Running(w, u)' <=> Running(w, u)
  BY WorkersKept
<1>9. \A u \in Requests : Has(collector'.batch, u) <=> Has(collector.batch, u) \/ u = Head(queue)
  BY <1>1, HasAppend
<1>10. \A u \in Requests : Once(collector.batch, u) => Once(collector'.batch, u)
  BY <1>1, <1>2, OnceAppend DEF OnePlace
<1>7. \A u \in Requests : Placed(u)' <=> Placed(u)
  BY <1>3, <1>6, <1>9 DEF Placed, Dropping
<1>8. \A u \in Requests : OnePlace(u) => OnePlace(u)'
  BY <1>2, <1>3, <1>4, <1>5, <1>6, <1>9, <1>10 DEF OnePlace, Dropping
<1> QED BY <1>7, <1>8 DEF OnePlaceEach, Accepted

\* The batch is handed to the executor, or lost when the executor is shut down.
LEMMA DispatchPlaces ==
    ASSUME TypeOK, OnePlaceEach, Dispatch
    PROVE  OnePlaceEach' /\ \A u \in Requests : Placed(u) => Placed(u)' \/ ~open
<1>1. /\ work \in Seq(Batches \ {<<>>}) /\ collector.batch \in Batches \ {<<>>}
      /\ collector'.batch = <<>> /\ UNCHANGED <<queue, worker, client, setting>>
      /\ work' = IF open THEN Append(work, collector.batch) ELSE work
  BY DEF Dispatch, CollectorUnchanged, TypeOK
<1>2. \A u : ~Has(collector'.batch, u) /\ Once(collector'.batch, u)
  BY <1>1 DEF Has, Once
<1>3. \A u \in Requests : OnePlace(u)
  BY DEF OnePlaceEach
<1>4. \A u \in Requests : /\ OnceIn(work', u)
                          /\ open => (HasIn(work', u) <=> HasIn(work, u) \/ Has(collector.batch, u))
                          /\ HasIn(work', u) => HasIn(work, u) \/ Has(collector.batch, u)
  <2>1. CASE open
    BY <1>1, <1>3, <2>1, BatchesAppend DEF OnePlace
  <2>2. CASE ~open
    BY <1>1, <1>3, <2>2 DEF OnePlace
  <2> QED BY <2>1, <2>2
<1>5. \A u \in Requests : OnceRunning(u)' <=> OnceRunning(u)
  BY <1>1, WorkersKept
<1>6. \A u \in Requests : \A w \in Workers : Running(w, u)' <=> Running(w, u)
  BY <1>1, WorkersKept
<1>7. \A u \in Requests : (Placed(u) => Placed(u)' \/ ~open) /\ (Placed(u)' => Placed(u))
  BY <1>1, <1>2, <1>4, <1>6 DEF Placed, Dropping
<1>8. \A u \in Requests : OnePlace(u)'
  BY <1>1, <1>2, <1>3, <1>4, <1>5, <1>6 DEF OnePlace, Dropping
<1> QED BY <1>1, <1>7, <1>8 DEF OnePlaceEach, Accepted

\* The batcher thread has answered the request it dropped.
LEMMA DroppedPlaces ==
    ASSUME TypeOK, OnePlaceEach, SettleDropped
    PROVE  OnePlaceEach' /\ \A u \in Requests : Placed(u) => Placed(u)' \/ Dropping(u)
<1>1. /\ UNCHANGED <<queue, client, work, worker, collector>>
      /\ setting'["batcher"] = NoRequest /\ NoRequest \notin Requests
  BY ThreadsApart DEF SettleDropped, SetFuture, TypeOK
<1>2. \A u \in Requests : /\ OnceRunning(u)' <=> OnceRunning(u)
                          /\ \A w \in Workers : Running(w, u)' <=> Running(w, u)
                          /\ ~Dropping(u)'
  BY <1>1, WorkersKept DEF Dropping
<1>3. \A u \in Requests : (Placed(u) => Placed(u)' \/ Dropping(u)) /\ (Placed(u)' => Placed(u))
  BY <1>1, <1>2 DEF Placed
<1>4. \A u \in Requests : OnePlace(u) => OnePlace(u)'
  BY <1>1, <1>2 DEF OnePlace
<1> QED BY <1>1, <1>3, <1>4 DEF OnePlaceEach, Accepted

\* A worker that is about to set a future runs its request.
LEMMA SettersRun ==
    ASSUME WorkersSettle, NEW w \in Workers, NEW u \in Requests, setting[w] = u
    PROVE  Running(w, u)
BY ThreadsApart DEF WorkersSettle, Tracks, Running

\* The request of a step that has lost its place needs none: its future is settled or
\* gone, its batch is broken, or the executor was shut down under the batcher thread.
NeedsNoPlace(u) ==
    \/ outcome'[u] # "pending" \/ Stranded(u)'
    \/ u \notin futures' /\ ~BeingSet(u)'
    \/ ~open /\ ~Exited

\* A dequeued request: when it has expired its future is popped.
LEMMA TakeHeadPlaces ==
    ASSUME TypeOK, OnePlaceEach, WorkersSettle, queue # <<>>, queue' = Tail(queue),
           Head(queue) \in Requests, Free("batcher"), NEW more, NEW whenFull,
           TakeHead(more, whenFull), UNCHANGED <<work, worker, client>>
    PROVE  OnePlaceEach' /\ \A u \in Requests : Placed(u) => Placed(u)' \/ NeedsNoPlace(u)
<1>1. CASE Expired(Head(queue))
  <2>1. /\ UNCHANGED collector /\ Head(queue) \notin futures'
        /\ setting'["batcher"] \in {NoRequest, Head(queue)}
        /\ \A w \in Workers : setting'[w] = setting[w]
    BY <1>1, ThreadsApart DEF TakeHead, Pop, TypeOK
  <2>2. /\ OnePlaceEach'
        /\ \A u \in Requests : Placed(u) => Placed(u)' \/ u = Head(queue)
        /\ \A u \in Requests : Dropping(u)' => Placed(u)'
    BY <2>1, DropHeadPlaces
  <2>3. Has(queue, Head(queue))
    BY HasTail DEF TypeOK
  <2>4. \A w \in Workers : setting'[w] # Head(queue)
    BY <2>1, <2>3, SettersRun DEF OnePlaceEach, OnePlace
  <2>5. ASSUME NEW u \in Requests, u = Head(queue) PROVE Placed(u)' \/ NeedsNoPlace(u)
    BY <2>1, <2>2, <2>4, <2>5 DEF NeedsNoPlace, BeingSet, Dropping
  <2> QED BY <2>2, <2>5
<1>2. CASE ~Expired(Head(queue))
  <2>1. collector'.batch = Append(collector.batch, Head(queue)) /\ UNCHANGED setting
    BY <1>2 DEF TakeHead, Collect
  <2> QED BY <2>1, JoinBatchPlaces
<1> QED BY <1>1, <1>2

\* The batcher thread loses no request, except to an executor that is shut down.
LEMMA CollectorPlaces ==
    ASSUME TypeOK, OnePlaceEach, WorkersSettle, ~Exited, Collector
    PROVE  OnePlaceEach' /\ \A u \in Requests : Placed(u) => Placed(u)' \/ NeedsNoPlace(u)
<1>f. UNCHANGED <<client, worker>>
  BY CollectorFrame
<1>t. /\ collector \in [pc : {"first", "fill", "drain", "repost", "dispatch", "exited"},
                        batch : Batches]
      /\ queue \in Seq(Requests \cup {Sentinel}) /\ Sentinel \notin Requests
  BY QueueAssumption DEF TypeOK
<1>h. ASSUME queue # <<>> PROVE Head(queue) \in Requests \cup {Sentinel}
  BY <1>h, <1>t, TailShift
<1>k. ASSUME UNCHANGED <<queue, work, setting>>, collector'.batch = collector.batch
      PROVE  OnePlaceEach' /\ \A u \in Requests : Placed(u)' <=> Placed(u)
  BY <1>f, <1>k, PlacesKept DEF Accepted
<1>s. ASSUME queue # <<>>, queue' = Tail(queue), Head(queue) = Sentinel, Free("batcher"),
             collector'.batch = collector.batch, UNCHANGED <<work, setting>>
      PROVE  OnePlaceEach' /\ \A u \in Requests : Placed(u) => Placed(u)'
  BY <1>f, <1>s, <1>t, DropHeadPlaces DEF Free
<1>3. CASE CollectFirst
  <2>1. queue # <<>> /\ queue' = Tail(queue) /\ UNCHANGED work /\ Free("batcher")
    BY <1>3 DEF CollectFirst
  <2>2. CASE Head(queue) = Sentinel
    <3>1. collector'.batch = collector.batch /\ UNCHANGED setting
      BY <1>3, <1>t, <2>2 DEF CollectFirst
    <3> QED BY <1>s, <2>1, <2>2, <3>1
  <2>3. CASE Head(queue) # Sentinel
    <3>1. TakeHead("fill", "dispatch")
      BY <1>3, <2>3 DEF CollectFirst
    <3> QED BY <1>f, <1>h, <2>1, <2>3, <3>1, TakeHeadPlaces
  <2> QED BY <2>2, <2>3
<1>4. CASE CollectNext
  <2>1. queue # <<>> /\ queue' = Tail(queue) /\ UNCHANGED work /\ Free("batcher")
    BY <1>4 DEF CollectNext
  <2>2. CASE Head(queue) = Sentinel
    <3>1. collector'.batch = collector.batch /\ UNCHANGED setting
      BY <1>4, <1>t, <2>2 DEF CollectNext
    <3> QED BY <1>s, <2>1, <2>2, <3>1
  <2>3. CASE Head(queue) # Sentinel
    <3>1. TakeHead("fill", "dispatch")
      BY <1>4, <2>3 DEF CollectNext
    <3> QED BY <1>f, <1>h, <2>1, <2>3, <3>1, TakeHeadPlaces
  <2> QED BY <2>2, <2>3
<1>5. CASE CollectTimeout
  BY <1>5, <1>k, <1>t DEF CollectTimeout
<1>6. CASE CollectDrain
  <2>1. CASE queue = <<>>
    BY <1>6, <1>k, <1>t, <2>1 DEF CollectDrain
  <2>2. CASE queue # <<>>
    <3>1. queue' = Tail(queue) /\ UNCHANGED work /\ Free("batcher")
      BY <1>6, <2>2 DEF CollectDrain
    <3>2. CASE Head(queue) = Sentinel
      <4>1. collector'.batch = collector.batch /\ UNCHANGED setting
        BY <1>6, <1>t, <2>2, <3>2 DEF CollectDrain
      <4> QED BY <1>s, <2>2, <3>1, <3>2, <4>1
    <3>3. CASE Head(queue) # Sentinel
      <4>1. TakeHead("drain", "repost")
        BY <1>6, <2>2, <3>3 DEF CollectDrain
      <4> QED BY <1>f, <1>h, <2>2, <3>1, <3>3, <4>1, TakeHeadPlaces
    <3> QED BY <3>2, <3>3
  <2> QED BY <2>1, <2>2
<1>7. CASE RepostSentinel
  <2>1. collector'.batch = collector.batch /\ UNCHANGED <<work, setting>>
    BY <1>7, <1>t DEF RepostSentinel
  <2>2. CASE Full
    BY <1>7, <1>k, <2>1, <2>2 DEF RepostSentinel
  <2>3. CASE ~Full
    BY <1>7, <1>f, <2>1, <2>3, SentinelPlaces DEF RepostSentinel
  <2> QED BY <2>2, <2>3
<1>8. CASE Dispatch
  BY <1>8, DispatchPlaces DEF NeedsNoPlace
<1>9. CASE SettleDropped
  <2>1. \A u \in Requests : Dropping(u) => outcome'[u] # "pending"
    BY <1>9 DEF SettleDropped, SetFuture, Raises, Dropping, TypeOK
  <2> QED BY <1>9, <2>1, DroppedPlaces DEF NeedsNoPlace
<1> QED BY <1>3, <1>4, <1>5, <1>6, <1>7, <1>8, <1>9 DEF Collector

\* A worker takes the first batch of the executor's queue.
LEMMA StartPlaces ==
    ASSUME TypeOK, OnePlaceEach, NEW w \in Workers, StartBatch(w)
    PROVE  OnePlaceEach' /\ \A u \in Requests : Placed(u)' <=> Placed(u)
<1>1. /\ work \in Seq(Batches \ {<<>>}) /\ work # <<>> /\ work' = Tail(work)
      /\ worker[w].batch = <<>>
      /\ UNCHANGED <<queue, collector, client, setting>>
  BY StartsWith DEF StartBatch, WorkerUnchanged, frontVars, TypeOK
<1>2. worker'[w].batch = Head(work) /\ \A v \in Workers : v # w => worker'[v].batch = worker[v].batch
  <2>1. \E b : worker' = [worker EXCEPT ![w] = b] /\ b.batch = Head(work)
    BY StartsWith DEF Started
  <2> QED BY <2>1 DEF TypeOK
<1>3. \A u \in Requests : OnePlace(u)
  BY DEF OnePlaceEach
<1>4. \A u \in Requests :
         /\ OnceIn(work', u) /\ Once(Head(work), u)
         /\ HasIn(work, u) <=> Has(Head(work), u) \/ HasIn(work', u)
         /\ Has(Head(work), u) => ~HasIn(work', u)
  BY <1>1, <1>3, BatchesTail DEF OnePlace
<1>5. \A u : ~Running(w, u)
  BY <1>1 DEF Running, Has
<1>6. \A u \in Requests : \A v \in Workers :
         Running(v, u)' <=> IF v = w THEN Has(Head(work), u) ELSE Running(v, u)
  BY <1>2 DEF Running
<1>7. \A u \in Requests : OnceRunning(u)'
  <2> SUFFICES ASSUME NEW u \in Requests PROVE OnceRunning(u)'
    OBVIOUS
  <2>1. \A v \in Workers : Once(worker'[v].batch, u)
    BY <1>2, <1>3, <1>4 DEF OnePlace, OnceRunning
  <2>2. \A v, x \in Workers : Running(v, u)' /\ Running(x, u)' => v = x
    BY <1>3, <1>4, <1>6 DEF OnePlace, OnceRunning
  <2> QED BY <2>1, <2>2 DEF OnceRunning
<1>8. \A u \in Requests : Placed(u)' <=> Placed(u)
  BY <1>1, <1>4, <1>5, <1>6 DEF Placed, Dropping
<1>9. \A u \in Requests : OnePlace(u)'
  BY <1>1, <1>3, <1>4, <1>5, <1>6, <1>7 DEF OnePlace, Dropping
<1> QED BY <1>1, <1>8, <1>9 DEF OnePlaceEach, Accepted

\* A worker is done with its batch.
LEMMA FinishPlaces ==
    ASSUME TypeOK, OnePlaceEach, NEW w \in Workers, worker' = [worker EXCEPT ![w] = IdleWorker],
           UNCHANGED <<queue, collector, work, client>>, setting'["batcher"] = setting["batcher"]
    PROVE  OnePlaceEach' /\ \A u \in Requests : Placed(u) => Placed(u)' \/ Running(w, u)
<1>2. worker'[w].batch = <<>> /\ \A v \in Workers : v # w => worker'[v].batch = worker[v].batch
  BY DEF TypeOK, IdleWorker
<1>3. \A u \in Requests : OnePlace(u)
  BY DEF OnePlaceEach
<1>4. \A u : ~Has(<<>>, u) /\ Once(<<>>, u)
  BY DEF Has, Once
<1>6. \A u \in Requests : \A v \in Workers : Running(v, u)' <=> v # w /\ Running(v, u)
  BY <1>2, <1>4 DEF Running
<1>7. \A u \in Requests : OnceRunning(u)'
  <2> SUFFICES ASSUME NEW u \in Requests PROVE OnceRunning(u)'
    OBVIOUS
  <2>1. \A v \in Workers : Once(worker'[v].batch, u)
    BY <1>2, <1>3, <1>4 DEF OnePlace, OnceRunning
  <2>2. \A v, x \in Workers : Running(v, u)' /\ Running(x, u)' => v = x
    BY <1>3, <1>6 DEF OnePlace, OnceRunning
  <2> QED BY <2>1, <2>2 DEF OnceRunning
<1>8. \A u \in Requests : (Placed(u) => Placed(u)' \/ Running(w, u)) /\ (Placed(u)' => Placed(u))
  BY <1>6 DEF Placed, Dropping
<1>9. \A u \in Requests : OnePlace(u)'
  BY <1>3, <1>6, <1>7 DEF OnePlace, Dropping
<1> QED BY <1>8, <1>9 DEF OnePlaceEach, Accepted

-----------------------------------------------------------------------------
(* A worker comes to every member of its batch.                            *)

\* Where a loop goes on.
LEMMA OnwardCases ==
    ASSUME NEW b \in WorkerStates, b.pc \in {"expire", "complete", "fail"}
    PROVE  \/ b.rest # <<>> /\ Onward(b) = b
           \/ b.rest = <<>> /\ b.pc = "expire" /\ b.live # <<>> /\ Onward(b) = [b EXCEPT !.pc = "run"]
           \/ b.rest = <<>> /\ (b.pc = "expire" => b.live = <<>>) /\ Onward(b) = IdleWorker
BY DEF Onward

\* Going on leaves no member behind,
LEMMA OnwardTracks ==
    ASSUME NEW b \in WorkerStates, NEW F, NEW L, b.pc \in {"expire", "complete", "fail"},
           Tracks(b, NoRequest, F, L)
    PROVE  Tracks(Onward(b), NoRequest, F, L)
<1>e. \A r : ~Has(<<>>, r)
  BY DEF Has
<1>1. CASE b.rest # <<>> /\ Onward(b) = b
  BY <1>1
<1>2. CASE b.rest = <<>> /\ b.pc = "expire" /\ Onward(b) = [b EXCEPT !.pc = "run"]
  <2>1. /\ Onward(b).pc = "run" /\ Onward(b).batch = b.batch /\ Onward(b).live = b.live
        /\ Onward(b).rest = b.rest
    BY <1>2 DEF WorkerStates
  <2> QED BY <1>2, <1>e, <2>1 DEF Tracks
<1>3. CASE Onward(b) = IdleWorker
  <2>1. /\ Onward(b).pc = "idle" /\ Onward(b).batch = <<>> /\ Onward(b).live = <<>>
        /\ Onward(b).rest = <<>>
    BY <1>3 DEF IdleWorker
  <2> QED BY <1>e, <2>1 DEF Tracks
<1> QED BY <1>1, <1>2, <1>3, OnwardCases

\* and the worker keeps its batch or has popped the future of every member.
LEMMA OnwardEnds ==
    ASSUME NEW b \in WorkerStates, NEW F, NEW L, b.pc \in {"expire", "complete", "fail"},
           Tracks(b, NoRequest, F, L)
    PROVE  \/ Onward(b).batch = b.batch
           \/ Onward(b) = IdleWorker /\ \A r \in Requests : Has(b.batch, r) => r \notin F
<1>e. \A r : ~Has(<<>>, r)
  BY DEF Has
<1>1. CASE b.rest # <<>> /\ Onward(b) = b
  BY <1>1
<1>2. CASE Onward(b) = [b EXCEPT !.pc = "run"]
  BY <1>2 DEF WorkerStates
<1>3. CASE b.rest = <<>> /\ (b.pc = "expire" => b.live = <<>>) /\ Onward(b) = IdleWorker
  BY <1>3, <1>e DEF Tracks
<1> QED BY <1>1, <1>2, <1>3, OnwardCases

\* A worker takes the next member of its loop, with its future or without.
LEMMA NextTracks ==
    ASSUME TypeOK, WorkersSettle, NEW w \in Workers, SettleNext(w)
    PROVE  LET b == [worker[w] EXCEPT !.rest = Tail(@)]
           IN  /\ b \in WorkerStates /\ b.pc \in {"expire", "complete", "fail"}
               /\ b.batch = worker[w].batch
               /\ worker' = [worker EXCEPT ![w] = IF setting'[w] = NoRequest THEN Onward(b) ELSE b]
               /\ Tracks(b, setting'[w], futures', late)
               /\ setting[w] = NoRequest /\ UNCHANGED <<outcome, broken>>
               /\ \A r \in futures : r \in futures' \/ outcome[r] # "pending" \/ setting'[w] = r
<1> DEFINE b == [worker[w] EXCEPT !.rest = Tail(@)]
           r == Head(worker[w].rest)
<1>1. /\ worker[w] \in WorkerStates /\ worker[w].pc \in {"expire", "complete", "fail"}
      /\ worker[w].rest # <<>> /\ setting[w] = NoRequest /\ w \in Threads
      /\ setting \in [Threads -> Requests \cup {NoRequest}]
      /\ UNCHANGED <<outcome, broken>>
      /\ worker' = [worker EXCEPT ![w] = IF setting'[w] = NoRequest THEN Onward(b) ELSE b]
  BY Answers, ThreadsApart DEF SettleNext, TypeOK, WorkerStates, Free
<1>2. r \in Requests /\ Tail(worker[w].rest) \in Batches
  BY <1>1, BatchTail DEF WorkerStates
<1>3. /\ b \in WorkerStates /\ b.pc = worker[w].pc /\ b.batch = worker[w].batch
      /\ b.live = worker[w].live /\ b.rest = Tail(worker[w].rest)
  BY <1>1, <1>2 DEF WorkerStates
<1>4. \A u \in Requests : Has(worker[w].rest, u) <=> u = r \/ Has(b.rest, u)
  <2>1. worker[w].rest \in Seq(Requests)
    BY <1>1, BatchMember DEF WorkerStates
  <2> QED BY <1>1, <1>3, <2>1, HasTail
<1>5. Tracks(worker[w], NoRequest, futures, late)
  BY <1>1 DEF WorkersSettle
<1>6. \/ worker[w].pc = "expire" /\ r \notin late /\ UNCHANGED <<futures, setting>>
      \/ Pop(w, r)
  BY DEF SettleNext, Expired
<1>7. /\ \A u \in futures : u \in futures' \/ outcome[u] # "pending" \/ setting'[w] = u
      /\ setting'[w] \in {NoRequest, r}
      /\ \A u \in futures' : u \in futures /\ (u = r => worker[w].pc = "expire" /\ r \notin late)
  BY <1>1, <1>6 DEF Pop
<1> HIDE DEF b, r
<1>8. Tracks(b, setting'[w], futures', late)
  BY <1>1, <1>2, <1>3, <1>4, <1>5, <1>7 DEF Tracks
<1>9. /\ b \in WorkerStates /\ b.pc \in {"expire", "complete", "fail"}
      /\ b.batch = worker[w].batch
      /\ worker' = [worker EXCEPT ![w] = IF setting'[w] = NoRequest THEN Onward(b) ELSE b]
      /\ Tracks(b, setting'[w], futures', late)
      /\ setting[w] = NoRequest /\ UNCHANGED <<outcome, broken>>
      /\ \A u \in futures : u \in futures' \/ outcome[u] # "pending" \/ setting'[w] = u
  BY <1>1, <1>3, <1>7, <1>8
<1> QED BY <1>9 DEF b

\* A worker sets the future in its hand.
LEMMA SetTracks ==
    ASSUME TypeOK, WorkersSettle, NEW w \in Workers, SettleSet(w)
    PROVE  /\ worker[w] \in WorkerStates /\ worker[w].pc \in {"expire", "complete", "fail"}
           /\ Tracks(worker[w], NoRequest, futures, late) /\ UNCHANGED futures
           /\ setting[w] \in Requests /\ Running(w, setting[w]) /\ setting'[w] = NoRequest
           /\ outcome' = [outcome EXCEPT ![setting[w]] = IF @ = "pending" THEN Answer[worker[w].pc]
                                                         ELSE @]
           /\ \/ /\ outcome[setting[w]] = "pending" /\ UNCHANGED broken
                 /\ worker' = [worker EXCEPT ![w] = Onward(worker[w])]
              \/ /\ worker[w].pc = "complete" /\ UNCHANGED broken
                 /\ worker' = [worker EXCEPT ![w].pc = "fail", ![w].rest = worker[w].live]
              \/ /\ outcome[setting[w]] # "pending"
                 /\ worker' = [worker EXCEPT ![w] = IdleWorker]
                 /\ broken' = broken \cup {ToSet(worker[w].batch)}
<1>1. /\ worker[w] \in WorkerStates /\ worker[w].pc \in {"expire", "complete", "fail"}
      /\ SetFuture(w, Answer[worker[w].pc]) /\ w \in Threads /\ UNCHANGED futures
      /\ setting \in [Threads -> Requests \cup {NoRequest}]
      /\ outcome \in [Requests -> Outcomes] /\ worker \in [Workers -> WorkerStates]
  BY Answers, ThreadsApart DEF SettleSet, TypeOK, WorkerStates
<1>2. /\ setting[w] \in Requests /\ setting'[w] = NoRequest
      /\ outcome' = [outcome EXCEPT ![setting[w]] = IF @ = "pending" THEN Answer[worker[w].pc] ELSE @]
  BY <1>1 DEF SetFuture, Free, Raises
<1>3. Tracks(worker[w], NoRequest, futures, late)
  BY DEF WorkersSettle, Tracks
<1>4. Running(w, setting[w])
  BY <1>2, SettersRun
<1>5. \/ /\ outcome[setting[w]] = "pending" /\ UNCHANGED broken
         /\ worker' = [worker EXCEPT ![w] = Onward(worker[w])]
      \/ /\ worker[w].pc = "complete" /\ UNCHANGED broken
         /\ worker' = [worker EXCEPT ![w].pc = "fail", ![w].rest = worker[w].live]
      \/ /\ outcome[setting[w]] # "pending"
         /\ worker' = [worker EXCEPT ![w] = IdleWorker]
         /\ broken' = broken \cup {ToSet(worker[w].batch)}
  BY DEF SettleSet, Raises
<1> QED BY <1>1, <1>2, <1>3, <1>4, <1>5

\* Steps of other threads: they register no future of a request that was accepted.
LEMMA WorkersSettleKept ==
    ASSUME TypeOK, WorkersSettle, OnePlaceEach, UNCHANGED worker, late \subseteq late',
           \A w \in Workers : setting'[w] = setting[w],
           \A r \in Requests : Accepted(r) /\ r \in futures' => r \in futures
    PROVE  WorkersSettle'
<1>1. \A w \in Workers : \A r \in Requests : Has(worker[w].batch, r) => Accepted(r)
  BY DEF OnePlaceEach, Placed, Running
<1> QED BY <1>1 DEF WorkersSettle, Tracks

\* A step of a worker.
LEMMA WorkersSettleStep ==
    ASSUME TypeOK, WorkersSettle, NEW w \in Workers, Worker(w)
    PROVE  WorkersSettle'
<1>f. UNCHANGED late
  BY WorkerFrame
<1>t. /\ worker \in [Workers -> WorkerStates] /\ worker[w] \in WorkerStates
      /\ \A v \in Workers : v # w => setting'[v] = setting[v]
      /\ futures' \subseteq futures
  <2>1. \A v \in Workers : v # w => setting'[v] = setting[v]
    BY WorkerHandles, ThreadsApart DEF Handles, Pop, SetFuture, TypeOK
  <2> QED BY <2>1, WorkerHandles, HandlesForgets DEF TypeOK, WorkerStates
<1>o. ASSUME NEW b, worker' = [worker EXCEPT ![w] = b], Tracks(b, setting'[w], futures', late)
      PROVE  WorkersSettle'
  <2>1. \A v \in Workers : worker'[v] = IF v = w THEN b ELSE worker[v]
    BY <1>o, <1>t
  <2>2. ASSUME NEW v \in Workers, v # w PROVE Tracks(worker[v], setting[v], futures', late)
    BY <1>t DEF WorkersSettle, Tracks
  <2> QED BY <1>f, <1>o, <1>t, <2>1, <2>2 DEF WorkersSettle
<1>s. Tracks(worker[w], setting[w], futures, late)
  BY DEF WorkersSettle
<1>e. \A r : ~Has(<<>>, r)
  BY DEF Has
<1>1. CASE StartBatch(w)
  <2>1. PICK b \in WorkerStates : worker' = [worker EXCEPT ![w] = b] /\ Started(b, Head(work))
    BY <1>1, StartsWith
  <2>2. /\ UNCHANGED <<setting, futures>> /\ setting[w] = NoRequest
        /\ Head(work) \in Seq(Requests)
    BY <1>1, <1>s, StartsWith, BatchMember DEF StartBatch, Tracks
  <2>3. \A r : Has(b.live, r) <=> r \in {u \in Requests : ~Expired(u)} /\ Has(b.batch, r)
    BY <2>1, <2>2, KeepMembers DEF Started
  <2>4. /\ b.pc = "run" => b.live = b.batch /\ b.rest = <<>>
        /\ b.pc = "expire" => b.rest = b.batch
        /\ b.pc \in {"run", "expire"}
    BY <2>1 DEF Started
  <2>5. Tracks(b, NoRequest, futures, late)
    BY <1>e, <2>3, <2>4 DEF Tracks, Expired
  <2> QED BY <1>o, <2>1, <2>2, <2>5
<1>2. CASE Generate(w)
  <2>1. PICK pc \in {"complete", "fail"} :
             worker' = [worker EXCEPT ![w].pc = pc, ![w].rest = worker[w].live]
    BY <1>2 DEF Generate
  <2> DEFINE b == [worker[w] EXCEPT !.pc = pc, !.rest = worker[w].live]
  <2>2. worker' = [worker EXCEPT ![w] = b] /\ UNCHANGED <<setting, futures>> /\ worker[w].pc = "run"
    BY <1>2, <1>t, <2>1 DEF Generate
  <2>3. /\ b.pc \in {"complete", "fail"} /\ b.batch = worker[w].batch
        /\ b.live = worker[w].live /\ b.rest = worker[w].live
    BY <1>t DEF WorkerStates
  <2> HIDE DEF b
  <2>4. Tracks(b, setting[w], futures, late)
    BY <1>s, <2>2, <2>3 DEF Tracks
  <2> QED BY <1>o, <2>2, <2>4
<1>3. CASE SettleNext(w)
  <2> DEFINE b == [worker[w] EXCEPT !.rest = Tail(@)]
  <2>1. /\ b \in WorkerStates /\ b.pc \in {"expire", "complete", "fail"}
        /\ worker' = [worker EXCEPT ![w] = IF setting'[w] = NoRequest THEN Onward(b) ELSE b]
        /\ Tracks(b, setting'[w], futures', late)
    BY <1>3, NextTracks
  <2> HIDE DEF b
  <2>2. CASE setting'[w] = NoRequest
    <3>1. Tracks(Onward(b), NoRequest, futures', late)
      BY <2>1, <2>2, OnwardTracks
    <3> QED BY <1>o, <2>1, <2>2, <3>1
  <2>3. CASE setting'[w] # NoRequest
    BY <1>o, <2>1, <2>3
  <2> QED BY <2>2, <2>3
<1>4. CASE SettleSet(w)
  <2>1. /\ worker[w].pc \in {"expire", "complete", "fail"}
        /\ Tracks(worker[w], NoRequest, futures, late) /\ UNCHANGED futures
        /\ setting'[w] = NoRequest
    BY <1>4, SetTracks
  <2>2. CASE worker' = [worker EXCEPT ![w] = Onward(worker[w])]
    <3>1. Tracks(Onward(worker[w]), NoRequest, futures, late)
      BY <1>t, <2>1, OnwardTracks
    <3> QED BY <1>o, <2>1, <2>2, <3>1
  <2>3. CASE /\ worker[w].pc = "complete"
             /\ worker' = [worker EXCEPT ![w].pc = "fail", ![w].rest = worker[w].live]
    <3> DEFINE b == [worker[w] EXCEPT !.pc = "fail", !.rest = worker[w].live]
    <3>1. worker' = [worker EXCEPT ![w] = b]
      BY <1>t, <2>3
    <3>2. /\ b.pc = "fail" /\ b.batch = worker[w].batch
          /\ b.live = worker[w].live /\ b.rest = worker[w].live
      BY <1>t DEF WorkerStates
    <3> HIDE DEF b
    <3>3. Tracks(b, NoRequest, futures, late)
      BY <2>1, <2>3, <3>2 DEF Tracks
    <3> QED BY <1>o, <2>1, <3>1, <3>3
  <2>4. CASE worker' = [worker EXCEPT ![w] = IdleWorker]
    <3>1. Tracks(IdleWorker, NoRequest, futures, late)
      BY <1>e DEF Tracks, IdleWorker
    <3> QED BY <1>o, <2>1, <2>4, <3>1
  <2> QED BY <1>4, <2>2, <2>3, <2>4, SetTracks
<1> QED BY <1>1, <1>2, <1>3, <1>4 DEF Worker

\* What a worker drops it has settled, unless its batch is broken.
LEMMA WorkerPlaces ==
    ASSUME TypeOK, OnePlaceEach, FuturesTracked, WorkersSettle, NEW w \in Workers, Worker(w)
    PROVE  OnePlaceEach' /\ \A u \in Requests : Placed(u) => Placed(u)' \/ NeedsNoPlace(u)
<1>f. UNCHANGED <<queue, collector, client>>
  BY WorkerFrame DEF frontVars
<1>t. /\ worker \in [Workers -> WorkerStates] /\ worker[w] \in WorkerStates
      /\ \A v \in Threads : v # w => setting'[v] = setting[v]
      /\ setting'["batcher"] = setting["batcher"] /\ "batcher" \in Threads
      /\ Workers \subseteq Threads /\ outcome \in [Requests -> Outcomes]
  <2>1. /\ "batcher" \in Threads /\ Workers \subseteq Threads /\ w # "batcher"
        /\ setting \in [Threads -> Requests \cup {NoRequest}]
        /\ worker \in [Workers -> WorkerStates] /\ outcome \in [Requests -> Outcomes]
    BY ThreadsApart DEF TypeOK, WorkerStates
  <2>2. \A v \in Threads : v # w => setting'[v] = setting[v]
    BY <2>1, WorkerHandles DEF Handles, Pop, SetFuture
  <2> QED BY <2>1, <2>2
<1>k. ASSUME UNCHANGED work, \A v \in Workers : worker'[v].batch = worker[v].batch
      PROVE  OnePlaceEach' /\ \A u \in Requests : Placed(u) => Placed(u)'
  BY <1>f, <1>k, <1>t, PlacesKept DEF Accepted
<1>l. ASSUME UNCHANGED work, worker' = [worker EXCEPT ![w] = IdleWorker],
             \A u \in Requests : Running(w, u) => NeedsNoPlace(u)
      PROVE  OnePlaceEach' /\ \A u \in Requests : Placed(u) => Placed(u)' \/ NeedsNoPlace(u)
  BY <1>f, <1>l, <1>t, FinishPlaces
<1>n. ASSUME NEW u \in Requests, Running(w, u), u \notin futures', setting'[w] = NoRequest
      PROVE  NeedsNoPlace(u)
  <2>1. ~Dropping(u) /\ \A v \in Workers : v # w => setting[v] # u
    BY <1>n, SettersRun DEF OnePlaceEach, OnePlace, OnceRunning
  <2>2. ~BeingSet(u)'
    BY <1>n, <1>t, <2>1, ThreadsApart DEF BeingSet, Dropping
  <2> QED BY <1>n, <2>2 DEF NeedsNoPlace
<1>1. CASE StartBatch(w)
  BY <1>1, StartPlaces
<1>2. CASE Generate(w)
  <2>1. UNCHANGED work /\ \A v \in Workers : worker'[v].batch = worker[v].batch
    BY <1>2, <1>t DEF Generate, WorkerStates
  <2> QED BY <1>k, <2>1
<1>3. CASE SettleNext(w)
  <2> DEFINE b == [worker[w] EXCEPT !.rest = Tail(@)]
  <2>1. /\ b \in WorkerStates /\ b.pc \in {"expire", "complete", "fail"}
        /\ b.batch = worker[w].batch
        /\ worker' = [worker EXCEPT ![w] = IF setting'[w] = NoRequest THEN Onward(b) ELSE b]
        /\ Tracks(b, setting'[w], futures', late)
    BY <1>3, NextTracks
  <2>2. UNCHANGED work
    BY <1>3 DEF SettleNext
  <2> HIDE DEF b
  <2>3. CASE setting'[w] = NoRequest /\ Onward(b).batch # b.batch
    <3>1. Onward(b) = IdleWorker /\ \A r \in Requests : Running(w, r) => r \notin futures'
      BY <2>1, <2>3, OnwardEnds DEF Running
    <3>2. worker' = [worker EXCEPT ![w] = IdleWorker]
      BY <2>1, <2>3, <3>1
    <3> QED BY <1>l, <1>n, <2>2, <2>3, <3>1, <3>2
  <2>4. CASE setting'[w] # NoRequest \/ Onward(b).batch = b.batch
    <3>1. \A v \in Workers : worker'[v].batch = worker[v].batch
      BY <1>t, <2>1, <2>4
    <3> QED BY <1>k, <2>2, <3>1
  <2> QED BY <2>3, <2>4
<1>4. CASE SettleSet(w)
  <2>1. /\ worker[w].pc \in {"expire", "complete", "fail"}
        /\ Tracks(worker[w], NoRequest, futures, late) /\ UNCHANGED futures
        /\ setting[w] \in Requests /\ Running(w, setting[w]) /\ setting'[w] = NoRequest
        /\ outcome' = [outcome EXCEPT ![setting[w]] = IF @ = "pending" THEN Answer[worker[w].pc]
                                                      ELSE @]
    BY <1>4, SetTracks
  <2>2. UNCHANGED work
    BY <1>4 DEF SettleSet
  <2>3. CASE worker' = [worker EXCEPT ![w] = Onward(worker[w])]
    <3>1. CASE Onward(worker[w]).batch = worker[w].batch
      <4>1. \A v \in Workers : worker'[v].batch = worker[v].batch
        BY <1>t, <2>3, <3>1
      <4> QED BY <1>k, <2>2, <4>1
    <3>2. CASE Onward(worker[w]).batch # worker[w].batch
      <4>1. /\ Onward(worker[w]) = IdleWorker
            /\ \A r \in Requests : Running(w, r) => r \notin futures'
        BY <1>t, <2>1, <3>2, OnwardEnds DEF Running
      <4>2. worker' = [worker EXCEPT ![w] = IdleWorker]
        BY <2>3, <4>1
      <4> QED BY <1>l, <1>n, <2>1, <2>2, <4>1, <4>2
    <3> QED BY <3>1, <3>2
  <2>4. CASE worker' = [worker EXCEPT ![w].pc = "fail", ![w].rest = worker[w].live]
    <3>1. \A v \in Workers : worker'[v].batch = worker[v].batch
      BY <1>t, <2>4 DEF WorkerStates
    <3> QED BY <1>k, <2>2, <3>1
  <2>5. CASE /\ outcome[setting[w]] # "pending"
             /\ worker' = [worker EXCEPT ![w] = IdleWorker]
             /\ broken' = broken \cup {ToSet(worker[w].batch)}
    <3>1. outcome[setting[w]] = "cancelled"
      BY <1>t, <2>1, <2>5 DEF FuturesTracked, InHand
    <3>2. outcome'[setting[w]] = "cancelled"
      BY <1>t, <2>1, <3>1
    <3>3. \A u \in Requests : u \in ToSet(worker[w].batch) <=> Running(w, u)
      BY <1>t, BatchSet DEF WorkerStates, Running
    <3>4. ASSUME NEW u \in Requests, Running(w, u) PROVE Stranded(u)'
      BY <2>1, <2>5, <3>2, <3>3, <3>4 DEF Stranded
    <3> QED BY <1>l, <2>2, <2>5, <3>4 DEF NeedsNoPlace
  <2> QED BY <1>4, <2>3, <2>4, <2>5, SetTracks
<1> QED BY <1>1, <1>2, <1>3, <1>4 DEF Worker

\* A shutdown call moves no request.
LEMMA StopperPlaces ==
    ASSUME TypeOK, OnePlaceEach, NEW k \in Stoppers, Stopper(k)
    PROVE  OnePlaceEach' /\ \A u \in Requests : Placed(u)' <=> Placed(u)
<1>1. UNCHANGED <<client, collector, work, worker>>
  BY StopperSteps, FailsFrame DEF Passing, TakeOutstanding
<1>2. setting'["batcher"] = setting["batcher"]
  BY StopperSteps, ThreadsApart
     DEF Passing, TakeOutstanding, Fails, LookAt, SetException, FailingEnds, SetFuture, TypeOK
<1>3. CASE UNCHANGED queue
  BY <1>1, <1>2, <1>3, PlacesKept DEF Accepted
<1>4. CASE PutSentinel(k)
  BY <1>1, <1>2, <1>4, SentinelPlaces DEF PutSentinel
<1>5. UNCHANGED queue \/ PutSentinel(k)
  BY FailsFrame
     DEF Stopper, ShutdownBatcher, CallShutdown, SetClosed, CheckAlreadyStopping, SetStopping,
         SentinelRefused, Join, JoinTimeout, ShutdownExecutor, AwaitExecutor, TakeOutstanding, Fails
<1> QED BY <1>3, <1>4, <1>5

\* A submit call moves only its own request, into the queue.
LEMMA ClientPlaces ==
    ASSUME TypeOK, OnePlaceEach, NEW r \in Requests, Client(r) \/ DeadlinePasses(r) \/ Cancel(r)
    PROVE  OnePlaceEach' /\ \A u \in Requests : Placed(u) => Placed(u)'
<1>t. client \in [Requests -> ClientStates]
  BY DEF TypeOK
<1>1. CASE Enqueue(r) /\ UNCHANGED engineVars
  BY <1>1, EnqueuePlaces
<1>2. CASE ~Enqueue(r)
  <2>1. UNCHANGED <<queue, collector, work, worker, setting>>
    BY <1>2 DEF Client, DeadlinePasses, Cancel, SubmitToBatcher, Submit, CheckClosed, Register,
                CheckStopping, ShedLoad, Withdraw, engineVars, frontVars
  <2>2. \A u \in Requests : Accepted(u) => client'[u] = "accepted"
    BY <1>2, <1>t DEF Client, DeadlinePasses, Cancel, SubmitToBatcher, Submit, CheckClosed, Register,
                CheckStopping, ShedLoad, Withdraw, frontVars, Accepted
  <2> QED BY <2>1, <2>2, PlacesKept
<1>3. Enqueue(r) => UNCHANGED engineVars
  BY DEF Client, DeadlinePasses, Cancel, SubmitToBatcher, CheckClosed, Register, Withdraw, Enqueue,
         frontVars
<1> QED BY <1>1, <1>2, <1>3

-----------------------------------------------------------------------------
(* Early work is in front of the sentinels.                                *)

\* Appending to the queue: early work may not follow a sentinel.
LEMMA SentinelsLastAppend ==
    ASSUME NEW X, NEW q \in Seq(X), NEW x \in X, NEW E, NEW D,
           SentinelsLast(q, E), Has(q, Sentinel) => D = E /\ x \notin E
    PROVE  SentinelsLast(Append(q, x), D)
<1> DEFINE p == Append(q, x)
<1>1. /\ Len(p) = Len(q) + 1 /\ p[Len(q) + 1] = x /\ Len(q) \in Nat
      /\ \A i \in 1 .. Len(q) : p[i] = q[i]
  BY AppendProperties
<1> HIDE DEF p
<1> SUFFICES ASSUME NEW i \in 1 .. Len(p), NEW j \in 1 .. Len(p), i < j, p[i] = Sentinel
             PROVE  p[j] \notin D
  BY DEF SentinelsLast, p
<1>2. i \in 1 .. Len(q) /\ (j \in 1 .. Len(q) \/ j = Len(q) + 1)
  BY <1>1
<1>3. D = E /\ x \notin E
  BY <1>1, <1>2 DEF Has
<1> QED BY <1>1, <1>2, <1>3 DEF SentinelsLast

\* Taking the head: once a sentinel is taken no early work is left.
LEMMA SentinelsLastTail ==
    ASSUME NEW X, NEW q \in Seq(X), q # <<>>, NEW E, SentinelsLast(q, E)
    PROVE  /\ SentinelsLast(Tail(q), E)
           /\ Head(q) = Sentinel => \A r \in E : ~Has(Tail(q), r)
<1> DEFINE p == Tail(q)
<1>1. /\ Len(q) \in Nat \ {0} /\ Head(q) = q[1] /\ Len(p) \in Nat
      /\ \A i \in 1 .. Len(p) : p[i] = q[i + 1] /\ i + 1 \in 1 .. Len(q)
  BY TailShift
<1> HIDE DEF p
<1>2. SentinelsLast(p, E)
  <2> SUFFICES ASSUME NEW i \in 1 .. Len(p), NEW j \in 1 .. Len(p), i < j, p[i] = Sentinel
               PROVE  p[j] \notin E
    BY DEF SentinelsLast
  <2>1. i + 1 < j + 1
    BY <1>1
  <2> QED BY <1>1, <2>1 DEF SentinelsLast
<1>3. ASSUME Head(q) = Sentinel, NEW r \in E, NEW i \in 1 .. Len(p), p[i] = r PROVE FALSE
  <2>1. 1 \in 1 .. Len(q) /\ 1 < i + 1
    BY <1>1
  <2> QED BY <1>1, <1>3, <2>1 DEF SentinelsLast
<1> QED BY <1>2, <1>3 DEF Has, p

\* Steps that touch neither the queue nor the batcher thread.
LEMMA EarlyFirstKept ==
    ASSUME EarlyFirst, UNCHANGED <<queue, early>>, stopping => stopping',
           collector'.pc \in {"drain", "repost", "exited"} => stopping',
           collector'.pc = "exited" => collector.pc = "exited",
           \A r \in early : client'[r] = client[r]
    PROVE  EarlyFirst'
BY DEF EarlyFirst, Accepted, Exited

\* A submit call counts as early only while _stopping is not set.
LEMMA EarlyFirstClientStep ==
    ASSUME TypeOK, EarlyFirst, NEW r \in Requests, Client(r) \/ DeadlinePasses(r) \/ Cancel(r)
    PROVE  EarlyFirst'
<1>t. client \in [Requests -> ClientStates] /\ early \subseteq Requests /\ Sentinel \notin Requests
      /\ queue \in Seq(Requests \cup {Sentinel}) /\ stopping \in BOOLEAN
  BY QueueAssumption DEF TypeOK
<1>1. CASE Enqueue(r) /\ UNCHANGED engineVars
  <2>1. /\ queue' = Append(queue, r) /\ client[r] = "put" /\ UNCHANGED <<stopping, collector>>
        /\ client' = [client EXCEPT ![r] = "accepted"]
        /\ early' = IF stopping THEN early ELSE early \cup {r}
    BY <1>1 DEF Enqueue, engineVars
  <2>2. r \notin early
    BY <2>1 DEF EarlyFirst, Accepted
  <2>3. SentinelsLast(queue', early')
    BY <1>t, <2>1, <2>2, SentinelsLastAppend DEF EarlyFirst
  <2>4. \A u : Has(queue', u) <=> Has(queue, u) \/ u = r
    BY <1>t, <2>1, HasAppend
  <2>5. \A u \in early' : client'[u] = "accepted" /\ (Exited' => ~Has(queue', u))
    BY <1>t, <2>1, <2>2, <2>4 DEF EarlyFirst, Accepted, Exited
  <2> QED BY <1>t, <2>1, <2>3, <2>4, <2>5 DEF EarlyFirst, Accepted
<1>2. CASE ~Enqueue(r)
  <2>1. UNCHANGED <<queue, early, stopping, collector>>
    BY <1>2 DEF Client, DeadlinePasses, Cancel, SubmitToBatcher, Submit, CheckClosed, Register, CheckStopping,
                ShedLoad, Withdraw, engineVars, frontVars
  <2>2. \A u \in Requests : Accepted(u) => client'[u] = client[u]
    BY <1>2, <1>t DEF Client, DeadlinePasses, Cancel, SubmitToBatcher, Submit, CheckClosed, Register,
                CheckStopping, ShedLoad, Withdraw, frontVars, Accepted
  <2>3. \A u \in early : client'[u] = client[u]
    BY <1>t, <2>2 DEF EarlyFirst
  <2>4. collector.pc \in {"drain", "repost", "exited"} => stopping
    BY DEF EarlyFirst
  <2> QED BY <2>1, <2>3, <2>4, EarlyFirstKept
<1>3. Enqueue(r) => UNCHANGED engineVars
  BY DEF Client, DeadlinePasses, Cancel, SubmitToBatcher, CheckClosed, Register, Withdraw, Enqueue, frontVars
<1> QED BY <1>1, <1>2, <1>3

\* The batcher thread starts the drain, and exits, only at a sentinel; when it exits no
\* early request is behind it.
LEMMA EarlyFirstCollectorStep ==
    ASSUME TypeOK, EarlyFirst, ~Exited, Collector
    PROVE  EarlyFirst'
<1>f. UNCHANGED <<client, early, stopping>>
  BY CollectorFrame
<1>t. /\ early \subseteq Requests /\ Sentinel \notin Requests
      /\ queue \in Seq(Requests \cup {Sentinel}) /\ collector.pc # "exited"
      /\ collector \in [pc : {"first", "fill", "drain", "repost", "dispatch", "exited"},
                        batch : Batches]
  BY QueueAssumption DEF TypeOK, Exited
<1>k. ASSUME UNCHANGED queue, collector'.pc \in {"drain", "repost"} => stopping,
             collector'.pc # "exited"
      PROVE  EarlyFirst'
  BY <1>f, <1>k, EarlyFirstKept
<1>d. ASSUME queue # <<>>, queue' = Tail(queue),
             collector'.pc \in {"drain", "repost", "exited"} => stopping,
             collector'.pc = "exited" => Head(queue) = Sentinel
      PROVE  EarlyFirst'
  <2>1. /\ SentinelsLast(queue', early)
        /\ Head(queue) = Sentinel => \A r \in early : ~Has(queue', r)
    BY <1>d, <1>t, SentinelsLastTail DEF EarlyFirst
  <2>2. Has(queue', Sentinel) => stopping
    BY <1>d, <1>t, HasTail DEF EarlyFirst
  <2> QED BY <1>d, <1>f, <2>1, <2>2 DEF EarlyFirst, Accepted, Exited
<1>h. ASSUME queue # <<>>, Head(queue) = Sentinel PROVE stopping
  BY <1>h, <1>t, HasTail DEF EarlyFirst
<1>3. CASE CollectFirst
  <2>1. queue # <<>> /\ queue' = Tail(queue)
    BY <1>3 DEF CollectFirst
  <2>2. CASE Head(queue) = Sentinel
    BY <1>d, <1>h, <2>1, <2>2
  <2>3. CASE Head(queue) # Sentinel
    <3>1. collector'.pc \in {"first", "fill", "dispatch"}
      BY <1>3, <2>3 DEF CollectFirst, TakeHead, Collect
    <3> QED BY <1>d, <2>1, <3>1
  <2> QED BY <2>2, <2>3
<1>4. CASE CollectNext
  <2>1. queue # <<>> /\ queue' = Tail(queue)
    BY <1>4 DEF CollectNext
  <2>2. CASE Head(queue) = Sentinel
    BY <1>d, <1>h, <2>1, <2>2
  <2>3. CASE Head(queue) # Sentinel
    <3>1. collector'.pc \in {"first", "fill", "dispatch"}
      BY <1>4, <2>3 DEF CollectNext, TakeHead, Collect
    <3> QED BY <1>d, <2>1, <3>1
  <2> QED BY <2>2, <2>3
<1>5. CASE CollectTimeout
  BY <1>5, <1>k, <1>t DEF CollectTimeout
<1>6. CASE CollectDrain
  <2>1. stopping
    BY <1>6 DEF CollectDrain, EarlyFirst
  <2>2. collector'.pc # "exited"
    BY <1>6, <1>t DEF CollectDrain, TakeHead, Collect
  <2>3. CASE queue = <<>>
    BY <1>6, <1>k, <2>1, <2>2, <2>3 DEF CollectDrain
  <2>4. CASE queue # <<>>
    BY <1>6, <1>d, <2>1, <2>2, <2>4 DEF CollectDrain
  <2> QED BY <2>3, <2>4
<1>7. CASE RepostSentinel
  <2>1. stopping /\ collector'.pc = "dispatch"
    BY <1>7, <1>t DEF RepostSentinel, EarlyFirst
  <2>2. CASE Full
    BY <1>7, <1>k, <2>1, <2>2 DEF RepostSentinel
  <2>3. CASE ~Full
    <3>1. queue' = Append(queue, Sentinel)
      BY <1>7, <2>3 DEF RepostSentinel
    <3>2. SentinelsLast(queue', early)
      BY <1>t, <3>1, SentinelsLastAppend DEF EarlyFirst
    <3> QED BY <1>f, <2>1, <3>2 DEF EarlyFirst, Accepted, Exited
  <2> QED BY <2>2, <2>3
<1>8. CASE Dispatch
  BY <1>8, <1>k DEF Dispatch
<1>9. CASE SettleDropped
  BY <1>9, <1>k, <1>t DEF SettleDropped, EarlyFirst
<1> QED BY <1>3, <1>4, <1>5, <1>6, <1>7, <1>8, <1>9 DEF Collector

\* A shutdown call puts its sentinel after setting _stopping, so behind all early work.
LEMMA EarlyFirstStopperStep ==
    ASSUME TypeOK, EarlyFirst, ShutdownOrder, NEW k \in Stoppers, Stopper(k)
    PROVE  EarlyFirst'
<1>1. UNCHANGED <<client, collector, early>> /\ (stopping => stopping')
  BY FailsFrame
     DEF Stopper, ShutdownBatcher, CallShutdown, SetClosed, CheckAlreadyStopping, SetStopping,
         PutSentinel, SentinelRefused, Join, JoinTimeout, ShutdownExecutor, AwaitExecutor,
         TakeOutstanding, Fails, engineVars
<1>2. collector.pc \in {"drain", "repost", "exited"} => stopping
  BY DEF EarlyFirst
<1>3. CASE UNCHANGED queue
  BY <1>1, <1>2, <1>3, EarlyFirstKept
<1>4. CASE PutSentinel(k)
  <2>1. /\ queue' = Append(queue, Sentinel) /\ stopping /\ UNCHANGED stopping
        /\ queue \in Seq(Requests \cup {Sentinel}) /\ Sentinel \notin early
    BY <1>4, QueueAssumption DEF PutSentinel, ShutdownOrder, Stopped, TypeOK
  <2>2. SentinelsLast(queue', early)
    BY <2>1, SentinelsLastAppend DEF EarlyFirst
  <2>3. \A u \in early : Has(queue', u) <=> Has(queue, u)
    BY <2>1, HasAppend
  <2> QED BY <1>1, <2>1, <2>2, <2>3 DEF EarlyFirst, Accepted, Exited
<1> QED BY <1>3, <1>4, FailsFrame
        DEF Stopper, ShutdownBatcher, CallShutdown, SetClosed, CheckAlreadyStopping, SetStopping,
            SentinelRefused, Join, JoinTimeout, ShutdownExecutor, AwaitExecutor, TakeOutstanding,
            Fails

-----------------------------------------------------------------------------
(* Early work is served before the futures are taken.                      *)

EarlyServed == ExitFirst /\ Kept /\ EarlySettled /\ AbandonedLate

\* A broken batch stays broken: a cancelled future stays cancelled.
LEMMA StrandedLasts ==
    ASSUME TypeOK, broken \subseteq broken',
           \A r \in Requests : outcome[r] = "cancelled" => outcome'[r] = "cancelled"
    PROVE  \A r \in Requests : Stranded(r) => Stranded(r)'
<1>1. broken \subseteq SUBSET Requests
  BY DEF TypeOK
<1> QED BY <1>1 DEF Stranded

\* Serving gives a future that is pending an outcome, but not that of being abandoned.
LEMMA HandlesOutcome ==
    ASSUME TypeOK, NEW t \in Threads, Handles(t), NEW r \in Requests
    PROVE  /\ outcome[r] # "pending" => outcome'[r] = outcome[r]
           /\ outcome'[r] = "abandoned" => outcome[r] = "abandoned"
BY DEF Handles, SetFuture, Raises, Free, TypeOK

\* A step of the batcher thread or of a worker: what it drops it has settled.
LEMMA ServedHandle ==
    ASSUME TypeOK, EarlyServed, NEW t \in Workers \cup {"batcher"}, Handles(t),
           broken \subseteq broken', Exited => Exited',
           UNCHANGED <<client, early, stopping, stopper, open, gaveUp, raced>>,
           \A u \in Requests : Placed(u) => Placed(u)' \/ NeedsNoPlace(u)
    PROVE  EarlyServed'
<1>t. /\ t \in Threads /\ Workers \cup {"batcher"} \subseteq Threads /\ early \subseteq Requests
      /\ setting \in [Threads -> Requests \cup {NoRequest}] /\ NoRequest \notin Requests
      /\ outcome \in [Requests -> Outcomes]
  BY ThreadsApart DEF TypeOK
<1>4. \A r \in Requests : /\ outcome[r] # "pending" => outcome'[r] = outcome[r]
                          /\ outcome'[r] = "abandoned" => outcome[r] = "abandoned"
  BY <1>t, HandlesOutcome
<1>s. \A r \in Requests : Stranded(r) => Stranded(r)'
  <2>1. \A r \in Requests : outcome[r] = "cancelled" => outcome'[r] = "cancelled"
    BY <1>4
  <2> QED BY <2>1, StrandedLasts
<1>5. ExitFirst'
  BY DEF EarlyServed, ExitFirst, Orderly
<1>6. AbandonedLate'
  BY <1>4, <1>s DEF EarlyServed, AbandonedLate, Orderly
<1>7. EarlySettled'
  BY <1>4, <1>s, <1>t DEF EarlyServed, EarlySettled, Orderly
<1>8. ASSUME NEW r \in Requests, outcome'[r] = "pending", r \in futures \/ BeingSet(r)
      PROVE  r \in futures' \/ BeingSet(r)'
  <2>p. outcome[r] = "pending"
    BY <1>4, <1>8
  <2>1. CASE UNCHANGED <<futures, outcome, setting>>
    BY <1>8, <2>1 DEF BeingSet
  <2>2. ASSUME NEW u \in Requests, Free(t), Pop(t, u) PROVE r \in futures' \/ BeingSet(r)'
    <3>1. /\ futures' = futures \ {u}
          /\ setting' = [setting EXCEPT ![t] =
               IF u \in futures /\ outcome[u] = "pending" THEN u ELSE NoRequest]
      BY <2>2 DEF Pop
    <3>2. CASE r \in futures
      <4>1. r = u => setting'[t] = r
        BY <1>t, <2>p, <3>1, <3>2
      <4> QED BY <1>t, <3>1, <3>2, <4>1 DEF BeingSet
    <3>3. CASE BeingSet(r)
      <4>1. PICK v \in Workers \cup {"batcher"} : setting[v] = r
        BY <3>3 DEF BeingSet
      <4>2. setting'[v] = r
        BY <1>t, <2>2, <3>1, <4>1 DEF Free
      <4> QED BY <4>2 DEF BeingSet
    <3> QED BY <1>8, <3>2, <3>3
  <2>3. ASSUME NEW how \in {"result", "error", "expired"}, SetFuture(t, how), UNCHANGED futures
        PROVE  r \in futures' \/ BeingSet(r)'
    <3>1. /\ setting' = [setting EXCEPT ![t] = NoRequest] /\ setting[t] # r
      BY <1>8, <1>t, <2>3, <2>p DEF SetFuture, Raises, Free
    <3> QED BY <1>8, <1>t, <2>3, <3>1 DEF BeingSet
  <2> QED BY <2>1, <2>2, <2>3 DEF Handles
<1>9. Kept'
  <2> SUFFICES ASSUME NEW r \in Requests, open \/ (r \in early /\ Orderly), Accepted(r),
                      outcome'[r] = "pending", ~Stranded(r)'
               PROVE  Placed(r)' /\ (r \in futures' \/ BeingSet(r)')
    BY DEF Kept, Orderly, Accepted
  <2>1. Placed(r) /\ (r \in futures \/ BeingSet(r))
    BY <1>4, <1>s DEF EarlyServed, Kept
  <2>2. r \in futures' \/ BeingSet(r)'
    BY <1>8, <2>1
  <2>3. open \/ Exited
    BY DEF EarlyServed, ExitFirst
  <2> QED BY <2>1, <2>2, <2>3 DEF NeedsNoPlace
<1> QED BY <1>5, <1>6, <1>7, <1>9 DEF EarlyServed

\* The batcher thread hands on or settles what it takes.
LEMMA ServedCollectorStep ==
    ASSUME TypeOK, OnePlaceEach, WorkersSettle, EarlyServed, ~Exited, Collector
    PROVE  EarlyServed'
<1>1. UNCHANGED <<client, early, stopping, stopper, open, gaveUp, raced, broken>>
  BY CollectorFrame
<1> QED BY <1>1, CollectorHandles, CollectorPlaces, ServedHandle

\* A worker settles what it takes, or breaks the batch.
LEMMA ServedWorkerStep ==
    ASSUME TypeOK, OnePlaceEach, FuturesTracked, WorkersSettle, EarlyServed,
           NEW w \in Workers, Worker(w)
    PROVE  EarlyServed'
<1>1. UNCHANGED <<client, early, stopping, stopper, open, gaveUp, raced, collector>>
  BY WorkerFrame DEF frontVars
<1>2. broken \subseteq broken'
  BY DEF Worker, StartBatch, Generate, SettleNext, SettleSet
<1> QED BY <1>1, <1>2, WorkerHandles, WorkerPlaces, ServedHandle DEF Exited

\* A submit call adds to the early work only before _stopping is set, and a caller that
\* cancels settles the future.
LEMMA ServedClientStep ==
    ASSUME TypeOK, OnePlaceEach, FuturesTracked, ShutdownOrder, EarlyFirst, EarlyServed,
           NEW r \in Requests, Client(r) \/ DeadlinePasses(r) \/ Cancel(r)
    PROVE  EarlyServed'
<1>t. /\ client \in [Requests -> ClientStates] /\ stopping \in BOOLEAN
      /\ outcome \in [Requests -> Outcomes] /\ early \subseteq Requests
      /\ setting \in [Threads -> Requests \cup {NoRequest}] /\ Stoppers \subseteq Threads
      /\ NoRequest \notin Requests
  BY ThreadsApart DEF TypeOK
<1>p. \A u \in Requests : Placed(u) => Placed(u)'
  BY ClientPlaces
<1>f. UNCHANGED <<stopping, stopper, collector, setting, broken, open, gaveUp, raced>>
  BY DEF Client, DeadlinePasses, Cancel, SubmitToBatcher, Submit, CheckClosed, Register,
         CheckStopping, Enqueue, ShedLoad, Withdraw, engineVars, frontVars
<1>b. \A u : BeingSet(u)' <=> BeingSet(u)
  BY <1>f DEF BeingSet
<1>5. ExitFirst'
  BY <1>f DEF EarlyServed, ExitFirst, Orderly, Exited
<1>k. ASSUME UNCHANGED outcome PROVE \A u : Stranded(u)' <=> Stranded(u)
  BY <1>f, <1>k DEF Stranded
<1>1. CASE Enqueue(r) /\ UNCHANGED engineVars
  <2>1. /\ client[r] = "put" /\ client' = [client EXCEPT ![r] = "accepted"]
        /\ UNCHANGED <<futures, outcome>>
        /\ early' = IF stopping THEN early ELSE early \cup {r}
    BY <1>1 DEF Enqueue, engineVars
  <2>2. r \notin early
    BY <2>1 DEF EarlyFirst, Accepted
  <2>3. Placed(r)'
    BY <1>1, EnqueuePlaces
  <2>4. ASSUME open \/ ~stopping, outcome[r] = "pending" PROVE r \in futures \/ BeingSet(r)
    <3>1. \/ r \in futures \/ Outstanding(r) \/ InHand(r)
          \/ \E k \in Stoppers : stopper[k] = "raised"
      BY <2>1, <2>4 DEF FuturesTracked
    <3>2. \A k \in Stoppers : stopper[k] \notin {"fail", "raised"}
      BY <2>4 DEF ShutdownOrder
    <3>3. \A k \in Stoppers : outstanding[k] = {} /\ setting[k] # r
      BY <1>t, <3>2 DEF FuturesTracked, Free
    <3> QED BY <3>1, <3>2, <3>3 DEF Outstanding, InHand, BeingSet, Threads
  <2>5. Kept'
    <3> SUFFICES ASSUME NEW u \in Requests, open \/ (u \in early' /\ Orderly), client'[u] = "accepted",
                        outcome[u] = "pending", ~Stranded(u)
                 PROVE  Placed(u)' /\ (u \in futures \/ BeingSet(u))
      BY <1>b, <1>f, <1>k, <2>1 DEF Kept, Orderly, Accepted
    <3>1. CASE u = r
      BY <2>1, <2>2, <2>3, <2>4, <3>1
    <3>2. CASE u # r
      BY <1>p, <1>t, <2>1, <3>2 DEF EarlyServed, Kept, Accepted
    <3> QED BY <3>1, <3>2
  <2>6. EarlySettled'
    BY <1>f, <1>k, <1>t, <2>1 DEF EarlyServed, EarlySettled, Orderly, ShutdownOrder, Stopped
  <2>7. AbandonedLate'
    BY <1>f, <1>k, <1>t, <2>1 DEF EarlyServed, AbandonedLate, Orderly
  <2> QED BY <1>5, <2>5, <2>6, <2>7 DEF EarlyServed
<1>2. CASE Cancel(r)
  <2>1. /\ UNCHANGED <<client, early, futures>>
        /\ outcome' = [outcome EXCEPT ![r] = "cancelled"] /\ outcome[r] = "pending"
    BY <1>2 DEF Cancel, frontVars
  <2>2. \A u \in Requests : Stranded(u) => Stranded(u)'
    BY <1>f, <1>t, <2>1, StrandedLasts
  <2>3. \A u \in Requests : /\ outcome'[u] = "pending" => outcome[u] = "pending"
                            /\ outcome'[u] = "abandoned" => outcome[u] = "abandoned"
    BY <1>t, <2>1
  <2>5. Kept'
    BY <1>b, <1>f, <1>p, <2>1, <2>2, <2>3 DEF EarlyServed, Kept, Orderly, Accepted
  <2>6. EarlySettled'
    BY <1>f, <1>t, <2>1, <2>2, <2>3 DEF EarlyServed, EarlySettled, Orderly
  <2>7. AbandonedLate'
    BY <1>f, <2>1, <2>2, <2>3 DEF EarlyServed, AbandonedLate, Orderly
  <2> QED BY <1>5, <2>5, <2>6, <2>7 DEF EarlyServed
<1>3. CASE ~Enqueue(r) /\ ~Cancel(r)
  <2>1. UNCHANGED <<early, outcome>>
    BY <1>3 DEF Client, DeadlinePasses, SubmitToBatcher, Submit, CheckClosed, Register, CheckStopping,
                ShedLoad, Withdraw, frontVars, engineVars
  <2>2. \A u \in Requests : client'[u] = "accepted" =>
           client[u] = "accepted" /\ (u \in futures => u \in futures')
    BY <1>3, <1>t DEF Client, DeadlinePasses, SubmitToBatcher, Submit, CheckClosed, Register,
                CheckStopping, ShedLoad, Withdraw, engineVars, frontVars
  <2>5. Kept'
    BY <1>b, <1>f, <1>k, <1>p, <2>1, <2>2 DEF EarlyServed, Kept, Orderly, Accepted
  <2>6. EarlySettled'
    BY <1>f, <1>k, <1>t, <2>1 DEF EarlyServed, EarlySettled, Orderly
  <2>7. AbandonedLate'
    BY <1>f, <1>k, <2>1 DEF EarlyServed, AbandonedLate, Orderly
  <2> QED BY <1>5, <2>5, <2>6, <2>7 DEF EarlyServed
<1>4. Enqueue(r) => UNCHANGED engineVars
  BY DEF Client, DeadlinePasses, Cancel, SubmitToBatcher, CheckClosed, Register, Withdraw, Enqueue,
         frontVars
<1> QED BY <1>1, <1>2, <1>3, <1>4

\* Flags that a shutdown call sets stay set.
LEMMA StopperFlags ==
    ASSUME TypeOK, NEW k \in Stoppers, Stopper(k)
    PROVE  /\ stopping => stopping'
           /\ open' => open
           /\ Orderly' => Orderly
           /\ UNCHANGED <<client, early, collector, work, worker, broken>>
<1>1. FlagTypes
  BY TypeParts
<1>2. UNCHANGED <<client, early, collector, work, worker, broken>>
  BY StopperSteps, FailsFrame DEF Passing, TakeOutstanding
<1>3. CASE UNCHANGED <<stopping, open, gaveUp, raced>>
  BY <1>2, <1>3 DEF Orderly
<1>4. CASE SetClosed(k)
  BY <1>1, <1>2, <1>4 DEF SetClosed, Orderly, FlagTypes
<1>5. CASE SetStopping(k) /\ UNCHANGED engineVars
  BY <1>1, <1>2, <1>5 DEF SetStopping, engineVars, Orderly, FlagTypes
<1>6. CASE ShutdownExecutor(k)
  BY <1>1, <1>2, <1>6 DEF ShutdownExecutor, Orderly, FlagTypes
<1>7. CASE JoinTimeout(k, Exited) /\ gaveUp' = TRUE /\ UNCHANGED <<open, raced>>
  BY <1>1, <1>2, <1>7 DEF JoinTimeout, Orderly, FlagTypes
<1>8. CASE (CheckAlreadyStopping(k) \/ PutSentinel(k) \/ SentinelRefused(k) \/ Join(k, Exited))
           /\ UNCHANGED engineVars
  BY <1>3, <1>8 DEF CheckAlreadyStopping, PutSentinel, SentinelRefused, Join, engineVars
<1>9. CASE CallShutdown(k) \/ AwaitExecutor(k) \/ TakeOutstanding(k)
  BY <1>3, <1>9 DEF CallShutdown, AwaitExecutor, TakeOutstanding, engineVars
<1>10. CASE Fails(k)
  BY <1>3, <1>10, FailsFrame
<1> QED BY <1>4, <1>5, <1>6, <1>7, <1>8, <1>9, <1>10 DEF Stopper, ShutdownBatcher, Fails

\* Without a race and without a timeout the batcher thread has exited when the executor
\* is shut down.
LEMMA ExitFirstStopperStep ==
    ASSUME TypeOK, OneShutdown, ExitFirst, NEW k \in Stoppers, Stopper(k)
    PROVE  ExitFirst'
<1>t. /\ stopper \in [Stoppers -> StopperStates]
  BY DEF TypeOK
<1>f. (Orderly' => Orderly) /\ UNCHANGED collector
  BY StopperFlags
<1> USE DEF ExitFirst, Exited
<1>1. CASE CallShutdown(k)
  BY <1>1, <1>f, <1>t DEF CallShutdown, Goto, engineVars
<1>2. CASE SetClosed(k)
  BY <1>2, <1>f, <1>t DEF SetClosed, Goto
<1>3. CASE CheckAlreadyStopping(k) /\ UNCHANGED engineVars
  BY <1>3, <1>f, <1>t DEF CheckAlreadyStopping, Goto, engineVars, OneShutdown, Orderly
<1>4. CASE SetStopping(k) /\ UNCHANGED engineVars
  BY <1>4, <1>f, <1>t DEF SetStopping, Goto, engineVars
<1>5. CASE (PutSentinel(k) \/ SentinelRefused(k)) /\ UNCHANGED engineVars
  BY <1>5, <1>f, <1>t DEF PutSentinel, SentinelRefused, Goto, engineVars
<1>6. CASE Join(k, Exited) /\ UNCHANGED engineVars
  BY <1>6, <1>f, <1>t DEF Join, Goto, engineVars
<1>7. CASE gaveUp' = TRUE
  BY <1>7 DEF Orderly
<1>8. CASE ShutdownExecutor(k)
  BY <1>8, <1>f, <1>t DEF ShutdownExecutor, Goto
<1>9. CASE AwaitExecutor(k)
  BY <1>9, <1>f, <1>t DEF AwaitExecutor, Goto, engineVars
<1>10. CASE TakeOutstanding(k)
  BY <1>10, <1>f, <1>t DEF TakeOutstanding, Goto
<1>11. CASE Fails(k)
  <2>1. /\ UNCHANGED open /\ stopper[k] = "fail"
        /\ \E pc \in {"fail", "returned", "raised"} : stopper' = [stopper EXCEPT ![k] = pc]
    BY <1>11, <1>t, FailsFrame DEF Fails, LookAt, SetException, FailingEnds, Goto
  <2> QED BY <1>f, <1>t, <2>1
<1> QED BY <1>1, <1>2, <1>3, <1>4, <1>5, <1>6, <1>7, <1>8, <1>9, <1>10, <1>11
        DEF Stopper, ShutdownBatcher, Fails

\* When the executor is empty, an early request is nowhere, so it has been settled.
LEMMA DrainedIsSettled ==
    ASSUME TypeOK, EarlyFirst, Joined, ExitFirst, Kept, NEW k \in Stoppers, stopper[k] = "wait",
           Orderly, work = <<>>, \A w \in Workers : worker[w].pc = "idle"
    PROVE  \A r \in early : outcome[r] # "pending" \/ Stranded(r)
<1>1. Exited /\ collector.batch = <<>>
  BY DEF ExitFirst, TypeOK, Exited
<1>2. \A w \in Workers : worker[w].batch = <<>>
  BY DEF TypeOK
<1>3. \A u : ~Has(<<>>, u) /\ ~HasIn(<<>>, u)
  BY DEF Has, HasIn
<1>4. \A r \in Requests : ~Dropping(r)
  BY <1>1, EngineAssumption DEF Joined, Free, Dropping
<1>5. early \subseteq Requests
  BY DEF TypeOK
<1>6. \A r \in early : ~Placed(r)
  BY <1>1, <1>2, <1>3, <1>4, <1>5 DEF Placed, Running, EarlyFirst
<1> QED BY <1>5, <1>6 DEF Kept, EarlyFirst

\* A shutdown call fails futures after the executor has drained.
LEMMA ServedStopperStep ==
    ASSUME TypeOK, OnePlaceEach, FuturesTracked, ShutdownStages, EarlyFirst, EarlyServed,
           NEW k \in Stoppers, Stopper(k)
    PROVE  EarlyServed'
<1>t. /\ stopper \in [Stoppers -> StopperStates] /\ early \subseteq Requests
      /\ outcome \in [Requests -> Outcomes] /\ k \notin Workers \cup {"batcher"}
      /\ setting \in [Threads -> Requests \cup {NoRequest}] /\ Workers \cup {"batcher"} \subseteq Threads
  BY ThreadsApart, EngineAssumption DEF TypeOK, Threads
<1>f. /\ stopping => stopping'
      /\ open' => open
      /\ Orderly' => Orderly
      /\ UNCHANGED <<client, early, collector, work, worker, broken>>
  BY StopperFlags
<1>p. \A u \in Requests : Placed(u)' <=> Placed(u)
  BY StopperPlaces
<1>x. ExitFirst'
  BY ExitFirstStopperStep DEF ShutdownStages, EarlyServed
<1>k. ASSUME UNCHANGED outcome PROVE \A u : Stranded(u)' <=> Stranded(u)
  BY <1>f, <1>k DEF Stranded
<1>1. CASE Passing(k)
  <2>1. UNCHANGED <<futures, outcome, setting>>
    BY <1>1 DEF Passing
  <2>2. Kept'
    BY <1>f, <1>k, <1>p, <2>1 DEF EarlyServed, Kept, Accepted, BeingSet
  <2>3. AbandonedLate'
    BY <1>f, <1>k, <2>1 DEF EarlyServed, AbandonedLate
  <2>4. CASE stopper'[k] = "collect"
    <3>1. stopper[k] = "wait" /\ work = <<>> /\ \A w \in Workers : worker[w].pc = "idle"
      BY <1>1, <1>t, <2>4
         DEF Passing, Stopper, ShutdownBatcher, CallShutdown, SetClosed, CheckAlreadyStopping,
             SetStopping, PutSentinel, SentinelRefused, Join, JoinTimeout, ShutdownExecutor,
             AwaitExecutor, TakeOutstanding, LookAt, SetException, FailingEnds, Goto
    <3>2. Orderly => \A r \in early : outcome[r] # "pending" \/ Stranded(r)
      BY <3>1, DrainedIsSettled DEF EarlyServed, ShutdownStages
    <3>3. EarlySettled'
      BY <1>f, <1>k, <2>1, <3>2 DEF EarlySettled
    <3> QED BY <1>x, <2>2, <2>3, <3>3 DEF EarlyServed
  <2>5. CASE stopper'[k] # "collect"
    <3>1. \A j \in Stoppers : stopper'[j] \in {"collect", "fail"} => stopper[j] \in {"collect", "fail"}
      BY <1>1, <1>t, <2>5 DEF Passing
    <3>2. EarlySettled'
      BY <1>f, <1>k, <2>1, <3>1 DEF EarlyServed, EarlySettled
    <3> QED BY <1>x, <2>2, <2>3, <3>2 DEF EarlyServed
  <2> QED BY <2>4, <2>5
<1>2. CASE TakeOutstanding(k)
  <2>1. /\ stopper[k] = "collect" /\ futures' = {} /\ UNCHANGED outcome
        /\ stopper' = [stopper EXCEPT ![k] = "fail"]
    BY <1>2 DEF TakeOutstanding, Goto
  <2>2. ~open /\ (Orderly => \A r \in early : outcome[r] # "pending" \/ Stranded(r))
    BY <2>1 DEF ShutdownStages, ShutdownOrder, EarlyServed, EarlySettled
  <2>3. Kept'
    BY <1>f, <1>k, <2>1, <2>2 DEF Kept
  <2>4. EarlySettled'
    BY <1>f, <1>k, <2>1, <2>2 DEF EarlySettled
  <2>5. AbandonedLate'
    BY <1>f, <1>k, <2>1 DEF EarlyServed, AbandonedLate
  <2> QED BY <1>x, <2>3, <2>4, <2>5 DEF EarlyServed
<1>3. CASE Fails(k)
  <2>1. /\ stopper[k] = "fail" /\ UNCHANGED futures
        /\ \E pc \in {"fail", "returned", "raised"} : stopper' = [stopper EXCEPT ![k] = pc]
    BY <1>3, <1>t, FailsFrame DEF Fails, LookAt, SetException, FailingEnds, Goto
  <2>2. \A r \in Requests :
          /\ outcome[r] # "pending" => outcome'[r] = outcome[r]
          /\ outcome'[r] = "abandoned" => outcome[r] \in {"abandoned", "pending"}
    BY <1>3, <1>t DEF Fails, LookAt, SetException, FailingEnds, SetFuture, Raises, Free
  <2>3. stopping /\ ~open /\ (Orderly => \A r \in early : outcome[r] # "pending" \/ Stranded(r))
    BY <2>1 DEF ShutdownStages, ShutdownOrder, Stopped, EarlyServed, EarlySettled
  <2>4. \A r \in Requests : Stranded(r) => Stranded(r)'
    BY <1>f, <2>2, StrandedLasts
  <2>5. Kept'
    BY <1>f, <1>t, <2>2, <2>3, <2>4 DEF Kept
  <2>6. EarlySettled'
    BY <1>f, <1>t, <2>2, <2>3, <2>4 DEF EarlySettled
  <2>7. AbandonedLate'
    BY <1>f, <1>t, <2>2, <2>3, <2>4 DEF EarlyServed, AbandonedLate
  <2> QED BY <1>x, <2>5, <2>6, <2>7 DEF EarlyServed
<1> QED BY <1>1, <1>2, <1>3, StopperSteps

-----------------------------------------------------------------------------
(* The theorems.                                                           *)

\* A new engine satisfies the inductive invariant.
LEMMA InitIInv == Init => IInv
<1> SUFFICES ASSUME Init PROVE IInv
  OBVIOUS
<1>1. <<>> \in Seq(Requests \cup {Sentinel}) /\ <<>> \in Seq(Batches \ {<<>>}) /\ Len(<<>>) = 0
  OBVIOUS
<1>2. /\ Capacity \in Nat \ {0} /\ MaxBatch \in Nat \ {0} /\ <<>> \in Batches
  BY QueueAssumption, EngineAssumption, EmptyBatch
<1>3. TypeOK
  <2>1. ClientTypes /\ FlagTypes
    BY DEF Init, ClientTypes, FlagTypes, ClientStates
  <2>2. QueueTypes
    BY <1>1, <1>2 DEF Init, QueueTypes
  <2>3. FutureTypes /\ StopperTypes
    BY DEF Init, FutureTypes, StopperTypes, Outcomes, StopperStates
  <2>4. CollectorTypes /\ WorkerTypes
    BY <1>1, <1>2 DEF Init, CollectorTypes, WorkerTypes, IdleWorker
  <2> QED BY <2>1, <2>2, <2>3, <2>4, TypeParts
<1>4. Filling
  BY <1>1, <1>2 DEF Init, Filling
<1>5. \A u : /\ ~Has(<<>>, u) /\ Once(<<>>, u) /\ ~HasIn(<<>>, u) /\ OnceIn(<<>>, u)
  BY DEF Has, Once, HasIn, OnceIn
<1>6. /\ queue = <<>> /\ work = <<>> /\ collector.batch = <<>>
      /\ \A w \in Workers : worker[w].batch = <<>>
  BY DEF Init, IdleWorker
<1>7. \A u \in Requests : ~Placed(u) /\ OnePlace(u)
  <2>1. \A u \in Requests : ~Dropping(u)
    BY EngineAssumption DEF Init, Dropping, Threads
  <2> QED BY <1>5, <1>6, <2>1 DEF Placed, OnePlace, OnceRunning, Running
<1>8. OnePlaceEach
  BY <1>7 DEF OnePlaceEach
<1>9. FuturesTracked
  <2>1. /\ \A t \in Threads : Free(t)
        /\ \A r \in Requests : ~InHand(r) /\ ~Outstanding(r)
    BY EngineAssumption DEF Init, Outstanding, InHand, Free
  <2> QED BY <2>1, ThreadsApart DEF Init, FuturesTracked
<1>10. ShutdownStages
  BY DEF Init, ShutdownStages, ShutdownOrder, Swept, OneShutdown, Joined, Closing, Stopped, Exited
<1>11. EarlyFirst
  <2>1. SentinelsLast(queue, early)
    BY <1>6 DEF SentinelsLast
  <2> QED BY <1>5, <2>1 DEF Init, EarlyFirst
<1>12. WorkersSettle
  BY <1>5 DEF Init, WorkersSettle, Tracks, IdleWorker, Threads
<1>13. EarlyServed
  BY DEF Init, EarlyServed, ExitFirst, Kept, EarlySettled, AbandonedLate, Accepted
<1> QED BY <1>3, <1>4, <1>8, <1>9, <1>10, <1>11, <1>12, <1>13
        DEF IInv, ShutdownStages, EarlyServed

\* Every step keeps the inductive invariant.
LEMMA NextIInv == IInv /\ [Next]_vars => IInv'
<1> SUFFICES ASSUME IInv, [Next]_vars PROVE IInv'
  OBVIOUS
<1>i. /\ TypeOK /\ Filling /\ OnePlaceEach /\ FuturesTracked /\ ShutdownStages /\ EarlyFirst
      /\ WorkersSettle /\ EarlyServed
  BY DEF IInv, ShutdownStages, EarlyServed
<1>p. ASSUME TypeOK', Filling', OnePlaceEach', FuturesTracked', ShutdownStages', EarlyFirst',
             WorkersSettle', EarlyServed'
      PROVE  IInv'
  BY <1>p DEF IInv, ShutdownStages, EarlyServed
<1>o. ShutdownOrder
  BY <1>i DEF ShutdownStages
<1>t. /\ "batcher" \in Threads \ Stoppers /\ Workers \subseteq Threads \ Stoppers
      /\ "batcher" \notin Workers
  BY EngineAssumption DEF Threads
<1>1. ASSUME NEW r \in Requests, Client(r) \/ DeadlinePasses(r) \/ Cancel(r) PROVE IInv'
  <2>1. /\ UNCHANGED <<collector, worker, setting>> /\ late \subseteq late'
        /\ \A u \in Requests : Accepted(u) /\ u \in futures' => u \in futures
    BY <1>1 DEF Client, DeadlinePasses, Cancel, SubmitToBatcher, Submit, CheckClosed, Register,
           CheckStopping, Enqueue, ShedLoad, Withdraw, engineVars, frontVars, Accepted
  <2>2. WorkersSettle'
    BY <1>i, <2>1, WorkersSettleKept
  <2>3. Filling'
    BY <1>i, <2>1 DEF Filling
  <2> QED BY <1>1, <1>i, <1>o, <1>p, <2>2, <2>3, ClientTypeStep, ClientPlaces, FuturesClientStep,
             StagesClientStep, EarlyFirstClientStep, ServedClientStep
<1>2. CASE Collector
  <2>1. /\ UNCHANGED <<client, outstanding, stopper, worker, late>>
        /\ Handles("batcher") /\ futures' \subseteq futures
    BY <1>2, <1>i, CollectorFrame, CollectorHandles, HandlesForgets
  <2>2. WorkersSettle'
    <3>1. \A w \in Workers : setting'[w] = setting[w]
      BY <1>i, <1>t, <2>1 DEF Handles, Pop, SetFuture, TypeOK
    <3> QED BY <1>i, <2>1, <3>1, WorkersSettleKept
  <2>3. FuturesTracked' /\ ShutdownStages' /\ ~Exited
    BY <1>2, <1>i, <1>t, <2>1, FuturesHandle, StagesCollectorStep
  <2> QED BY <1>2, <1>i, <1>p, <2>2, <2>3, CollectorTypeStep, FillingStep, CollectorPlaces,
             EarlyFirstCollectorStep, ServedCollectorStep
<1>3. ASSUME NEW w \in Workers, Worker(w) PROVE IInv'
  <2>1. UNCHANGED <<client, outstanding, stopper, stopping, queue, early, collector>>
    BY <1>3, WorkerFrame DEF frontVars
  <2>2. FuturesTracked' /\ ShutdownStages'
    BY <1>3, <1>i, <1>t, <2>1, WorkerHandles, FuturesHandle, StagesWorkerStep
  <2>3. Filling' /\ EarlyFirst'
    BY <1>i, <2>1 DEF Filling, EarlyFirst, Accepted, Exited
  <2> QED BY <1>3, <1>i, <1>p, <2>2, <2>3, WorkerTypeStep, WorkerPlaces, WorkersSettleStep,
             ServedWorkerStep
<1>4. ASSUME NEW k \in Stoppers, Stopper(k) PROVE IInv'
  <2>1. /\ UNCHANGED <<collector, worker, late>> /\ futures' \subseteq futures
        /\ \A w \in Workers : setting'[w] = setting[w]
    <3>1. /\ UNCHANGED <<collector, worker, late>> /\ futures' \subseteq futures
      BY <1>4, StopperSteps, FailsFrame DEF Passing, TakeOutstanding
    <3>2. \A w \in Workers : setting'[w] = setting[w]
      BY <1>4, <1>i, <1>t, StopperSteps
         DEF Passing, TakeOutstanding, Fails, LookAt, SetException, FailingEnds, SetFuture, TypeOK
    <3> QED BY <3>1, <3>2
  <2>2. WorkersSettle'
    BY <1>i, <2>1, WorkersSettleKept
  <2>3. Filling'
    BY <1>i, <2>1 DEF Filling
  <2> QED BY <1>4, <1>i, <1>o, <1>p, <2>2, <2>3, StopperTypeStep, StopperPlaces, FuturesStopperStep,
             StagesStopperStep, EarlyFirstStopperStep, ServedStopperStep
<1>5. CASE UNCHANGED vars
  <2>1. /\ UNCHANGED <<client, outstanding, stopper, closed, stopping, open, raced, queue, early,
                       collector, late, worker, futures, outcome, gaveUp, work, setting, broken>>
    BY <1>5 DEF vars, frontVars, engineVars
  <2>2. TypeOK'
    BY <1>5, <1>i DEF vars, frontVars, engineVars, TypeOK
  <2>3. FuturesTracked' /\ ShutdownStages'
    <3>1. (Exited <=> Exited') /\ (Exited => Free("batcher")')
      BY <1>i, <2>1 DEF ShutdownStages, Joined, Exited, Free
    <3> QED BY <1>i, <2>1, <3>1, FuturesKept, StagesKept
  <2>4. Filling' /\ EarlyFirst'
    BY <1>i, <2>1 DEF Filling, EarlyFirst, Accepted, Exited
  <2>5. OnePlaceEach' /\ \A u \in Requests : Placed(u)' <=> Placed(u)
    BY <1>i, <2>1, PlacesKept DEF Accepted
  <2>6. WorkersSettle'
    BY <1>i, <2>1, WorkersSettleKept
  <2>7. EarlyServed'
    BY <1>i, <2>1, <2>5 DEF EarlyServed, ExitFirst, Kept, EarlySettled, AbandonedLate, Accepted,
                            Orderly, Exited, BeingSet, Stranded
  <2> QED BY <1>p, <2>2, <2>3, <2>4, <2>5, <2>6, <2>7
<1> QED BY <1>1, <1>2, <1>3, <1>4, <1>5 DEF Next

\* Every reachable state of the engine satisfies the inductive invariant.
THEOREM EngineInvariance == Spec => []IInv
BY InitIInv, NextIInv, PTL DEF Spec

\* The queue stays within queue_capacity; no batch that reaches the executor is empty or
\* larger than max_batch_size (_collect, _dispatch).
THEOREM EngineTypes == Spec => []TypeOK
<1>1. IInv => TypeOK
  BY DEF IInv
<1> QED BY <1>1, EngineInvariance, PTL

\* The slots of one list.
LEMMA SlotsOfList ==
    ASSUME NEW s, NEW r, NEW list
    PROVE  /\ Slots(list, s, r) # {} <=> Has(s, r)
           /\ Once(s, r) => \A p, q \in Slots(list, s, r) : p = q
BY DEF Slots, Has, Once

\* The slots of a request, by the list they are in.
LEMMA PlacesByList ==
    ASSUME NEW r, NEW p
    PROVE  p \in Places(r) <=>
             \/ p \in Slots(<<"queue", 0>>, queue, r)
             \/ p \in Slots(<<"collector", 0>>, collector.batch, r)
             \/ p \in Slots(<<"dropped", 0>>, <<setting["batcher"]>>, r)
             \/ \E j \in 1 .. Len(work) : p \in Slots(<<"work", j>>, work[j], r)
             \/ \E w \in Workers : p \in Slots(<<"worker", w>>, worker[w].batch, r)
<1> DEFINE A == UNION {Slots(<<"work", j>>, work[j], r) : j \in 1..Len(work)}
           B == UNION {Slots(<<"worker", w>>, worker[w].batch, r) : w \in Workers}
<1>1. p \in A <=> \E j \in 1 .. Len(work) : p \in Slots(<<"work", j>>, work[j], r)
  OBVIOUS
<1>2. p \in B <=> \E w \in Workers : p \in Slots(<<"worker", w>>, worker[w].batch, r)
  OBVIOUS
<1>3. Places(r) = Slots(<<"queue", 0>>, queue, r) \cup Slots(<<"collector", 0>>, collector.batch, r)
                    \cup Slots(<<"dropped", 0>>, <<setting["batcher"]>>, r) \cup A \cup B
  BY DEF Places
<1> HIDE DEF A, B
<1> QED BY <1>1, <1>2, <1>3

\* A request is nowhere twice, and one that was accepted and is not settled is somewhere
\* for as long as the executor takes work, unless a cancelled member broke its batch: _collect, _dispatch and _execute neither
\* duplicate nor lose one, whatever the number of clients, workers and shutdown calls.
THEOREM HeldTheorem == Spec => []HeldInOnePlace
<1>1. IInv => HeldInOnePlace
  <2> SUFFICES ASSUME IInv, NEW r \in Requests
               PROVE  /\ \A p, q \in Places(r) : p = q
                      /\ open /\ Accepted(r) /\ outcome[r] = "pending" =>
                           Places(r) # {} \/ Stranded(r)
    BY DEF HeldInOnePlace
  <2>1. OnePlace(r)
    BY DEF IInv, OnePlaceEach
  <2>d. /\ Has(<<setting["batcher"]>>, r) <=> Dropping(r)
        /\ Once(<<setting["batcher"]>>, r)
    BY DEF Has, Once, Dropping
  <2>2. ASSUME NEW p \in Places(r), NEW q \in Places(r) PROVE p = q
    <3>1. CASE Has(queue, r)
      <4>1. \A x \in Places(r) : x \in Slots(<<"queue", 0>>, queue, r)
        BY <2>1, <2>d, <3>1, PlacesByList, SlotsOfList DEF OnePlace, HasIn, Running
      <4> QED BY <2>1, <4>1, SlotsOfList DEF OnePlace
    <3>2. CASE Has(collector.batch, r)
      <4>1. /\ ~Has(queue, r) /\ ~Dropping(r) /\ \A w \in Workers : ~Running(w, r)
            /\ \A j \in 1 .. Len(work) : ~Has(work[j], r)
        BY <2>1, <3>2 DEF OnePlace, HasIn
      <4>2. \A x \in Places(r) : x \in Slots(<<"collector", 0>>, collector.batch, r)
        BY <2>d, <4>1, PlacesByList, SlotsOfList DEF Running
      <4> QED BY <2>1, <4>2, SlotsOfList DEF OnePlace
    <3>3. ASSUME NEW j \in 1 .. Len(work), Has(work[j], r) PROVE p = q
      <4>1. \A i \in 1 .. Len(work) : Has(work[i], r) => i = j
        BY <2>1, <3>3 DEF OnePlace, OnceIn
      <4>2. /\ ~Has(queue, r) /\ ~Has(collector.batch, r) /\ ~Dropping(r)
            /\ \A w \in Workers : ~Running(w, r)
        BY <2>1, <3>3 DEF OnePlace, HasIn
      <4>3. \A i \in 1 .. Len(work) : \A x : x \in Slots(<<"work", i>>, work[i], r) => i = j
        BY <4>1, SlotsOfList
      <4>4. \A x : /\ x \notin Slots(<<"queue", 0>>, queue, r)
                   /\ x \notin Slots(<<"collector", 0>>, collector.batch, r)
                   /\ x \notin Slots(<<"dropped", 0>>, <<setting["batcher"]>>, r)
                   /\ \A w \in Workers : x \notin Slots(<<"worker", w>>, worker[w].batch, r)
        BY <2>d, <4>2, SlotsOfList DEF Running
      <4>5. \A x \in Places(r) : x \in Slots(<<"work", j>>, work[j], r)
        BY <4>3, <4>4, PlacesByList
      <4> QED BY <2>1, <4>5, SlotsOfList DEF OnePlace, OnceIn
    <3>4. ASSUME NEW w \in Workers, Running(w, r) PROVE p = q
      <4>1. \A v \in Workers : Running(v, r) => v = w
        BY <2>1, <3>4 DEF OnePlace, OnceRunning
      <4>2. ~Has(queue, r) /\ ~Has(collector.batch, r) /\ ~HasIn(work, r) /\ ~Dropping(r)
        BY <2>1, <3>4 DEF OnePlace
      <4>3. \A x \in Places(r) : x \in Slots(<<"worker", w>>, worker[w].batch, r)
        BY <2>d, <4>1, <4>2, PlacesByList, SlotsOfList DEF Running, HasIn
      <4> QED BY <2>1, <4>3, SlotsOfList DEF OnePlace, OnceRunning
    <3>5. CASE Dropping(r)
      <4>1. \A x \in Places(r) : x \in Slots(<<"dropped", 0>>, <<setting["batcher"]>>, r)
        BY <2>1, <3>5, PlacesByList, SlotsOfList DEF OnePlace, HasIn, Running
      <4> QED BY <2>d, <4>1, SlotsOfList
    <3>6. \/ Has(queue, r) \/ Has(collector.batch, r) \/ Dropping(r)
          \/ \E j \in 1 .. Len(work) : Has(work[j], r)
          \/ \E w \in Workers : Running(w, r)
      <4>1. \/ p \in Slots(<<"queue", 0>>, queue, r)
            \/ p \in Slots(<<"collector", 0>>, collector.batch, r)
            \/ p \in Slots(<<"dropped", 0>>, <<setting["batcher"]>>, r)
            \/ \E j \in 1 .. Len(work) : p \in Slots(<<"work", j>>, work[j], r)
            \/ \E w \in Workers : p \in Slots(<<"worker", w>>, worker[w].batch, r)
        BY <2>2, PlacesByList
      <4>2. \A list, s : p \in Slots(list, s, r) => Has(s, r)
        BY SlotsOfList
      <4> QED BY <2>d, <4>1, <4>2 DEF Running
    <3> QED BY <3>1, <3>2, <3>3, <3>4, <3>5, <3>6
  <2>3. ASSUME Placed(r) PROVE Places(r) # {}
    <3>1. CASE Has(queue, r)
      BY <3>1, PlacesByList, SlotsOfList
    <3>2. CASE Has(collector.batch, r)
      BY <3>2, PlacesByList, SlotsOfList
    <3>3. CASE HasIn(work, r)
      <4>1. PICK j \in 1 .. Len(work) : Has(work[j], r)
        BY <3>3 DEF HasIn
      <4>2. PICK p : p \in Slots(<<"work", j>>, work[j], r)
        BY <4>1, SlotsOfList
      <4>3. p \in Places(r)
        BY <4>2, PlacesByList
      <4> QED BY <4>3
    <3>4. CASE \E w \in Workers : Running(w, r)
      <4>1. PICK w \in Workers : Has(worker[w].batch, r)
        BY <3>4 DEF Running
      <4>2. PICK p : p \in Slots(<<"worker", w>>, worker[w].batch, r)
        BY <4>1, SlotsOfList
      <4>3. p \in Places(r)
        BY <4>2, PlacesByList
      <4> QED BY <4>3
    <3>5. CASE Dropping(r)
      BY <2>d, <3>5, PlacesByList, SlotsOfList
    <3> QED BY <2>3, <3>1, <3>2, <3>3, <3>4, <3>5 DEF Placed
  <2> QED BY <2>2, <2>3 DEF IInv, Kept
<1> QED BY <1>1, EngineInvariance, PTL

\* When the shutdown calls have returned, no future that submit handed out or will hand
\* out is pending: submit registers before it looks at _stopping, and shutdown clears the
\* dictionary after setting it.  One future may be in the hands of a batcher thread that
\* the join gave up on.
THEOREM NeverLeftPendingTheorem == Spec => []NeverLeftPending
<1>1. IInv => NeverLeftPending
  <2> SUFFICES ASSUME IInv, Stoppers # {}, \A k \in Stoppers : stopper[k] = "returned",
                      NEW r \in Requests, client[r] \in {"put", "accepted"},
                      outcome[r] = "pending"
               PROVE  gaveUp /\ setting["batcher"] = r
    BY DEF NeverLeftPending
  <2>1. FuturesTracked /\ ShutdownOrder /\ Swept /\ Joined /\ WorkersSettle
    BY DEF IInv
  <2>2. ~Outstanding(r) /\ \A k \in Stoppers : Free(k)
    BY <2>1 DEF FuturesTracked, Outstanding
  <2>3. closed
    BY <2>1 DEF ShutdownOrder
  <2>4. r \notin futures /\ stopping /\ ExecutorEmpty
    BY <2>1, <2>3 DEF Swept, Closing
  <2>5. InHand(r)
    BY <2>1, <2>2, <2>4 DEF FuturesTracked
  <2>6. r # NoRequest
    BY EngineAssumption
  <2>7. \A w \in Workers : setting[w] = NoRequest
    BY <2>1, <2>4 DEF WorkersSettle, Tracks, ExecutorEmpty
  <2>8. setting["batcher"] = r
    BY <2>2, <2>5, <2>6, <2>7 DEF InHand, Free, Threads
  <2> QED BY <2>1, <2>4, <2>6, <2>8 DEF Joined, Free
<1> QED BY <1>1, EngineInvariance, PTL

\* Work that was enqueued before _stopping was set is abandoned only when the wait for
\* the batcher thread ran out, two shutdown calls raced, or a cancelled member broke the
\* batch it was in.
THEOREM EarlyWorkTheorem == Spec => []EarlyWorkIsServed
<1>1. IInv => EarlyWorkIsServed
  BY DEF IInv, AbandonedLate, Orderly, EarlyWorkIsServed, TypeOK
<1> QED BY <1>1, EngineInvariance, PTL

\* No future is settled twice, by any of the threads that settle futures: the one a thread
\* holds is registered no more, in nobody else's hands, and settled at most by its caller.
THEOREM SettledOnceTheorem == Spec => []SettledOnce
<1>1. IInv => SettledOnce
  <2> SUFFICES ASSUME IInv, NEW t \in Threads, ~Free(t)
               PROVE  /\ outcome[setting[t]] \in {"pending", "cancelled"}
                      /\ setting[t] \notin futures
                      /\ \A u \in Threads : setting[u] = setting[t] => u = t
    BY DEF SettledOnce
  <2>1. TypeOK /\ FuturesTracked
    BY DEF IInv
  <2>2. setting[t] \in Requests /\ InHand(setting[t])
    BY <2>1 DEF TypeOK, Free, InHand
  <2> QED BY <2>1, <2>2 DEF FuturesTracked
<1> QED BY <1>1, EngineInvariance, PTL

=============================================================================

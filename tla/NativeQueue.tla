---------------------------- MODULE NativeQueue ----------------------------
(***************************************************************************)
(* What the C++ DynamicBatcher and ThreadPool share: callers put items     *)
(* into a ConcurrentQueue, which is used here by what BoundedFifo says of  *)
(* it (each operation takes effect at one instant), and shutdown() closes  *)
(* it once and joins the threads that empty it.                            *)
(***************************************************************************)
EXTENDS Integers, Sequences, FiniteSets

CONSTANTS
    Items,    \* requests or tasks, one call of submit for each
    Slots,    \* queue_capacity
    Closers   \* threads that call shutdown; the destructor is one of them

ASSUME NativeQueueAssumption == IsFiniteSet(Items) /\ Slots \in Nat \ {0} /\ IsFiniteSet(Closers)

VARIABLES
    fifo,         \* the queue's buffer_
    fifoClosed,   \* its closed_
    entered,      \* history: the items accepted, in order
    submitter,    \* where the call for each item is
    stopRequested, \* stopping_
    closer        \* where each call of shutdown is

queueVars == <<fifo, fifoClosed, entered, submitter, stopRequested, closer>>

NativeQueueInit ==
    /\ fifo = <<>> /\ fifoClosed = FALSE /\ entered = <<>>
    /\ submitter = [i \in Items |-> "idle"]
    /\ stopRequested = FALSE
    /\ closer = [c \in Closers |-> "idle"]

Call(i, how) ==
    /\ submitter[i] = "idle"
    /\ submitter' = [submitter EXCEPT ![i] = how]
    /\ UNCHANGED <<fifo, fifoClosed, entered, stopRequested, closer>>

\* push or try_push returns Ok; the caller goes on at next.
Accept(i, next) ==
    /\ submitter[i] \in {"push", "try_push"}
    /\ ~fifoClosed /\ Len(fifo) < Slots
    /\ fifo' = Append(fifo, i)
    /\ entered' = Append(entered, i)
    /\ submitter' = [submitter EXCEPT ![i] = next]
    /\ UNCHANGED <<fifoClosed, stopRequested, closer>>

\* Closed, or Full from try_push.
Refuse(i) ==
    /\ \/ submitter[i] \in {"push", "try_push"} /\ fifoClosed
       \/ submitter[i] = "try_push" /\ Len(fifo) = Slots
    /\ submitter' = [submitter EXCEPT ![i] = "refused"]
    /\ UNCHANGED <<fifo, fifoClosed, entered, stopRequested, closer>>

Dequeue ==
    /\ fifo # <<>>
    /\ fifo' = Tail(fifo)
    /\ UNCHANGED <<fifoClosed, entered, submitter, stopRequested, closer>>

Drained == fifoClosed /\ fifo = <<>>

\* stopping_.exchange(true): whoever finds it set returns at once.
ExchangeStopping(c) ==
    /\ closer[c] = "idle"
    /\ stopRequested' = TRUE
    /\ closer' = [closer EXCEPT ![c] = IF stopRequested THEN "returned early" ELSE "close"]
    /\ UNCHANGED <<fifo, fifoClosed, entered, submitter>>

CloseQueue(c) ==
    /\ closer[c] = "close"
    /\ fifoClosed' = TRUE
    /\ closer' = [closer EXCEPT ![c] = "join"]
    /\ UNCHANGED <<fifo, entered, submitter, stopRequested>>

JoinThreads(c, ended) ==
    /\ closer[c] = "join" /\ ended
    /\ closer' = [closer EXCEPT ![c] = "joined"]
    /\ UNCHANGED <<fifo, fifoClosed, entered, submitter, stopRequested>>

Shutdown(c, ended) == ExchangeStopping(c) \/ CloseQueue(c) \/ JoinThreads(c, ended)

\* Some shutdown has drained and joined.
ShutdownDone == \E c \in Closers : closer[c] = "joined"
SubmittersAtRest == \A i \in Items : submitter[i] \in {"idle", "accepted", "refused"}

=============================================================================

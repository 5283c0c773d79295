----------------------------- MODULE ThreadPool -----------------------------
(***************************************************************************)
(* The C++ ThreadPool (cpp/include/cudaforge/thread_pool.hpp): workers     *)
(* over a bounded queue of tasks, relaxed counters, and a destructor that  *)
(* drains.  A task returns or throws; submit_with_result wraps its task    *)
(* so that it does not throw.                                              *)
(***************************************************************************)
EXTENDS Integers, Sequences, SequencesExt, FiniteSets

CONSTANTS
    Tasks,       \* one call of submit for each
    TaskSlots,   \* queue_capacity
    Joiners,     \* threads that call shutdown
    Workers

ASSUME PoolAssumption ==
    /\ IsFiniteSet(Tasks) /\ TaskSlots \in Nat \ {0} /\ IsFiniteSet(Joiners)
    /\ IsFiniteSet(Workers) /\ Workers # {}

VARIABLES
    tasks, tasksClosed, queued, submitting, poolStopping, joiner,   \* see NativeQueue
    worker,   \* what each worker does: waiting, starting, running or counting a task, or ended
    task,     \* the task in its hands
    ran,      \* history: how often each task was run
    tally     \* submitted_, completed_, failed_, active_

Q == INSTANCE NativeQueue WITH
       Items <- Tasks, Slots <- TaskSlots, Closers <- Joiners,
       fifo <- tasks, fifoClosed <- tasksClosed, entered <- queued, submitter <- submitting,
       stopRequested <- poolStopping, closer <- joiner

taskVars == <<tasks, tasksClosed, queued, submitting, poolStopping, joiner>>
workVars == <<worker, task, ran, tally>>
poolVars == <<taskVars, workVars>>

NoTask == "no task"

PoolInit ==
    /\ Q!NativeQueueInit
    /\ worker = [w \in Workers |-> "waiting"]
    /\ task = [w \in Workers |-> NoTask]
    /\ ran = [t \in Tasks |-> 0]
    /\ tally = [submitted |-> 0, completed |-> 0, failed |-> 0, active |-> 0]

-----------------------------------------------------------------------------
(* submit: the counter follows the push.                                   *)

SubmitTask(i) == Q!Call(i, "push") /\ UNCHANGED workVars

TaskAccepted(i) == Q!Accept(i, "count") /\ UNCHANGED workVars

TaskRefused(i) == Q!Refuse(i) /\ UNCHANGED workVars

CountSubmitted(i) ==
    /\ submitting[i] = "count"
    /\ submitting' = [submitting EXCEPT ![i] = "accepted"]
    /\ tally' = [tally EXCEPT !.submitted = @ + 1]
    /\ UNCHANGED <<tasks, tasksClosed, queued, poolStopping, joiner, worker, task, ran>>

-----------------------------------------------------------------------------
(* run().                                                                  *)

Step(w, from, to) ==
    /\ worker[w] = from
    /\ worker' = [worker EXCEPT ![w] = to]

TakeTask(w) ==
    /\ Step(w, "waiting", "starting") /\ Q!Dequeue
    /\ task' = [task EXCEPT ![w] = Head(tasks)]
    /\ UNCHANGED <<ran, tally>>

Activate(w) ==
    /\ Step(w, "starting", "running")
    /\ tally' = [tally EXCEPT !.active = @ + 1]
    /\ UNCHANGED <<taskVars, task, ran>>

\* Mutation: an exception leaves the loop.
RunTaskUncaught(w) ==
    /\ \/ Step(w, "running", "leaving") /\ tally' = [tally EXCEPT !.completed = @ + 1]
       \/ Step(w, "running", "ended") /\ tally' = [tally EXCEPT !.failed = @ + 1]
    /\ ran' = [ran EXCEPT ![task[w]] = @ + 1]
    /\ UNCHANGED <<taskVars, task>>

\* task() and the counter of its outcome; the exception is swallowed.
RunTask(w) ==
    /\ Step(w, "running", "leaving")
    /\ \/ tally' = [tally EXCEPT !.completed = @ + 1]
       \/ tally' = [tally EXCEPT !.failed = @ + 1]
    /\ ran' = [ran EXCEPT ![task[w]] = @ + 1]
    /\ UNCHANGED <<taskVars, task>>

Deactivate(w) ==
    /\ Step(w, "leaving", "waiting")
    /\ tally' = [tally EXCEPT !.active = @ - 1]
    /\ task' = [task EXCEPT ![w] = NoTask]
    /\ UNCHANGED <<taskVars, ran>>

\* pop answers Closed.
EndWorker(w) ==
    /\ Q!Drained /\ Step(w, "waiting", "ended")
    /\ UNCHANGED <<taskVars, task, ran, tally>>

RunWorker(w) == TakeTask(w) \/ Activate(w) \/ RunTask(w) \/ Deactivate(w) \/ EndWorker(w)

AllEnded == \A w \in Workers : worker[w] = "ended"

PoolNext ==
    \/ \E i \in Tasks : SubmitTask(i) \/ TaskAccepted(i) \/ TaskRefused(i) \/ CountSubmitted(i)
    \/ \E w \in Workers : RunWorker(w)
    \/ \E c \in Joiners : Q!Shutdown(c, AllEnded) /\ UNCHANGED workVars

PoolSpec == PoolInit /\ [][PoolNext]_poolVars

-----------------------------------------------------------------------------
(* Properties.                                                             *)

InHand(w, t) == task[w] = t /\ worker[w] \in {"starting", "running"}

\* A task is as often queued, with a worker or run as it was accepted, which is once; when
\* shutdown has joined the workers all that was accepted was run and no worker counts as
\* active.  The counters agree, except that submitted lags behind for a caller between its
\* push and its addition: it may be less than completed.
PoolDrains ==
    /\ \A t \in Tasks :
         ran[t] + Cardinality({w \in Workers : InHand(w, t)}) + Cardinality({n \in DOMAIN tasks : tasks[n] = t})
           = IF t \in ToSet(queued) THEN 1 ELSE 0
    /\ tally.completed + tally.failed = Cardinality({t \in Tasks : ran[t] # 0})
    /\ tally.submitted + Cardinality({t \in Tasks : submitting[t] = "count"}) = Len(queued)
    /\ Q!ShutdownDone => tally.completed + tally.failed = Len(queued) /\ tally.active = 0

=============================================================================

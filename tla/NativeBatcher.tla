--------------------------- MODULE NativeBatcher ---------------------------
(***************************************************************************)
(* The C++ DynamicBatcher (cpp/src/dynamic_batcher.cpp): one thread turns  *)
(* the queue into batches for a handler and drops requests whose deadline  *)
(* has passed when it dequeues them.  The time that is left for a batch    *)
(* is a choice: pop_for may time out at any point.  Left out are the       *)
(* trigger and the delays that are recorded for a batch, and the gauge of  *)
(* the queue's depth.                                                      *)
(***************************************************************************)
EXTENDS NativeQueue, SequencesExt, Filtering

CONSTANTS
    BatchLimit,   \* max_batch_size
    Hurried       \* requests that have a deadline

ASSUME BatcherAssumption == BatchLimit \in Nat \ {0} /\ Hurried \subseteq Items

VARIABLES
    overdue,    \* requests whose deadline has passed
    forming,    \* the batch in collect_batch, <<>> while it waits for its first member
    loop,       \* where the batcher thread is
    handed,     \* history: the requests the handler was given, in order
    counts      \* the registry's received, rejected, expired, batched and failed

formVars == <<overdue, forming, loop, handed, counts>>
batcherVars == <<queueVars, formVars>>

BatcherInit ==
    /\ NativeQueueInit
    /\ overdue = {} /\ forming = <<>> /\ loop = "first" /\ handed = <<>>
    /\ counts = [received |-> 0, rejected |-> 0, expired |-> 0, batched |-> 0, failed |-> 0]

DeadlinePasses(i) ==
    /\ i \in Hurried \ overdue
    /\ overdue' = overdue \cup {i}
    /\ UNCHANGED <<queueVars, forming, loop, handed, counts>>

-----------------------------------------------------------------------------
(* submit and try_submit.                                                  *)

SubmitItem(i) ==
    /\ \E how \in {"push", "try_push"} : Call(i, how)
    /\ counts' = [counts EXCEPT !.received = @ + 1]
    /\ UNCHANGED <<overdue, forming, loop, handed>>

ItemAccepted(i) == Accept(i, "accepted") /\ UNCHANGED formVars

ItemRejected(i) ==
    /\ Refuse(i)
    /\ counts' = [counts EXCEPT !.rejected = @ + 1]
    /\ UNCHANGED <<overdue, forming, loop, handed>>

-----------------------------------------------------------------------------
(* The batcher thread.                                                     *)

\* drop_if_expired: the expiry handler may throw, which is counted and goes no further.
Drop ==
    \E failures \in {0, 1} :
        counts' = [counts EXCEPT !.expired = @ + 1, !.failed = @ + failures]

\* Mutation: an expired first request makes an empty batch, which run() takes for the end.
TakeFirstOnce ==
    /\ loop = "first" /\ Dequeue
    /\ IF Head(fifo) \in overdue
         THEN Drop /\ loop' = "ended" /\ UNCHANGED forming
         ELSE forming' = <<Head(fifo)>> /\ loop' = "fill" /\ UNCHANGED counts
    /\ UNCHANGED <<overdue, handed>>

\* pop(first) and drop_if_expired, until a request is live.
TakeFirst ==
    /\ loop = "first" /\ Dequeue
    /\ IF Head(fifo) \in overdue
         THEN Drop /\ UNCHANGED <<forming, loop>>
         ELSE forming' = <<Head(fifo)>> /\ loop' = "fill" /\ UNCHANGED counts
    /\ UNCHANGED <<overdue, handed>>

\* An empty batch: run() returns.
EndOfQueue ==
    /\ loop = "first" /\ Drained
    /\ loop' = "ended"
    /\ UNCHANGED <<queueVars, overdue, forming, handed, counts>>

\* pop_for answers Ok.
TakeNext ==
    /\ loop = "fill" /\ Len(forming) < BatchLimit /\ Dequeue
    /\ IF Head(fifo) \in overdue
         THEN Drop /\ UNCHANGED forming
         ELSE forming' = Append(forming, Head(fifo)) /\ UNCHANGED counts
    /\ UNCHANGED <<overdue, loop, handed>>

\* The batch is full, its time is up, or pop_for answers Closed.  Closed means drained, so
\* that the try_pop loop which follows it in the code finds nothing.
CloseBatch ==
    /\ loop = "fill"
    /\ loop' = "deliver"
    /\ UNCHANGED <<queueVars, overdue, forming, handed, counts>>

\* run(): the batch is recorded and handed over.  A handler that throws is one failure,
\* whatever the size of the batch.
Deliver ==
    /\ loop = "deliver"
    /\ handed' = handed \o forming
    /\ \E failures \in {0, 1} :
         counts' = [counts EXCEPT !.batched = @ + Len(forming), !.failed = @ + failures]
    /\ forming' = <<>> /\ loop' = "first"
    /\ UNCHANGED <<queueVars, overdue>>

BatcherThread == TakeFirst \/ EndOfQueue \/ TakeNext \/ CloseBatch \/ Deliver

BatcherNext ==
    \/ \E i \in Items : DeadlinePasses(i) \/ SubmitItem(i) \/ ItemAccepted(i) \/ ItemRejected(i)
    \/ BatcherThread
    \/ \E c \in Closers : Shutdown(c, loop = "ended") /\ UNCHANGED formVars

BatcherSpec == BatcherInit /\ [][BatcherNext]_batcherVars

-----------------------------------------------------------------------------
(* Properties.                                                             *)

\* What was accepted and not dropped, in the order in which it reaches the handler.
Remaining == (handed \o forming) \o fifo
Dropped == {i \in Items : i \in ToSet(entered) /\ i \notin ToSet(Remaining)}

\* Every accepted request is, at any moment, in the queue, in a batch, or was dropped because
\* it was late: in the order of acceptance, none twice and none lost.  A batch that is handed
\* over is neither empty nor too large.  The call of shutdown that joins the thread leaves
\* nothing behind, although submitters race with it, and the counters then account for every
\* call.
AcceptedIsHandled ==
    /\ Dropped \subseteq overdue /\ Cardinality(Dropped) = counts.expired
    /\ Remaining = Keep(entered, Items \ Dropped)
    /\ loop = "deliver" => Len(forming) \in 1 .. BatchLimit
    /\ ShutdownDone => /\ fifo = <<>> /\ forming = <<>>
                       /\ SubmittersAtRest =>
                            counts.received = counts.rejected + counts.expired + counts.batched

=============================================================================

---------------------------- MODULE NativeProofs ----------------------------
(***************************************************************************)
(* Theorems about the native code: the two users of the C++ queue,         *)
(* NativeBatcher and ThreadPool, for any number of items, workers and      *)
(* threads that call shutdown, any queue_capacity and any max_batch_size;  *)
(* and MemoryPool, for any backend and any sizes.                          *)
(*                                                                         *)
(* NativeBatcher: accepted requests reach the handler in order, none       *)
(* twice, and only late ones are dropped; a shutdown that has joined the   *)
(* thread leaves nothing behind.  What the thread does to the stream of    *)
(* accepted requests is one of three things: nothing (it moves the head of *)
(* the queue to the batch, or the batch to the handler), an addition at    *)
(* the end, or the removal of the head of the queue, which is where        *)
(* FilteringProofs is used.                                                *)
(*                                                                         *)
(* ThreadPool: a task that submit accepted runs exactly once, also when    *)
(* shutdown races with submit, and the relaxed counters add up.            *)
(*                                                                         *)
(* MemoryPool: a block is handed out or cached, once, under the size the   *)
(* backend knows, and the statistics are exact.  Bytes are sums over       *)
(* finite sets, so that each step is told by what one block changes.       *)
(***************************************************************************)
EXTENDS NativeBatcher, ThreadPool, MemoryPool, FilteringProofs

-----------------------------------------------------------------------------
(* NativeBatcher: the inductive invariant.                                 *)

Tallies == [received : Nat, rejected : Nat, expired : Nat, batched : Nat, failed : Nat]
BatcherTypes ==
    /\ fifo \in Seq(Items) /\ entered \in Seq(Items) /\ forming \in Seq(Items) /\ handed \in Seq(Items)
    /\ submitter \in [Items -> {"idle", "push", "try_push", "accepted", "refused"}]
    /\ closer \in [Closers -> {"idle", "returned early", "close", "join", "joined"}]
    /\ loop \in {"first", "fill", "deliver", "ended"}
    /\ counts \in Tallies

\* The history lists each accepted request once; what remains of it is what was not dropped.
StreamKept ==
    /\ Distinct(entered) /\ \A i \in Items : Has(entered, i) <=> submitter[i] = "accepted"
    /\ Remaining = Keep(entered, Items \ Dropped)
    /\ Dropped \subseteq overdue

\* Calls that wait for the queue.
Waiting == {i \in Items : submitter[i] \in {"push", "try_push"}}
CountsExact ==
    /\ counts.expired = Cardinality(Dropped)
    /\ counts.received = counts.rejected + Cardinality(Waiting) + Len(entered)
    /\ counts.batched = Len(handed)
    /\ Len(entered) = Len(handed) + Len(forming) + Len(fifo) + counts.expired

\* The batch has members exactly while it is filled or handed over, and the thread ends
\* only when nothing is left and nothing can follow.
LoopExact ==
    /\ loop \in {"first", "ended"} => forming = <<>>
    /\ loop \in {"fill", "deliver"} => Len(forming) \in 1 .. BatchLimit
    /\ loop = "ended" => Drained
    /\ ShutdownDone => loop = "ended"

\* The inductive invariant.
BatcherInv == BatcherTypes /\ StreamKept /\ CountsExact /\ LoopExact

-----------------------------------------------------------------------------
(* The stream of requests.                                                 *)

\* Lengths and counters are natural numbers.
LEMMA Numbers ==
    ASSUME BatcherTypes
    PROVE  /\ Len(fifo) \in Nat /\ Len(entered) \in Nat /\ Len(forming) \in Nat /\ Len(handed) \in Nat
           /\ counts \in Tallies /\ counts.received \in Nat /\ counts.rejected \in Nat
           /\ counts.expired \in Nat /\ counts.batched \in Nat
<1>1. Len(fifo) \in Nat /\ Len(entered) \in Nat /\ Len(forming) \in Nat /\ Len(handed) \in Nat
  BY LenProperties DEF BatcherTypes
<1>2. counts \in Tallies
  BY DEF BatcherTypes
<1> QED BY <1>1, <1>2 DEF Tallies

\* The set of the elements of a list.
LEMMA ToSetMembers ==
    ASSUME NEW X, NEW q \in Seq(X)
    PROVE  \A y : y \in ToSet(q) <=> Has(q, y)
BY ListedMembers DEF ToSet, Listed

\* A request was dropped if it was accepted and is nowhere.
LEMMA DroppedMember ==
    ASSUME BatcherTypes
    PROVE  /\ Remaining \in Seq(Items) /\ IsFiniteSet(Dropped) /\ Cardinality(Dropped) \in Nat
           /\ \A i : i \in Dropped <=> i \in Items /\ Has(entered, i) /\ ~Has(Remaining, i)
<1>1. Remaining \in Seq(Items)
  <2>1. handed \o forming \in Seq(Items)
    BY ConcatProperties DEF BatcherTypes
  <2> QED BY <2>1, ConcatProperties DEF BatcherTypes, Remaining
<1>2. \A i : /\ i \in ToSet(Remaining) <=> Has(Remaining, i)
             /\ i \in ToSet(entered) <=> Has(entered, i)
  BY <1>1, ToSetMembers DEF BatcherTypes
<1>3. IsFiniteSet(Dropped) /\ Cardinality(Dropped) \in Nat
  <2>1. Dropped \subseteq Items
    BY DEF Dropped
  <2>2. IsFiniteSet(Dropped)
    BY <2>1, NativeQueueAssumption, FS_Subset
  <2> QED BY <2>2, FS_CardinalityType
<1> QED BY <1>1, <1>2, <1>3 DEF Dropped

\* Calls that wait are finitely many.
LEMMA WaitingFinite == IsFiniteSet(Waiting) /\ Cardinality(Waiting) \in Nat
<1>1. Waiting \subseteq Items
  BY DEF Waiting
<1>2. IsFiniteSet(Waiting)
  BY <1>1, NativeQueueAssumption, FS_Subset
<1> QED BY <1>2, FS_CardinalityType

\* Steps that leave the stream as it is.
LEMMA StreamUnchanged ==
    ASSUME StreamKept, entered' = entered, Remaining' = Remaining, overdue \subseteq overdue',
           \A i \in Items : submitter'[i] = "accepted" <=> submitter[i] = "accepted"
    PROVE  StreamKept' /\ Dropped' = Dropped
<1>1. Dropped' = Dropped
  BY DEF Dropped
<1> QED BY <1>1 DEF StreamKept

\* push: a request joins the end of the stream.
LEMMA StreamAppended ==
    ASSUME BatcherTypes, StreamKept, NEW i \in Items,
           fifo' = Append(fifo, i), entered' = Append(entered, i),
           UNCHANGED <<handed, forming, overdue>>, submitter[i] # "accepted",
           submitter' = [submitter EXCEPT ![i] = "accepted"]
    PROVE  StreamKept' /\ Dropped' = Dropped
<1>0. fifo \in Seq(Items) /\ entered \in Seq(Items)
  BY DEF BatcherTypes
<1>1. /\ Remaining \in Seq(Items)
      /\ \A j : j \in Dropped <=> j \in Items /\ Has(entered, j) /\ ~Has(Remaining, j)
  BY DroppedMember
<1>2. Remaining' = Append(Remaining, i) /\ Remaining' \in Seq(Items) /\ entered' \in Seq(Items)
  <2>1. handed \o forming \in Seq(Items)
    BY ConcatProperties DEF BatcherTypes
  <2>2. (handed \o forming) \o Append(fifo, i) = Append((handed \o forming) \o fifo, i)
    <3>1. PICK u \in Seq(Items) : u = handed \o forming
      BY <2>1
    <3>2. u \o Append(fifo, i) = Append(u \o fifo, i)
      BY <1>0, ConcatAppend
    <3> QED BY <3>1, <3>2
  <2>3. Remaining' = Append(Remaining, i)
    BY <2>2 DEF Remaining
  <2> QED BY <1>0, <1>1, <2>3, AppendProperties
<1>3. /\ \A j : Has(entered', j) <=> Has(entered, j) \/ j = i
      /\ \A j : Has(Remaining', j) <=> Has(Remaining, j) \/ j = i
      /\ \A j : j \in Dropped' <=> j \in Items /\ Has(entered', j) /\ ~Has(Remaining', j)
  <2>1. \A j : Has(Append(entered, i), j) <=> Has(entered, j) \/ j = i
    BY <1>0, HasAppend
  <2>2. \A j : Has(Append(Remaining, i), j) <=> Has(Remaining, j) \/ j = i
    BY <1>1, HasAppend
  <2>3. \A j : /\ j \in ToSet(entered') <=> Has(entered', j)
               /\ j \in ToSet(Remaining') <=> Has(Remaining', j)
    BY <1>2, ToSetMembers
  <2>4. \A j : j \in Dropped' <=> j \in Items /\ Has(entered', j) /\ ~Has(Remaining', j)
    BY <2>3 DEF Dropped
  <2> QED BY <1>2, <2>1, <2>2, <2>4
<1>4. ~Has(entered, i)
  BY DEF StreamKept
<1>5. Dropped' = Dropped /\ i \notin Dropped
  BY <1>1, <1>3, <1>4
<1>6. Keep(entered', Items \ Dropped') = Append(Keep(entered, Items \ Dropped), i)
  <2>1. \A S : Keep(Append(entered, i), S)
                 = IF i \in S THEN Append(Keep(entered, S), i) ELSE Keep(entered, S)
    BY <1>0, KeepAppend
  <2> QED BY <1>5, <2>1
<1>7. Distinct(entered')
  BY <1>0, <1>4, DistinctAppend DEF StreamKept
<1>8. \A j \in Items : Has(entered', j) <=> submitter'[j] = "accepted"
  BY <1>3 DEF StreamKept, BatcherTypes
<1> QED BY <1>2, <1>5, <1>6, <1>7, <1>8 DEF StreamKept

\* drop_if_expired: the head of the queue leaves the stream.
LEMMA StreamDropped ==
    ASSUME BatcherTypes, StreamKept, fifo # <<>>, Head(fifo) \in overdue,
           fifo' = Tail(fifo), UNCHANGED <<entered, handed, forming, overdue, submitter>>
    PROVE  StreamKept' /\ Cardinality(Dropped') = Cardinality(Dropped) + 1
<1> DEFINE a == handed \o forming
<1>0. PICK h : h = Head(fifo)
  OBVIOUS
<1>1. /\ a \in Seq(Items) /\ Remaining = a \o fifo /\ Remaining' = a \o Tail(fifo) /\ h \in Items
      /\ fifo \in Seq(Items)
  BY <1>0, ConcatProperties, TailShift DEF BatcherTypes, Remaining
<1>2. /\ Remaining \in Seq(Items) /\ IsFiniteSet(Dropped)
      /\ \A j : j \in Dropped <=> j \in Items /\ Has(entered, j) /\ ~Has(Remaining, j)
  BY DroppedMember
<1> HIDE DEF a
<1>3. \A j : j \in Dropped' <=> j \in Items /\ Has(entered, j) /\ ~Has(Remaining', j)
  <2>1. Tail(fifo) \in Seq(Items)
    BY <1>1, TailShift
  <2>2. Remaining' \in Seq(Items) /\ entered \in Seq(Items)
    BY <1>1, <2>1, ConcatProperties DEF BatcherTypes
  <2>3. \A j : /\ j \in ToSet(entered) <=> Has(entered, j)
               /\ j \in ToSet(Remaining') <=> Has(Remaining', j)
    BY <2>2, ToSetMembers
  <2> QED BY <2>3 DEF Dropped
<1>4. Distinct(Remaining)
  BY KeepDistinct DEF StreamKept, BatcherTypes
<1>5. Keep(Remaining, Items \ {h}) = Remaining' /\ ~Has(Remaining', h)
  BY <1>0, <1>1, <1>4, DropHead
<1>6. \A j : Has(Remaining', j) <=> j \in Items \ {h} /\ Has(Remaining, j)
  BY <1>2, <1>5, KeepMembers
<1>7. Has(Remaining, h) /\ Has(entered, h)
  <2>1. Has(fifo, h)
    BY <1>0, <1>1, HasTail
  <2>2. Has(Remaining, h)
    BY <1>1, <2>1, HasConcat
  <2> QED BY <2>2, KeepMembers DEF StreamKept, BatcherTypes
<1>8. Dropped' = Dropped \cup {h} /\ h \notin Dropped
  BY <1>1, <1>2, <1>3, <1>6, <1>7
<1>9. Cardinality(Dropped') = Cardinality(Dropped) + 1
  BY <1>2, <1>8, FS_AddElement
<1>10. Keep(entered, Items \ Dropped') = Remaining'
  <2>1. (Items \ Dropped) \cap (Items \ {h}) = Items \ Dropped'
    BY <1>8
  <2>2. \A S, T : Keep(Keep(entered, S), T) = Keep(entered, S \cap T)
    <3> TAKE S, T
    <3>1. entered \in Seq(Items)
      BY DEF BatcherTypes
    <3> QED BY <3>1, KeepKeep
  <2>3. Keep(Keep(entered, Items \ Dropped), Items \ {h}) = Keep(entered, Items \ Dropped')
    BY <2>1, <2>2
  <2> QED BY <1>5, <2>3 DEF StreamKept
<1>11. Dropped' \subseteq overdue'
  BY <1>0, <1>8 DEF StreamKept
<1> QED BY <1>9, <1>10, <1>11 DEF StreamKept

\* The head of the queue joins the batch: the stream does not change.
LEMMA StreamMoved ==
    ASSUME BatcherTypes, fifo # <<>>, fifo' = Tail(fifo), forming' = Append(forming, Head(fifo)),
           UNCHANGED handed
    PROVE  Remaining' = Remaining
<1>1. handed \o forming \in Seq(Items) /\ Head(fifo) \in Items /\ fifo \in Seq(Items)
  BY ConcatProperties, TailShift DEF BatcherTypes
<1>2. handed \in Seq(Items) /\ forming \in Seq(Items)
  BY DEF BatcherTypes
<1>3. handed \o Append(forming, Head(fifo)) = Append(handed \o forming, Head(fifo))
  BY <1>1, <1>2, ConcatAppend
<1>4. Append(handed \o forming, Head(fifo)) \o Tail(fifo) = (handed \o forming) \o fifo
  BY <1>1, MoveHead
<1> QED BY <1>3, <1>4 DEF Remaining

-----------------------------------------------------------------------------
(* Steps.                                                                  *)

\* A new batcher.
LEMMA InitBatcherInv == BatcherInit => BatcherInv
<1> SUFFICES ASSUME BatcherInit PROVE BatcherInv
  OBVIOUS
<1> USE DEF BatcherInit, NativeQueueInit
<1>1. <<>> \in Seq(Items) /\ Len(<<>>) = 0 /\ \A i : ~Has(<<>>, i)
  BY DEF Has
<1>2. BatcherTypes
  <2>1. counts \in Tallies
    BY DEF Tallies
  <2> QED BY <1>1, <2>1 DEF BatcherTypes
<1>3. Remaining = <<>>
  <2>1. <<>> \o <<>> = <<>>
    BY <1>1, ConcatEmptySeq
  <2> QED BY <2>1 DEF Remaining
<1>4. Dropped = {}
  BY <1>1, <1>2, DroppedMember
<1>5. StreamKept
  BY <1>1, <1>3, <1>4, KeepEmpty DEF StreamKept, Distinct
<1>6. Waiting = {}
  BY DEF Waiting
<1>7. CountsExact
  BY <1>1, <1>4, <1>6, FS_EmptySet DEF CountsExact
<1>8. LoopExact
  BY DEF LoopExact, ShutdownDone
<1> QED BY <1>2, <1>5, <1>7, <1>8 DEF BatcherInv

\* A deadline passes: more may be dropped.
LEMMA DeadlineStep ==
    ASSUME BatcherInv, NEW i \in Items, DeadlinePasses(i)
    PROVE  BatcherInv'
<1> USE DEF BatcherInv
<1>1. overdue \subseteq overdue' /\ UNCHANGED <<queueVars, forming, loop, handed, counts>>
  BY DEF DeadlinePasses
<1>2. BatcherTypes'
  BY <1>1 DEF BatcherTypes, queueVars
<1>3. StreamKept' /\ Dropped' = Dropped
  BY <1>1, StreamUnchanged DEF queueVars, Remaining
<1>4. CountsExact'
  BY <1>1, <1>3 DEF CountsExact, queueVars, Waiting
<1>5. LoopExact'
  BY <1>1 DEF LoopExact, queueVars, Drained, ShutdownDone
<1> QED BY <1>2, <1>3, <1>4, <1>5

\* A call enters submit or try_submit.
LEMMA SubmitStep ==
    ASSUME BatcherInv, NEW i \in Items, SubmitItem(i)
    PROVE  BatcherInv'
<1> USE DEF BatcherInv
<1>1. PICK how \in {"push", "try_push"} : submitter' = [submitter EXCEPT ![i] = how]
  BY DEF SubmitItem, Call
<1>2. /\ submitter[i] = "idle" /\ counts' = [counts EXCEPT !.received = @ + 1]
      /\ UNCHANGED <<fifo, fifoClosed, entered, closer, overdue, forming, loop, handed>>
  BY DEF SubmitItem, Call
<1>3. /\ counts' \in Tallies
      /\ counts'.received = counts.received + 1 /\ counts'.rejected = counts.rejected
      /\ counts'.expired = counts.expired /\ counts'.batched = counts.batched
      /\ counts.received \in Nat /\ counts.rejected \in Nat
  <2>1. counts \in Tallies /\ counts.received + 1 \in Nat /\ counts.rejected + 1 \in Nat
    BY Numbers
  <2>2. counts' \in Tallies
    BY <1>2, <2>1 DEF Tallies
  <2> QED BY <1>2, <2>1, <2>2 DEF Tallies
<1>4. BatcherTypes'
  BY <1>1, <1>2, <1>3 DEF BatcherTypes
<1>5. StreamKept' /\ Dropped' = Dropped
  <2>1. \A j \in Items : submitter'[j] = "accepted" <=> submitter[j] = "accepted"
    BY <1>1, <1>2 DEF BatcherTypes
  <2> QED BY <1>2, <2>1, StreamUnchanged DEF Remaining
<1>6. Waiting' = Waiting \cup {i} /\ i \notin Waiting
  BY <1>1, <1>2 DEF Waiting, BatcherTypes
<1>7. Cardinality(Waiting') = Cardinality(Waiting) + 1 /\ Cardinality(Waiting) \in Nat
  BY <1>6, WaitingFinite, FS_AddElement
<1>8. Len(entered) \in Nat
  BY LenProperties DEF BatcherTypes
<1>9. CountsExact'
  <2>1. counts.received = counts.rejected + Cardinality(Waiting) + Len(entered)
    BY DEF CountsExact
  <2>2. counts'.received = counts'.rejected + Cardinality(Waiting') + Len(entered)
    BY <1>3, <1>7, <1>8, <2>1
  <2> QED BY <1>2, <1>3, <1>5, <2>2 DEF CountsExact
<1>10. LoopExact'
  BY <1>2 DEF LoopExact, Drained, ShutdownDone
<1> QED BY <1>4, <1>5, <1>9, <1>10

\* push returns Ok: the queue is not closed, so that the thread has not ended.
LEMMA AcceptedStep ==
    ASSUME BatcherInv, NEW i \in Items, ItemAccepted(i)
    PROVE  BatcherInv'
<1> USE DEF BatcherInv
<1>1. /\ submitter[i] \in {"push", "try_push"} /\ submitter' = [submitter EXCEPT ![i] = "accepted"]
      /\ ~fifoClosed /\ fifo' = Append(fifo, i) /\ entered' = Append(entered, i)
      /\ UNCHANGED <<fifoClosed, closer, overdue, forming, loop, handed, counts>>
  BY DEF ItemAccepted, Accept, formVars
<1>2. /\ fifo' \in Seq(Items) /\ Len(fifo') = Len(fifo) + 1
      /\ entered' \in Seq(Items) /\ Len(entered') = Len(entered) + 1
  <2>1. fifo \in Seq(Items) /\ entered \in Seq(Items)
    BY DEF BatcherTypes
  <2> QED BY <1>1, <2>1, AppendProperties
<1>3. BatcherTypes'
  BY <1>1, <1>2 DEF BatcherTypes
<1>4. StreamKept' /\ Dropped' = Dropped
  BY <1>1, StreamAppended
<1>5. Waiting' = Waiting \ {i} /\ i \in Waiting
  BY <1>1 DEF Waiting, BatcherTypes
<1>6. Cardinality(Waiting') = Cardinality(Waiting) - 1 /\ Cardinality(Waiting) \in Nat
  BY <1>5, WaitingFinite, FS_RemoveElement
<1>7. CountsExact'
  <2>1. counts.received = counts.rejected + Cardinality(Waiting') + Len(entered')
    <3>1. counts.received = counts.rejected + Cardinality(Waiting) + Len(entered)
      BY DEF CountsExact
    <3>2. counts.rejected \in Nat /\ Len(entered) \in Nat
      BY Numbers
    <3>3. PICK a \in Nat, c \in Nat, n \in Nat :
            a = counts.rejected /\ c = Cardinality(Waiting) /\ n = Len(entered)
      BY <1>6, <3>2
    <3>4. Cardinality(Waiting') = c - 1 /\ Len(entered') = n + 1
      BY <1>2, <1>6, <3>3
    <3>5. a + c + n = a + (c - 1) + (n + 1)
      <4>1. a \in Nat /\ c \in Nat /\ n \in Nat
        BY <3>3
      <4> QED BY <4>1
    <3> QED BY <3>1, <3>3, <3>4, <3>5, Zenon
  <2>2. Len(entered') = Len(handed) + Len(forming) + Len(fifo') + counts.expired
    BY <1>2, Numbers DEF CountsExact
  <2> QED BY <1>1, <1>4, <2>1, <2>2 DEF CountsExact
<1>8. LoopExact'
  BY <1>1 DEF LoopExact, Drained, ShutdownDone
<1> QED BY <1>3, <1>4, <1>7, <1>8

\* push or try_push refuses the request.
LEMMA RejectedStep ==
    ASSUME BatcherInv, NEW i \in Items, ItemRejected(i)
    PROVE  BatcherInv'
<1> USE DEF BatcherInv
<1>1. /\ submitter[i] \in {"push", "try_push"} /\ submitter' = [submitter EXCEPT ![i] = "refused"]
      /\ counts' = [counts EXCEPT !.rejected = @ + 1]
      /\ UNCHANGED <<fifo, fifoClosed, entered, closer, overdue, forming, loop, handed>>
  BY DEF ItemRejected, Refuse
<1>2. /\ counts' \in Tallies
      /\ counts'.rejected = counts.rejected + 1 /\ counts'.received = counts.received
      /\ counts'.expired = counts.expired /\ counts'.batched = counts.batched
      /\ counts.received \in Nat /\ counts.rejected \in Nat
  <2>1. counts \in Tallies /\ counts.received + 1 \in Nat /\ counts.rejected + 1 \in Nat
    BY Numbers
  <2>2. counts' \in Tallies
    BY <1>1, <2>1 DEF Tallies
  <2> QED BY <1>1, <2>1, <2>2 DEF Tallies
<1>3. BatcherTypes'
  BY <1>1, <1>2 DEF BatcherTypes
<1>4. StreamKept' /\ Dropped' = Dropped
  <2>1. \A j \in Items : submitter'[j] = "accepted" <=> submitter[j] = "accepted"
    BY <1>1 DEF BatcherTypes
  <2> QED BY <1>1, <2>1, StreamUnchanged DEF Remaining
<1>5. Waiting' = Waiting \ {i} /\ i \in Waiting
  BY <1>1 DEF Waiting, BatcherTypes
<1>6. Cardinality(Waiting') = Cardinality(Waiting) - 1 /\ Cardinality(Waiting) \in Nat
  BY <1>5, WaitingFinite, FS_RemoveElement
<1>7. Len(entered) \in Nat
  BY LenProperties DEF BatcherTypes
<1>8. CountsExact'
  <2>1. counts.received = counts.rejected + Cardinality(Waiting) + Len(entered)
    BY DEF CountsExact
  <2>2. counts'.received = counts'.rejected + Cardinality(Waiting') + Len(entered)
    BY <1>2, <1>6, <1>7, <2>1
  <2> QED BY <1>1, <1>2, <1>4, <2>2 DEF CountsExact
<1>9. LoopExact'
  BY <1>1 DEF LoopExact, Drained, ShutdownDone
<1> QED BY <1>3, <1>4, <1>8, <1>9

\* A late request is dropped and counted.
LEMMA DropStep ==
    ASSUME BatcherInv, Dequeue, Head(fifo) \in overdue, Drop, UNCHANGED <<overdue, forming, loop, handed>>,
           loop \in {"first", "fill"}
    PROVE  BatcherInv'
<1> USE DEF BatcherInv
<1>1. /\ fifo # <<>> /\ fifo' = Tail(fifo) /\ UNCHANGED <<fifoClosed, entered, submitter, closer>>
  BY DEF Dequeue
<1>2. PICK failures \in {0, 1} : counts' = [counts EXCEPT !.expired = @ + 1, !.failed = @ + failures]
  BY DEF Drop
<1>3. /\ counts' \in Tallies
      /\ counts'.rejected = counts.rejected /\ counts'.received = counts.received
      /\ counts'.expired = counts.expired + 1 /\ counts'.batched = counts.batched
      /\ counts.expired \in Nat
  <2>1. /\ counts \in Tallies /\ counts.failed \in Nat /\ counts.batched \in Nat
        /\ counts.expired \in Nat /\ Len(forming) \in Nat
    BY Numbers DEF Tallies
  <2>2. counts.failed + failures \in Nat /\ counts.expired + 1 \in Nat /\ counts.batched + Len(forming) \in Nat
    BY <2>1
  <2>3. counts' \in Tallies
    BY <1>2, <2>1, <2>2 DEF Tallies
  <2> QED BY <1>2, <2>1, <2>3 DEF Tallies
<1>4. /\ fifo' \in Seq(Items) /\ Len(fifo') = Len(fifo) - 1 /\ Len(fifo) \in Nat
      /\ Len(handed) \in Nat /\ Len(forming) \in Nat
  BY <1>1, TailShift, Numbers DEF BatcherTypes
<1>5. BatcherTypes'
  BY <1>1, <1>3, <1>4 DEF BatcherTypes
<1>6. StreamKept' /\ Cardinality(Dropped') = Cardinality(Dropped) + 1
  BY <1>1, StreamDropped
<1>7. Waiting' = Waiting
  BY <1>1 DEF Waiting
<1>8. CountsExact'
  <2>1. Len(entered) = Len(handed) + Len(forming) + Len(fifo) + counts.expired
    BY DEF CountsExact
  <2>2. Len(entered) = Len(handed) + Len(forming) + Len(fifo') + counts'.expired
    BY <1>3, <1>4, <2>1
  <2> QED BY <1>1, <1>3, <1>6, <1>7, <2>2 DEF CountsExact
<1>9. LoopExact'
  BY <1>1 DEF LoopExact, Drained, ShutdownDone
<1> QED BY <1>5, <1>6, <1>8, <1>9

\* A live request joins the batch.
LEMMA JoinStep ==
    ASSUME BatcherInv, Dequeue, loop' = "fill", loop \in {"first", "fill"}, Len(forming) < BatchLimit,
           forming' = Append(forming, Head(fifo)), UNCHANGED <<overdue, handed, counts>>
    PROVE  BatcherInv'
<1> USE DEF BatcherInv
<1>1. /\ fifo # <<>> /\ fifo' = Tail(fifo) /\ UNCHANGED <<fifoClosed, entered, submitter, closer>>
  BY DEF Dequeue
<1>2. /\ fifo' \in Seq(Items) /\ Len(fifo') = Len(fifo) - 1 /\ Len(fifo) \in Nat /\ Head(fifo) \in Items
      /\ Len(handed) \in Nat /\ Len(forming) \in Nat /\ counts.expired \in Nat
  BY <1>1, TailShift, Numbers DEF BatcherTypes
<1>3. forming' \in Seq(Items) /\ Len(forming') = Len(forming) + 1
  <2>1. forming \in Seq(Items)
    BY DEF BatcherTypes
  <2> QED BY <1>2, <2>1, AppendProperties
<1>4. BatcherTypes'
  BY <1>1, <1>2, <1>3 DEF BatcherTypes
<1>5. Remaining' = Remaining
  BY <1>1, StreamMoved
<1>6. StreamKept' /\ Dropped' = Dropped
  BY <1>1, <1>5, StreamUnchanged
<1>7. Waiting' = Waiting
  BY <1>1 DEF Waiting
<1>8. CountsExact'
  BY <1>1, <1>2, <1>3, <1>6, <1>7 DEF CountsExact
<1>9. LoopExact'
  BY <1>1, <1>2, <1>3, BatcherAssumption DEF LoopExact, Drained, ShutdownDone
<1> QED BY <1>4, <1>6, <1>8, <1>9

\* pop(first), and pop_for that answers Ok.
LEMMA TakeStep ==
    ASSUME BatcherInv, TakeFirst \/ TakeNext
    PROVE  BatcherInv'
<1>1. CASE TakeFirst
  <2>1. CASE Head(fifo) \in overdue
    BY <1>1, <2>1, DropStep DEF TakeFirst
  <2>2. CASE Head(fifo) \notin overdue
    <3>1. forming = <<>> /\ Len(forming) = 0 /\ 0 < BatchLimit
      BY <1>1, BatcherAssumption DEF TakeFirst, BatcherInv, LoopExact
    <3>2. forming' = Append(forming, Head(fifo))
      BY <1>1, <2>2, <3>1 DEF TakeFirst
    <3> QED BY <1>1, <2>2, <3>1, <3>2, JoinStep DEF TakeFirst
  <2> QED BY <2>1, <2>2
<1>2. CASE TakeNext
  BY <1>2, DropStep, JoinStep DEF TakeNext
<1> QED BY <1>1, <1>2

\* The queue is drained, or the batch is closed.
LEMMA EndStep ==
    ASSUME BatcherInv, EndOfQueue \/ CloseBatch
    PROVE  BatcherInv'
<1> USE DEF BatcherInv
<1>1. /\ UNCHANGED <<fifo, fifoClosed, entered, submitter, closer, overdue, forming, handed, counts>>
      /\ \/ loop = "first" /\ loop' = "ended" /\ Drained
         \/ loop = "fill" /\ loop' = "deliver"
  BY DEF EndOfQueue, CloseBatch, queueVars
<1>2. BatcherTypes'
  BY <1>1 DEF BatcherTypes
<1>3. StreamKept' /\ Dropped' = Dropped
  BY <1>1, StreamUnchanged DEF Remaining
<1>4. CountsExact'
  BY <1>1, <1>3 DEF CountsExact, Waiting
<1>5. LoopExact'
  BY <1>1 DEF LoopExact, Drained, ShutdownDone
<1> QED BY <1>2, <1>3, <1>4, <1>5

\* The batch is handed over.
LEMMA DeliverStep ==
    ASSUME BatcherInv, Deliver
    PROVE  BatcherInv'
<1> USE DEF BatcherInv
<1>1. /\ loop = "deliver" /\ loop' = "first" /\ forming' = <<>> /\ handed' = handed \o forming
      /\ UNCHANGED <<fifo, fifoClosed, entered, submitter, closer, overdue>>
  BY DEF Deliver, queueVars
<1>2. PICK failures \in {0, 1} :
        counts' = [counts EXCEPT !.batched = @ + Len(forming), !.failed = @ + failures]
  BY DEF Deliver
<1>3. /\ handed' \in Seq(Items) /\ Len(handed') = Len(handed) + Len(forming)
      /\ Len(handed) \in Nat /\ Len(forming) \in Nat /\ Len(fifo) \in Nat
      /\ <<>> \in Seq(Items) /\ Len(<<>>) = 0
  <2>1. handed \in Seq(Items) /\ forming \in Seq(Items)
    BY DEF BatcherTypes
  <2> QED BY <1>1, <2>1, ConcatProperties, Numbers
<1>4. /\ counts' \in Tallies
      /\ counts'.rejected = counts.rejected /\ counts'.received = counts.received
      /\ counts'.expired = counts.expired /\ counts'.batched = counts.batched + Len(forming)
      /\ counts.expired \in Nat
  <2>1. /\ counts \in Tallies /\ counts.failed \in Nat /\ counts.batched \in Nat
        /\ counts.expired \in Nat /\ Len(forming) \in Nat
    BY Numbers DEF Tallies
  <2>2. counts.failed + failures \in Nat /\ counts.expired + 1 \in Nat /\ counts.batched + Len(forming) \in Nat
    BY <2>1
  <2>3. counts' \in Tallies
    BY <1>2, <2>1, <2>2 DEF Tallies
  <2> QED BY <1>2, <2>1, <2>3 DEF Tallies
<1>5. BatcherTypes'
  BY <1>1, <1>3, <1>4 DEF BatcherTypes
<1>6. Remaining' = Remaining
  <2>1. (handed \o forming) \o <<>> = handed \o forming
    BY <1>1, <1>3, ConcatEmptySeq
  <2> QED BY <1>1, <2>1 DEF Remaining
<1>7. StreamKept' /\ Dropped' = Dropped
  BY <1>1, <1>6, StreamUnchanged
<1>8. CountsExact'
  BY <1>1, <1>3, <1>4, <1>7 DEF CountsExact, Waiting
<1>9. LoopExact'
  BY <1>1 DEF LoopExact, Drained, ShutdownDone
<1> QED BY <1>5, <1>7, <1>8, <1>9

\* shutdown returns from the join when the thread has ended.
LEMMA ShutdownStep ==
    ASSUME BatcherInv, NEW c \in Closers, Shutdown(c, loop = "ended"), UNCHANGED formVars
    PROVE  BatcherInv'
<1> USE DEF BatcherInv
<1>1. /\ UNCHANGED <<fifo, entered, submitter, overdue, forming, loop, handed, counts>>
      /\ fifoClosed => fifoClosed'
      /\ \E pc \in {"returned early", "close", "join", "joined"} :
           closer' = [closer EXCEPT ![c] = pc] /\ (pc = "joined" => loop = "ended")
  <2>1. CASE ExchangeStopping(c)
    BY <2>1 DEF ExchangeStopping, formVars
  <2>2. CASE CloseQueue(c)
    BY <2>2 DEF CloseQueue, formVars
  <2>3. CASE JoinThreads(c, loop = "ended")
    BY <2>3 DEF JoinThreads, formVars
  <2> QED BY <2>1, <2>2, <2>3 DEF Shutdown
<1>2. BatcherTypes'
  BY <1>1 DEF BatcherTypes
<1>3. StreamKept' /\ Dropped' = Dropped
  BY <1>1, StreamUnchanged DEF Remaining
<1>4. CountsExact'
  BY <1>1, <1>3 DEF CountsExact, Waiting
<1>5. ShutdownDone' => ShutdownDone \/ loop = "ended"
  BY <1>1 DEF ShutdownDone, BatcherTypes
<1>6. LoopExact'
  BY <1>1, <1>5 DEF LoopExact, Drained
<1> QED BY <1>2, <1>3, <1>4, <1>6

-----------------------------------------------------------------------------
(* The theorems.                                                           *)

\* Every step keeps the inductive invariant.
LEMMA NextBatcherInv == BatcherInv /\ [BatcherNext]_batcherVars => BatcherInv'
<1> SUFFICES ASSUME BatcherInv, [BatcherNext]_batcherVars PROVE BatcherInv'
  OBVIOUS
<1>1. CASE UNCHANGED batcherVars
  <2> USE <1>1 DEF batcherVars, queueVars, formVars, BatcherInv
  <2>1. BatcherTypes'
    BY DEF BatcherTypes
  <2>2. StreamKept' /\ Dropped' = Dropped
    BY StreamUnchanged DEF Remaining
  <2>3. CountsExact'
    BY <2>2 DEF CountsExact, Waiting
  <2>4. LoopExact'
    BY DEF LoopExact, Drained, ShutdownDone
  <2> QED BY <2>1, <2>2, <2>3, <2>4
<1>2. CASE \E i \in Items : DeadlinePasses(i) \/ SubmitItem(i) \/ ItemAccepted(i) \/ ItemRejected(i)
  BY <1>2, DeadlineStep, SubmitStep, AcceptedStep, RejectedStep
<1>3. CASE BatcherThread
  BY <1>3, TakeStep, EndStep, DeliverStep DEF BatcherThread
<1>4. CASE \E c \in Closers : Shutdown(c, loop = "ended") /\ UNCHANGED formVars
  BY <1>4, ShutdownStep
<1> QED BY <1>1, <1>2, <1>3, <1>4 DEF BatcherNext

\* Every reachable state of the batcher satisfies the inductive invariant.
THEOREM BatcherInvariance == BatcherSpec => []BatcherInv
BY InitBatcherInv, NextBatcherInv, PTL DEF BatcherSpec

\* What the handler was given, the batch that is forming and the queue are, in this order,
\* the requests that were accepted without those that were dropped because they were late;
\* a batch is neither empty nor too large; a shutdown that has joined the thread leaves
\* nothing behind, and received_ is then the sum of the other counters.
THEOREM AcceptedIsHandledTheorem == BatcherSpec => []AcceptedIsHandled
<1>1. ASSUME BatcherInv PROVE AcceptedIsHandled
  <2> USE <1>1 DEF BatcherInv
  <2>1. ASSUME ShutdownDone
        PROVE  /\ fifo = <<>> /\ forming = <<>>
               /\ SubmittersAtRest =>
                    counts.received = counts.rejected + counts.expired + counts.batched
    <3>1. fifo = <<>> /\ forming = <<>> /\ Len(<<>>) = 0
      BY <2>1 DEF LoopExact, Drained
    <3>2. SubmittersAtRest => Cardinality(Waiting) = 0
      <4>1. SubmittersAtRest => Waiting = {}
        BY DEF SubmittersAtRest, Waiting
      <4> QED BY <4>1, FS_EmptySet
    <3> QED BY <3>1, <3>2, Numbers DEF CountsExact
  <2> QED BY <2>1 DEF AcceptedIsHandled, StreamKept, CountsExact, LoopExact
<1> QED BY <1>1, BatcherInvariance, PTL

-----------------------------------------------------------------------------
(* ThreadPool: the inductive invariant.                                    *)

TaskStates == {"idle", "push", "count", "accepted", "refused"}
WorkerStates == {"waiting", "starting", "running", "leaving", "ended"}

CallTypes ==
    /\ tasks \in Seq(Tasks) /\ queued \in Seq(Tasks) /\ tasksClosed \in BOOLEAN
    /\ submitting \in [Tasks -> TaskStates]
    /\ joiner \in [Joiners -> {"idle", "returned early", "close", "join", "joined"}]

RunTypes ==
    /\ worker \in [Workers -> WorkerStates]
    /\ task \in [Workers -> Tasks \cup {NoTask}]
    /\ ran \in [Tasks -> {0, 1}]
    /\ tally \in [submitted : Nat, completed : Nat, failed : Nat, active : Nat]
    /\ \A w \in Workers : worker[w] \in {"starting", "running"} => task[w] \in Tasks

\* An accepted task is in the queue, with one worker, or was run.
Accepted(t) == submitting[t] \in {"count", "accepted"}
InHands(t) == \E w \in Workers : InHand(w, t)
OnePlace(t) ==
    /\ Once(tasks, t) /\ \A v, w \in Workers : InHand(v, t) /\ InHand(w, t) => v = w
    /\ Has(tasks, t) => ~InHands(t)
    /\ ran[t] = 1 => ~Has(tasks, t) /\ ~InHands(t)
    /\ Accepted(t) <=> ran[t] = 1 \/ Has(tasks, t) \/ InHands(t)
TasksPlaced == \A t \in Tasks : OnePlace(t)

\* The history lists each accepted task once.
HistoryExact == Distinct(queued) /\ \A t \in Tasks : Has(queued, t) <=> Accepted(t)

RunTasks == {t \in Tasks : ran[t] # 0}
Counting == {t \in Tasks : submitting[t] = "count"}
Active == {w \in Workers : worker[w] \in {"running", "leaving"}}
TallyExact ==
    /\ tally.completed + tally.failed = Cardinality(RunTasks)
    /\ tally.submitted + Cardinality(Counting) = Len(queued)
    /\ tally.active = Cardinality(Active)

\* A worker ends only when nothing is left and nothing can follow.
EndsDrained ==
    /\ \A w \in Workers : worker[w] = "ended" => Q!Drained
    /\ Q!ShutdownDone => AllEnded

\* The inductive invariant.
PoolInv == CallTypes /\ RunTypes /\ TasksPlaced /\ HistoryExact /\ TallyExact /\ EndsDrained

-----------------------------------------------------------------------------
(* Steps, seen from the counters and the end.                              *)

\* A new pool.
LEMMA InitPoolInv == PoolInit => PoolInv
<1> SUFFICES ASSUME PoolInit PROVE PoolInv
  OBVIOUS
<1> USE DEF PoolInit, Q!NativeQueueInit
<1>1. CallTypes
  <2>1. <<>> \in Seq(Tasks)
    OBVIOUS
  <2> QED BY <2>1 DEF CallTypes, TaskStates
<1>2. RunTypes
  BY DEF RunTypes, WorkerStates
<1>3. \A t : ~Has(<<>>, t) /\ Once(<<>>, t)
  BY DEF Has, Once
<1>4. TasksPlaced
  BY <1>3 DEF TasksPlaced, OnePlace, InHands, InHand, Accepted
<1>5. HistoryExact
  BY <1>3 DEF HistoryExact, Distinct, Accepted
<1>6. RunTasks = {} /\ Counting = {} /\ Active = {} /\ Len(queued) = 0
  BY DEF RunTasks, Counting, Active
<1>7. TallyExact
  BY <1>6, FS_EmptySet DEF TallyExact
<1>8. EndsDrained
  BY DEF EndsDrained, Q!ShutdownDone
<1> QED BY <1>1, <1>2, <1>4, <1>5, <1>7, <1>8 DEF PoolInv

\* The sets that the counters count are finite.
LEMMA FiniteCounts ==
    /\ IsFiniteSet(RunTasks) /\ IsFiniteSet(Counting) /\ IsFiniteSet(Active)
    /\ Cardinality(RunTasks) \in Nat /\ Cardinality(Counting) \in Nat /\ Cardinality(Active) \in Nat
<1>1. RunTasks \subseteq Tasks /\ Counting \subseteq Tasks /\ Active \subseteq Workers
  BY DEF RunTasks, Counting, Active
<1>2. IsFiniteSet(RunTasks) /\ IsFiniteSet(Counting) /\ IsFiniteSet(Active)
  BY <1>1, PoolAssumption, FS_Subset
<1> QED BY <1>2, FS_CardinalityType

\* Steps that move no task.
LEMMA SamePlaces ==
    ASSUME TasksPlaced, HistoryExact, UNCHANGED <<tasks, queued, submitting, worker, task, ran>>
    PROVE  TasksPlaced' /\ HistoryExact'
<1>1. \A t \in Tasks : Accepted(t)' <=> Accepted(t)
  BY DEF Accepted
<1>2. \A w \in Workers : \A t \in Tasks : InHand(w, t)' <=> InHand(w, t)
  BY DEF InHand
<1>3. \A t \in Tasks : InHands(t)' <=> InHands(t)
  BY <1>2 DEF InHands
<1>4. TasksPlaced'
  BY <1>1, <1>2, <1>3 DEF TasksPlaced, OnePlace
<1> QED BY <1>1, <1>4 DEF HistoryExact

\* submit is called or refused.
LEMMA CallStep ==
    ASSUME PoolInv, NEW i \in Tasks, SubmitTask(i) \/ TaskRefused(i)
    PROVE  PoolInv'
<1> USE DEF PoolInv
<1>1. /\ \E pc \in {"push", "refused"} : submitting' = [submitting EXCEPT ![i] = pc]
      /\ submitting[i] \in {"idle", "push"}
      /\ UNCHANGED <<tasks, tasksClosed, queued, joiner, worker, task, ran, tally>>
  BY DEF SubmitTask, TaskRefused, Q!Call, Q!Refuse, workVars, CallTypes, TaskStates
<1>2. CallTypes' /\ RunTypes'
  BY <1>1 DEF CallTypes, RunTypes, TaskStates
<1>3. \A t \in Tasks : Accepted(t)' <=> Accepted(t)
  BY <1>1 DEF Accepted, CallTypes
<1>4. TasksPlaced' /\ HistoryExact'
  BY <1>1, <1>3 DEF TasksPlaced, OnePlace, InHands, InHand, HistoryExact
<1>5. Counting' = Counting /\ RunTasks' = RunTasks /\ Active' = Active
  BY <1>1 DEF Counting, RunTasks, Active, CallTypes
<1>6. TallyExact'
  BY <1>1, <1>5 DEF TallyExact
<1>7. EndsDrained'
  BY <1>1 DEF EndsDrained, Q!ShutdownDone, AllEnded, Q!Drained
<1> QED BY <1>2, <1>4, <1>6, <1>7

\* push succeeds: the queue is not closed, so no worker has ended.
LEMMA AcceptStep ==
    ASSUME PoolInv, NEW i \in Tasks, TaskAccepted(i)
    PROVE  PoolInv'
<1> USE DEF PoolInv
<1>1. /\ tasks' = Append(tasks, i) /\ queued' = Append(queued, i) /\ ~tasksClosed
      /\ submitting' = [submitting EXCEPT ![i] = "count"] /\ submitting[i] = "push"
      /\ UNCHANGED <<tasksClosed, joiner, worker, task, ran, tally>>
  BY DEF TaskAccepted, Q!Accept, workVars, CallTypes, TaskStates
<1>2. CallTypes' /\ RunTypes'
  BY <1>1, AppendProperties DEF CallTypes, RunTypes, TaskStates
<1>3. /\ ~Accepted(i) /\ Accepted(i)'
      /\ \A t \in Tasks \ {i} : Accepted(t)' <=> Accepted(t)
  BY <1>1 DEF Accepted, CallTypes
<1>4. \A t \in Tasks : InHands(t)' <=> InHands(t)
  BY <1>1 DEF InHands, InHand
<1>5. /\ \A t \in Tasks : Has(tasks', t) <=> Has(tasks, t) \/ t = i
      /\ \A t \in Tasks : Has(queued', t) <=> Has(queued, t) \/ t = i
  BY <1>1, HasAppend DEF CallTypes
<1>6. ~Has(tasks, i) /\ ~Has(queued, i) /\ ran[i] # 1 /\ ~InHands(i)
  BY <1>3 DEF TasksPlaced, OnePlace, HistoryExact
<1>7. \A t \in Tasks : Once(tasks', t)
  BY <1>1, <1>6, OnceAppend DEF CallTypes, TasksPlaced, OnePlace
<1>8. TasksPlaced'
  BY <1>1, <1>3, <1>4, <1>5, <1>6, <1>7 DEF TasksPlaced, OnePlace, InHand
<1>9. HistoryExact'
  BY <1>1, <1>3, <1>5, <1>6, DistinctAppend DEF HistoryExact, CallTypes
<1>10. Counting' = Counting \cup {i} /\ i \notin Counting /\ RunTasks' = RunTasks /\ Active' = Active
  BY <1>1 DEF Counting, RunTasks, Active, CallTypes
<1>11. Cardinality(Counting') = Cardinality(Counting) + 1
  BY <1>10, FiniteCounts, FS_AddElement
<1>12. Len(queued') = Len(queued) + 1 /\ Len(queued) \in Nat
  BY <1>1, AppendProperties, LenProperties DEF CallTypes
<1>13. TallyExact'
  BY <1>1, <1>10, <1>11, <1>12, FiniteCounts DEF TallyExact, RunTypes
<1>14. EndsDrained'
  BY <1>1 DEF EndsDrained, Q!ShutdownDone, AllEnded, Q!Drained
<1> QED BY <1>2, <1>8, <1>9, <1>13, <1>14

\* The counter follows the push.
LEMMA CountStep ==
    ASSUME PoolInv, NEW i \in Tasks, CountSubmitted(i)
    PROVE  PoolInv'
<1> USE DEF PoolInv
<1>1. /\ submitting' = [submitting EXCEPT ![i] = "accepted"] /\ submitting[i] = "count"
      /\ tally' = [tally EXCEPT !.submitted = @ + 1]
      /\ UNCHANGED <<tasks, tasksClosed, queued, joiner, worker, task, ran>>
  BY DEF CountSubmitted
<1>2. CallTypes' /\ RunTypes'
  <2>1. CallTypes'
    BY <1>1 DEF CallTypes, TaskStates
  <2>2. tally' \in [submitted : Nat, completed : Nat, failed : Nat, active : Nat]
    BY <1>1 DEF RunTypes
  <2> QED BY <1>1, <2>1, <2>2 DEF RunTypes
<1>3. \A t \in Tasks : Accepted(t)' <=> Accepted(t)
  BY <1>1 DEF Accepted, CallTypes
<1>4. TasksPlaced' /\ HistoryExact'
  BY <1>1, <1>3 DEF TasksPlaced, OnePlace, InHands, InHand, HistoryExact
<1>5. Counting' = Counting \ {i} /\ i \in Counting /\ RunTasks' = RunTasks /\ Active' = Active
  BY <1>1 DEF Counting, RunTasks, Active, CallTypes
<1>6. Cardinality(Counting') = Cardinality(Counting) - 1
  BY <1>5, FiniteCounts, FS_RemoveElement
<1>7. tally'.submitted = tally.submitted + 1 /\ tally'.completed = tally.completed
      /\ tally'.failed = tally.failed /\ tally'.active = tally.active /\ tally.submitted \in Nat
  BY <1>1 DEF RunTypes
<1>8. TallyExact'
  BY <1>1, <1>5, <1>6, <1>7, FiniteCounts DEF TallyExact
<1>9. EndsDrained'
  BY <1>1 DEF EndsDrained, Q!ShutdownDone, AllEnded, Q!Drained
<1> QED BY <1>2, <1>4, <1>8, <1>9

\* pop: the task moves from the queue to the worker.
LEMMA PoolTakeStep ==
    ASSUME PoolInv, NEW w \in Workers, TakeTask(w)
    PROVE  PoolInv'
<1> USE DEF PoolInv
<1>0. PICK h : h = Head(tasks)
  OBVIOUS
<1>1. /\ tasks # <<>> /\ tasks' = Tail(tasks) /\ task' = [task EXCEPT ![w] = h]
      /\ worker[w] = "waiting" /\ worker' = [worker EXCEPT ![w] = "starting"]
      /\ UNCHANGED <<tasksClosed, queued, submitting, joiner, ran, tally>>
  BY <1>0 DEF TakeTask, Step, Q!Dequeue
<1>2. h \in Tasks /\ Tail(tasks) \in Seq(Tasks)
  BY <1>0, <1>1, TailShift DEF CallTypes
<1>3. CallTypes'
  BY <1>1, <1>2 DEF CallTypes
<1>4. RunTypes'
  BY <1>1, <1>2 DEF RunTypes, WorkerStates
<1>5. /\ \A t \in Tasks : Has(tasks, t) <=> t = h \/ Has(tasks', t)
      /\ \A t \in Tasks : Once(tasks', t) /\ (t = h => ~Has(tasks', t))
  BY <1>0, <1>1, HasTail, OnceTail DEF CallTypes, TasksPlaced, OnePlace
<1>6. /\ InHand(w, h)' /\ \A t \in Tasks : ~InHand(w, t) /\ (t # h => ~InHand(w, t)')
      /\ \A v \in Workers \ {w} : \A t \in Tasks : InHand(v, t)' <=> InHand(v, t)
  BY <1>1, <1>2 DEF InHand, RunTypes
<1>7. /\ InHands(h)' /\ ~InHands(h)
      /\ \A t \in Tasks \ {h} : InHands(t)' <=> InHands(t)
  BY <1>2, <1>5, <1>6 DEF InHands, TasksPlaced, OnePlace
<1>8. \A t \in Tasks : Accepted(t)' <=> Accepted(t)
  BY <1>1 DEF Accepted
<1>9. TasksPlaced'
  <2> SUFFICES ASSUME NEW t \in Tasks PROVE OnePlace(t)'
    BY DEF TasksPlaced
  <2>1. OnePlace(t) /\ OnePlace(h)
    BY <1>2 DEF TasksPlaced
  <2>2. \A u, v \in Workers : InHand(u, t)' /\ InHand(v, t)' => u = v
    BY <2>1, <1>6, <1>7 DEF OnePlace, InHands
  <2>3. ran'[t] = ran[t]
    BY <1>1
  <2> QED BY <2>1, <2>2, <2>3, <1>5, <1>7, <1>8 DEF OnePlace
<1>10. HistoryExact'
  BY <1>1, <1>8 DEF HistoryExact
<1>11. Counting' = Counting /\ RunTasks' = RunTasks /\ Active' = Active
  BY <1>1 DEF Counting, RunTasks, Active, RunTypes
<1>12. TallyExact'
  BY <1>1, <1>11 DEF TallyExact
<1>13. EndsDrained'
  BY <1>1 DEF EndsDrained, Q!ShutdownDone, AllEnded, Q!Drained, RunTypes
<1> QED BY <1>3, <1>4, <1>9, <1>10, <1>12, <1>13

\* The steps of a worker with its task.
LEMMA ActivateStep ==
    ASSUME PoolInv, NEW w \in Workers, Activate(w)
    PROVE  PoolInv'
<1> USE DEF PoolInv
<1>1. /\ worker[w] = "starting" /\ worker' = [worker EXCEPT ![w] = "running"]
      /\ tally' = [tally EXCEPT !.active = @ + 1] /\ UNCHANGED <<taskVars, task, ran>>
  BY DEF Activate, Step
<1>2. CallTypes'
  BY <1>1 DEF CallTypes, taskVars
<1>3. /\ tally' \in [submitted : Nat, completed : Nat, failed : Nat, active : Nat]
      /\ tally'.submitted = tally.submitted /\ tally'.completed = tally.completed
      /\ tally'.failed = tally.failed /\ tally'.active = tally.active + 1
  BY <1>1 DEF RunTypes
<1>4. RunTypes'
  BY <1>1, <1>3 DEF RunTypes, WorkerStates
<1>5. \A v \in Workers : \A t \in Tasks : InHand(v, t)' <=> InHand(v, t)
  BY <1>1 DEF InHand, RunTypes
<1>6. TasksPlaced' /\ HistoryExact'
  BY <1>1, <1>5 DEF TasksPlaced, OnePlace, InHands, HistoryExact, Accepted, taskVars
<1>7. Counting' = Counting /\ RunTasks' = RunTasks /\ Active' = Active \cup {w} /\ w \notin Active
  BY <1>1 DEF Counting, RunTasks, Active, RunTypes, taskVars
<1>8. Cardinality(Active') = Cardinality(Active) + 1
  BY <1>7, FiniteCounts, FS_AddElement
<1>9. TallyExact'
  BY <1>1, <1>3, <1>7, <1>8 DEF TallyExact, taskVars
<1>10. EndsDrained'
  BY <1>1 DEF EndsDrained, Q!ShutdownDone, AllEnded, Q!Drained, RunTypes, taskVars
<1> QED BY <1>2, <1>4, <1>6, <1>9, <1>10

\* The task returns or throws; either way it was run, and is counted.
LEMMA RunStep ==
    ASSUME PoolInv, NEW w \in Workers, RunTask(w)
    PROVE  PoolInv'
<1> USE DEF PoolInv
<1>0. PICK h : h = task[w]
  OBVIOUS
<1>1. /\ worker[w] = "running" /\ worker' = [worker EXCEPT ![w] = "leaving"]
      /\ \/ tally' = [tally EXCEPT !.completed = @ + 1]
         \/ tally' = [tally EXCEPT !.failed = @ + 1]
      /\ ran' = [ran EXCEPT ![h] = @ + 1] /\ UNCHANGED <<taskVars, task>>
  BY <1>0 DEF RunTask, Step
<1>2. h \in Tasks /\ InHand(w, h) /\ InHands(h)
  BY <1>0, <1>1 DEF RunTypes, InHands, InHand
<1>3. ran[h] = 0 /\ ~Has(tasks, h)
  BY <1>2 DEF TasksPlaced, OnePlace, RunTypes
<1>4. \A v \in Workers \ {w} : ~InHand(v, h)
  BY <1>2 DEF TasksPlaced, OnePlace
<1>5. /\ \A v \in Workers : ~InHand(v, h)'
      /\ \A v \in Workers : \A t \in Tasks \ {h} : InHand(v, t)' <=> InHand(v, t)
  BY <1>0, <1>1, <1>4 DEF InHand, RunTypes
<1>6. ~InHands(h)' /\ \A t \in Tasks \ {h} : InHands(t)' <=> InHands(t)
  BY <1>5 DEF InHands
<1>7. ran'[h] = 1 /\ (\A t \in Tasks \ {h} : ran'[t] = ran[t]) /\ ran' \in [Tasks -> {0, 1}]
  BY <1>1, <1>2, <1>3 DEF RunTypes
<1>8. CallTypes'
  BY <1>1 DEF CallTypes, taskVars
<1>9. /\ tally' \in [submitted : Nat, completed : Nat, failed : Nat, active : Nat]
      /\ tally'.submitted = tally.submitted /\ tally'.active = tally.active
      /\ tally'.completed + tally'.failed = tally.completed + tally.failed + 1
  BY <1>1 DEF RunTypes
<1>10. RunTypes'
  BY <1>1, <1>7, <1>9 DEF RunTypes, WorkerStates
<1>11. \A t \in Tasks : Accepted(t)' <=> Accepted(t)
  BY <1>1 DEF Accepted, taskVars
<1>12. TasksPlaced'
  <2> SUFFICES ASSUME NEW t \in Tasks PROVE OnePlace(t)'
    BY DEF TasksPlaced
  <2>1. OnePlace(t) /\ UNCHANGED tasks
    BY <1>1 DEF TasksPlaced, taskVars
  <2>2. CASE t = h
    BY <2>1, <2>2, <1>2, <1>3, <1>5, <1>6, <1>7, <1>11 DEF OnePlace
  <2>3. CASE t # h
    BY <2>1, <2>3, <1>5, <1>6, <1>7, <1>11 DEF OnePlace
  <2> QED BY <2>2, <2>3
<1>13. HistoryExact'
  BY <1>1, <1>11 DEF HistoryExact, taskVars
<1>14. /\ Counting' = Counting /\ RunTasks' = RunTasks \cup {h} /\ h \notin RunTasks
       /\ Active' = Active
  BY <1>1, <1>2, <1>3, <1>7 DEF Counting, RunTasks, Active, RunTypes, taskVars
<1>15. Cardinality(RunTasks') = Cardinality(RunTasks) + 1
  BY <1>14, FiniteCounts, FS_AddElement
<1>16. TallyExact'
  BY <1>1, <1>9, <1>14, <1>15 DEF TallyExact, taskVars
<1>17. EndsDrained'
  BY <1>1 DEF EndsDrained, Q!ShutdownDone, AllEnded, Q!Drained, RunTypes, taskVars
<1> QED BY <1>8, <1>10, <1>12, <1>13, <1>16, <1>17

\* The worker lets go of its task.
LEMMA DeactivateStep ==
    ASSUME PoolInv, NEW w \in Workers, Deactivate(w)
    PROVE  PoolInv'
<1> USE DEF PoolInv
<1>1. /\ worker[w] = "leaving" /\ worker' = [worker EXCEPT ![w] = "waiting"]
      /\ tally' = [tally EXCEPT !.active = @ - 1] /\ task' = [task EXCEPT ![w] = NoTask]
      /\ UNCHANGED <<taskVars, ran>>
  BY DEF Deactivate, Step
<1>2. CallTypes'
  BY <1>1 DEF CallTypes, taskVars
<1>3. Counting' = Counting /\ RunTasks' = RunTasks /\ Active' = Active \ {w} /\ w \in Active
  BY <1>1 DEF Counting, RunTasks, Active, RunTypes, taskVars
<1>4. Cardinality(Active') = Cardinality(Active) - 1 /\ Cardinality(Active) # 0
  BY <1>3, FiniteCounts, FS_RemoveElement, FS_EmptySet
<1>5. tally.active \in Nat \ {0}
  BY <1>4 DEF TallyExact, RunTypes
<1>6. /\ tally' \in [submitted : Nat, completed : Nat, failed : Nat, active : Nat]
      /\ tally'.submitted = tally.submitted /\ tally'.completed = tally.completed
      /\ tally'.failed = tally.failed /\ tally'.active = tally.active - 1
  BY <1>1, <1>5 DEF RunTypes
<1>7. RunTypes'
  BY <1>1, <1>6 DEF RunTypes, WorkerStates
<1>8. \A v \in Workers : \A t \in Tasks : InHand(v, t)' <=> InHand(v, t)
  BY <1>1 DEF InHand, RunTypes
<1>9. TasksPlaced' /\ HistoryExact'
  BY <1>1, <1>8 DEF TasksPlaced, OnePlace, InHands, HistoryExact, Accepted, taskVars
<1>10. TallyExact'
  BY <1>1, <1>3, <1>4, <1>6 DEF TallyExact, taskVars
<1>11. EndsDrained'
  BY <1>1 DEF EndsDrained, Q!ShutdownDone, AllEnded, Q!Drained, RunTypes, taskVars
<1> QED BY <1>2, <1>7, <1>9, <1>10, <1>11

\* pop answers Closed: the queue is empty and closed.
LEMMA PoolEndStep ==
    ASSUME PoolInv, NEW w \in Workers, EndWorker(w)
    PROVE  PoolInv'
<1> USE DEF PoolInv
<1>1. /\ worker[w] = "waiting" /\ worker' = [worker EXCEPT ![w] = "ended"] /\ Q!Drained
      /\ UNCHANGED <<taskVars, task, ran, tally>>
  BY DEF EndWorker, Step
<1>2. CallTypes' /\ RunTypes'
  BY <1>1 DEF CallTypes, RunTypes, WorkerStates, taskVars
<1>3. \A v \in Workers : \A t \in Tasks : InHand(v, t)' <=> InHand(v, t)
  BY <1>1 DEF InHand, RunTypes
<1>4. TasksPlaced' /\ HistoryExact'
  BY <1>1, <1>3 DEF TasksPlaced, OnePlace, InHands, HistoryExact, Accepted, taskVars
<1>5. Counting' = Counting /\ RunTasks' = RunTasks /\ Active' = Active
  BY <1>1 DEF Counting, RunTasks, Active, RunTypes, taskVars
<1>6. TallyExact'
  BY <1>1, <1>5 DEF TallyExact, taskVars
<1>7. EndsDrained'
  BY <1>1 DEF EndsDrained, Q!ShutdownDone, AllEnded, Q!Drained, RunTypes, taskVars
<1> QED BY <1>2, <1>4, <1>6, <1>7

\* shutdown returns from the join when every worker has ended.
LEMMA PoolShutdownStep ==
    ASSUME PoolInv, NEW c \in Joiners, Q!Shutdown(c, AllEnded), UNCHANGED workVars
    PROVE  PoolInv'
<1> USE DEF PoolInv
<1>1. /\ UNCHANGED <<tasks, queued, submitting, worker, task, ran, tally>>
      /\ tasksClosed => tasksClosed'
      /\ \E pc \in {"returned early", "close", "join", "joined"} :
           joiner' = [joiner EXCEPT ![c] = pc] /\ (pc = "joined" => AllEnded)
      /\ tasksClosed' \in BOOLEAN
  BY DEF Q!Shutdown, Q!ExchangeStopping, Q!CloseQueue, Q!JoinThreads, workVars, CallTypes
<1>2. CallTypes' /\ RunTypes'
  BY <1>1 DEF CallTypes, RunTypes
<1>3. TasksPlaced' /\ HistoryExact'
  BY <1>1, SamePlaces
<1>4. Counting' = Counting /\ RunTasks' = RunTasks /\ Active' = Active
  BY <1>1 DEF Counting, RunTasks, Active
<1>5. TallyExact'
  BY <1>1, <1>4 DEF TallyExact
<1>6. AllEnded' <=> AllEnded
  BY <1>1 DEF AllEnded
<1>7. Q!ShutdownDone' => Q!ShutdownDone \/ AllEnded
  BY <1>1 DEF Q!ShutdownDone, CallTypes
<1>8. EndsDrained'
  BY <1>1, <1>6, <1>7 DEF EndsDrained, Q!Drained
<1> QED BY <1>2, <1>3, <1>5, <1>8

-----------------------------------------------------------------------------
(* The theorems.                                                           *)

\* Every step keeps the inductive invariant.
LEMMA NextPoolInv == PoolInv /\ [PoolNext]_poolVars => PoolInv'
<1> SUFFICES ASSUME PoolInv, [PoolNext]_poolVars PROVE PoolInv'
  OBVIOUS
<1>1. CASE UNCHANGED poolVars
  <2> USE <1>1 DEF poolVars, taskVars, workVars
  <2>1. CallTypes' /\ RunTypes'
    BY DEF PoolInv, CallTypes, RunTypes
  <2>2. TasksPlaced' /\ HistoryExact'
    BY SamePlaces DEF PoolInv
  <2>3. TallyExact'
    BY DEF PoolInv, TallyExact, RunTasks, Counting, Active
  <2>4. EndsDrained'
    BY DEF PoolInv, EndsDrained, Q!Drained, Q!ShutdownDone, AllEnded
  <2> QED BY <2>1, <2>2, <2>3, <2>4 DEF PoolInv
<1>2. CASE \E i \in Tasks : SubmitTask(i) \/ TaskAccepted(i) \/ TaskRefused(i) \/ CountSubmitted(i)
  BY <1>2, CallStep, AcceptStep, CountStep
<1>3. CASE \E w \in Workers : RunWorker(w)
  BY <1>3, PoolTakeStep, ActivateStep, RunStep, DeactivateStep, PoolEndStep DEF RunWorker
<1>4. CASE \E c \in Joiners : Q!Shutdown(c, AllEnded) /\ UNCHANGED workVars
  BY <1>4, PoolShutdownStep
<1> QED BY <1>1, <1>2, <1>3, <1>4 DEF PoolNext

\* Every reachable state of the pool satisfies the inductive invariant.
THEOREM PoolInvariance == PoolSpec => []PoolInv
BY InitPoolInv, NextPoolInv, PTL DEF PoolSpec

\* A task that submit accepted is queued, with one worker, or was run, and only one of
\* these; the counters agree with that; when a shutdown has joined the workers every
\* accepted task was run and active_ is zero.
THEOREM PoolDrainsTheorem == PoolSpec => []PoolDrains
<1>1. ASSUME PoolInv PROVE PoolDrains
  <2> USE <1>1 DEF PoolInv
  <2>1. \A t : t \in ToSet(queued) <=> Has(queued, t)
    BY ListedMembers DEF ToSet, Listed, CallTypes
  <2>2. ASSUME NEW t \in Tasks
        PROVE  ran[t] + Cardinality({w \in Workers : InHand(w, t)})
                 + Cardinality({n \in DOMAIN tasks : tasks[n] = t}) = IF t \in ToSet(queued) THEN 1 ELSE 0
    <3> DEFINE W == {w \in Workers : InHand(w, t)}
               P == {n \in DOMAIN tasks : tasks[n] = t}
    <3>1. OnePlace(t) /\ (Has(queued, t) <=> Accepted(t)) /\ ran[t] \in {0, 1}
      BY DEF TasksPlaced, HistoryExact, RunTypes
    <3>2. DOMAIN tasks = 1 .. Len(tasks)
      BY LenProperties DEF CallTypes
    <3>3. /\ W = {} <=> ~InHands(t)
          /\ P = {} <=> ~Has(tasks, t)
          /\ \A v, w \in W : v = w
          /\ \A m, n \in P : m = n
      BY <3>1, <3>2 DEF OnePlace, InHands, Has, Once
    <3> HIDE DEF W, P
    <3>4. /\ Cardinality(W) = IF InHands(t) THEN 1 ELSE 0
          /\ Cardinality(P) = IF Has(tasks, t) THEN 1 ELSE 0
      BY <3>3, AtMostOneSize
    <3>5. ran[t] + Cardinality(W) + Cardinality(P) = IF Accepted(t) THEN 1 ELSE 0
      BY <3>1, <3>4 DEF OnePlace
    <3> QED BY <2>1, <3>1, <3>5 DEF W, P
  <2>3. Q!ShutdownDone => tally.completed + tally.failed = Len(queued) /\ tally.active = 0
    <3> SUFFICES ASSUME Q!ShutdownDone
                 PROVE  tally.completed + tally.failed = Len(queued) /\ tally.active = 0
      OBVIOUS
    <3>1. /\ \A w \in Workers : worker[w] = "ended"
          /\ tasks = <<>>
      BY PoolAssumption DEF EndsDrained, AllEnded, Q!Drained
    <3>2. Active = {} /\ \A t \in Tasks : ~InHands(t) /\ ~Has(tasks, t)
      BY <3>1 DEF Active, InHands, InHand, Has
    <3>3. RunTasks = Listed(queued)
      <4>1. \A t \in Tasks : t \in RunTasks <=> Has(queued, t)
        BY <3>2 DEF RunTasks, TasksPlaced, OnePlace, HistoryExact, RunTypes
      <4>2. \A t : Has(queued, t) => t \in Tasks
        BY ElementOfSeq DEF Has, CallTypes
      <4>3. \A t : t \in Listed(queued) <=> Has(queued, t)
        BY ListedMembers DEF CallTypes
      <4> QED BY <4>1, <4>2, <4>3 DEF RunTasks
    <3>4. Cardinality(RunTasks) = Len(queued) /\ Cardinality(Active) = 0
      BY <3>2, <3>3, RangeSize, FS_EmptySet DEF HistoryExact, CallTypes
    <3> QED BY <3>4 DEF TallyExact
  <2>4. /\ tally.completed + tally.failed = Cardinality({t \in Tasks : ran[t] # 0})
        /\ tally.submitted + Cardinality({t \in Tasks : submitting[t] = "count"}) = Len(queued)
    BY DEF TallyExact, RunTasks, Counting
  <2> QED BY <2>2, <2>3, <2>4 DEF PoolDrains
<1> QED BY <1>1, PoolInvariance, PTL

-----------------------------------------------------------------------------
(* MemoryPool: every block is accounted for.                               *)

\* Rounding up gives a number.
LEMMA BitCeilType ==
    ASSUME NEW n \in Nat
    PROVE  BitCeil(n) \in Nat
<1> DEFINE Run(f) == [k \in 0 .. n |-> IF k = 0 THEN 1
                                       ELSE IF f[k - 1] >= n THEN f[k - 1] ELSE 2 * f[k - 1]]
           h == [k \in Nat |-> [x \in Nat |-> IF x >= n THEN x ELSE 2 * x]]
<1>1. h \in Steppers(Nat)
  <2>1. \A x \in Nat : (IF x >= n THEN x ELSE 2 * x) \in Nat
    OBVIOUS
  <2> QED BY <2>1 DEF Steppers
<1>2. PICK f : Iterates(f, Nat, 1, h, n)
  <2> HIDE DEF h
  <2> QED BY <1>1, Iteration
<1>3. f \in [0 .. n -> Nat] /\ f[0] = 1
  BY <1>2 DEF Iterates
<1>4. \A k \in 1 .. n : f[k] = IF f[k - 1] >= n THEN f[k - 1] ELSE 2 * f[k - 1]
  <2> SUFFICES ASSUME NEW k \in 1 .. n
               PROVE  f[k] = IF f[k - 1] >= n THEN f[k - 1] ELSE 2 * f[k - 1]
    OBVIOUS
  <2>1. f[k - 1] \in Nat /\ k \in Nat
    BY <1>3
  <2>2. f[k] = h[k][f[k - 1]]
    BY <1>2 DEF Iterates
  <2> QED BY <2>1, <2>2
<1>5. f = Run(f)
  <2>1. f = [k \in 0 .. n |-> f[k]]
    BY <1>3
  <2>2. \A k \in 0 .. n : k # 0 => k \in 1 .. n
    OBVIOUS
  <2>3. \A k \in 0 .. n : f[k] = IF k = 0 THEN 1
                                 ELSE IF f[k - 1] >= n THEN f[k - 1] ELSE 2 * f[k - 1]
    BY <1>3, <1>4, <2>2, Zenon
  <2>4. [k \in 0 .. n |-> f[k]] = Run(f)
    BY <2>3, Zenon
  <2> QED BY <2>1, <2>4, Zenon
<1> DEFINE g == CHOOSE g : g = Run(g)
<1>6. g = Run(g)
  BY <1>5
<1>7. BitCeil(n) = g[n]
  BY DEF BitCeil
<1> HIDE DEF g, h
<1>8. \A k \in 0 .. n : g[k] = IF k = 0 THEN 1 ELSE IF g[k - 1] >= n THEN g[k - 1] ELSE 2 * g[k - 1]
  <2>1. \A k : g[k] = Run(g)[k]
    BY <1>6, Zenon
  <2>2. \A k \in 0 .. n : Run(g)[k] = IF k = 0 THEN 1
                                      ELSE IF g[k - 1] >= n THEN g[k - 1] ELSE 2 * g[k - 1]
    BY Zenon
  <2> QED BY <2>1, <2>2, Zenon
<1> DEFINE M == {k \in Nat : k <= n => g[k] \in Nat}
<1>9. 0 \in M
  BY <1>8
<1>10. \A k \in Nat : k \in M => k + 1 \in M
  <2> SUFFICES ASSUME NEW k \in Nat, k \in M, k + 1 <= n PROVE g[k + 1] \in Nat
    OBVIOUS
  <2>1. k + 1 \in 0 .. n /\ k + 1 # 0 /\ (k + 1) - 1 = k /\ k <= n
    OBVIOUS
  <2>2. g[k] \in Nat
    BY <2>1
  <2> QED BY <1>8, <2>1, <2>2
<1> HIDE DEF M
<1>11. n \in M
  BY <1>9, <1>10, InductionOnNat
<1> QED BY <1>7, <1>11 DEF M

\* The larger of two numbers.
LEMMA MaxOfTwo ==
    ASSUME NEW a \in Int, NEW b \in Int
    PROVE  Max({a, b}) \in {a, b} /\ Max({a, b}) >= a /\ Max({a, b}) >= b
<1>1. \E x \in {a, b} : \A y \in {a, b} : x >= y
  OBVIOUS
<1>2. PICK m : m = Max({a, b})
  OBVIOUS
<1>3. m \in {a, b} /\ \A y \in {a, b} : m >= y
  BY <1>1, <1>2 DEF Max
<1> QED BY <1>2, <1>3

\* The size classes are finitely many numbers.
LEMMA ClassesAreSizes ==
    /\ IsFiniteSet(Classes) /\ Classes \subseteq Nat
    /\ \A b \in AskedBytes : RoundUp(b) \in Classes
<1>1. IsFiniteSet(AskedBytes) /\ AskedBytes \subseteq Nat /\ MinBlock \in Nat
  BY MemoryPoolAssumption
<1>2. ASSUME NEW b \in AskedBytes PROVE RoundUp(b) \in Nat
  <2>1. PICK x, y : x = BitCeil(MinBlock) /\ y = BitCeil(b)
    OBVIOUS
  <2>2. x \in Nat /\ y \in Nat
    BY <1>1, <2>1, BitCeilType
  <2>3. Max({x, y}) \in {x, y}
    BY <2>2, MaxOfTwo
  <2> QED BY <2>1, <2>2, <2>3 DEF RoundUp
<1>3. PICK f : f = [b \in AskedBytes |-> RoundUp(b)]
  OBVIOUS
<1>4. f \in Surjection(AskedBytes, Classes)
  BY <1>3 DEF Surjection, Classes
<1>5. IsFiniteSet(Classes)
  BY <1>1, <1>4, FS_Surjection
<1> QED BY <1>2, <1>5 DEF Classes

\* What taking the last element out leaves.
LEMMA LastOut ==
    ASSUME NEW X, NEW q \in Seq(X), q # <<>>, Distinct(q)
    PROVE  /\ Front(q) \in Seq(X) /\ Len(q) = Len(Front(q)) + 1 /\ Distinct(Front(q))
           /\ Last(q) \in X /\ Has(q, Last(q))
           /\ \A y : Has(Front(q), y) <=> Has(q, y) /\ y # Last(q)
<1>1. PICK k : k = Len(q)
  OBVIOUS
<1>2. k \in Nat \ {0} /\ \A i \in 1 .. k : q[i] \in X
  BY <1>1, EmptySeq, LenProperties
<1>3. PICK p : p = Front(q)
  OBVIOUS
<1>4. p \in Seq(X) /\ Len(p) = k - 1 /\ \A i \in 1 .. k - 1 : p[i] = q[i]
  BY <1>1, <1>2, <1>3, SubSeqProperties DEF Front
<1>5. PICK x : x = Last(q)
  OBVIOUS
<1>6. x = q[k] /\ k \in 1 .. k
  BY <1>1, <1>2, <1>5 DEF Last
<1>7. \A i, j \in 1 .. k : q[i] = q[j] => i = j
  BY <1>1 DEF Distinct
<1>8. Distinct(p)
  BY <1>2, <1>4, <1>7 DEF Distinct
<1>9. Has(q, x) /\ x \in X
  BY <1>1, <1>2, <1>6 DEF Has
<1>10. ASSUME NEW y PROVE Has(p, y) <=> Has(q, y) /\ y # x
  <2>1. Has(p, y) => Has(q, y) /\ y # x
    BY <1>1, <1>2, <1>4, <1>6, <1>7 DEF Has
  <2>2. \A i \in 1 .. k : i = k \/ i \in 1 .. k - 1
    BY <1>2
  <2>3. Has(q, y) /\ y # x => Has(p, y)
    BY <1>1, <1>4, <1>6, <2>2 DEF Has
  <2> QED BY <2>1, <2>3
<1> QED BY <1>1, <1>2, <1>3, <1>4, <1>5, <1>8, <1>9, <1>10

\* Bytes and blocks of the free lists.
Lists == [Classes -> Seq(Addresses)]
BytesIn(lists) == SumFunctionOnSet([c \in Classes |-> c * Len(lists[c])], Classes)
BlocksIn(lists) == SumFunctionOnSet([c \in Classes |-> Len(lists[c])], Classes)

\* What changes with the list of class c, which becomes q.
ListReplaced(lists, c, q, new) ==
    /\ new \in Lists
    /\ BytesIn(new) + c * Len(lists[c]) = BytesIn(lists) + c * Len(q)
    /\ BlocksIn(new) + Len(lists[c]) = BlocksIn(lists) + Len(q)

\* One list changes.
LEMMA OneList ==
    ASSUME NEW lists \in Lists, NEW c \in Classes, NEW q \in Seq(Addresses),
           NEW new, new = [lists EXCEPT ![c] = q]
    PROVE  ListReplaced(lists, c, q, new)
<1>1. new \in Lists /\ new[c] = q /\ \A x \in Classes \ {c} : new[x] = lists[x]
  BY DEF Lists
<1>2. PICK f, g : f = [x \in Classes |-> x * Len(lists[x])] /\ g = [x \in Classes |-> x * Len(new[x])]
  OBVIOUS
<1>3. PICK d, e : d = [x \in Classes |-> Len(lists[x])] /\ e = [x \in Classes |-> Len(new[x])]
  OBVIOUS
<1>4. \A x \in Classes : x \in Nat /\ Len(lists[x]) \in Nat /\ Len(new[x]) \in Nat
  BY <1>1, ClassesAreSizes, LenProperties DEF Lists
<1>5. \A x, y \in Nat : x * y \in Nat
  OBVIOUS
<1>6. Natural(f, Classes) /\ Natural(g, Classes) /\ Same(f, g, Classes \ {c})
  BY <1>1, <1>2, <1>4, <1>5 DEF Natural, Same
<1>7. Natural(d, Classes) /\ Natural(e, Classes) /\ Same(d, e, Classes \ {c})
  BY <1>1, <1>3, <1>4 DEF Natural, Same
<1>8. SumFunctionOnSet(g, Classes) + f[c] = SumFunctionOnSet(f, Classes) + g[c]
  BY <1>6, ClassesAreSizes, SumChange
<1>9. SumFunctionOnSet(e, Classes) + d[c] = SumFunctionOnSet(d, Classes) + e[c]
  BY <1>7, ClassesAreSizes, SumChange
<1>10. f[c] = c * Len(lists[c]) /\ g[c] = c * Len(q) /\ d[c] = Len(lists[c]) /\ e[c] = Len(q)
  BY <1>1, <1>2, <1>3
<1> QED BY <1>1, <1>2, <1>3, <1>8, <1>9, <1>10 DEF BytesIn, BlocksIn, ListReplaced

\* The sums are numbers.
LEMMA ListSums ==
    ASSUME NEW lists \in Lists
    PROVE  BytesIn(lists) \in Nat /\ BlocksIn(lists) \in Nat
<1>1. \A x \in Classes : x \in Nat /\ Len(lists[x]) \in Nat
  BY ClassesAreSizes, LenProperties DEF Lists
<1>2. \A x, y \in Nat : x * y \in Nat
  OBVIOUS
<1>3. PICK f, d : f = [x \in Classes |-> x * Len(lists[x])] /\ d = [x \in Classes |-> Len(lists[x])]
  OBVIOUS
<1>4. Natural(f, Classes) /\ Natural(d, Classes)
  BY <1>1, <1>2, <1>3 DEF Natural
<1>5. SumFunctionOnSet(f, Classes) \in Nat /\ SumFunctionOnSet(d, Classes) \in Nat
  BY <1>4, ClassesAreSizes, SumNat
<1> QED BY <1>3, <1>5 DEF BytesIn, BlocksIn

\* No list has anything.
LEMMA NothingListed ==
    ASSUME NEW lists, lists = [c \in Classes |-> <<>>]
    PROVE  lists \in Lists /\ BytesIn(lists) = 0 /\ BlocksIn(lists) = 0
<1>1. <<>> \in Seq(Addresses) /\ Len(<<>>) = 0
  OBVIOUS
<1>2. lists \in Lists
  BY <1>1 DEF Lists
<1>3. PICK f, d : f = [x \in Classes |-> x * Len(lists[x])] /\ d = [x \in Classes |-> Len(lists[x])]
  OBVIOUS
<1>4. \A x \in Classes : f[x] = 0 /\ d[x] = 0
  <2>1. \A x \in Classes : x \in Nat /\ Len(lists[x]) = 0
    BY <1>1, ClassesAreSizes
  <2>2. \A x \in Nat : x * 0 = 0
    OBVIOUS
  <2> QED BY <1>3, <2>1, <2>2
<1>5. SumFunctionOnSet(f, Classes) = 0 /\ SumFunctionOnSet(d, Classes) = 0
  BY <1>4, ClassesAreSizes, SumZero
<1> QED BY <1>2, <1>3, <1>5 DEF BytesIn, BlocksIn

\* A record of blocks: addresses, and for each a size.
Record(b) ==
    /\ b = [a \in DOMAIN b |-> b[a]] /\ DOMAIN b \subseteq Addresses
    /\ \A a \in DOMAIN b : b[a] \in Classes

\* What can be summed up of one.
LEMMA RecordSums ==
    ASSUME NEW b, Record(b)
    PROVE  /\ IsFiniteSet(DOMAIN b) /\ Natural(b, DOMAIN b)
           /\ BytesOf(b) \in Nat /\ Cardinality(DOMAIN b) \in Nat
<1>1. IsFiniteSet(DOMAIN b)
  BY FS_Subset, MemoryPoolAssumption DEF Record
<1>2. Natural(b, DOMAIN b)
  BY ClassesAreSizes DEF Record, Natural
<1> QED BY <1>1, <1>2, SumNat, FS_CardinalityType DEF BytesOf

\* What adds block a of size c to a record.
Added(b, a, c, new) ==
    /\ Record(new) /\ DOMAIN new = DOMAIN b \cup {a} /\ new[a] = c
    /\ \A x \in DOMAIN b : new[x] = b[x]
    /\ BytesOf(new) = BytesOf(b) + c /\ Cardinality(DOMAIN new) = Cardinality(DOMAIN b) + 1

\* A block is added.
LEMMA PutBlock ==
    ASSUME NEW b, Record(b), NEW a \in Addresses \ DOMAIN b, NEW c \in Classes, NEW new, new = Put(b, a, c)
    PROVE  Added(b, a, c, new)
<1>1. /\ new = [x \in DOMAIN new |-> new[x]] /\ DOMAIN new = DOMAIN b \cup {a} /\ new[a] = c
      /\ \A x \in DOMAIN b : new[x] = b[x]
  BY DEF Put
<1>2. Record(new)
  BY <1>1 DEF Record
<1>3. PICK D : D = DOMAIN b
  OBVIOUS
<1>4. IsFiniteSet(D) /\ a \notin D /\ Natural(new, D \cup {a}) /\ Same(new, b, D)
  BY <1>1, <1>2, <1>3, RecordSums DEF Same
<1>5. SumFunctionOnSet(new, D \cup {a}) = SumFunctionOnSet(new, D) + new[a]
  BY <1>4, SumInsert
<1>6. SumFunctionOnSet(new, D) = SumFunctionOnSet(b, D)
  BY <1>4, SumSame
<1>7. BytesOf(new) = BytesOf(b) + c
  BY <1>1, <1>3, <1>5, <1>6 DEF BytesOf
<1>8. Cardinality(D \cup {a}) = Cardinality(D) + 1
  BY <1>4, FS_AddElement
<1> QED BY <1>1, <1>2, <1>3, <1>7, <1>8 DEF Added

\* What is left of a record without the blocks in gone.
Rest(b, gone, new) ==
    Record(new) /\ DOMAIN new = DOMAIN b \ gone /\ \A x \in DOMAIN new : new[x] = b[x]

\* Blocks are forgotten.
LEMMA ForgetBlocks ==
    ASSUME NEW b, Record(b), NEW gone, NEW new, new = Forget(b, gone)
    PROVE  Rest(b, gone, new)
<1>1. /\ new = [x \in DOMAIN new |-> new[x]] /\ DOMAIN new = DOMAIN b \ gone
      /\ \A x \in DOMAIN new : new[x] = b[x]
  BY DEF Forget
<1> QED BY <1>1 DEF Record, Rest

\* One block is.
LEMMA ForgetOne ==
    ASSUME NEW b, Record(b), NEW a \in DOMAIN b, NEW new, new = Forget(b, {a})
    PROVE  BytesOf(new) + b[a] = BytesOf(b) /\ Cardinality(DOMAIN new) + 1 = Cardinality(DOMAIN b)
<1>1. PICK D : D = DOMAIN b
  OBVIOUS
<1>2. DOMAIN new = D \ {a} /\ Same(b, new, D \ {a})
  <2>1. Rest(b, {a}, new)
    BY ForgetBlocks
  <2> QED BY <1>1, <2>1 DEF Same, Rest
<1>3. IsFiniteSet(D) /\ Natural(b, D) /\ a \in D /\ IsFiniteSet(D \ {a})
  BY <1>1, RecordSums, FS_Subset
<1>4. SumFunctionOnSet(b, D) = SumFunctionOnSet(b, D \ {a}) + b[a]
  BY <1>3, SumRemove
<1>5. SumFunctionOnSet(b, D \ {a}) = SumFunctionOnSet(new, D \ {a})
  BY <1>2, <1>3, SumSame
<1>6. BytesOf(new) + b[a] = BytesOf(b)
  BY <1>1, <1>2, <1>4, <1>5 DEF BytesOf
<1>7. Cardinality(D \ {a}) + 1 = Cardinality(D)
  BY <1>3, FS_RemoveElement, FS_CardinalityType
<1> QED BY <1>1, <1>2, <1>6, <1>7

\* The record of nothing.
LEMMA NoRecord ==
    /\ Record(NoBlocks) /\ BytesOf(NoBlocks) = 0 /\ Cardinality(DOMAIN NoBlocks) = 0
    /\ DOMAIN NoBlocks = {} /\ \A b : Record(b) /\ DOMAIN b = {} => b = NoBlocks
<1>1. DOMAIN NoBlocks = {} /\ NoBlocks = [a \in DOMAIN NoBlocks |-> NoBlocks[a]]
  BY DEF NoBlocks
<1>2. Record(NoBlocks)
  BY <1>1 DEF Record
<1>3. BytesOf(NoBlocks) = 0 /\ Cardinality(DOMAIN NoBlocks) = 0
  BY <1>1, SumEmpty, FS_EmptySet DEF BytesOf
<1>4. \A b : Record(b) /\ DOMAIN b = {} => b = NoBlocks
  BY DEF Record, NoBlocks
<1> QED BY <1>1, <1>2, <1>3, <1>4

PoolRecords == [reserved : Int, inUse : Int, peak : Int, allocations : Int, backend : Int,
                reuse : Int, frees : Int, freeBlocks : Int]

\* What the pool has is handed out or cached, once, under its size: lists are the free lists,
\* l is live_blocks_ and b the backend's record.
Kept(lists, l, b) ==
    /\ lists \in Lists /\ Record(l) /\ Record(b)
    /\ \A a : a \in DOMAIN b <=> a \in DOMAIN l \/ \E c \in Classes : Has(lists[c], a)
    /\ \A a \in DOMAIN l : l[a] = b[a]
    /\ \A c \in Classes : Distinct(lists[c])
    /\ \A c \in Classes : \A a : Has(lists[c], a) => a \notin DOMAIN l /\ b[a] = c

\* The statistics say so.
Tallied(s, lists, l) ==
    /\ s \in PoolRecords
    /\ s.inUse = BytesOf(l) /\ s.peak >= s.inUse
    /\ s.reserved = s.inUse + BytesIn(lists) /\ s.freeBlocks = BlocksIn(lists)
    /\ s.backend + s.reuse = s.frees + Cardinality(DOMAIN l)

MemoryInv ==
    /\ Kept(freeLists, live, backend)
    /\ destroyed => backend = NoBlocks
    /\ ~destroyed => Tallied(poolStats, freeLists, live)

\* What taking a block of class c off its list and handing it out does.
Taken(lists, l, b, c, lists1, l1) ==
    /\ Kept(lists1, l1, b)
    /\ BytesOf(l1) = BytesOf(l) + c /\ Cardinality(DOMAIN l1) = Cardinality(DOMAIN l) + 1
    /\ BytesIn(lists1) + c = BytesIn(lists) /\ BlocksIn(lists1) + 1 = BlocksIn(lists)

\* What putting a block of class c back on its list does.
Returned(lists, l, b, c, lists1, l1) ==
    /\ Kept(lists1, l1, b) /\ c \in Nat
    /\ BytesOf(l1) + c = BytesOf(l) /\ Cardinality(DOMAIN l1) + 1 = Cardinality(DOMAIN l)
    /\ BytesIn(lists1) = BytesIn(lists) + c /\ BlocksIn(lists1) = BlocksIn(lists) + 1

\* A block leaves the list of its size for the caller.
LEMMA CachedOut ==
    ASSUME NEW lists, NEW l, NEW b, Kept(lists, l, b), NEW c \in Classes, lists[c] # <<>>,
           NEW lists1, lists1 = [lists EXCEPT ![c] = Front(lists[c])],
           NEW l1, l1 = Put(l, Last(lists[c]), c)
    PROVE  Taken(lists, l, b, c, lists1, l1)
<1>1. /\ lists \in Lists /\ Record(l) /\ Record(b)
      /\ \A a : a \in DOMAIN b <=> a \in DOMAIN l \/ \E d \in Classes : Has(lists[d], a)
      /\ \A a \in DOMAIN l : l[a] = b[a]
      /\ \A d \in Classes : Distinct(lists[d])
      /\ \A d \in Classes : \A a : Has(lists[d], a) => a \notin DOMAIN l /\ b[a] = d
  BY DEF Kept
<1>2. PICK q, p, a : q = lists[c] /\ p = Front(q) /\ a = Last(q)
  OBVIOUS
<1>3. q \in Seq(Addresses) /\ Distinct(q) /\ q # <<>>
  BY <1>1, <1>2 DEF Lists
<1>4. /\ p \in Seq(Addresses) /\ Len(q) = Len(p) + 1 /\ Distinct(p) /\ a \in Addresses /\ Has(q, a)
      /\ \A y : Has(p, y) <=> Has(q, y) /\ y # a
  BY <1>2, <1>3, LastOut
<1>5. lists1 = [lists EXCEPT ![c] = p] /\ lists1[c] = p /\ \A d \in Classes \ {c} : lists1[d] = lists[d]
  BY <1>1, <1>2 DEF Lists
<1>6. /\ lists1 \in Lists
      /\ BytesIn(lists1) + c * Len(q) = BytesIn(lists) + c * Len(p)
      /\ BlocksIn(lists1) + Len(q) = BlocksIn(lists) + Len(p)
  <2>1. lists \in Lists /\ p \in Seq(Addresses) /\ lists1 = [lists EXCEPT ![c] = p]
    BY <1>1, <1>4, <1>5
  <2>2. ListReplaced(lists, c, p, lists1)
    BY <2>1, OneList
  <2> QED BY <1>2, <2>2 DEF ListReplaced
<1>7. a \notin DOMAIN l /\ b[a] = c
  BY <1>1, <1>2, <1>4
<1>8. /\ Record(l1) /\ DOMAIN l1 = DOMAIN l \cup {a} /\ l1[a] = c
      /\ \A x \in DOMAIN l : l1[x] = l[x]
      /\ BytesOf(l1) = BytesOf(l) + c /\ Cardinality(DOMAIN l1) = Cardinality(DOMAIN l) + 1
  <2>1. Record(l) /\ a \in Addresses \ DOMAIN l /\ l1 = Put(l, a, c)
    BY <1>1, <1>2, <1>4, <1>7
  <2>2. Added(l, a, c, l1)
    BY <2>1, PutBlock
  <2> QED BY <2>2 DEF Added
<1>9. \A d \in Classes : \A y : Has(lists1[d], y) <=> Has(lists[d], y) /\ y # a
  <2>1. \A d \in Classes \ {c} : ~Has(lists[d], a)
    BY <1>1, <1>7
  <2> QED BY <1>2, <1>4, <1>5, <2>1
<1>10. Kept(lists1, l1, b)
  <2>1. \A y : y \in DOMAIN b <=> y \in DOMAIN l1 \/ \E d \in Classes : Has(lists1[d], y)
    BY <1>1, <1>2, <1>4, <1>8, <1>9
  <2>2. \A y \in DOMAIN l1 : l1[y] = b[y]
    BY <1>1, <1>7, <1>8
  <2>3. \A d \in Classes : Distinct(lists1[d])
    BY <1>1, <1>4, <1>5
  <2>4. \A d \in Classes : \A y : Has(lists1[d], y) => y \notin DOMAIN l1 /\ b[y] = d
    BY <1>1, <1>8, <1>9
  <2> QED BY <1>1, <1>6, <1>8, <2>1, <2>2, <2>3, <2>4 DEF Kept
<1>11. BytesIn(lists1) + c = BytesIn(lists) /\ BlocksIn(lists1) + 1 = BlocksIn(lists)
  <2>1. PICK n, s, t, u, v : /\ n = Len(p) /\ s = BytesIn(lists1) /\ t = BytesIn(lists)
                             /\ u = BlocksIn(lists1) /\ v = BlocksIn(lists)
    OBVIOUS
  <2>2. n \in Nat /\ s \in Nat /\ t \in Nat /\ u \in Nat /\ v \in Nat /\ c \in Nat
    BY <1>1, <1>4, <1>6, <2>1, ListSums, ClassesAreSizes, LenProperties
  <2>3. s + c * (n + 1) = t + c * n /\ u + (n + 1) = v + n
    BY <1>4, <1>6, <2>1
  <2>4. c * (n + 1) = c * n + c /\ c * n \in Nat
    BY <2>2
  <2>5. PICK x : x = c * n
    OBVIOUS
  <2>6. s + (x + c) = t + x /\ x \in Nat
    BY <2>3, <2>4, <2>5
  <2>7. s + c = t /\ u + 1 = v
    BY <2>2, <2>3, <2>6
  <2> QED BY <2>1, <2>7
<1> QED BY <1>8, <1>10, <1>11 DEF Taken

\* A block comes back.
LEMMA BlockBack ==
    ASSUME NEW lists, NEW l, NEW b, Kept(lists, l, b), NEW a \in DOMAIN l, NEW c, c = l[a],
           NEW lists1, lists1 = [lists EXCEPT ![c] = Append(lists[c], a)],
           NEW l1, l1 = Forget(l, {a})
    PROVE  Returned(lists, l, b, c, lists1, l1)
<1>1. /\ lists \in Lists /\ Record(l) /\ Record(b)
      /\ \A x : x \in DOMAIN b <=> x \in DOMAIN l \/ \E d \in Classes : Has(lists[d], x)
      /\ \A x \in DOMAIN l : l[x] = b[x]
      /\ \A d \in Classes : Distinct(lists[d])
      /\ \A d \in Classes : \A x : Has(lists[d], x) => x \notin DOMAIN l /\ b[x] = d
  BY DEF Kept
<1>2. c \in Classes /\ a \in Addresses /\ b[a] = c
  BY <1>1 DEF Record
<1>3. PICK q, p : q = lists[c] /\ p = Append(q, a)
  OBVIOUS
<1>4. q \in Seq(Addresses) /\ Distinct(q) /\ ~Has(q, a)
  BY <1>1, <1>2, <1>3 DEF Lists
<1>5. /\ p \in Seq(Addresses) /\ Len(p) = Len(q) + 1 /\ Len(q) \in Nat /\ Distinct(p)
      /\ \A x : Has(p, x) <=> Has(q, x) \/ x = a
  BY <1>2, <1>3, <1>4, AppendProperties, LenProperties, DistinctAppend, HasAppend
<1>6. lists1 = [lists EXCEPT ![c] = p] /\ lists1[c] = p /\ \A d \in Classes \ {c} : lists1[d] = lists[d]
  BY <1>1, <1>2, <1>3 DEF Lists
<1>7. ListReplaced(lists, c, p, lists1)
  BY <1>1, <1>2, <1>5, <1>6, OneList
<1>8. /\ Record(l1) /\ DOMAIN l1 = DOMAIN l \ {a} /\ \A x \in DOMAIN l1 : l1[x] = l[x]
  <2>1. Rest(l, {a}, l1)
    BY <1>1, ForgetBlocks
  <2> QED BY <2>1 DEF Rest
<1>9. BytesOf(l1) + c = BytesOf(l) /\ Cardinality(DOMAIN l1) + 1 = Cardinality(DOMAIN l)
  BY <1>1, ForgetOne
<1>10. \A d \in Classes : \A x : Has(lists1[d], x) <=> Has(lists[d], x) \/ (d = c /\ x = a)
  BY <1>3, <1>5, <1>6
<1>11. Kept(lists1, l1, b)
  <2>1. \A x : x \in DOMAIN b <=> x \in DOMAIN l1 \/ \E d \in Classes : Has(lists1[d], x)
    BY <1>1, <1>2, <1>8, <1>10
  <2>2. \A x \in DOMAIN l1 : l1[x] = b[x]
    BY <1>1, <1>8
  <2>3. \A d \in Classes : Distinct(lists1[d])
    BY <1>1, <1>5, <1>6
  <2>4. \A d \in Classes : \A x : Has(lists1[d], x) => x \notin DOMAIN l1 /\ b[x] = d
    BY <1>1, <1>2, <1>8, <1>10
  <2>5. lists1 \in Lists
    BY <1>7 DEF ListReplaced
  <2> QED BY <1>1, <1>8, <2>1, <2>2, <2>3, <2>4, <2>5 DEF Kept
<1>12. BytesIn(lists1) = BytesIn(lists) + c /\ BlocksIn(lists1) = BlocksIn(lists) + 1 /\ c \in Nat
  <2>1. PICK n, s, t, u, v : /\ n = Len(q) /\ s = BytesIn(lists1) /\ t = BytesIn(lists)
                             /\ u = BlocksIn(lists1) /\ v = BlocksIn(lists)
    OBVIOUS
  <2>2. n \in Nat /\ s \in Nat /\ t \in Nat /\ u \in Nat /\ v \in Nat /\ c \in Nat
    <3>1. lists1 \in Lists
      BY <1>7 DEF ListReplaced
    <3> QED BY <1>1, <1>2, <1>5, <2>1, <3>1, ListSums, ClassesAreSizes
  <2>3. s + c * n = t + c * (n + 1) /\ u + n = v + (n + 1)
    BY <1>3, <1>5, <1>7, <2>1 DEF ListReplaced
  <2>4. c * (n + 1) = c * n + c /\ c * n \in Nat
    BY <2>2
  <2>5. PICK x, y : x = c * n /\ y = c
    OBVIOUS
  <2>6. s + x = t + (x + y) /\ x \in Nat /\ y \in Nat
    BY <2>2, <2>3, <2>4, <2>5
  <2>7. s = t + y
    BY <2>2, <2>6
  <2>8. u = v + 1
    BY <2>2, <2>3
  <2> QED BY <2>1, <2>2, <2>5, <2>7, <2>8
<1> QED BY <1>9, <1>11, <1>12 DEF Returned

\* A new block from the backend.
LEMMA NewBlock ==
    ASSUME NEW lists, NEW l, NEW b, Kept(lists, l, b), NEW a \in Addresses \ DOMAIN b, NEW c \in Classes,
           NEW b1, b1 = Put(b, a, c), NEW l1, l1 = Put(l, a, c)
    PROVE  Kept(lists, l1, b1) /\ Added(l, a, c, l1)
<1>1. /\ lists \in Lists /\ Record(l) /\ Record(b)
      /\ \A x : x \in DOMAIN b <=> x \in DOMAIN l \/ \E d \in Classes : Has(lists[d], x)
      /\ \A x \in DOMAIN l : l[x] = b[x]
      /\ \A d \in Classes : Distinct(lists[d])
      /\ \A d \in Classes : \A x : Has(lists[d], x) => x \notin DOMAIN l /\ b[x] = d
  BY DEF Kept
<1>2. a \in Addresses \ DOMAIN l
  BY <1>1
<1>3. Added(l, a, c, l1) /\ Added(b, a, c, b1)
  BY <1>1, <1>2, PutBlock
<1>4. /\ Record(b1) /\ DOMAIN b1 = DOMAIN b \cup {a} /\ b1[a] = c /\ \A x \in DOMAIN b : b1[x] = b[x]
      /\ Record(l1) /\ DOMAIN l1 = DOMAIN l \cup {a} /\ l1[a] = c /\ \A x \in DOMAIN l : l1[x] = l[x]
  BY <1>3 DEF Added
<1>5. \A x : x \in DOMAIN b1 <=> x \in DOMAIN l1 \/ \E d \in Classes : Has(lists[d], x)
  BY <1>1, <1>4
<1>6. \A x \in DOMAIN l1 : l1[x] = b1[x]
  BY <1>1, <1>4
<1>7. \A d \in Classes : \A x : Has(lists[d], x) => x \notin DOMAIN l1 /\ b1[x] = d
  BY <1>1, <1>4
<1> QED BY <1>1, <1>3, <1>4, <1>5, <1>6, <1>7 DEF Kept

\* What the free lists hold.
LEMMA CachedHas ==
    ASSUME freeLists \in Lists
    PROVE  \A a : a \in Cached <=> \E c \in Classes : Has(freeLists[c], a)
<1>1. \A c \in Classes : \A a : a \in ToSet(freeLists[c]) <=> Has(freeLists[c], a)
  <2> SUFFICES ASSUME NEW c \in Classes PROVE \A a : a \in ToSet(freeLists[c]) <=> Has(freeLists[c], a)
    OBVIOUS
  <2>1. DOMAIN freeLists[c] = 1 .. Len(freeLists[c])
    BY LenProperties DEF Lists
  <2> QED BY <2>1 DEF ToSet, Has
<1> QED BY <1>1 DEF Cached

\* The free lists are emptied, and the backend has what was on them back.
LEMMA ListsEmptied ==
    ASSUME Kept(freeLists, live, backend), NEW lists1, lists1 = [c \in Classes |-> <<>>]
    PROVE  /\ Kept(lists1, live, Forget(backend, Cached))
           /\ Kept(lists1, NoBlocks, Forget(backend, Cached \cup DOMAIN live))
           /\ Forget(backend, Cached \cup DOMAIN live) = NoBlocks
<1>1. /\ freeLists \in Lists /\ Record(live) /\ Record(backend)
      /\ \A x : x \in DOMAIN backend <=> x \in DOMAIN live \/ \E d \in Classes : Has(freeLists[d], x)
      /\ \A x \in DOMAIN live : live[x] = backend[x]
      /\ \A d \in Classes : \A x : Has(freeLists[d], x) => x \notin DOMAIN live
  BY DEF Kept
<1>2. \A a : a \in Cached <=> \E c \in Classes : Has(freeLists[c], a)
  BY <1>1, CachedHas
<1>3. /\ lists1 \in Lists
      /\ \A d \in Classes : Distinct(lists1[d]) /\ \A x : ~Has(lists1[d], x)
  <2>1. Len(<<>>) = 0 /\ 1 .. 0 = {}
    OBVIOUS
  <2>2. Distinct(<<>>) /\ \A x : ~Has(<<>>, x)
    BY <2>1 DEF Distinct, Has
  <2> QED BY <2>2, NothingListed
<1>4. PICK b1, b2 : b1 = Forget(backend, Cached) /\ b2 = Forget(backend, Cached \cup DOMAIN live)
  OBVIOUS
<1>5. Record(b1) /\ DOMAIN b1 = DOMAIN backend \ Cached /\ \A x \in DOMAIN b1 : b1[x] = backend[x]
  <2>1. Rest(backend, Cached, b1)
    BY <1>1, <1>4, ForgetBlocks
  <2> QED BY <2>1 DEF Rest
<1>6. Record(b2) /\ DOMAIN b2 = DOMAIN backend \ (Cached \cup DOMAIN live)
  <2>1. Rest(backend, Cached \cup DOMAIN live, b2)
    BY <1>1, <1>4, ForgetBlocks
  <2> QED BY <2>1 DEF Rest
<1>7. DOMAIN b1 = DOMAIN live /\ DOMAIN b2 = {}
  BY <1>1, <1>2, <1>5, <1>6
<1>8. b2 = NoBlocks
  BY <1>6, <1>7, NoRecord
<1>9. Kept(lists1, live, b1)
  BY <1>1, <1>3, <1>5, <1>7 DEF Kept
<1>10. Kept(lists1, NoBlocks, NoBlocks)
  BY <1>3, NoRecord DEF Kept
<1> QED BY <1>4, <1>8, <1>9, <1>10

\* The first state.
LEMMA InitMemory == MemoryPoolInit => MemoryInv
<1> SUFFICES ASSUME MemoryPoolInit PROVE MemoryInv
  OBVIOUS
<1>1. /\ freeLists = [c \in Classes |-> <<>>] /\ live = NoBlocks /\ backend = NoBlocks /\ ~destroyed
      /\ poolStats = [reserved |-> 0, inUse |-> 0, peak |-> 0, allocations |-> 0, backend |-> 0,
                      reuse |-> 0, frees |-> 0, freeBlocks |-> 0]
  BY DEF MemoryPoolInit
<1>2. freeLists \in Lists /\ BytesIn(freeLists) = 0 /\ BlocksIn(freeLists) = 0
  BY <1>1, NothingListed
<1>3. \A c \in Classes : Distinct(freeLists[c]) /\ \A x : ~Has(freeLists[c], x)
  <2>1. Len(<<>>) = 0 /\ 1 .. 0 = {}
    OBVIOUS
  <2>2. Distinct(<<>>) /\ \A x : ~Has(<<>>, x)
    BY <2>1 DEF Distinct, Has
  <2> QED BY <1>1, <2>2
<1>4. Kept(freeLists, live, backend)
  BY <1>1, <1>2, <1>3, NoRecord DEF Kept
<1>5. Tallied(poolStats, freeLists, live)
  BY <1>1, <1>2, NoRecord DEF Tallied, PoolRecords
<1> QED BY <1>1, <1>4, <1>5 DEF MemoryInv

\* note_checkout: the bytes in use grow, and the peak with them.
LEMMA CheckedOutStats ==
    ASSUME NEW s \in PoolRecords, NEW size \in Nat
    PROVE  /\ CheckedOut(s, size) \in PoolRecords
           /\ CheckedOut(s, size).inUse = s.inUse + size
           /\ CheckedOut(s, size).peak >= s.inUse + size
           /\ CheckedOut(s, size).reserved = s.reserved /\ CheckedOut(s, size).backend = s.backend
           /\ CheckedOut(s, size).reuse = s.reuse /\ CheckedOut(s, size).frees = s.frees
           /\ CheckedOut(s, size).freeBlocks = s.freeBlocks
<1>1. s.peak \in Int /\ s.inUse \in Int /\ s.inUse + size \in Int /\ s.allocations + 1 \in Int
  BY DEF PoolRecords
<1>2. PICK m : m = Max({s.peak, s.inUse + size})
  OBVIOUS
<1>3. m \in Int /\ m >= s.inUse + size
  BY <1>1, <1>2, MaxOfTwo
<1>4. PICK t : t = [s EXCEPT !.allocations = s.allocations + 1, !.inUse = s.inUse + size, !.peak = m]
  OBVIOUS
<1>5. CheckedOut(s, size) = t
  BY <1>2, <1>4 DEF CheckedOut
<1>6. t \in PoolRecords
  BY <1>1, <1>3, <1>4 DEF PoolRecords
<1>7. /\ t.inUse = s.inUse + size /\ t.peak = m /\ t.reserved = s.reserved /\ t.backend = s.backend
      /\ t.reuse = s.reuse /\ t.frees = s.frees /\ t.freeBlocks = s.freeBlocks
  BY <1>4 DEF PoolRecords
<1> QED BY <1>3, <1>5, <1>6, <1>7

\* Every step.
LEMMA NextMemory == MemoryInv /\ [MemoryPoolNext]_memoryVars => MemoryInv'
<1> SUFFICES ASSUME MemoryInv, [MemoryPoolNext]_memoryVars PROVE MemoryInv'
  OBVIOUS
<1>0. /\ Kept(freeLists, live, backend) /\ (destroyed => backend = NoBlocks)
      /\ ~destroyed => Tallied(poolStats, freeLists, live)
  BY DEF MemoryInv
<1>1. ASSUME NEW b \in AskedBytes, AllocateCached(b) PROVE MemoryInv'
  <2>1. PICK c : c = RoundUp(b)
    OBVIOUS
  <2>2. c \in Classes /\ c \in Nat
    BY <2>1, ClassesAreSizes
  <2>3. /\ ~destroyed /\ freeLists[c] # <<>> /\ live' = Put(live, Last(freeLists[c]), c)
        /\ freeLists' = [freeLists EXCEPT ![c] = Front(freeLists[c])]
        /\ UNCHANGED <<backend, destroyed>>
    BY <1>1, <2>1 DEF AllocateCached, Calling
  <2>4. /\ Kept(freeLists', live', backend)
        /\ BytesOf(live') = BytesOf(live) + c /\ Cardinality(DOMAIN live') = Cardinality(DOMAIN live) + 1
        /\ BytesIn(freeLists') + c = BytesIn(freeLists) /\ BlocksIn(freeLists') + 1 = BlocksIn(freeLists)
    <3>1. Taken(freeLists, live, backend, c, freeLists', live')
      BY <1>0, <2>2, <2>3, CachedOut
    <3> QED BY <3>1 DEF Taken
  <2>5. PICK t : t = CheckedOut(poolStats, c)
    OBVIOUS
  <2>6. poolStats' = [t EXCEPT !.reuse = t.reuse + 1, !.freeBlocks = t.freeBlocks - 1]
    BY <1>1, <2>1, <2>5 DEF AllocateCached
  <2>7. Tallied(poolStats, freeLists, live)
    BY <1>0, <2>3
  <2>8. /\ t \in PoolRecords /\ t.inUse = poolStats.inUse + c /\ t.peak >= t.inUse
        /\ t.reserved = poolStats.reserved /\ t.backend = poolStats.backend
        /\ t.reuse = poolStats.reuse /\ t.frees = poolStats.frees /\ t.freeBlocks = poolStats.freeBlocks
    BY <2>2, <2>5, <2>7, CheckedOutStats DEF Tallied
  <2>9. /\ poolStats' \in PoolRecords /\ poolStats'.inUse = t.inUse /\ poolStats'.peak = t.peak
        /\ poolStats'.reserved = t.reserved /\ poolStats'.backend = t.backend /\ poolStats'.frees = t.frees
        /\ poolStats'.reuse = t.reuse + 1 /\ poolStats'.freeBlocks = t.freeBlocks - 1
    <3>1. PICK s, x, y : s = poolStats' /\ x = t.reuse + 1 /\ y = t.freeBlocks - 1
      OBVIOUS
    <3>2. x \in Int /\ y \in Int
      BY <2>8, <3>1 DEF PoolRecords
    <3>3. s = [t EXCEPT !.reuse = x, !.freeBlocks = y]
      BY <2>6, <3>1
    <3>4. s \in PoolRecords
      BY <2>8, <3>2, <3>3 DEF PoolRecords
    <3>5. /\ s.inUse = t.inUse /\ s.peak = t.peak /\ s.reserved = t.reserved /\ s.backend = t.backend
          /\ s.frees = t.frees /\ s.reuse = x /\ s.freeBlocks = y
      BY <2>8, <3>3 DEF PoolRecords
    <3> QED BY <3>1, <3>4, <3>5
  <2>10. /\ freeLists \in Lists /\ freeLists' \in Lists
         /\ BytesOf(live) \in Nat /\ Cardinality(DOMAIN live) \in Nat
         /\ BytesIn(freeLists') \in Nat /\ BlocksIn(freeLists') \in Nat
    BY <1>0, <2>4, ListSums, RecordSums DEF Kept
  <2>11. /\ poolStats.inUse = BytesOf(live) /\ poolStats.reserved = poolStats.inUse + BytesIn(freeLists)
         /\ poolStats.freeBlocks = BlocksIn(freeLists)
         /\ poolStats.backend + poolStats.reuse = poolStats.frees + Cardinality(DOMAIN live)
         /\ poolStats.backend \in Int /\ poolStats.reuse \in Int /\ poolStats.frees \in Int
    BY <2>7 DEF Tallied, PoolRecords
  <2>12. Tallied(poolStats', freeLists', live')
    <3>1. poolStats'.inUse = BytesOf(live') /\ poolStats'.peak >= poolStats'.inUse
      BY <2>4, <2>8, <2>9, <2>11
    <3>2. poolStats'.reserved = poolStats'.inUse + BytesIn(freeLists')
      BY <2>2, <2>4, <2>8, <2>9, <2>10, <2>11
    <3>3. poolStats'.freeBlocks = BlocksIn(freeLists')
      BY <2>4, <2>8, <2>9, <2>10, <2>11
    <3>4. poolStats'.backend + poolStats'.reuse = poolStats'.frees + Cardinality(DOMAIN live')
      BY <2>4, <2>8, <2>9, <2>10, <2>11
    <3> QED BY <2>9, <3>1, <3>2, <3>3, <3>4 DEF Tallied
  <2> QED BY <2>3, <2>4, <2>12 DEF MemoryInv
<1>2. ASSUME NEW b \in AskedBytes, AllocateNew(b) PROVE MemoryInv'
  <2>1. PICK c : c = RoundUp(b)
    OBVIOUS
  <2>2. c \in Classes /\ c \in Nat
    BY <2>1, ClassesAreSizes
  <2>3. /\ ~destroyed /\ UNCHANGED <<freeLists, destroyed>>
        /\ \E a \in Addresses \ DOMAIN backend : backend' = Put(backend, a, c) /\ live' = Put(live, a, c)
    BY <1>2, <2>1 DEF AllocateNew, Calling
  <2>4. PICK a \in Addresses \ DOMAIN backend : backend' = Put(backend, a, c) /\ live' = Put(live, a, c)
    BY <2>3
  <2>5. Kept(freeLists, live', backend') /\ Added(live, a, c, live')
    BY <1>0, <2>2, <2>4, NewBlock
  <2>6. PICK t : t = CheckedOut(poolStats, c)
    OBVIOUS
  <2>7. poolStats' = [t EXCEPT !.backend = t.backend + 1, !.reserved = t.reserved + c]
    BY <1>2, <2>1, <2>6 DEF AllocateNew
  <2>8. Tallied(poolStats, freeLists, live)
    BY <1>0, <2>3
  <2>9. /\ t \in PoolRecords /\ t.inUse = poolStats.inUse + c /\ t.peak >= t.inUse
        /\ t.reserved = poolStats.reserved /\ t.backend = poolStats.backend
        /\ t.reuse = poolStats.reuse /\ t.frees = poolStats.frees /\ t.freeBlocks = poolStats.freeBlocks
    BY <2>2, <2>6, <2>8, CheckedOutStats DEF Tallied
  <2>10. /\ poolStats' \in PoolRecords /\ poolStats'.inUse = t.inUse /\ poolStats'.peak = t.peak
         /\ poolStats'.reserved = t.reserved + c /\ poolStats'.backend = t.backend + 1
         /\ poolStats'.frees = t.frees /\ poolStats'.reuse = t.reuse /\ poolStats'.freeBlocks = t.freeBlocks
    <3>1. PICK s, x, y : s = poolStats' /\ x = t.backend + 1 /\ y = t.reserved + c
      OBVIOUS
    <3>2. x \in Int /\ y \in Int
      BY <2>2, <2>9, <3>1 DEF PoolRecords
    <3>3. s = [t EXCEPT !.backend = x, !.reserved = y]
      BY <2>7, <3>1
    <3>4. s \in PoolRecords
      BY <2>9, <3>2, <3>3 DEF PoolRecords
    <3>5. /\ s.inUse = t.inUse /\ s.peak = t.peak /\ s.reserved = y /\ s.backend = x
          /\ s.frees = t.frees /\ s.reuse = t.reuse /\ s.freeBlocks = t.freeBlocks
      BY <2>9, <3>3 DEF PoolRecords
    <3> QED BY <3>1, <3>4, <3>5
  <2>11. /\ BytesOf(live) \in Nat /\ Cardinality(DOMAIN live) \in Nat /\ BytesIn(freeLists) \in Nat
    BY <1>0, ListSums, RecordSums DEF Kept
  <2>12. /\ poolStats.inUse = BytesOf(live) /\ poolStats.reserved = poolStats.inUse + BytesIn(freeLists)
         /\ poolStats.freeBlocks = BlocksIn(freeLists)
         /\ poolStats.backend + poolStats.reuse = poolStats.frees + Cardinality(DOMAIN live)
         /\ poolStats.backend \in Int /\ poolStats.reuse \in Int /\ poolStats.frees \in Int
    BY <2>8 DEF Tallied, PoolRecords
  <2>13. BytesOf(live') = BytesOf(live) + c /\ Cardinality(DOMAIN live') = Cardinality(DOMAIN live) + 1
    BY <2>5 DEF Added
  <2>14. Tallied(poolStats', freeLists, live')
    <3>1. poolStats'.inUse = BytesOf(live') /\ poolStats'.peak >= poolStats'.inUse
      BY <2>9, <2>10, <2>12, <2>13
    <3>2. poolStats'.reserved = poolStats'.inUse + BytesIn(freeLists)
      BY <2>2, <2>9, <2>10, <2>11, <2>12
    <3>3. poolStats'.freeBlocks = BlocksIn(freeLists)
      BY <2>9, <2>10, <2>12
    <3>4. poolStats'.backend + poolStats'.reuse = poolStats'.frees + Cardinality(DOMAIN live')
      BY <2>9, <2>10, <2>11, <2>12, <2>13
    <3> QED BY <2>10, <3>1, <3>2, <3>3, <3>4 DEF Tallied
  <2> QED BY <2>3, <2>5, <2>14 DEF MemoryInv
<1>3. ASSUME NEW b \in AskedBytes, AllocateFails(b) PROVE MemoryInv'
  <2>1. ~destroyed /\ UNCHANGED <<freeLists, live, backend, destroyed>>
        /\ poolStats' = [poolStats EXCEPT !.allocations = poolStats.allocations + 1]
    BY <1>3 DEF AllocateFails, Calling
  <2>2. Tallied(poolStats, freeLists, live)
    BY <1>0, <2>1
  <2>3. Tallied(poolStats', freeLists, live)
    BY <2>1, <2>2 DEF Tallied, PoolRecords
  <2> QED BY <1>0, <2>1, <2>3 DEF MemoryInv
<1>4. ASSUME NEW a \in Addresses, Deallocate(a) PROVE MemoryInv'
  <2>1. PICK c : c = live[a]
    OBVIOUS
  <2>2. /\ ~destroyed /\ a \in DOMAIN live /\ live' = Forget(live, {a})
        /\ freeLists' = [freeLists EXCEPT ![c] = Append(freeLists[c], a)]
        /\ poolStats' = [poolStats EXCEPT !.inUse = poolStats.inUse - c, !.frees = poolStats.frees + 1,
                                          !.freeBlocks = poolStats.freeBlocks + 1]
        /\ UNCHANGED <<backend, destroyed>>
    BY <1>4, <2>1 DEF Deallocate
  <2>3. /\ Kept(freeLists', live', backend) /\ c \in Nat
        /\ BytesOf(live') + c = BytesOf(live) /\ Cardinality(DOMAIN live') + 1 = Cardinality(DOMAIN live)
        /\ BytesIn(freeLists') = BytesIn(freeLists) + c /\ BlocksIn(freeLists') = BlocksIn(freeLists) + 1
    <3>1. Returned(freeLists, live, backend, c, freeLists', live')
      BY <1>0, <2>1, <2>2, BlockBack
    <3> QED BY <3>1 DEF Returned
  <2>4. Tallied(poolStats, freeLists, live)
    BY <1>0, <2>2
  <2>5. /\ poolStats.inUse = BytesOf(live) /\ poolStats.reserved = poolStats.inUse + BytesIn(freeLists)
        /\ poolStats.freeBlocks = BlocksIn(freeLists) /\ poolStats.peak >= poolStats.inUse
        /\ poolStats.backend + poolStats.reuse = poolStats.frees + Cardinality(DOMAIN live)
        /\ poolStats.backend \in Int /\ poolStats.reuse \in Int /\ poolStats.frees \in Int
        /\ poolStats.peak \in Int
    BY <2>4 DEF Tallied, PoolRecords
  <2>6. /\ poolStats' \in PoolRecords /\ poolStats'.inUse = poolStats.inUse - c
        /\ poolStats'.peak = poolStats.peak /\ poolStats'.reserved = poolStats.reserved
        /\ poolStats'.backend = poolStats.backend /\ poolStats'.reuse = poolStats.reuse
        /\ poolStats'.frees = poolStats.frees + 1 /\ poolStats'.freeBlocks = poolStats.freeBlocks + 1
    <3>1. PICK s, t, x, y, z : /\ s = poolStats' /\ t = poolStats /\ x = t.inUse - c
                               /\ y = t.frees + 1 /\ z = t.freeBlocks + 1
      OBVIOUS
    <3>2. t \in PoolRecords
      BY <2>4, <3>1 DEF Tallied
    <3>3. x \in Int /\ y \in Int /\ z \in Int
      BY <2>3, <3>1, <3>2 DEF PoolRecords
    <3>4. s = [t EXCEPT !.inUse = x, !.frees = y, !.freeBlocks = z]
      BY <2>2, <3>1
    <3>5. s \in PoolRecords
      BY <3>2, <3>3, <3>4 DEF PoolRecords
    <3>6. /\ s.inUse = x /\ s.peak = t.peak /\ s.reserved = t.reserved /\ s.backend = t.backend
          /\ s.frees = y /\ s.reuse = t.reuse /\ s.freeBlocks = z
      BY <3>2, <3>4 DEF PoolRecords
    <3> QED BY <3>1, <3>5, <3>6
  <2>7. /\ BytesOf(live') \in Nat /\ Cardinality(DOMAIN live') \in Nat /\ BytesIn(freeLists) \in Nat
    BY <1>0, <2>3, ListSums, RecordSums DEF Kept
  <2>8. Tallied(poolStats', freeLists', live')
    <3>1. poolStats'.inUse = BytesOf(live') /\ poolStats'.peak >= poolStats'.inUse
      BY <2>3, <2>5, <2>6, <2>7
    <3>2. poolStats'.reserved = poolStats'.inUse + BytesIn(freeLists')
      BY <2>3, <2>5, <2>6, <2>7
    <3>3. poolStats'.freeBlocks = BlocksIn(freeLists')
      BY <2>3, <2>5, <2>6
    <3>4. poolStats'.backend + poolStats'.reuse = poolStats'.frees + Cardinality(DOMAIN live')
      BY <2>3, <2>5, <2>6, <2>7
    <3> QED BY <2>6, <3>1, <3>2, <3>3, <3>4 DEF Tallied
  <2> QED BY <2>2, <2>3, <2>8 DEF MemoryInv
<1>5. ASSUME Trim PROVE MemoryInv'
  <2>1. /\ ~destroyed /\ backend' = Forget(backend, Cached) /\ freeLists' = [c \in Classes |-> <<>>]
        /\ poolStats' = [poolStats EXCEPT !.reserved = poolStats.reserved - BytesIn(freeLists), !.freeBlocks = 0]
        /\ UNCHANGED <<live, destroyed>>
    BY <1>5 DEF Trim, CachedBytes, BytesIn
  <2>2. Kept(freeLists', live, backend')
    BY <1>0, <2>1, ListsEmptied
  <2>3. BytesIn(freeLists') = 0 /\ BlocksIn(freeLists') = 0
    BY <2>1, NothingListed
  <2>4. Tallied(poolStats, freeLists, live)
    BY <1>0, <2>1
  <2>5. BytesIn(freeLists) \in Nat
    BY <1>0, ListSums DEF Kept
  <2>6. Tallied(poolStats', freeLists', live)
    <3>1. PICK s, t, x : s = poolStats' /\ t = poolStats /\ x = t.reserved - BytesIn(freeLists)
      OBVIOUS
    <3>2. /\ t \in PoolRecords /\ t.inUse = BytesOf(live) /\ t.peak >= t.inUse
          /\ t.reserved = t.inUse + BytesIn(freeLists)
          /\ t.backend + t.reuse = t.frees + Cardinality(DOMAIN live)
      BY <2>4, <3>1 DEF Tallied
    <3>3. t.reserved \in Int /\ t.inUse \in Int
      BY <3>2 DEF PoolRecords
    <3>4. x \in Int /\ x = t.inUse + 0
      BY <2>5, <3>1, <3>2, <3>3
    <3>5. s = [t EXCEPT !.reserved = x, !.freeBlocks = 0]
      BY <2>1, <3>1
    <3>6. s \in PoolRecords
      <4>1. t \in PoolRecords /\ x \in Int /\ 0 \in Int
        BY <3>2, <3>4
      <4>2. PICK z : z = 0
        OBVIOUS
      <4>3. s = [t EXCEPT !.reserved = x, !.freeBlocks = z] /\ z \in Int
        BY <3>5, <4>1, <4>2
      <4> QED BY <4>1, <4>3 DEF PoolRecords
    <3>7. /\ s.inUse = t.inUse /\ s.peak = t.peak /\ s.reserved = x /\ s.backend = t.backend
          /\ s.frees = t.frees /\ s.reuse = t.reuse /\ s.freeBlocks = 0
      BY <3>2, <3>5 DEF PoolRecords
    <3>8. Tallied(s, freeLists', live)
      BY <2>3, <3>2, <3>4, <3>6, <3>7 DEF Tallied
    <3> QED BY <3>1, <3>8
  <2> QED BY <2>1, <2>2, <2>6 DEF MemoryInv
<1>6. ASSUME Destroy PROVE MemoryInv'
  <2>1. /\ backend' = Forget(backend, Cached \cup DOMAIN live) /\ freeLists' = [c \in Classes |-> <<>>]
        /\ live' = NoBlocks /\ destroyed'
    BY <1>6 DEF Destroy
  <2>2. Kept(freeLists', NoBlocks, backend') /\ backend' = NoBlocks
    BY <1>0, <2>1, ListsEmptied
  <2> QED BY <2>1, <2>2 DEF MemoryInv
<1>7. CASE UNCHANGED memoryVars
  BY <1>0, <1>7 DEF memoryVars, MemoryInv
<1> QED BY <1>1, <1>2, <1>3, <1>4, <1>5, <1>6, <1>7 DEF MemoryPoolNext

\* The pool's records agree in every state.
THEOREM MemoryInvariance == MemoryPoolSpec => []MemoryInv
BY InitMemory, NextMemory, PTL DEF MemoryPoolSpec

\* Whatever is reused, given back and trimmed, a block is handed out or cached, once, under its size,
\* the statistics are exact, and a destroyed pool has given the backend everything back.
THEOREM PoolAccountsTheorem == MemoryPoolSpec => []PoolAccounts
<1>1. MemoryInv => PoolAccounts
  <2> SUFFICES ASSUME MemoryInv PROVE PoolAccounts
    OBVIOUS
  <2>1. /\ freeLists \in Lists
        /\ \A x : x \in DOMAIN backend <=> x \in DOMAIN live \/ \E d \in Classes : Has(freeLists[d], x)
        /\ \A x \in DOMAIN live : live[x] = backend[x]
        /\ \A d \in Classes : Distinct(freeLists[d])
        /\ \A d \in Classes : \A x : Has(freeLists[d], x) => x \notin DOMAIN live /\ backend[x] = d
    BY DEF MemoryInv, Kept
  <2>2. \A a : a \in Cached <=> \E c \in Classes : Has(freeLists[c], a)
    BY <2>1, CachedHas
  <2>3. DOMAIN backend = DOMAIN live \cup Cached /\ DOMAIN live \cap Cached = {}
    BY <2>1, <2>2
  <2>4. ASSUME NEW c \in Classes
        PROVE  IsInjective(freeLists[c]) /\ \A a \in ToSet(freeLists[c]) : backend[a] = c
    <3>1. DOMAIN freeLists[c] = 1 .. Len(freeLists[c])
      BY <2>1, LenProperties DEF Lists
    <3>2. IsInjective(freeLists[c])
      BY <2>1, <3>1 DEF IsInjective, Distinct
    <3>3. \A a \in ToSet(freeLists[c]) : Has(freeLists[c], a)
      BY <3>1 DEF ToSet, Has
    <3> QED BY <2>1, <3>2, <3>3
  <2>5. BytesIn(freeLists) = CachedBytes /\ BlocksIn(freeLists) = CachedBlocks
    BY DEF BytesIn, BlocksIn, CachedBytes, CachedBlocks
  <2>6. /\ destroyed => backend = NoBlocks
        /\ ~destroyed => /\ poolStats.inUse = BytesOf(live) /\ poolStats.peak >= poolStats.inUse
                         /\ poolStats.reserved = poolStats.inUse + CachedBytes
                         /\ poolStats.freeBlocks = CachedBlocks
                         /\ poolStats.backend + poolStats.reuse = poolStats.frees + Cardinality(DOMAIN live)
    BY <2>5 DEF MemoryInv, Tallied
  <2> QED BY <2>1, <2>3, <2>4, <2>6 DEF PoolAccounts
<1> QED BY <1>1, MemoryInvariance, PTL

=============================================================================

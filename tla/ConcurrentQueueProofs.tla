----------------------- MODULE ConcurrentQueueProofs -----------------------
(***************************************************************************)
(* Theorems about ConcurrentQueue, for any number of threads, any capacity *)
(* and any number of insertions.                                           *)
(***************************************************************************)
EXTENDS ConcurrentQueue, FiniteSetTheorems, SequenceTheorems, TLAPS

-----------------------------------------------------------------------------
\* A value that a producer is offering is an item.
LEMMA OfferedIsItem ==
    ASSUME TypeOK, NEW t \in Producers, sent[t] >= 1
    PROVE  Offered(t) \in Item
BY MaxPushNat DEF TypeOK, Offered, Item, Threads

\* A producer inside push or try_push has offered at least one value, and only
\* producers are there.
Offering ==
    \A t \in Threads :
        pc[t] \in {"push", "push_parked", "try_push"} => t \in Producers /\ sent[t] >= 1

\* The base of every proof: types, the capacity bound and who may be offering.
Base == TypeOK /\ Offering

\* Every step keeps the types, the capacity bound and Offering.
LEMMA BaseStep == Base /\ [Next]_vars => Base'
<1> SUFFICES ASSUME Base, [Next]_vars PROVE Base'
  OBVIOUS
<1> USE CapacityPositive, MaxPushNat
<1>u. CASE UNCHANGED vars
  BY <1>u DEF Base, TypeOK, Offering, vars
<1>a. ASSUME NEW t \in Threads, Call(t) PROVE Base'
  <2>1. CASE CallPush(t)
    <3>1. PICK p \in {"push", "try_push"} : Start(t, p)
      BY <2>1 DEF CallPush
    <3>2. /\ t \in Producers /\ sent[t] + 1 <= MaxPush[t]
          /\ sent' = [sent EXCEPT ![t] = sent[t] + 1]
          /\ UNCHANGED <<buffer, closed, accepted, delivered>>
      BY <2>1 DEF CallPush, Base, TypeOK
    <3>3. sent' \in [Threads -> Nat] /\ \A u \in Producers : sent'[u] <= MaxPush[u]
      BY <3>2 DEF Base, TypeOK, Threads
    <3>4. pc' \in [Threads -> Pcs] /\ ret' \in [Threads -> Ops \X Statuses]
      BY <3>1 DEF Base, TypeOK, Start, Pcs, Ops, Statuses
    <3>5. Offering'
      BY <3>1, <3>2 DEF Base, TypeOK, Offering, Start
    <3> QED BY <3>2, <3>3, <3>4, <3>5 DEF Base, TypeOK
  <2>2. CASE CallPop(t)
    BY <2>2 DEF Base, TypeOK, Offering, CallPop, Start, Pcs, WaitPcs, Ops, Statuses
  <2>3. CASE CallShutdown(t)
    BY <2>3 DEF Base, TypeOK, Offering, CallShutdown, Start, Pcs, WaitPcs, Ops, Statuses
  <2> QED BY <1>a, <2>1, <2>2, <2>3 DEF Call
<1>i. ASSUME NEW t \in Threads, Insert(t), pc[t] \in {"push", "try_push"},
             Len(buffer) < Capacity
      PROVE  Base'
  <2>1. Offered(t) \in Item
    BY <1>i, OfferedIsItem DEF Base, Offering
  <2> QED BY <1>i, <2>1 DEF Base, TypeOK, Offering, Insert, Pcs
<1>e. ASSUME NEW t \in Threads, Extract(t) PROVE Base'
  BY <1>e DEF Base, TypeOK, Offering, Extract, Pcs
<1>r. ASSUME NEW t \in Threads, NEW op \in Ops, NEW s \in Statuses, Return(t, op, s),
             UNCHANGED <<buffer, closed, sent, accepted, delivered>>
      PROVE  Base'
  BY <1>r DEF Base, TypeOK, Offering, Return, Pcs
<1>n. ASSUME NEW t \in Threads, NEW op \in Ops, NEW W \in SUBSET Threads, NotifyOne(t, op, W)
      PROVE  Base'
  <2>1. \A p \in Pcs : Resume(p) \in Pcs
    BY DEF Resume, Pcs
  <2>2. \A p \in Pcs : Resume(p) \in {"push", "push_parked", "try_push"} =>
                           p \in {"push", "push_parked", "try_push"}
    BY DEF Resume, Pcs, WaitPcs
  <2>3. pc \in [Threads -> Pcs] /\ "idle" \in Pcs
    BY DEF Base, TypeOK, Pcs
  <2>4. /\ ret' \in [Threads -> Ops \X Statuses]
        /\ UNCHANGED <<buffer, closed, sent, accepted, delivered>>
    BY <1>n DEF Base, TypeOK, NotifyOne, Statuses
  <2>5. \A u \in Threads : pc'[u] \in {"idle", pc[u], Resume(pc[u])}
    BY <1>n, <2>3 DEF NotifyOne
  <2>6. pc' \in [Threads -> Pcs]
    BY <1>n, <2>1, <2>3 DEF NotifyOne
  <2>7. Offering'
    BY <2>2, <2>3, <2>4, <2>5 DEF Base, Offering
  <2> QED BY <2>4, <2>6, <2>7 DEF Base, TypeOK
<1>b. ASSUME NEW t \in Threads, Run(t) PROVE Base'
  <2>1. CASE PushWait(t)
    BY <2>1 DEF Base, TypeOK, Offering, PushWait, Goto, Pcs, WaitPcs
  <2>2. CASE PushOk(t)
    BY <2>2, <1>i DEF PushOk, Base, TypeOK
  <2>3. CASE PushClosed(t)
    BY <2>3, <1>r DEF PushClosed, Ops, Statuses
  <2>4. CASE TryPush(t)
    BY <2>4, <1>i, <1>r DEF TryPush, Ops, Statuses, Base, TypeOK
  <2>5. CASE PopWait(t)
    BY <2>5 DEF Base, TypeOK, Offering, PopWait, Goto, Pcs, WaitPcs
  <2>6. CASE PopOk(t)
    BY <2>6, <1>e DEF PopOk
  <2>7. CASE PopClosed(t)
    BY <2>7, <1>r DEF PopClosed, Ops, Statuses
  <2>8. CASE PopTimeout(t)
    BY <2>8, <1>r DEF PopTimeout, Ops, Statuses
  <2>9. CASE TryPop(t)
    BY <2>9, <1>e, <1>r DEF TryPop, Ops, Statuses
  <2>10. CASE NotifyNotEmpty(t)
    BY <2>10, <1>n DEF NotifyNotEmpty, NotEmptyWaiters, Ops
  <2>11. CASE NotifyNotFull(t)
    BY <2>11, <1>n DEF NotifyNotFull, NotFullWaiters, Ops
  <2>12. CASE Close(t)
    BY <2>12 DEF Base, TypeOK, Offering, Close, Goto, Pcs
  <2>13. CASE AlreadyClosed(t)
    BY <2>13, <1>r DEF AlreadyClosed, Ops, Statuses
  <2>14. CASE NotifyAllNotEmpty(t)
    BY <2>14 DEF Base, TypeOK, Offering, NotifyAllNotEmpty, NotEmptyWaiters, Resume, Pcs, WaitPcs
  <2>15. CASE NotifyAllNotFull(t)
    BY <2>15 DEF Base, TypeOK, Offering, NotifyAllNotFull, NotFullWaiters, Resume, Pcs,
         WaitPcs, Ops, Statuses
  <2> QED BY <1>b, <2>1, <2>2, <2>3, <2>4, <2>5, <2>6, <2>7, <2>8, <2>9, <2>10, <2>11,
             <2>12, <2>13, <2>14, <2>15 DEF Run
<1>c. ASSUME NEW t \in Threads, Expire(t) PROVE Base'
  BY <1>c DEF Base, TypeOK, Offering, Expire, Goto, Pcs, WaitPcs
<1>d. ASSUME NEW t \in Threads, SpuriousWakeup(t) PROVE Base'
  BY <1>d DEF Base, TypeOK, Offering, SpuriousWakeup, Goto, Resume, Pcs, WaitPcs
<1> QED BY <1>u, <1>a, <1>b, <1>c, <1>d DEF Next

\* A fresh queue satisfies Base.
LEMMA InitBase == Init => Base
<1> SUFFICES ASSUME Init PROVE Base
  OBVIOUS
<1>1. \A t \in Producers : t \in Threads /\ MaxPush[t] \in Nat
  BY MaxPushNat DEF Threads
<1>2. sent \in [Threads -> Nat] /\ \A t \in Producers : sent[t] <= MaxPush[t]
  BY <1>1 DEF Init
<1>3. pc \in [Threads -> Pcs] /\ ret \in [Threads -> Ops \X Statuses]
  BY DEF Init, Pcs, Ops, Statuses
<1>4. buffer \in Seq(Item) /\ accepted \in Seq(Item) /\ delivered \in Seq(Item)
  BY EmptySeq DEF Init
<1>6. Len(buffer) <= Capacity
  BY CapacityPositive DEF Init
<1>7. closed \in BOOLEAN
  BY DEF Init
<1>5. Offering
  BY DEF Init, Offering
<1> QED BY <1>2, <1>3, <1>4, <1>5, <1>6, <1>7 DEF Base, TypeOK

\* The constructor's state and every later one have the types of TypeOK; in
\* particular buffer_ never exceeds capacity_.
THEOREM TypeCorrect == Spec => []TypeOK
<1>1. Base => TypeOK
  BY DEF Base
<1> QED BY InitBase, BaseStep, <1>1, PTL DEF Spec

-----------------------------------------------------------------------------
(* What a step does to the data, whichever of the operations it belongs to. *)

Inserts(t) ==
    /\ Insert(t)
    /\ pc[t] \in {"push", "try_push"} /\ ~closed /\ Len(buffer) < Capacity

Quiet == UNCHANGED <<buffer, closed, accepted, delivered>>

\* Returns with a status other than Ok, and what each of them presupposes.
Refuses(t) ==
    /\ Quiet /\ UNCHANGED sent
    /\ \E op \in Ops, s \in Statuses :
         /\ Return(t, op, s)
         /\ op = "push" => pc[t] \in {"push", "try_push"}
         /\ op = "pop" /\ s = "Closed" => closed /\ buffer = <<>>

\* Moves threads between program points inside their calls.
Moves == Quiet /\ UNCHANGED <<sent, ret>>

\* Returns Ok after the notification.
Acknowledges(t) ==
    /\ Quiet /\ UNCHANGED sent
    /\ \E op \in Ops : ret' = [ret EXCEPT ![t] = <<op, "Ok">>]

\* Every step of Next inserts, extracts, closes, refuses, acknowledges, moves or
\* starts a call.
LEMMA StepKinds ==
    ASSUME Base, Next
    PROVE  \E t \in Threads :
             \/ Call(t) \/ Inserts(t) \/ Extract(t) \/ Close(t)
             \/ Refuses(t) \/ Acknowledges(t) \/ Moves
<1> PICK t \in Threads : Call(t) \/ Run(t) \/ Expire(t) \/ SpuriousWakeup(t)
  BY DEF Next
<1>1. CASE Call(t)
  BY <1>1
<1>2. CASE Expire(t) \/ SpuriousWakeup(t)
  BY <1>2 DEF Expire, SpuriousWakeup, Moves, Quiet
<1>3. CASE PushWait(t) \/ PopWait(t) \/ NotifyAllNotEmpty(t)
  BY <1>3 DEF PushWait, PopWait, NotifyAllNotEmpty, Moves, Quiet
<1>4. CASE PushOk(t) \/ TryPush(t)
  <2>1. CASE PushOk(t)
    BY <2>1 DEF PushOk, Inserts
  <2>2. CASE TryPush(t) /\ ~(closed \/ Len(buffer) >= Capacity)
    BY <2>2, CapacityPositive, LenProperties DEF TryPush, Inserts, Base, TypeOK
  <2>3. CASE TryPush(t) /\ (closed \/ Len(buffer) >= Capacity)
    <3>1. PICK s \in {"Closed", "Full"} : Return(t, "push", s)
      BY <2>3 DEF TryPush
    <3>2. Refuses(t)
      BY <2>3, <3>1 DEF TryPush, Refuses, Quiet, Ops, Statuses
    <3> QED BY <3>2
  <2> QED BY <1>4, <2>1, <2>2, <2>3
<1>5. CASE PopOk(t) \/ TryPop(t)
  BY <1>5 DEF PopOk, TryPop, Refuses, Quiet, Ops, Statuses
<1>6. CASE PushClosed(t) \/ PopClosed(t) \/ PopTimeout(t) \/ AlreadyClosed(t)
  BY <1>6 DEF PushClosed, PopClosed, PopTimeout, AlreadyClosed, Refuses, Quiet, Ops, Statuses
<1>7. CASE NotifyNotEmpty(t) \/ NotifyNotFull(t) \/ NotifyAllNotFull(t)
  BY <1>7 DEF NotifyNotEmpty, NotifyNotFull, NotifyOne, NotifyAllNotFull, Acknowledges, Quiet, Ops
<1> QED BY <1>1, <1>2, <1>3, <1>4, <1>5, <1>6, <1>7 DEF Run

-----------------------------------------------------------------------------
(* Delivery: nothing is lost, duplicated, reordered or admitted by mistake. *)

\* A thread that has a result has left its call.
ResultMeansIdle == \A t \in Threads : ret[t] # <<"none", "none">> => pc[t] = "idle"

\* Accepted items were offered, and neither the value a producer is about to
\* insert nor one that was refused is among them.
AcceptedWereOffered ==
    \A i \in 1..Len(accepted) : accepted[i].n <= sent[accepted[i].by]

PendingNotAccepted ==
    \A t \in Producers :
        pc[t] \in {"push", "push_parked", "try_push"} =>
            \A i \in 1..Len(accepted) : accepted[i] # Offered(t)

DataInv ==
    /\ Base
    /\ ResultMeansIdle
    /\ AcceptedWereOffered
    /\ PendingNotAccepted
    /\ ExactlyOnceInOrder
    /\ RefusedNeverEnters
    /\ ClosedMeansDrained

\* Only a thread that is idle after the step has a result after it.
LEMMA ResultStep == Base /\ ResultMeansIdle /\ Next => ResultMeansIdle'
<1> SUFFICES ASSUME Base, ResultMeansIdle, Next PROVE ResultMeansIdle'
  OBVIOUS
<1> PICK t \in Threads : Call(t) \/ Run(t) \/ Expire(t) \/ SpuriousWakeup(t)
  BY DEF Next
<1> USE DEF Base, TypeOK, ResultMeansIdle
<1>1. CASE Call(t)
  BY <1>1 DEF Call, CallPush, CallPop, CallShutdown, Start
<1>2. CASE Expire(t) \/ SpuriousWakeup(t)
  BY <1>2 DEF Expire, SpuriousWakeup, Goto, WaitPcs
<1>3. CASE PushWait(t) \/ PopWait(t) \/ Close(t)
  BY <1>3 DEF PushWait, PopWait, Close, Goto
<1>4. CASE PushOk(t) \/ TryPush(t)
  BY <1>4 DEF PushOk, TryPush, Insert, Return
<1>5. CASE PopOk(t) \/ TryPop(t)
  BY <1>5 DEF PopOk, TryPop, Extract, Return
<1>6. CASE PushClosed(t) \/ PopClosed(t) \/ PopTimeout(t) \/ AlreadyClosed(t)
  BY <1>6 DEF PushClosed, PopClosed, PopTimeout, AlreadyClosed, Return
<1>7. CASE NotifyNotEmpty(t) \/ NotifyNotFull(t)
  BY <1>7 DEF NotifyNotEmpty, NotifyNotFull, NotifyOne, NotEmptyWaiters, NotFullWaiters, Resume
<1>8. CASE NotifyAllNotEmpty(t)
  BY <1>8 DEF NotifyAllNotEmpty, NotEmptyWaiters, Resume
<1>9. CASE NotifyAllNotFull(t)
  BY <1>9 DEF NotifyAllNotFull, NotFullWaiters, Resume
<1> QED BY <1>1, <1>2, <1>3, <1>4, <1>5, <1>6, <1>7, <1>8, <1>9 DEF Run

\* Who may be inside push or try_push after the step: who was, or who just called.
LEMMA OfferingStep ==
    ASSUME Base, Next, NEW u \in Threads,
           pc'[u] \in {"push", "push_parked", "try_push"}
    PROVE  \/ pc[u] \in {"push", "push_parked", "try_push"} /\ sent'[u] = sent[u]
           \/ pc[u] = "idle" /\ sent'[u] = sent[u] + 1
<1> PICK t \in Threads : Call(t) \/ Run(t) \/ Expire(t) \/ SpuriousWakeup(t)
  BY DEF Next
<1> USE DEF Base, TypeOK
<1>1. CASE Call(t)
  BY <1>1 DEF Call, CallPush, CallPop, CallShutdown, Start
<1>2. CASE Expire(t) \/ SpuriousWakeup(t)
  BY <1>2 DEF Expire, SpuriousWakeup, Goto, WaitPcs, Resume
<1>3. CASE PushWait(t) \/ PopWait(t) \/ Close(t)
  BY <1>3 DEF PushWait, PopWait, Close, Goto
<1>4. CASE PushOk(t) \/ TryPush(t)
  BY <1>4 DEF PushOk, TryPush, Insert, Return
<1>5. CASE PopOk(t) \/ TryPop(t)
  BY <1>5 DEF PopOk, TryPop, Extract, Return
<1>6. CASE PushClosed(t) \/ PopClosed(t) \/ PopTimeout(t) \/ AlreadyClosed(t)
  BY <1>6 DEF PushClosed, PopClosed, PopTimeout, AlreadyClosed, Return
<1>7. CASE NotifyNotEmpty(t) \/ NotifyNotFull(t)
  BY <1>7 DEF NotifyNotEmpty, NotifyNotFull, NotifyOne, NotEmptyWaiters, NotFullWaiters, Resume
<1>8. CASE NotifyAllNotEmpty(t)
  BY <1>8 DEF NotifyAllNotEmpty, NotEmptyWaiters, Resume
<1>9. CASE NotifyAllNotFull(t)
  BY <1>9 DEF NotifyAllNotFull, NotFullWaiters, Resume
<1> QED BY <1>1, <1>2, <1>3, <1>4, <1>5, <1>6, <1>7, <1>8, <1>9 DEF Run

\* An item names a producer and a serial number, and these determine it.
LEMMA ItemFields ==
    /\ \A x \in Item : x.by \in Producers /\ x.n \in Nat /\ x = [by |-> x.by, n |-> x.n]
    /\ \A t : Offered(t).by = t /\ Offered(t).n = sent[t]
BY MaxPushNat DEF Item, Offered

\* An inserting step appends the one value its thread is offering.
LEMMA InsertKeeps ==
    ASSUME DataInv, Next, ResultMeansIdle', Base', NEW t \in Threads, Inserts(t)
    PROVE  DataInv'
<1> USE DEF DataInv
<1>1. t \in Producers /\ Offered(t) \in Item
  BY OfferedIsItem DEF Inserts, Base, Offering
<1>2. /\ buffer' = Append(buffer, Offered(t)) /\ accepted' = Append(accepted, Offered(t))
      /\ delivered' = delivered /\ closed' = closed /\ ret' = ret /\ sent' = sent
      /\ buffer \in Seq(Item) /\ accepted \in Seq(Item) /\ delivered \in Seq(Item)
      /\ pc'[t] = "notify_not_empty" /\ pc[t] \in {"push", "try_push"} /\ ~closed
      /\ \A u \in Threads \ {t} : pc'[u] = pc[u]
  BY DEF Inserts, Insert, Base, TypeOK
<1>3. /\ Len(accepted') = Len(accepted) + 1 /\ Len(accepted) \in Nat
      /\ \A i \in 1..Len(accepted) : accepted'[i] = accepted[i] /\ accepted[i] \in Item
      /\ accepted'[Len(accepted) + 1] = Offered(t)
  BY <1>1, <1>2
<1>4. ExactlyOnceInOrder'
  <2>1. Append(delivered \o buffer, Offered(t)) = delivered \o Append(buffer, Offered(t))
    <3> HIDE DEF DataInv
    <3>1. delivered \in Seq(Item) /\ buffer \in Seq(Item) /\ Offered(t) \in Item
      BY <1>1, <1>2
    <3> QED BY <3>1
  <2> QED BY <1>2, <2>1 DEF ExactlyOnceInOrder
<1>5. AcceptedWereOffered'
  <2> SUFFICES ASSUME NEW i \in 1..Len(accepted')
               PROVE  accepted'[i].n <= sent[accepted'[i].by]
    BY <1>2 DEF AcceptedWereOffered
  <2>1. CASE i \in 1..Len(accepted)
    BY <2>1, <1>3 DEF AcceptedWereOffered
  <2>2. CASE i = Len(accepted) + 1
    BY <2>2, <1>3, ItemFields DEF Base, TypeOK
  <2> QED BY <2>1, <2>2, <1>3
<1>6. \A u \in Producers : u # t => Offered(u) # Offered(t)
  BY ItemFields
<1>7. Offered(t) = Offered(t)' /\ \A u : Offered(u)' = Offered(u)
  BY <1>2 DEF Offered
<1>8. PendingNotAccepted'
  BY <1>1, <1>2, <1>3, <1>6, <1>7 DEF PendingNotAccepted, Threads
<1>9. RefusedNeverEnters'
  <2>1. ret[t] = <<"none", "none">>
    BY <1>2 DEF ResultMeansIdle
  <2>2. \A u \in Producers :
          ret'[u] \in {<<"push", "Full">>, <<"push", "Closed">>} =>
            \A i \in 1..Len(accepted') : accepted'[i] # Offered(u)'
    BY <1>2, <1>3, <1>6, <1>7, <2>1 DEF RefusedNeverEnters
  <2>3. \A i \in 1..Len(accepted) :
          accepted[i].by = t => accepted[i].n < sent[t]
    <3> SUFFICES ASSUME NEW i \in 1..Len(accepted), accepted[i].by = t
                 PROVE  accepted[i].n < sent[t]
      OBVIOUS
    <3>1. accepted[i] # Offered(t)
      BY <1>1, <1>2 DEF PendingNotAccepted
    <3>2. accepted[i].n # sent[t]
      BY <3>1, <1>3, ItemFields DEF Offered
    <3>3. accepted[i].n <= sent[t] /\ accepted[i].n \in Nat /\ sent[t] \in Nat
      BY <1>3, ItemFields DEF AcceptedWereOffered, Base, TypeOK
    <3> QED BY <3>2, <3>3
  <2>4. \A i, j \in 1..Len(accepted') :
          (i < j /\ accepted'[i].by = accepted'[j].by) => accepted'[i].n < accepted'[j].n
    <3> SUFFICES ASSUME NEW i \in 1..Len(accepted'), NEW j \in 1..Len(accepted'),
                        i < j, accepted'[i].by = accepted'[j].by
                 PROVE  accepted'[i].n < accepted'[j].n
      OBVIOUS
    <3>1. i \in 1..Len(accepted)
      BY <1>3
    <3>2. CASE j \in 1..Len(accepted)
      BY <3>1, <3>2, <1>3 DEF RefusedNeverEnters
    <3>3. CASE j = Len(accepted) + 1
      BY <3>1, <3>3, <1>3, <2>3, ItemFields
    <3> QED BY <3>2, <3>3, <1>3
  <2> QED BY <2>2, <2>4 DEF RefusedNeverEnters
<1>10. ClosedMeansDrained'
  BY <1>2 DEF ClosedMeansDrained
<1> QED BY <1>4, <1>5, <1>8, <1>9, <1>10

\* A step that leaves accepted alone keeps the facts about refused and pending
\* values, provided whoever is refused was offering.
LEMMA OffersKept ==
    ASSUME DataInv, Next, UNCHANGED accepted,
           \A u \in Threads : sent'[u] \in Nat /\ sent[u] <= sent'[u],
           \A u \in Producers :
              ret'[u] \in {<<"push", "Full">>, <<"push", "Closed">>} =>
                 /\ sent'[u] = sent[u]
                 /\ \/ ret[u] = ret'[u]
                    \/ pc[u] \in {"push", "try_push"}
    PROVE  AcceptedWereOffered' /\ PendingNotAccepted' /\ RefusedNeverEnters'
<1> USE DEF DataInv
<1>1. \A i \in 1..Len(accepted) : accepted[i] \in Item /\ accepted[i].by \in Threads
  BY ItemFields DEF Base, TypeOK, Threads
<1>2. AcceptedWereOffered'
  BY <1>1, ItemFields DEF AcceptedWereOffered, Base, TypeOK
<1>3. PendingNotAccepted'
  <2> SUFFICES ASSUME NEW u \in Producers, pc'[u] \in {"push", "push_parked", "try_push"},
                      NEW i \in 1..Len(accepted)
               PROVE  accepted[i] # Offered(u)'
    BY DEF PendingNotAccepted
  <2>1. CASE pc[u] \in {"push", "push_parked", "try_push"} /\ sent'[u] = sent[u]
    BY <2>1 DEF PendingNotAccepted, Offered
  <2>2. CASE sent'[u] = sent[u] + 1
    <3>1. accepted[i].by = u => accepted[i].n <= sent[u]
      BY DEF AcceptedWereOffered
    <3>2. Offered(u)'.by = u /\ Offered(u)'.n = sent[u] + 1 /\ sent[u] \in Nat
      BY <2>2 DEF Offered, Base, TypeOK, Threads
    <3> QED BY <3>1, <3>2, <1>1, ItemFields
  <2> QED BY <2>1, <2>2, OfferingStep DEF Threads
<1>4. RefusedNeverEnters'
  BY DEF RefusedNeverEnters, PendingNotAccepted, Offered
<1> QED BY <1>2, <1>3, <1>4

\* Every step keeps DataInv.
LEMMA DataStep == DataInv /\ [Next]_vars => DataInv'
<1> SUFFICES ASSUME DataInv, [Next]_vars PROVE DataInv'
  OBVIOUS
<1>u. CASE UNCHANGED vars
  <2>1. Base' /\ ResultMeansIdle'
    BY <1>u DEF DataInv, Base, TypeOK, Offering, ResultMeansIdle, vars
  <2>2. AcceptedWereOffered' /\ PendingNotAccepted' /\ RefusedNeverEnters'
    BY <1>u DEF DataInv, AcceptedWereOffered, PendingNotAccepted, RefusedNeverEnters, Offered, vars
  <2>3. ExactlyOnceInOrder' /\ ClosedMeansDrained'
    BY <1>u DEF DataInv, ExactlyOnceInOrder, ClosedMeansDrained, vars
  <2> QED BY <2>1, <2>2, <2>3 DEF DataInv
<1>n. CASE Next
  <2>1. Base'
    BY <1>n, BaseStep DEF DataInv
  <2>2. ResultMeansIdle'
    BY <1>n, ResultStep DEF DataInv
  <2>3. PICK t \in Threads :
          \/ Call(t) \/ Inserts(t) \/ Extract(t) \/ Close(t)
          \/ Refuses(t) \/ Acknowledges(t) \/ Moves
    BY <1>n, StepKinds DEF DataInv
  <2>4. CASE Inserts(t)
    BY <1>n, <2>1, <2>2, <2>4, InsertKeeps
  <2>5. CASE Extract(t)
    <3>1. /\ buffer # <<>> /\ buffer' = Tail(buffer)
          /\ delivered' = Append(delivered, Head(buffer))
          /\ accepted' = accepted /\ closed' = closed /\ ret' = ret /\ sent' = sent
          /\ buffer \in Seq(Item) /\ delivered \in Seq(Item) /\ accepted \in Seq(Item)
      BY <2>5 DEF Extract, DataInv, Base, TypeOK
    <3>2. ExactlyOnceInOrder'
      <4>1. Append(delivered, Head(buffer)) \o Tail(buffer) = delivered \o buffer
        BY <3>1
      <4> QED BY <3>1, <4>1 DEF ExactlyOnceInOrder, DataInv
    <3>3. ClosedMeansDrained'
      <4>1. delivered # accepted
        BY <3>1 DEF DataInv, ExactlyOnceInOrder
      <4> QED BY <3>1, <4>1 DEF DataInv, ClosedMeansDrained
    <3>4. AcceptedWereOffered' /\ PendingNotAccepted' /\ RefusedNeverEnters'
      BY <1>n, <3>1, OffersKept DEF DataInv, Base, TypeOK
    <3> QED BY <2>1, <2>2, <3>2, <3>3, <3>4 DEF DataInv
  <2>6. CASE Call(t)
    <3>1. /\ UNCHANGED <<buffer, closed, accepted, delivered>>
          /\ ret' = [ret EXCEPT ![t] = <<"none", "none">>]
          /\ \A u \in Threads : sent'[u] \in Nat /\ sent[u] <= sent'[u]
          /\ \A u \in Threads \ {t} : sent'[u] = sent[u]
      BY <2>6 DEF Call, CallPush, CallPop, CallShutdown, Start, DataInv, Base, TypeOK
    <3>2. ExactlyOnceInOrder' /\ ClosedMeansDrained'
      BY <3>1 DEF DataInv, Base, TypeOK, ExactlyOnceInOrder, ClosedMeansDrained
    <3>3. \A u \in Producers :
            ret'[u] \in {<<"push", "Full">>, <<"push", "Closed">>} =>
               sent'[u] = sent[u] /\ ret[u] = ret'[u]
      BY <3>1 DEF DataInv, Base, TypeOK, Threads
    <3>4. AcceptedWereOffered' /\ PendingNotAccepted' /\ RefusedNeverEnters'
      BY <1>n, <3>1, <3>3, OffersKept
    <3> QED BY <2>1, <2>2, <3>2, <3>4 DEF DataInv
  <2>7. CASE Close(t) \/ Moves
    <3>1. /\ UNCHANGED <<buffer, accepted, delivered, ret, sent>>
          /\ closed => closed'
      BY <2>7 DEF Close, Moves, Quiet
    <3>2. ExactlyOnceInOrder' /\ ClosedMeansDrained'
      BY <3>1 DEF DataInv, ExactlyOnceInOrder, ClosedMeansDrained
    <3>4. AcceptedWereOffered' /\ PendingNotAccepted' /\ RefusedNeverEnters'
      BY <1>n, <3>1, OffersKept DEF DataInv, Base, TypeOK
    <3> QED BY <2>1, <2>2, <3>2, <3>4 DEF DataInv
  <2>8. CASE Refuses(t) \/ Acknowledges(t)
    <3>1. /\ UNCHANGED <<buffer, closed, accepted, delivered, sent>>
          /\ \E op \in Ops, s \in Statuses :
               /\ ret' = [ret EXCEPT ![t] = <<op, s>>]
               /\ op = "push" /\ s # "Ok" => pc[t] \in {"push", "try_push"}
               /\ op = "pop" /\ s = "Closed" => closed /\ buffer = <<>>
      <4>1. CASE Refuses(t)
        BY <4>1 DEF Refuses, Return, Quiet
      <4>2. CASE Acknowledges(t)
        BY <4>2 DEF Acknowledges, Quiet, Statuses
      <4> QED BY <2>8, <4>1, <4>2
    <3>2. ExactlyOnceInOrder'
      BY <3>1 DEF DataInv, ExactlyOnceInOrder
    <3>3. ClosedMeansDrained'
      <4>1. buffer = <<>> => delivered = accepted
        BY DEF DataInv, Base, TypeOK, ExactlyOnceInOrder
      <4>2. \A u \in Threads :
              ret'[u] = <<"pop", "Closed">> =>
                 ret[u] = <<"pop", "Closed">> \/ (closed /\ buffer = <<>>)
        BY <3>1 DEF DataInv, Base, TypeOK
      <4> QED BY <3>1, <4>1, <4>2 DEF DataInv, ClosedMeansDrained
    <3>4. AcceptedWereOffered' /\ PendingNotAccepted' /\ RefusedNeverEnters'
      <4>1. \A u \in Producers :
              ret'[u] \in {<<"push", "Full">>, <<"push", "Closed">>} =>
                 ret[u] = ret'[u] \/ pc[u] \in {"push", "try_push"}
        BY <3>1 DEF DataInv, Base, TypeOK, Threads
      <4> QED BY <1>n, <3>1, <4>1, OffersKept DEF DataInv, Base, TypeOK
    <3> QED BY <2>1, <2>2, <3>2, <3>3, <3>4 DEF DataInv
  <2> QED BY <2>3, <2>4, <2>5, <2>6, <2>7, <2>8
<1> QED BY <1>u, <1>n

\* A fresh queue satisfies DataInv.
LEMMA DataInit == Init => DataInv
<1> SUFFICES ASSUME Init PROVE DataInv
  OBVIOUS
<1>1. Base
  BY InitBase
<1>2. ExactlyOnceInOrder
  BY DEF Init, ExactlyOnceInOrder
<1>3. /\ ResultMeansIdle /\ AcceptedWereOffered /\ PendingNotAccepted
      /\ RefusedNeverEnters /\ ClosedMeansDrained
  BY DEF Init, ResultMeansIdle, AcceptedWereOffered, PendingNotAccepted,
     RefusedNeverEnters, ClosedMeansDrained, Threads
<1> QED BY <1>1, <1>2, <1>3 DEF DataInv

\* push and pop lose, duplicate and reorder nothing.
THEOREM DeliveryExact == Spec => []ExactlyOnceInOrder
<1>1. DataInv => ExactlyOnceInOrder
  BY DEF DataInv
<1> QED BY DataInit, DataStep, <1>1, PTL DEF Spec

\* A refused value never enters the queue, and a producer's values are accepted in
\* the order in which it offered them.
THEOREM RefusalExact == Spec => []RefusedNeverEnters
<1>1. DataInv => RefusedNeverEnters
  BY DEF DataInv
<1> QED BY DataInit, DataStep, <1>1, PTL DEF Spec

\* A consumer that is told Closed can rely on everything having been delivered.
THEOREM CloseDrains == Spec => []ClosedMeansDrained
<1>1. DataInv => ClosedMeansDrained
  BY DEF DataInv
<1> QED BY DataInit, DataStep, <1>1, PTL DEF Spec

\* closed_ is final and a closed queue accepts nothing.
THEOREM CloseFinal == Spec => NothingAcceptedAfterClose
<1>1. DataInv /\ [Next]_vars => [closed => closed' /\ accepted' = accepted]_vars
  <2> SUFFICES ASSUME DataInv, Next, closed PROVE closed' /\ accepted' = accepted
    BY DEF vars
  <2>1. PICK t \in Threads :
          \/ Call(t) \/ Inserts(t) \/ Extract(t) \/ Close(t)
          \/ Refuses(t) \/ Acknowledges(t) \/ Moves
    BY StepKinds DEF DataInv
  <2> QED BY <2>1 DEF Call, CallPush, CallPop, CallShutdown, Inserts, Extract, Close, Refuses,
             Acknowledges, Moves, Quiet
<1> QED BY DataInit, DataStep, <1>1, PTL DEF Spec, NothingAcceptedAfterClose

-----------------------------------------------------------------------------
(* Wakeups.                                                                 *)

\* Threads that will look at the consumers' (producers') predicate or make
\* somebody look at it.
ForConsumers == {t \in Threads : pc[t] \in
                    {"notify_not_empty", "pop", "pop_for", "pop_for_expired"}}
ForProducers == {t \in Threads : pc[t] \in {"notify_not_full", "push"}}

ItemsCovered == ~closed /\ NotEmptyWaiters # {} => Cardinality(ForConsumers) >= Len(buffer)
SlotsCovered == ~closed /\ NotFullWaiters # {} =>
                    Cardinality(ForProducers) >= Capacity - Len(buffer)
CloseCovered ==
    /\ closed /\ NotEmptyWaiters # {} =>
         \E t \in Threads : pc[t] = "notify_all_not_empty"
    /\ closed /\ NotFullWaiters # {} =>
         \E t \in Threads : pc[t] \in {"notify_all_not_empty", "notify_all_not_full"}

WakeInv == Base /\ ItemsCovered /\ SlotsCovered /\ CloseCovered

\* How the size of a subset of the threads changes when one thread joins, leaves
\* or is exchanged for another.
LEMMA Counting ==
    ASSUME NEW A \in SUBSET Threads
    PROVE  /\ Cardinality(A) \in Nat
           /\ \A t \in Threads \ A : Cardinality(A \cup {t}) = Cardinality(A) + 1
           /\ \A t \in A : Cardinality(A \ {t}) = Cardinality(A) - 1
           /\ \A t \in A : \A w \in Threads \ A :
                Cardinality((A \ {t}) \cup {w}) = Cardinality(A)
<1>1. IsFiniteSet(A)
  BY ThreadsFinite, FS_Subset
<1>2. Cardinality(A) \in Nat
  BY <1>1, FS_CardinalityType
<1>3. \A t \in Threads \ A : Cardinality(A \cup {t}) = Cardinality(A) + 1
  BY <1>1, FS_AddElement
<1>4. \A t \in A : IsFiniteSet(A \ {t}) /\ Cardinality(A \ {t}) = Cardinality(A) - 1
  BY <1>1, FS_RemoveElement
<1>5. ASSUME NEW t \in A, NEW w \in Threads \ A
      PROVE  Cardinality((A \ {t}) \cup {w}) = Cardinality(A)
  <2>1. w \notin A \ {t} /\ IsFiniteSet(A \ {t})
    BY <1>4
  <2>2. Cardinality((A \ {t}) \cup {w}) = Cardinality(A \ {t}) + 1
    BY <2>1, FS_AddElement
  <2> QED BY <2>2, <1>2, <1>4
<1> QED BY <1>2, <1>3, <1>4, <1>5

\* While a consumer is parked on an open queue, every item has somebody who will
\* take it or wake somebody for it.
LEMMA ItemsStep == WakeInv /\ Next => ItemsCovered'
<1> SUFFICES ASSUME WakeInv, Next, ~closed', NotEmptyWaiters' # {}
             PROVE  Cardinality(ForConsumers') >= Len(buffer')
  BY DEF ItemsCovered
<1> PICK t \in Threads : Call(t) \/ Run(t) \/ Expire(t) \/ SpuriousWakeup(t)
  BY DEF Next
<1> DEFINE C == ForConsumers
<1>t. /\ pc \in [Threads -> Pcs] /\ buffer \in Seq(Item) /\ Len(buffer) \in Nat
  BY DEF WakeInv, Base, TypeOK
<1>s. C \in SUBSET Threads /\ ForConsumers' \in SUBSET Threads
  BY DEF ForConsumers
<1>c. Cardinality(ForConsumers') \in Nat
  BY <1>s, Counting
\* Nothing the invariant speaks of changes, or one more thread is awake.
<1>k. ASSUME NotEmptyWaiters' \subseteq NotEmptyWaiters, closed' = closed,
             buffer' = buffer,
             C' = C \/ \E u \in Threads \ C : C' = C \cup {u}
      PROVE  Cardinality(C') >= Len(buffer')
  <2>1. Cardinality(C) >= Len(buffer)
    BY <1>k DEF WakeInv, ItemsCovered
  <2> QED BY <1>k, <1>s, <1>t, <2>1, Counting
<1>1. CASE Call(t)
  <2>1. PICK p \in {"push", "try_push", "pop", "pop_for", "try_pop", "shutdown"} :
          pc' = [pc EXCEPT ![t] = p]
    BY <1>1 DEF Call, CallPush, CallPop, CallShutdown, Start
  <2>2. pc[t] = "idle" /\ UNCHANGED <<buffer, closed>>
    BY <1>1 DEF Call, CallPush, CallPop, CallShutdown
  <2>3. NotEmptyWaiters' \subseteq NotEmptyWaiters
    BY <1>t, <2>1, <2>2 DEF NotEmptyWaiters
  <2>4. C' = C \/ C' = C \cup {t}
    BY <1>t, <2>1, <2>2 DEF ForConsumers
  <2> QED BY <1>k, <2>2, <2>3, <2>4 DEF ForConsumers
<1>2. CASE Expire(t) \/ SpuriousWakeup(t)
  <2>1. NotEmptyWaiters' \subseteq NotEmptyWaiters /\ UNCHANGED <<buffer, closed>>
    BY <1>2, <1>t DEF Expire, SpuriousWakeup, Goto, WaitPcs, Resume, NotEmptyWaiters
  <2>2. C' = C \/ (t \notin C /\ C' = C \cup {t})
    BY <1>2, <1>t DEF Expire, SpuriousWakeup, Goto, WaitPcs, Resume, ForConsumers
  <2> QED BY <1>k, <2>1, <2>2
<1>3. CASE PushWait(t) \/ PushClosed(t) \/ AlreadyClosed(t)
  <2>1. NotEmptyWaiters' \subseteq NotEmptyWaiters /\ UNCHANGED <<buffer, closed>>
    BY <1>3, <1>t DEF PushWait, PushClosed, AlreadyClosed, Goto, Return, NotEmptyWaiters
  <2>2. C' = C
    BY <1>3, <1>t DEF PushWait, PushClosed, AlreadyClosed, Goto, Return, ForConsumers
  <2> QED BY <1>k, <2>1, <2>2
<1>4. CASE PushOk(t) \/ TryPush(t)
  <2>1. CASE Insert(t)
    <3>1. NotEmptyWaiters' \subseteq NotEmptyWaiters /\ Len(buffer') = Len(buffer) + 1
      BY <1>4, <1>t, <2>1 DEF PushOk, TryPush, Insert, NotEmptyWaiters
    <3>2. t \notin C /\ C' = C \cup {t}
      BY <1>4, <1>t, <2>1 DEF PushOk, TryPush, Insert, ForConsumers
    <3>3. Cardinality(C) >= Len(buffer)
      BY <3>1, <2>1 DEF WakeInv, ItemsCovered, Insert
    <3> QED BY <1>s, <1>t, <3>1, <3>2, <3>3, Counting
  <2>2. CASE ~Insert(t)
    <3>1. pc[t] = "try_push" /\ pc' = [pc EXCEPT ![t] = "idle"] /\ UNCHANGED <<buffer, closed>>
      BY <1>4, <2>2 DEF PushOk, TryPush, Return
    <3>2. NotEmptyWaiters' \subseteq NotEmptyWaiters /\ C' = C
      BY <3>1, <1>t DEF NotEmptyWaiters, ForConsumers
    <3> QED BY <1>k, <3>1, <3>2
  <2> QED BY <2>1, <2>2
<1>5. CASE buffer' = <<>>
  BY <1>5, <1>c
<1>6. CASE PopWait(t) \/ PopClosed(t) \/ PopTimeout(t)
  BY <1>6, <1>5 DEF PopWait, PopClosed, PopTimeout
<1>7. CASE PopOk(t) \/ TryPop(t)
  <2>1. CASE Extract(t)
    <3>1. NotEmptyWaiters' \subseteq NotEmptyWaiters /\ Len(buffer') = Len(buffer) - 1
          /\ closed' = closed
      BY <1>7, <1>t, <2>1 DEF PopOk, TryPop, Extract, NotEmptyWaiters
    <3>2. C' = C \/ (t \in C /\ C' = C \ {t})
      BY <1>7, <1>t, <2>1 DEF PopOk, TryPop, Extract, ForConsumers
    <3>3. Cardinality(C) >= Len(buffer)
      BY <3>1 DEF WakeInv, ItemsCovered
    <3> QED BY <1>s, <1>t, <3>1, <3>2, <3>3, Counting
  <2>2. CASE ~Extract(t)
    BY <1>7, <2>2, <1>5 DEF PopOk, TryPop
  <2> QED BY <2>1, <2>2
<1>8. CASE NotifyNotEmpty(t)
  <2>1. CASE NotEmptyWaiters = {} /\ pc' = [pc EXCEPT ![t] = "idle"]
    BY <1>t, <2>1 DEF NotEmptyWaiters
  <2>2. ASSUME NEW w \in NotEmptyWaiters,
               pc' = [pc EXCEPT ![t] = "idle", ![w] = Resume(pc[w])]
        PROVE  Cardinality(ForConsumers') >= Len(buffer')
    <3>1. t \in C /\ w \in Threads \ C /\ C' = (C \ {t}) \cup {w}
      BY <1>8, <1>t, <2>2 DEF NotifyNotEmpty, NotEmptyWaiters, Resume, ForConsumers
    <3>2. buffer' = buffer /\ closed' = closed
      BY <1>8 DEF NotifyNotEmpty, NotifyOne
    <3>3. Cardinality(C) >= Len(buffer)
      BY <2>2, <3>2 DEF WakeInv, ItemsCovered
    <3> QED BY <1>s, <3>1, <3>2, <3>3, Counting
  <2> QED BY <1>8, <2>1, <2>2 DEF NotifyNotEmpty, NotifyOne
<1>9. CASE NotifyNotFull(t)
  <2>1. UNCHANGED <<buffer, closed>>
    BY <1>9 DEF NotifyNotFull, NotifyOne
  <2>2. NotEmptyWaiters' \subseteq NotEmptyWaiters /\ C' = C
    BY <1>9, <1>t DEF NotifyNotFull, NotifyOne, NotFullWaiters, Resume, NotEmptyWaiters,
       ForConsumers
  <2> QED BY <1>k, <2>1, <2>2
<1>10. CASE Close(t)
  BY <1>10 DEF Close
<1>11. CASE NotifyAllNotEmpty(t)
  BY <1>11, <1>t DEF NotifyAllNotEmpty, NotEmptyWaiters, Resume
<1>12. CASE NotifyAllNotFull(t)
  <2>1. UNCHANGED <<buffer, closed>>
    BY <1>12 DEF NotifyAllNotFull
  <2>2. NotEmptyWaiters' \subseteq NotEmptyWaiters /\ C' = C
    BY <1>12, <1>t DEF NotifyAllNotFull, NotFullWaiters, Resume, NotEmptyWaiters, ForConsumers
  <2> QED BY <1>k, <2>1, <2>2
<1> QED BY <1>1, <1>2, <1>3, <1>4, <1>6, <1>7, <1>8, <1>9, <1>10, <1>11, <1>12 DEF Run

\* While a producer is parked on an open queue, every free slot has somebody who
\* will fill it or wake somebody for it.
LEMMA SlotsStep == WakeInv /\ Next => SlotsCovered'
<1> SUFFICES ASSUME WakeInv, Next, ~closed', NotFullWaiters' # {}
             PROVE  Cardinality(ForProducers') >= Capacity - Len(buffer')
  BY DEF SlotsCovered
<1> PICK t \in Threads : Call(t) \/ Run(t) \/ Expire(t) \/ SpuriousWakeup(t)
  BY DEF Next
<1> DEFINE P == ForProducers
<1>t. /\ pc \in [Threads -> Pcs] /\ buffer \in Seq(Item) /\ Len(buffer) \in Nat
      /\ Capacity \in Nat /\ Len(buffer) <= Capacity
  BY CapacityPositive DEF WakeInv, Base, TypeOK
<1>s. P \in SUBSET Threads /\ ForProducers' \in SUBSET Threads
  BY DEF ForProducers
<1>c. Cardinality(ForProducers') \in Nat
  BY <1>s, Counting
<1>k. ASSUME NotFullWaiters' \subseteq NotFullWaiters, closed' = closed,
             buffer' = buffer,
             P' = P \/ \E u \in Threads \ P : P' = P \cup {u}
      PROVE  Cardinality(P') >= Capacity - Len(buffer')
  <2>1. Cardinality(P) >= Capacity - Len(buffer)
    BY <1>k DEF WakeInv, SlotsCovered
  <2> QED BY <1>k, <1>s, <1>t, <2>1, Counting
<1>1. CASE Call(t)
  <2>1. PICK p \in {"push", "try_push", "pop", "pop_for", "try_pop", "shutdown"} :
          pc' = [pc EXCEPT ![t] = p]
    BY <1>1 DEF Call, CallPush, CallPop, CallShutdown, Start
  <2>2. pc[t] = "idle" /\ UNCHANGED <<buffer, closed>>
    BY <1>1 DEF Call, CallPush, CallPop, CallShutdown
  <2>3. NotFullWaiters' \subseteq NotFullWaiters
    BY <1>t, <2>1, <2>2 DEF NotFullWaiters
  <2>4. P' = P \/ P' = P \cup {t}
    BY <1>t, <2>1, <2>2 DEF ForProducers
  <2> QED BY <1>k, <2>2, <2>3, <2>4 DEF ForProducers
<1>2. CASE Expire(t) \/ SpuriousWakeup(t)
  <2>1. NotFullWaiters' \subseteq NotFullWaiters /\ UNCHANGED <<buffer, closed>>
    BY <1>2, <1>t DEF Expire, SpuriousWakeup, Goto, WaitPcs, Resume, NotFullWaiters
  <2>2. P' = P \/ (t \notin P /\ P' = P \cup {t})
    BY <1>2, <1>t DEF Expire, SpuriousWakeup, Goto, WaitPcs, Resume, ForProducers
  <2> QED BY <1>k, <2>1, <2>2
<1>3. CASE PopWait(t) \/ PopTimeout(t)
  <2>1. NotFullWaiters' \subseteq NotFullWaiters /\ UNCHANGED <<buffer, closed>>
    BY <1>3, <1>t DEF PopWait, PopTimeout, Goto, Return, NotFullWaiters
  <2>2. P' = P
    BY <1>3, <1>t DEF PopWait, PopTimeout, Goto, Return, ForProducers
  <2> QED BY <1>k, <2>1, <2>2
<1>4. CASE PushOk(t) \/ TryPush(t)
  <2>1. CASE Insert(t)
    <3>1. NotFullWaiters' \subseteq NotFullWaiters /\ Len(buffer') = Len(buffer) + 1
          /\ closed' = closed
      BY <1>4, <1>t, <2>1 DEF PushOk, TryPush, Insert, NotFullWaiters
    <3>2. P' = P \/ (t \in P /\ P' = P \ {t})
      BY <1>4, <1>t, <2>1 DEF PushOk, TryPush, Insert, ForProducers
    <3>3. Cardinality(P) >= Capacity - Len(buffer)
      BY <3>1 DEF WakeInv, SlotsCovered
    <3> QED BY <1>s, <1>t, <3>1, <3>2, <3>3, Counting
  <2>2. CASE ~Insert(t)
    <3>1. pc[t] = "try_push" /\ pc' = [pc EXCEPT ![t] = "idle"] /\ UNCHANGED <<buffer, closed>>
      BY <1>4, <2>2 DEF PushOk, TryPush, Return
    <3>2. NotFullWaiters' \subseteq NotFullWaiters /\ P' = P
      BY <3>1, <1>t DEF NotFullWaiters, ForProducers
    <3> QED BY <1>k, <3>1, <3>2
  <2> QED BY <2>1, <2>2
\* A producer parks only on a full buffer, which leaves no slot to fill.
<1>5. CASE PushWait(t)
  BY <1>5, <1>t, <1>c DEF PushWait
<1>6. CASE PushClosed(t) \/ PopClosed(t) \/ AlreadyClosed(t)
  BY <1>6 DEF PushClosed, PopClosed, AlreadyClosed
<1>7. CASE PopOk(t) \/ TryPop(t)
  <2>1. CASE Extract(t)
    <3>1. NotFullWaiters' \subseteq NotFullWaiters /\ Len(buffer') = Len(buffer) - 1
          /\ closed' = closed
      BY <1>7, <1>t, <2>1 DEF PopOk, TryPop, Extract, NotFullWaiters
    <3>2. t \notin P /\ P' = P \cup {t}
      BY <1>7, <1>t, <2>1 DEF PopOk, TryPop, Extract, ForProducers
    <3>3. Cardinality(P) >= Capacity - Len(buffer)
      BY <3>1 DEF WakeInv, SlotsCovered
    <3> QED BY <1>s, <1>t, <3>1, <3>2, <3>3, Counting
  <2>2. CASE ~Extract(t)
    <3>1. pc[t] = "try_pop" /\ pc' = [pc EXCEPT ![t] = "idle"] /\ UNCHANGED <<buffer, closed>>
      BY <1>7, <2>2 DEF PopOk, TryPop, Return
    <3>2. NotFullWaiters' \subseteq NotFullWaiters /\ P' = P
      BY <3>1, <1>t DEF NotFullWaiters, ForProducers
    <3> QED BY <1>k, <3>1, <3>2
  <2> QED BY <2>1, <2>2
<1>8. CASE NotifyNotFull(t)
  <2>1. CASE NotFullWaiters = {} /\ pc' = [pc EXCEPT ![t] = "idle"]
    BY <1>t, <2>1 DEF NotFullWaiters
  <2>2. ASSUME NEW w \in NotFullWaiters,
               pc' = [pc EXCEPT ![t] = "idle", ![w] = Resume(pc[w])]
        PROVE  Cardinality(ForProducers') >= Capacity - Len(buffer')
    <3>1. t \in P /\ w \in Threads \ P /\ P' = (P \ {t}) \cup {w}
      BY <1>8, <1>t, <2>2 DEF NotifyNotFull, NotFullWaiters, Resume, ForProducers
    <3>2. buffer' = buffer /\ closed' = closed
      BY <1>8 DEF NotifyNotFull, NotifyOne
    <3>3. Cardinality(P) >= Capacity - Len(buffer)
      BY <2>2, <3>2 DEF WakeInv, SlotsCovered
    <3> QED BY <1>s, <3>1, <3>2, <3>3, Counting
  <2> QED BY <1>8, <2>1, <2>2 DEF NotifyNotFull, NotifyOne
<1>9. CASE NotifyNotEmpty(t)
  <2>1. UNCHANGED <<buffer, closed>>
    BY <1>9 DEF NotifyNotEmpty, NotifyOne
  <2>2. NotFullWaiters' \subseteq NotFullWaiters /\ P' = P
    BY <1>9, <1>t DEF NotifyNotEmpty, NotifyOne, NotFullWaiters, Resume, NotEmptyWaiters,
       ForProducers
  <2> QED BY <1>k, <2>1, <2>2
<1>10. CASE Close(t)
  BY <1>10 DEF Close
<1>11. CASE NotifyAllNotFull(t)
  BY <1>11, <1>t DEF NotifyAllNotFull, NotFullWaiters, Resume
<1>12. CASE NotifyAllNotEmpty(t)
  <2>1. UNCHANGED <<buffer, closed>>
    BY <1>12 DEF NotifyAllNotEmpty
  <2>2. NotFullWaiters' \subseteq NotFullWaiters /\ P' = P
    BY <1>12, <1>t DEF NotifyAllNotEmpty, NotEmptyWaiters, Resume, NotFullWaiters, ForProducers
  <2> QED BY <1>k, <2>1, <2>2
<1> QED BY <1>1, <1>2, <1>3, <1>4, <1>5, <1>6, <1>7, <1>8, <1>9, <1>10, <1>11, <1>12 DEF Run

\* A thread still parked on a closed queue has a notify_all coming.
LEMMA CloseStep == WakeInv /\ Next => CloseCovered'
<1> SUFFICES ASSUME WakeInv, Next PROVE CloseCovered'
  OBVIOUS
<1> PICK t \in Threads : Call(t) \/ Run(t) \/ Expire(t) \/ SpuriousWakeup(t)
  BY DEF Next
<1>t. pc \in [Threads -> Pcs]
  BY DEF WakeInv, Base, TypeOK
\* Nobody parks, the flag stays and no announced broadcast is withdrawn.
<1>k. ASSUME NotEmptyWaiters' \subseteq NotEmptyWaiters,
             NotFullWaiters' \subseteq NotFullWaiters, closed' = closed,
             \A u \in Threads :
                pc[u] \in {"notify_all_not_empty", "notify_all_not_full"} => pc'[u] = pc[u]
      PROVE  CloseCovered'
  BY <1>k DEF WakeInv, CloseCovered
<1>1. CASE Call(t)
  BY <1>1, <1>t, <1>k DEF Call, CallPush, CallPop, CallShutdown, Start, NotEmptyWaiters,
     NotFullWaiters
<1>2. CASE Expire(t) \/ SpuriousWakeup(t)
  BY <1>2, <1>t, <1>k DEF Expire, SpuriousWakeup, Goto, WaitPcs, Resume, NotEmptyWaiters,
     NotFullWaiters
<1>3. CASE PushWait(t) \/ PopWait(t) \/ PopTimeout(t)
  BY <1>3 DEF PushWait, PopWait, PopTimeout, CloseCovered
<1>4. CASE PushOk(t) \/ TryPush(t)
  BY <1>4, <1>t, <1>k DEF PushOk, TryPush, Insert, Return, NotEmptyWaiters, NotFullWaiters
<1>5. CASE PopOk(t) \/ TryPop(t)
  BY <1>5, <1>t, <1>k DEF PopOk, TryPop, Extract, Return, NotEmptyWaiters, NotFullWaiters
<1>6. CASE PushClosed(t) \/ PopClosed(t) \/ AlreadyClosed(t)
  BY <1>6, <1>t, <1>k DEF PushClosed, PopClosed, AlreadyClosed, Return, NotEmptyWaiters,
     NotFullWaiters
<1>7. CASE NotifyNotEmpty(t)
  BY <1>7, <1>t, <1>k DEF NotifyNotEmpty, NotifyOne, Resume, NotEmptyWaiters, NotFullWaiters
<1>8. CASE NotifyNotFull(t)
  BY <1>8, <1>t, <1>k DEF NotifyNotFull, NotifyOne, Resume, NotEmptyWaiters, NotFullWaiters
<1>9. CASE Close(t)
  <2>1. pc'[t] = "notify_all_not_empty"
    BY <1>9, <1>t DEF Close, Goto
  <2> QED BY <2>1 DEF CloseCovered
<1>10. CASE NotifyAllNotEmpty(t)
  <2>1. NotEmptyWaiters' = {} /\ pc'[t] = "notify_all_not_full"
    BY <1>10, <1>t DEF NotifyAllNotEmpty, NotEmptyWaiters, Resume
  <2> QED BY <2>1 DEF CloseCovered
<1>11. CASE NotifyAllNotFull(t)
  <2>1. NotFullWaiters' = {} /\ NotEmptyWaiters' \subseteq NotEmptyWaiters /\ closed' = closed
    BY <1>11, <1>t DEF NotifyAllNotFull, NotFullWaiters, NotEmptyWaiters, Resume
  <2>2. \A u \in Threads : pc[u] = "notify_all_not_empty" => pc'[u] = pc[u]
    BY <1>11, <1>t DEF NotifyAllNotFull, NotFullWaiters
  <2> QED BY <2>1, <2>2 DEF WakeInv, CloseCovered
<1> QED BY <1>1, <1>2, <1>3, <1>4, <1>5, <1>6, <1>7, <1>8, <1>9, <1>10, <1>11 DEF Run

\* For every number of threads and every capacity, no item or free slot is ever left
\* with a parked thread that nobody is going to wake, although notify_one is called
\* after the mutex is released and a pop_for may time out while it is notified.
THEOREM WakeupsSuffice == Spec => []NoLostWakeup
<1>1. Init => WakeInv
  BY InitBase DEF Init, WakeInv, ItemsCovered, SlotsCovered, CloseCovered, NotEmptyWaiters,
     NotFullWaiters
<1>2. WakeInv /\ [Next]_vars => WakeInv'
  <2>1. CASE Next
    BY <2>1, BaseStep, ItemsStep, SlotsStep, CloseStep DEF WakeInv
  <2>2. CASE UNCHANGED vars
    BY <2>2, BaseStep DEF vars, WakeInv, ItemsCovered, SlotsCovered, CloseCovered,
       NotEmptyWaiters, NotFullWaiters, ForConsumers, ForProducers
  <2> QED BY <2>1, <2>2
<1>3. WakeInv => NoLostWakeup
  <2>1. /\ ForConsumers = {t \in Threads : pc[t] = "notify_not_empty"} \cup AwakeConsumers
        /\ ForProducers = {t \in Threads : pc[t] = "notify_not_full"} \cup AwakeProducers
    BY DEF ForConsumers, ForProducers, AwakeConsumers, AwakeProducers
  <2> QED BY <2>1 DEF WakeInv, ItemsCovered, SlotsCovered, CloseCovered, NoLostWakeup
<1> QED BY <1>1, <1>2, <1>3, PTL DEF Spec

-----------------------------------------------------------------------------
(* Refinement.                                                              *)

phaseOf == [t \in Threads |-> Phase(pc[t])]

\* Moving one thread to p moves its phase to Phase(p) and nobody else's.
LEMMA PhaseMove ==
    ASSUME pc \in [Threads -> Pcs], NEW t \in Threads, NEW p \in Pcs,
           pc' = [pc EXCEPT ![t] = p]
    PROVE  phaseOf' = [phaseOf EXCEPT ![t] = Phase(p)]
BY DEF phaseOf

\* Leaving a condition variable is invisible to callers.
LEMMA PhaseResume == \A p \in Pcs : Phase(Resume(p)) = Phase(p)
BY DEF Phase, Resume, Pcs, WaitPcs

\* Every call on the queue takes effect at one instant between call and return,
\* with the status that the state at that instant justifies.
THEOREM QueueImplementsFifo == Spec => ImplementsFifo
<1>1. Init => Fifo!FifoInit
  BY DEF Init, Fifo!FifoInit, Fifo!Threads, Threads, Phase
<1>2. Base /\ [Next]_vars => [Fifo!FifoNext]_(Fifo!fifoVars)
  <2> SUFFICES ASSUME Base, Next
               PROVE  Fifo!FifoNext \/ UNCHANGED <<buffer, closed, phaseOf, ret, sent, delivered>>
    BY DEF vars, Fifo!fifoVars, phaseOf
  <2> PICK t \in Threads : Call(t) \/ Run(t) \/ Expire(t) \/ SpuriousWakeup(t)
    BY DEF Next
  <2>t. /\ pc \in [Threads -> Pcs] /\ Len(buffer) \in Nat /\ Len(buffer) <= Capacity
        /\ Capacity \in Nat /\ phaseOf[t] = Phase(pc[t]) /\ Threads = Fifo!Threads
    BY CapacityPositive DEF Base, TypeOK, phaseOf, Threads, Fifo!Threads
  <2>m. ASSUME NEW p \in Pcs, pc' = [pc EXCEPT ![t] = p]
        PROVE  phaseOf' = [phaseOf EXCEPT ![t] = Phase(p)]
    BY <2>m, <2>t, PhaseMove
  <2>s. ASSUME NEW p \in Pcs, pc' = [pc EXCEPT ![t] = p], Phase(p) = Phase(pc[t])
        PROVE  phaseOf' = phaseOf
    BY <2>s, <2>t DEF phaseOf
  <2>f. ASSUME NEW op, NEW st, Return(t, op, st),
               UNCHANGED <<buffer, closed, sent, accepted, delivered>>
        PROVE  Fifo!Finish(t, op, st)
    <3>1. phaseOf' = [phaseOf EXCEPT ![t] = "idle"]
      BY <2>f, <2>m DEF Return, Pcs, Phase
    <3> QED BY <3>1, <2>f DEF Return, Fifo!Finish, phaseOf
  <2>1. CASE Call(t)
    <3>1. CASE CallPush(t)
      <4>1. PICK p \in {"push", "try_push"} : Start(t, p)
        BY <3>1 DEF CallPush
      <4>2. phaseOf' = [phaseOf EXCEPT ![t] = "push"] /\ phaseOf[t] = "idle"
        BY <3>1, <4>1, <2>m, <2>t DEF CallPush, Start, Pcs, Phase
      <4>3. Fifo!BeginPush(t)
        BY <3>1, <4>1, <4>2 DEF CallPush, Start, Fifo!BeginPush, Fifo!Begin, phaseOf
      <4> QED BY <4>3, <2>t DEF Fifo!FifoNext
    <3>2. CASE CallPop(t)
      <4>1. PICK p \in {"pop", "pop_for", "try_pop"} : Start(t, p)
        BY <3>2 DEF CallPop
      <4>2. phaseOf' = [phaseOf EXCEPT ![t] = "pop"] /\ phaseOf[t] = "idle"
        BY <3>2, <4>1, <2>m, <2>t DEF CallPop, Start, Pcs, Phase
      <4>3. Fifo!BeginOther(t)
        BY <3>2, <4>1, <4>2 DEF CallPop, Start, Fifo!BeginOther, Fifo!Begin, phaseOf
      <4> QED BY <4>3, <2>t DEF Fifo!FifoNext
    <3>3. CASE CallShutdown(t)
      <4>2. phaseOf' = [phaseOf EXCEPT ![t] = "shutdown"] /\ phaseOf[t] = "idle"
        BY <3>3, <2>m, <2>t DEF CallShutdown, Start, Pcs, Phase
      <4>3. Fifo!BeginOther(t)
        BY <3>3, <4>2 DEF CallShutdown, Start, Fifo!BeginOther, Fifo!Begin, phaseOf
      <4> QED BY <4>3, <2>t DEF Fifo!FifoNext
    <3> QED BY <2>1, <3>1, <3>2, <3>3 DEF Call
  <2>2. CASE Expire(t) \/ SpuriousWakeup(t) \/ PushWait(t) \/ PopWait(t)
    <3>1. PICK p \in Pcs : pc' = [pc EXCEPT ![t] = p] /\ Phase(p) = Phase(pc[t])
      BY <2>2 DEF Expire, SpuriousWakeup, PushWait, PopWait, Goto, Resume, Phase, Pcs, WaitPcs
    <3> QED BY <2>2, <3>1, <2>s DEF Expire, SpuriousWakeup, PushWait, PopWait
  <2>3. ASSUME Inserts(t) PROVE Fifo!FifoNext
    <3>1. phaseOf' = [phaseOf EXCEPT ![t] = "pushed"] /\ phaseOf[t] = "push"
      BY <2>3, <2>m, <2>t DEF Inserts, Insert, Pcs, Phase
    <3>2. Fifo!Put(t)
      BY <2>3, <3>1 DEF Inserts, Insert, Offered, Fifo!Put, phaseOf
    <3> QED BY <3>2, <2>t DEF Fifo!FifoNext
  <2>4. ASSUME Extract(t), pc[t] \in {"pop", "pop_for", "pop_for_expired", "try_pop"}
        PROVE  Fifo!FifoNext
    <3>1. phaseOf' = [phaseOf EXCEPT ![t] = "popped"] /\ phaseOf[t] = "pop"
      BY <2>4, <2>m, <2>t DEF Extract, Pcs, Phase
    <3>2. Fifo!Take(t)
      BY <2>4, <3>1 DEF Extract, Fifo!Take, phaseOf
    <3> QED BY <3>2, <2>t DEF Fifo!FifoNext
  <2>5. CASE PushOk(t)
    BY <2>5, <2>3 DEF PushOk, Inserts
  <2>6. CASE TryPush(t)
    <3>1. CASE ~(closed \/ Len(buffer) >= Capacity)
      BY <2>6, <3>1, <2>3, <2>t DEF TryPush, Inserts
    <3>2. CASE closed
      <4>1. Fifo!Finish(t, "push", "Closed") /\ phaseOf[t] = "push"
        BY <2>6, <3>2, <2>f, <2>t DEF TryPush, Phase
      <4>2. Fifo!Refuse(t)
        BY <3>2, <4>1 DEF Fifo!Refuse, phaseOf
      <4> QED BY <4>2, <2>t DEF Fifo!FifoNext
    <3>3. CASE ~closed /\ Len(buffer) >= Capacity
      <4>1. Fifo!Finish(t, "push", "Full") /\ phaseOf[t] = "push"
        BY <2>6, <3>3, <2>f, <2>t DEF TryPush, Phase
      <4>2. Fifo!Refuse(t)
        BY <3>3, <4>1, <2>t DEF Fifo!Refuse, phaseOf
      <4> QED BY <4>2, <2>t DEF Fifo!FifoNext
    <3> QED BY <3>1, <3>2, <3>3
  <2>7. CASE PushClosed(t)
    <3>1. Fifo!Finish(t, "push", "Closed") /\ phaseOf[t] = "push" /\ closed
      BY <2>7, <2>f, <2>t DEF PushClosed, Phase
    <3>2. Fifo!Refuse(t)
      BY <3>1 DEF Fifo!Refuse, phaseOf
    <3> QED BY <3>2, <2>t DEF Fifo!FifoNext
  <2>8. CASE PopOk(t)
    BY <2>8, <2>4 DEF PopOk
  <2>9. CASE PopClosed(t)
    <3>1. Fifo!Finish(t, "pop", "Closed") /\ phaseOf[t] = "pop" /\ closed /\ buffer = <<>>
      BY <2>9, <2>f, <2>t DEF PopClosed, Phase
    <3>2. Fifo!Refuse(t)
      BY <3>1 DEF Fifo!Refuse, phaseOf
    <3> QED BY <3>2, <2>t DEF Fifo!FifoNext
  <2>10. CASE PopTimeout(t)
    <3>1. Fifo!Finish(t, "pop", "Timeout") /\ phaseOf[t] = "pop" /\ ~closed /\ buffer = <<>>
      BY <2>10, <2>f, <2>t DEF PopTimeout, Phase
    <3>2. Fifo!Refuse(t)
      BY <3>1 DEF Fifo!Refuse, phaseOf
    <3> QED BY <3>2, <2>t DEF Fifo!FifoNext
  <2>11. CASE TryPop(t)
    <3>1. CASE buffer # <<>>
      BY <2>11, <3>1, <2>4 DEF TryPop
    <3>2. CASE buffer = <<>> /\ closed
      <4>1. Fifo!Finish(t, "pop", "Closed") /\ phaseOf[t] = "pop"
        BY <2>11, <3>2, <2>f, <2>t DEF TryPop, Phase
      <4>2. Fifo!Refuse(t)
        BY <3>2, <4>1 DEF Fifo!Refuse, phaseOf
      <4> QED BY <4>2, <2>t DEF Fifo!FifoNext
    <3>3. CASE buffer = <<>> /\ ~closed
      <4>1. Fifo!Finish(t, "pop", "Empty") /\ phaseOf[t] = "pop"
        BY <2>11, <3>3, <2>f, <2>t DEF TryPop, Phase
      <4>2. Fifo!Refuse(t)
        BY <3>3, <4>1 DEF Fifo!Refuse, phaseOf
      <4> QED BY <4>2, <2>t DEF Fifo!FifoNext
    <3> QED BY <3>1, <3>2, <3>3
  <2>n. ASSUME NEW op, NEW W \in SUBSET Threads, t \notin W, NotifyOne(t, op, W)
        PROVE  Fifo!Finish(t, op, "Ok")
    <3>1. phaseOf' = [phaseOf EXCEPT ![t] = "idle"]
      <4>1. CASE pc' = [pc EXCEPT ![t] = "idle"]
        BY <4>1, <2>m DEF Pcs, Phase
      <4>2. ASSUME NEW w \in W, pc' = [pc EXCEPT ![t] = "idle", ![w] = Resume(pc[w])]
            PROVE  phaseOf' = [phaseOf EXCEPT ![t] = "idle"]
        <5>1. Phase(Resume(pc[w])) = Phase(pc[w])
          BY <2>t, PhaseResume
        <5>2. Phase("idle") = "idle"
          BY DEF Phase
        <5>3. \A u \in Threads : pc'[u] = IF u = w THEN Resume(pc[w])
                                          ELSE IF u = t THEN "idle" ELSE pc[u]
          BY <4>2, <2>t, <2>n
        <5> QED BY <5>1, <5>2, <5>3, <2>n DEF phaseOf
      <4> QED BY <2>n, <4>1, <4>2 DEF NotifyOne
    <3> QED BY <3>1, <2>n DEF NotifyOne, Fifo!Finish, phaseOf
  <2>12. CASE NotifyNotEmpty(t)
    <3>1. Fifo!Finish(t, "push", "Ok") /\ phaseOf[t] = "pushed"
      BY <2>12, <2>n, <2>t DEF NotifyNotEmpty, NotEmptyWaiters, Phase
    <3>2. Fifo!Complete(t)
      BY <3>1 DEF Fifo!Complete, phaseOf
    <3> QED BY <3>2, <2>t DEF Fifo!FifoNext
  <2>13. CASE NotifyNotFull(t)
    <3>1. Fifo!Finish(t, "pop", "Ok") /\ phaseOf[t] = "popped"
      BY <2>13, <2>n, <2>t DEF NotifyNotFull, NotFullWaiters, Phase
    <3>2. Fifo!Complete(t)
      BY <3>1 DEF Fifo!Complete, phaseOf
    <3> QED BY <3>2, <2>t DEF Fifo!FifoNext
  <2>14. CASE Close(t)
    <3>1. phaseOf' = [phaseOf EXCEPT ![t] = "shut"] /\ phaseOf[t] = "shutdown"
      BY <2>14, <2>m, <2>t DEF Close, Goto, Pcs, Phase
    <3>2. Fifo!Shut(t)
      BY <2>14, <3>1 DEF Close, Fifo!Shut, phaseOf
    <3> QED BY <3>2, <2>t DEF Fifo!FifoNext
  <2>15. CASE AlreadyClosed(t)
    <3>1. Fifo!Finish(t, "shutdown", "Ok") /\ phaseOf[t] = "shutdown" /\ closed
      BY <2>15, <2>f, <2>t DEF AlreadyClosed, Phase
    <3>2. Fifo!Refuse(t)
      BY <3>1 DEF Fifo!Refuse, phaseOf
    <3> QED BY <3>2, <2>t DEF Fifo!FifoNext
  <2>16. CASE NotifyAllNotEmpty(t)
    <3>1. \A u \in Threads : Phase(pc'[u]) = Phase(pc[u])
      BY <2>16, <2>t, PhaseResume DEF NotifyAllNotEmpty, Phase
    <3>2. phaseOf' = phaseOf
      BY <3>1 DEF phaseOf
    <3> QED BY <2>16, <3>2 DEF NotifyAllNotEmpty
  <2>17. CASE NotifyAllNotFull(t)
    <3>1. /\ Phase(pc'[t]) = "idle" /\ phaseOf[t] = "shut"
          /\ \A u \in Threads \ {t} : Phase(pc'[u]) = Phase(pc[u])
      BY <2>17, <2>t, PhaseResume DEF NotifyAllNotFull, Phase
    <3>2. phaseOf' = [phaseOf EXCEPT ![t] = "idle"]
      BY <3>1 DEF phaseOf
    <3>3. Fifo!Complete(t)
      BY <2>17, <3>1, <3>2 DEF NotifyAllNotFull, Fifo!Complete, Fifo!Finish, phaseOf
    <3> QED BY <3>3, <2>t DEF Fifo!FifoNext
  <2> QED BY <2>1, <2>2, <2>5, <2>6, <2>7, <2>8, <2>9, <2>10, <2>11, <2>12, <2>13, <2>14,
             <2>15, <2>16, <2>17 DEF Run
<1> QED BY <1>1, <1>2, InitBase, BaseStep, PTL DEF Spec, ImplementsFifo, Fifo!FifoSpec

=============================================================================

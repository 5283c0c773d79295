----------------------- MODULE ReplicatedEngineProofs -----------------------
(***************************************************************************)
(* Theorems about ReplicatedEngine, for any number of replicas, any queue  *)
(* capacities and any number of callers: the rotation spreads requests     *)
(* evenly while the queues are equally deep, and the front implements the  *)
(* ServingEngine protocol that its replicas implement.                     *)
(***************************************************************************)
EXTENDS ReplicatedEngine, FilteringProofs

-----------------------------------------------------------------------------
(* Arithmetic of the rotation.                                             *)

\* Remainders below the divisor, and one turn above it.
LEMMA Remainders ==
    ASSUME NEW n \in Nat \ {0}, NEW a \in 0 .. n - 1
    PROVE  a % n = a /\ (a + n) % n = a
<1>1. a % n = a
  OBVIOUS
<1>2. (a + n) % n = a
  OBVIOUS
<1> QED BY <1>1, <1>2

\* The least element of a set of numbers.
LEMMA MinMember ==
    ASSUME NEW S, S \subseteq Nat, S # {}
    PROVE  Min(S) \in S /\ \A y \in S : Min(S) <= y
<1>1. \E x \in S : \A y \in S : x <= y
  BY LeastNat
<1> QED BY <1>1 DEF Min

-----------------------------------------------------------------------------
(* The inductive invariants.                                               *)

FrontTypes ==
    /\ frontClosed \in BOOLEAN
    /\ rotation \in Replicas
    /\ caller \in [Callers -> {"idle", "choose", "count", "submit", "accepted", "raised"}]
    /\ seen \in [Callers -> Seq(Nat)] /\ \A r \in Callers : Len(seen[r]) <= ReplicaCount
    /\ at \in [Callers -> Replicas \cup {0}]
    /\ reply \in [Callers -> {"none", "queued", "running", "answer", "abandoned"}]
    /\ phase \in [Replicas -> {"open", "closing", "down", "broken"}]
    /\ front \in {"up", "closing", "returned", "raised"}
    /\ stopping \in 1 .. ReplicaCount + 1
    /\ tied \in BOOLEAN

\* A caller has chosen a replica from _choose on, and has a future once it was accepted.
CallersProgress ==
    \A r \in Callers :
        /\ caller[r] \in {"idle", "choose"} => at[r] = 0
        /\ caller[r] \in {"count", "submit", "accepted"} => at[r] \in Replicas
        /\ reply[r] = "none" <=> caller[r] # "accepted"

\* shutdown visits the replicas in order, after it has set _closed.
ShutdownInOrder ==
    /\ \A i \in Replicas : /\ i < stopping => phase[i] \in {"down", "broken"}
                           /\ i > stopping => phase[i] = "open"
                           /\ i = stopping => phase[i] \in {"open", "closing"}
                           /\ phase[i] # "open" => frontClosed
    /\ frontClosed => front # "up"
    /\ front \in {"returned", "raised"} => frontClosed /\ stopping = ReplicaCount + 1

\* A replica that is down has settled what it had.
DownIsSettled ==
    \A r \in Callers : at[r] # 0 /\ phase[at[r]] = "down" => reply[r] \notin Unsettled

\* The replicas before the rotation have been chosen once more than the others.
Chosen(i) == {r \in Callers : at[r] = i}
EvenUpTo(q) ==
    \A i \in Replicas : Cardinality(Chosen(i)) = IF i < rotation THEN q + 1 ELSE q
TurnsTaken == tied => \E q \in Nat : EvenUpTo(q)

\* The inductive invariant.
FrontInv == FrontTypes /\ CallersProgress /\ ShutdownInOrder /\ DownIsSettled /\ TurnsTaken

-----------------------------------------------------------------------------
(* _choose.                                                                *)

\* Every replica comes up in the rotation.
LEMMA TurnReaches ==
    ASSUME rotation \in Replicas, NEW c \in Replicas
    PROVE  \E j \in 0 .. ReplicaCount - 1 : Turn(j) = c
<1>1. ReplicaCount \in Nat \ {0} /\ rotation \in 1 .. ReplicaCount /\ c \in 1 .. ReplicaCount
  BY FrontAssumption DEF Replicas
<1>2. CASE c >= rotation
  <2>1. c - rotation \in 0 .. ReplicaCount - 1 /\ rotation - 1 + (c - rotation) = c - 1
    BY <1>1, <1>2
  <2>2. (c - 1) % ReplicaCount = c - 1
    BY <1>1, Remainders
  <2>3. Turn(c - rotation) = c
    BY <1>1, <2>1, <2>2 DEF Turn
  <2> QED BY <2>1, <2>3
<1>3. CASE c < rotation
  <2>1. /\ c - rotation + ReplicaCount \in 0 .. ReplicaCount - 1
        /\ rotation - 1 + (c - rotation + ReplicaCount) = (c - 1) + ReplicaCount
    BY <1>1, <1>3
  <2>2. ((c - 1) + ReplicaCount) % ReplicaCount = c - 1
    BY <1>1, Remainders
  <2>3. Turn(c - rotation + ReplicaCount) = c
    BY <1>1, <2>1, <2>2 DEF Turn
  <2> QED BY <2>1, <2>3
<1> QED BY <1>1, <1>2, <1>3

\* The rotation after a replica is a replica.
LEMMA AfterReplica ==
    ASSUME NEW i \in Replicas
    PROVE  After(i) \in Replicas /\ After(i) = IF i = ReplicaCount THEN 1 ELSE i + 1
<1>1. ReplicaCount \in Nat \ {0} /\ i \in 1 .. ReplicaCount
  BY FrontAssumption DEF Replicas
<1>2. CASE i = ReplicaCount
  <2>1. i % ReplicaCount = 0
    BY <1>1, <1>2
  <2> QED BY <1>1, <1>2, <2>1 DEF After, Replicas
<1>3. CASE i # ReplicaCount
  <2>1. i % ReplicaCount = i
    BY <1>1, <1>3, Remainders
  <2> QED BY <1>1, <1>3, <2>1 DEF After, Replicas
<1> QED BY <1>2, <1>3

\* A replica is chosen among the shallowest.
LEMMA RouteMember ==
    ASSUME rotation \in Replicas, NEW C \in SUBSET Replicas, C # {}
    PROVE  Route(C).index \in C /\ Route(C).rotation \in Replicas
<1>1. CASE Cardinality(C) = 1
  <2>1. Route(C) = [index |-> CHOOSE i \in C : TRUE, rotation |-> rotation]
    BY <1>1 DEF Route
  <2>2. (CHOOSE i \in C : TRUE) \in C
    OBVIOUS
  <2> QED BY <2>1, <2>2
<1>2. CASE Cardinality(C) # 1
  <2> DEFINE K == {j \in 0 .. ReplicaCount - 1 : Turn(j) \in C}
             k == Min(K)
  <2>1. K \subseteq Nat /\ K # {}
    BY TurnReaches
  <2>2. k \in K
    BY <2>1, MinMember
  <2>3. Turn(k) \in C
    BY <2>2
  <2>4. Route(C) = [index |-> Turn(k), rotation |-> After(Turn(k))]
    BY <1>2 DEF Route
  <2> HIDE DEF k
  <2> QED BY <2>3, <2>4, AfterReplica
<1> QED BY <1>1, <1>2

\* When all are equally deep the rotation decides.
LEMMA RouteTied ==
    ASSUME rotation \in Replicas
    PROVE  Route(Replicas).index = rotation /\ Route(Replicas).rotation = After(rotation)
<1>1. ReplicaCount \in Nat \ {0} /\ rotation \in 1 .. ReplicaCount /\ Cardinality(Replicas) = ReplicaCount
  BY FrontAssumption, FS_Interval DEF Replicas
<1>2. CASE Cardinality(Replicas) = 1
  <2>1. Route(Replicas) = [index |-> CHOOSE i \in Replicas : TRUE, rotation |-> rotation]
    BY <1>2 DEF Route
  <2>2. Replicas = {1} /\ rotation = 1
    BY <1>1, <1>2 DEF Replicas
  <2>3. After(rotation) = 1
    BY <1>1, <1>2, <2>2, AfterReplica
  <2>4. (CHOOSE i \in Replicas : TRUE) = 1
    BY <2>2
  <2> QED BY <2>1, <2>2, <2>3, <2>4
<1>3. CASE Cardinality(Replicas) # 1
  <2> DEFINE K == {j \in 0 .. ReplicaCount - 1 : Turn(j) \in Replicas}
             k == Min(K)
  <2>1. Turn(0) = rotation
    <3>1. (rotation - 1) % ReplicaCount = rotation - 1 /\ rotation - 1 + 0 = rotation - 1
      BY <1>1, Remainders
    <3> QED BY <1>1, <3>1 DEF Turn
  <2>2. K \subseteq Nat /\ 0 \in K
    BY <1>1, <2>1
  <2>3. k \in K /\ k <= 0
    BY <2>2, MinMember
  <2>4. k = 0
    BY <2>2, <2>3
  <2>5. Route(Replicas) = [index |-> Turn(k), rotation |-> After(Turn(k))]
    BY <1>3 DEF Route
  <2> HIDE DEF k
  <2> QED BY <2>1, <2>4, <2>5
<1> QED BY <1>2, <1>3

\* Of the depths that were read some are least.
LEMMA SomeShallowest ==
    ASSUME NEW d \in Seq(Nat), Len(d) = ReplicaCount
    PROVE  ShallowestOf(d) \in SUBSET Replicas /\ ShallowestOf(d) # {}
<1>1. DOMAIN d = Replicas /\ 1 \in Replicas /\ \A i \in Replicas : d[i] \in Nat
  BY FrontAssumption, LenProperties DEF Replicas
<1> DEFINE D == {d[i] : i \in Replicas}
<1>2. D \subseteq Nat /\ D # {}
  BY <1>1
<1>3. PICK x \in D : \A y \in D : x <= y
  BY <1>2, LeastNat
<1>4. PICK i \in Replicas : d[i] = x
  BY <1>3
<1>5. i \in ShallowestOf(d)
  BY <1>1, <1>3, <1>4 DEF ShallowestOf
<1> QED BY <1>1, <1>5 DEF ShallowestOf

-----------------------------------------------------------------------------
(* Steps.                                                                  *)

\* A new front.
LEMMA InitFrontInv ==
    ASSUME NEW caps, FrontInit(caps)
    PROVE  FrontInv
<1> USE DEF FrontInit
<1>1. ReplicaCount \in Nat \ {0} /\ 1 \in Replicas /\ 0 \notin Replicas
  BY FrontAssumption DEF Replicas
<1>2. <<>> \in Seq(Nat) /\ Len(<<>>) = 0
  OBVIOUS
<1>3. FrontTypes
  <2>1. stopping \in 1 .. ReplicaCount + 1 /\ rotation \in Replicas
    BY <1>1
  <2>2. seen \in [Callers -> Seq(Nat)] /\ \A r \in Callers : Len(seen[r]) <= ReplicaCount
    BY <1>1, <1>2
  <2> QED BY <2>1, <2>2 DEF FrontTypes
<1>4. CallersProgress /\ ShutdownInOrder /\ DownIsSettled
  BY <1>1 DEF CallersProgress, ShutdownInOrder, DownIsSettled, Replicas
<1>5. TurnsTaken
  <2>1. \A i \in Replicas : Chosen(i) = {} /\ ~(i < rotation)
    BY <1>1 DEF Chosen, Replicas
  <2>2. EvenUpTo(0)
    BY <2>1, FS_EmptySet DEF EvenUpTo
  <2> QED BY <2>2 DEF TurnsTaken
<1> QED BY <1>3, <1>4, <1>5 DEF FrontInv

\* Steps that choose no replica.
LEMMA TurnsKept ==
    ASSUME TurnsTaken, UNCHANGED <<at, rotation, tied>>
    PROVE  TurnsTaken'
<1>1. \A i : Chosen(i)' = Chosen(i)
  BY DEF Chosen
<1> QED BY <1>1 DEF TurnsTaken, EvenUpTo

\* _choose: when all depths were equal the replica at the rotation is chosen, and the
\* rotation moves on.
LEMMA TurnTaken ==
    ASSUME FrontTypes, CallersProgress, TurnsTaken, NEW r \in Callers, Choose(r)
    PROVE  TurnsTaken'
<1> SUFFICES ASSUME tied' PROVE \E q \in Nat : EvenUpTo(q)'
  BY DEF TurnsTaken
<1>1. tied /\ ShallowestOf(seen[r]) = Replicas /\ at[r] = 0
  BY DEF Choose, CallersProgress
<1>2. rotation \in Replicas /\ ReplicaCount \in Nat \ {0} /\ rotation \in 1 .. ReplicaCount
  BY FrontAssumption DEF FrontTypes, Replicas
<1>3. at' = [at EXCEPT ![r] = rotation] /\ rotation' = After(rotation)
  BY <1>1, <1>2, RouteTied DEF Choose
<1>4. rotation' = IF rotation = ReplicaCount THEN 1 ELSE rotation + 1
  BY <1>2, <1>3, AfterReplica
<1>5. PICK q \in Nat : EvenUpTo(q)
  BY <1>1 DEF TurnsTaken
<1>6. ASSUME NEW i \in Replicas
      PROVE  Cardinality(Chosen(i)') = Cardinality(Chosen(i)) + IF i = rotation THEN 1 ELSE 0
  <2>1. Chosen(i)' = (IF i = rotation THEN Chosen(i) \cup {r} ELSE Chosen(i)) /\ r \notin Chosen(i)
    BY <1>1, <1>3 DEF Chosen, FrontTypes, Replicas
  <2>2. IsFiniteSet(Chosen(i))
    <3>1. Chosen(i) \subseteq Callers
      BY DEF Chosen
    <3> QED BY <3>1, FrontAssumption, FS_Subset
  <2>3. Cardinality(Chosen(i)) \in Nat
    BY <2>2, FS_CardinalityType
  <2>4. CASE i = rotation
    BY <2>1, <2>2, <2>4, FS_AddElement
  <2>5. CASE i # rotation
    BY <2>1, <2>3, <2>5
  <2> QED BY <2>4, <2>5
<1>7. \A i \in Replicas : Cardinality(Chosen(i)) = IF i < rotation THEN q + 1 ELSE q
  BY <1>5 DEF EvenUpTo
<1>8. \A i \in Replicas : Cardinality(Chosen(i)') = IF i <= rotation THEN q + 1 ELSE q
  <2> TAKE i \in Replicas
  <2>1. i \in Nat
    BY DEF Replicas
  <2> QED BY <1>2, <1>6, <1>7, <2>1
<1>9. CASE rotation = ReplicaCount
  <2>1. \A i \in Replicas : Cardinality(Chosen(i)') = IF i < rotation' THEN (q + 1) + 1 ELSE q + 1
    BY <1>2, <1>4, <1>8, <1>9 DEF Replicas
  <2>2. EvenUpTo(q + 1)'
    BY <2>1 DEF EvenUpTo
  <2> QED BY <2>2
<1>10. CASE rotation # ReplicaCount
  <2>1. \A i \in Replicas : Cardinality(Chosen(i)') = IF i < rotation' THEN q + 1 ELSE q
    BY <1>2, <1>4, <1>8, <1>10 DEF Replicas
  <2>2. EvenUpTo(q)'
    BY <2>1 DEF EvenUpTo
  <2> QED BY <2>2
<1> QED BY <1>9, <1>10

\* A step of submit before the replica is called.
LEMMA SubmitStep ==
    ASSUME FrontInv, NEW r \in Callers, FrontSubmit(r)
    PROVE  FrontInv'
<1> USE DEF FrontInv
<1>0. ReplicaCount \in Nat \ {0} /\ 0 \notin Replicas
  BY FrontAssumption DEF Replicas
<1>1. CASE FrontCheckClosed(r)
  <2>1. FrontTypes'
    BY <1>1 DEF FrontCheckClosed, GotoCaller, FrontTypes
  <2>2. CallersProgress'
    BY <1>1 DEF FrontCheckClosed, GotoCaller, FrontTypes, CallersProgress
  <2>3. ShutdownInOrder' /\ DownIsSettled'
    BY <1>1 DEF FrontCheckClosed, ShutdownInOrder, DownIsSettled
  <2>4. TurnsTaken'
    BY <1>1, TurnsKept DEF FrontCheckClosed
  <2> QED BY <2>1, <2>2, <2>3, <2>4
<1>2. CASE ReadDepth(r)
  <2>1. FrontTypes'
    <3>1. \A i : Depth(i) \in Nat
      <4> TAKE i
      <4>1. {s \in Callers : at[s] = i /\ reply[s] = "queued"} \subseteq Callers
        OBVIOUS
      <4>2. IsFiniteSet({s \in Callers : at[s] = i /\ reply[s] = "queued"})
        BY <4>1, FrontAssumption, FS_Subset
      <4> QED BY <4>2, FS_CardinalityType DEF Depth
    <3>2. seen[r] \in Seq(Nat) /\ Len(seen[r]) < ReplicaCount /\ Len(seen[r]) \in Nat
      BY <1>2, LenProperties DEF ReadDepth, FrontTypes
    <3>3. PICK d : d = Append(seen[r], Depth(Len(seen[r]) + 1))
      OBVIOUS
    <3>4. d \in Seq(Nat) /\ Len(d) = Len(seen[r]) + 1
      BY <3>1, <3>2, <3>3, AppendProperties
    <3>5. seen' = [seen EXCEPT ![r] = d]
      BY <1>2, <3>3 DEF ReadDepth
    <3>6. seen' \in [Callers -> Seq(Nat)] /\ \A s \in Callers : Len(seen'[s]) <= ReplicaCount
      BY <1>0, <3>2, <3>4, <3>5 DEF FrontTypes
    <3> QED BY <1>2, <3>6 DEF ReadDepth, FrontTypes
  <2>2. CallersProgress' /\ ShutdownInOrder' /\ DownIsSettled'
    BY <1>2 DEF ReadDepth, CallersProgress, ShutdownInOrder, DownIsSettled
  <2>3. TurnsTaken'
    BY <1>2, TurnsKept DEF ReadDepth
  <2> QED BY <2>1, <2>2, <2>3
<1>3. CASE Choose(r)
  <2>1. seen[r] \in Seq(Nat) /\ Len(seen[r]) = ReplicaCount
    BY <1>3 DEF Choose, FrontTypes
  <2>2. ShallowestOf(seen[r]) \in SUBSET Replicas /\ ShallowestOf(seen[r]) # {}
    BY <2>1, SomeShallowest
  <2>3. PICK i \in Replicas : at' = [at EXCEPT ![r] = i] /\ rotation' \in Replicas
    BY <1>3, <2>2, RouteMember DEF Choose, FrontTypes
  <2>4. /\ caller[r] = "choose" /\ caller' = [caller EXCEPT ![r] = "count"]
        /\ seen' = [seen EXCEPT ![r] = <<>>] /\ tied' \in BOOLEAN
        /\ UNCHANGED <<frontClosed, reply, phase, front, stopping>>
    BY <1>3 DEF Choose, GotoCaller, FrontTypes
  <2>5. FrontTypes'
    <3>1. <<>> \in Seq(Nat) /\ Len(<<>>) = 0
      OBVIOUS
    <3>2. seen' \in [Callers -> Seq(Nat)] /\ \A s \in Callers : Len(seen'[s]) <= ReplicaCount
      BY <1>0, <2>4, <3>1 DEF FrontTypes
    <3> QED BY <2>3, <2>4, <3>2 DEF FrontTypes
  <2>6. CallersProgress'
    BY <2>3, <2>4 DEF CallersProgress, FrontTypes
  <2>7. ShutdownInOrder'
    BY <2>4 DEF ShutdownInOrder
  <2>8. DownIsSettled'
    BY <2>3, <2>4 DEF DownIsSettled, CallersProgress, FrontTypes, Unsettled
  <2>9. TurnsTaken'
    BY <1>3, TurnTaken
  <2> QED BY <2>5, <2>6, <2>7, <2>8, <2>9
<1>4. CASE CountRouted(r)
  <2>1. FrontTypes' /\ CallersProgress'
    BY <1>4 DEF CountRouted, GotoCaller, FrontTypes, CallersProgress
  <2>2. ShutdownInOrder' /\ DownIsSettled'
    BY <1>4 DEF CountRouted, ShutdownInOrder, DownIsSettled
  <2>3. TurnsTaken'
    BY <1>4, TurnsKept DEF CountRouted
  <2> QED BY <2>1, <2>2, <2>3
<1> QED BY <1>1, <1>2, <1>3, <1>4 DEF FrontSubmit

\* What a replica does with a request.
LEMMA ReplicaStep ==
    ASSUME FrontInv, NEW r \in Callers, Replica(r, TRUE, {"answer"})
    PROVE  FrontInv'
<1> USE DEF FrontInv
<1>1. CASE ReplicaAccepts(r) \/ ReplicaRefuses(r, TRUE)
  <2>1. /\ UNCHANGED <<frontClosed, rotation, seen, at, phase, front, stopping, tied>>
        /\ \/ /\ reply' = [reply EXCEPT ![r] = "queued"] /\ caller' = [caller EXCEPT ![r] = "accepted"]
              /\ phase[at[r]] # "down"
           \/ reply' = reply /\ caller' = [caller EXCEPT ![r] = "raised"]
        /\ caller[r] = "submit"
    BY <1>1 DEF ReplicaAccepts, ReplicaRefuses, GotoCaller
  <2>2. FrontTypes' /\ CallersProgress'
    <3>1. FrontTypes'
      BY <2>1 DEF FrontTypes
    <3>2. CallersProgress'
      BY <2>1 DEF FrontTypes, CallersProgress
    <3> QED BY <3>1, <3>2
  <2>3. ShutdownInOrder'
    BY <2>1 DEF ShutdownInOrder
  <2>4. DownIsSettled'
    BY <2>1 DEF DownIsSettled, FrontTypes
  <2>5. TurnsTaken'
    BY <2>1, TurnsKept
  <2> QED BY <2>2, <2>3, <2>4, <2>5
<1>2. CASE ReplicaDequeues(r) \/ ReplicaAnswers(r, {"answer"}) \/ ReplicaAbandons(r)
  <2>1. /\ UNCHANGED <<frontClosed, rotation, caller, seen, at, phase, front, stopping, tied>>
        /\ \E how \in {"running", "answer", "abandoned"} : reply' = [reply EXCEPT ![r] = how]
        /\ reply[r] \in Unsettled
    BY <1>2 DEF ReplicaDequeues, ReplicaAnswers, ReplicaAbandons, SetReply, Unsettled
  <2>2. FrontTypes' /\ CallersProgress'
    BY <2>1 DEF FrontTypes, CallersProgress, Unsettled
  <2>3. ShutdownInOrder'
    BY <2>1 DEF ShutdownInOrder
  <2>4. DownIsSettled'
    BY <2>1 DEF DownIsSettled, FrontTypes
  <2>5. TurnsTaken'
    BY <2>1, TurnsKept
  <2> QED BY <2>2, <2>3, <2>4, <2>5
<1> QED BY <1>1, <1>2 DEF Replica

\* A step of shutdown.
LEMMA ShutdownStep ==
    ASSUME FrontInv, CallFrontShutdown \/ FrontShutdown
    PROVE  FrontInv'
<1> USE DEF FrontInv
<1>0. ReplicaCount \in Nat \ {0} /\ Replicas = 1 .. ReplicaCount
  BY FrontAssumption DEF Replicas
<1>1. UNCHANGED <<rotation, caller, seen, at, reply, tied>>
  BY DEF CallFrontShutdown, FrontShutdown, CloseFront, ShutReplica, NextReplica, FrontReturns
<1>2. CallersProgress' /\ TurnsTaken'
  BY <1>1, TurnsKept DEF CallersProgress
<1>3. CASE CallFrontShutdown
  BY <1>1, <1>2, <1>3 DEF CallFrontShutdown, FrontTypes, ShutdownInOrder, DownIsSettled
<1>4. CASE CloseFront
  BY <1>1, <1>2, <1>4 DEF CloseFront, FrontTypes, ShutdownInOrder, DownIsSettled
<1>5. CASE ShutReplica
  <2>1. /\ stopping \in Replicas /\ phase' = [phase EXCEPT ![stopping] = "closing"] /\ frontClosed
        /\ UNCHANGED <<frontClosed, front, stopping>>
    BY <1>0, <1>5 DEF ShutReplica, FrontTypes
  <2>2. FrontTypes'
    BY <1>1, <2>1 DEF FrontTypes
  <2>3. ShutdownInOrder'
    BY <2>1 DEF ShutdownInOrder, FrontTypes
  <2>4. DownIsSettled'
    BY <1>1, <2>1 DEF DownIsSettled, FrontTypes
  <2> QED BY <1>2, <2>2, <2>3, <2>4
<1>6. CASE NextReplica
  <2>1. PICK how \in {"down", "broken"} :
          /\ phase[stopping] = "closing" /\ phase' = [phase EXCEPT ![stopping] = how]
          /\ how = "down" => \A r \in Callers : at[r] = stopping => reply[r] \notin Unsettled
    BY <1>6 DEF NextReplica, ReplicaDown
  <2>2. /\ stopping \in Replicas /\ stopping' = stopping + 1 /\ UNCHANGED <<frontClosed, front>>
    BY <1>0, <1>6 DEF NextReplica, FrontTypes
  <2>3. FrontTypes'
    BY <1>0, <1>1, <2>1, <2>2 DEF FrontTypes
  <2>4. ShutdownInOrder'
    <3>1. front \notin {"returned", "raised"} /\ frontClosed
      BY <1>0, <2>1, <2>2 DEF ShutdownInOrder
    <3>2. ASSUME NEW i \in Replicas
          PROVE  /\ i < stopping' => phase'[i] \in {"down", "broken"}
                 /\ i > stopping' => phase'[i] = "open"
                 /\ i = stopping' => phase'[i] \in {"open", "closing"}
      <4>1. i \in Nat /\ stopping \in Nat
        BY <1>0, <2>2
      <4>2. phase'[i] = IF i = stopping THEN how ELSE phase[i]
        BY <2>1, <2>2 DEF FrontTypes
      <4> QED BY <2>2, <4>1, <4>2 DEF ShutdownInOrder
    <3> QED BY <2>2, <3>1, <3>2 DEF ShutdownInOrder
  <2>5. DownIsSettled'
    BY <1>1, <2>1, <2>2 DEF DownIsSettled, FrontTypes
  <2> QED BY <1>2, <2>3, <2>4, <2>5
<1>7. CASE FrontReturns
  <2>1. /\ front = "closing" /\ stopping = ReplicaCount + 1 /\ front' \in {"returned", "raised"}
        /\ UNCHANGED <<frontClosed, phase, stopping>>
    BY <1>0, <1>7 DEF FrontReturns, FrontTypes
  <2>2. frontClosed
    BY <1>0, <2>1 DEF ShutdownInOrder
  <2> QED BY <1>1, <1>2, <2>1, <2>2 DEF FrontTypes, ShutdownInOrder, DownIsSettled
<1> QED BY <1>3, <1>4, <1>5, <1>6, <1>7 DEF FrontShutdown

\* Every step keeps the inductive invariant.
LEMMA NextFrontInv == FrontInv /\ [FrontNext]_frontVars => FrontInv'
<1> SUFFICES ASSUME FrontInv, [FrontNext]_frontVars PROVE FrontInv'
  OBVIOUS
<1>1. CASE UNCHANGED frontVars
  <2>1. TurnsTaken'
    BY <1>1, TurnsKept DEF FrontInv, frontVars
  <2> QED BY <1>1, <2>1 DEF FrontInv, frontVars, FrontTypes, CallersProgress, ShutdownInOrder, DownIsSettled
<1> QED BY <1>1, SubmitStep, ReplicaStep, ShutdownStep DEF FrontNext

-----------------------------------------------------------------------------
(* The theorems.                                                           *)

\* Every reachable state of the front satisfies the inductive invariant.
THEOREM FrontInvariance ==
    ASSUME NEW CONSTANT caps
    PROVE  FrontSpec(caps) => []FrontInv
<1>1. FrontInit(caps) => FrontInv
  BY InitFrontInv
<1> QED BY <1>1, NextFrontInv, PTL DEF FrontSpec

\* While the depths that callers read are all equal, no replica is chosen more often than
\* another by more than one, for any number of replicas and any interleaving of the calls.
THEOREM RotationTheorem ==
    ASSUME NEW CONSTANT caps
    PROVE  FrontSpec(caps) => []RotationSpreads
<1>1. ASSUME FrontInv PROVE RotationSpreads
  <2> SUFFICES ASSUME tied, NEW i \in Replicas, NEW j \in Replicas
               PROVE  Cardinality(Chosen(i)) <= Cardinality(Chosen(j)) + 1
    BY DEF RotationSpreads, Chosen
  <2>1. PICK q \in Nat : EvenUpTo(q)
    BY <1>1 DEF FrontInv, TurnsTaken
  <2>2. Cardinality(Chosen(i)) \in {q, q + 1} /\ Cardinality(Chosen(j)) \in {q, q + 1}
    BY <2>1 DEF EvenUpTo
  <2> QED BY <2>2
<1>2. FrontInv => RotationSpreads
  BY <1>1
<1> QED BY <1>2, FrontInvariance, PTL

-----------------------------------------------------------------------------
(* The front implements the protocol.                                      *)

\* What a caller sees of its request.
CallSeen(c) == IF c \in {"idle", "raised", "accepted"} THEN c ELSE "inside"
FutureSeen(how, broken) ==
    IF how = "abandoned" THEN "abandoned"
    ELSE IF how \notin {"none", "queued", "running"} THEN "answered"
    ELSE IF broken THEN "owed" ELSE "pending"
Broken(r) == at[r] # 0 /\ phase[at[r]] = "broken"

\* The refinement mapping, before and after a step.
LEMMA Views ==
    /\ FrontCall = [r \in Callers |-> CallSeen(caller[r])]
    /\ FrontFuture = [r \in Callers |-> FutureSeen(reply[r], Broken(r))]
    /\ FrontCall' = [r \in Callers |-> CallSeen(caller'[r])]
    /\ FrontFuture' = [r \in Callers |-> FutureSeen(reply'[r], Broken(r)')]
<1>1. FrontCall = [r \in Callers |-> CallSeen(caller[r])]
  BY DEF FrontCall, CallSeen
<1>2. FrontFuture = [r \in Callers |-> FutureSeen(reply[r], Broken(r))]
  BY DEF FrontFuture, FutureSeen, Broken, Unsettled
<1>3. FrontCall' = [r \in Callers |-> CallSeen(caller'[r])]
  BY DEF FrontCall, CallSeen
<1>4. FrontFuture' = [r \in Callers |-> FutureSeen(reply'[r], Broken(r)')]
  BY DEF FrontFuture, FutureSeen, Broken, Unsettled
<1> QED BY <1>1, <1>2, <1>3, <1>4

\* Steps that change where one call is.
LEMMA CallMoves ==
    ASSUME NEW r \in Callers, NEW pc, caller = [s \in Callers |-> caller[s]],
           caller' = [caller EXCEPT ![r] = pc], UNCHANGED <<at, reply, phase>>
    PROVE  /\ FrontCall' = [FrontCall EXCEPT ![r] = CallSeen(pc)]
           /\ FrontFuture' = FrontFuture
<1>1. \A s \in Callers : Broken(s)' = Broken(s)
  BY DEF Broken
<1>2. FrontFuture' = FrontFuture
  BY <1>1, Views
<1>3. \A s \in Callers : CallSeen(caller'[s]) = IF s = r THEN CallSeen(pc) ELSE CallSeen(caller[s])
  OBVIOUS
<1>4. FrontCall' = [FrontCall EXCEPT ![r] = CallSeen(pc)]
  BY <1>3, Views
<1> QED BY <1>2, <1>4

\* Steps that change one reply.
LEMMA ReplyMoves ==
    ASSUME NEW r \in Callers, NEW how, reply = [s \in Callers |-> reply[s]],
           reply' = [reply EXCEPT ![r] = how], UNCHANGED <<at, phase>>
    PROVE  FrontFuture' = [FrontFuture EXCEPT ![r] = FutureSeen(how, Broken(r))]
<1>1. \A s \in Callers : Broken(s)' = Broken(s)
  BY DEF Broken
<1>2. \A s \in Callers : FutureSeen(reply'[s], Broken(s)')
                           = IF s = r THEN FutureSeen(how, Broken(r)) ELSE FutureSeen(reply[s], Broken(s))
  BY <1>1
<1> QED BY <1>2, Views

\* Steps that choose no replica and break none.
LEMMA SameViews ==
    ASSUME UNCHANGED <<caller, at, reply>>, \A r \in Callers : Broken(r)' = Broken(r)
    PROVE  FrontCall' = FrontCall /\ FrontFuture' = FrontFuture
BY Views

\* A step of the front is a step of the protocol, or is not seen by the callers.
SeenStep == FrontServing!Next \/ UNCHANGED <<FrontCall, FrontFuture, FrontPhase>>

\* A step of submit before the replica is called.
LEMMA SubmitRefines ==
    ASSUME FrontInv, NEW r \in Callers, FrontSubmit(r)
    PROVE  SeenStep
<1> USE DEF FrontInv
<1>0. /\ caller = [s \in Callers |-> caller[s]] /\ FrontPhase' = FrontPhase
      /\ FrontCall[r] = CallSeen(caller[r]) /\ FrontFuture[r] = FutureSeen(reply[r], Broken(r))
  <2>1. FrontPhase' = FrontPhase
    BY DEF FrontSubmit, FrontCheckClosed, ReadDepth, Choose, CountRouted, FrontPhase
  <2>2. caller = [s \in Callers |-> caller[s]] /\ reply = [s \in Callers |-> reply[s]]
    BY DEF FrontTypes
  <2> QED BY <2>1, <2>2, Views
<1>1. CASE FrontCheckClosed(r)
  <2>1. FrontFuture' = FrontFuture /\ FrontCall[r] = "idle"
        /\ \/ FrontCall' = [FrontCall EXCEPT ![r] = "raised"]
           \/ FrontCall' = [FrontCall EXCEPT ![r] = "inside"]
    <3>1. PICK pc \in {"raised", "choose"} : caller' = [caller EXCEPT ![r] = pc]
      BY <1>1 DEF FrontCheckClosed, GotoCaller
    <3>2. FrontCall' = [FrontCall EXCEPT ![r] = CallSeen(pc)] /\ FrontFuture' = FrontFuture
      BY <1>0, <1>1, <3>1, CallMoves DEF FrontCheckClosed
    <3> QED BY <1>0, <1>1, <3>1, <3>2 DEF CallSeen, FrontCheckClosed
  <2>2. FrontServing!Call(r) \/ FrontServing!Refuse(r)
    BY <1>0, <2>1 DEF FrontServing!Call, FrontServing!Refuse
  <2> QED BY <2>2 DEF SeenStep, FrontServing!Next
<1>2. CASE ReadDepth(r)
  <2>1. UNCHANGED <<caller, at, reply, phase>>
    BY <1>2 DEF ReadDepth
  <2>2. FrontCall' = FrontCall /\ FrontFuture' = FrontFuture
    BY <2>1, SameViews DEF Broken
  <2> QED BY <1>0, <2>2 DEF SeenStep
<1>3. CASE Choose(r)
  <2>1. /\ caller[r] = "choose" /\ caller' = [caller EXCEPT ![r] = "count"]
        /\ UNCHANGED <<reply, phase>>
    BY <1>3 DEF Choose, GotoCaller
  <2>2. PICK i : at' = [at EXCEPT ![r] = i]
    BY <1>3 DEF Choose
  <2>3. FrontCall' = FrontCall /\ FrontCall[r] = "inside"
    <3>1. \A s \in Callers : CallSeen(caller'[s]) = CallSeen(caller[s])
      BY <1>0, <2>1 DEF CallSeen
    <3> QED BY <1>0, <2>1, <3>1, Views DEF CallSeen
  <2>4. FrontFuture[r] = "pending" /\ reply[r] = "none"
    BY <1>0, <2>1 DEF CallersProgress, FutureSeen, Broken
  <2>5. \A s \in Callers : s # r => Broken(s)' = Broken(s)
    BY <2>1, <2>2 DEF Broken, FrontTypes
  <2>6. FutureSeen(reply'[r], Broken(r)') = IF Broken(r)' THEN "owed" ELSE "pending"
    BY <2>1, <2>4 DEF FutureSeen
  <2>7. CASE Broken(r)'
    <3>1. FrontFuture' = [s \in Callers |-> IF s \in {r} THEN "owed" ELSE FrontFuture[s]]
      <4>1. \A s \in Callers : FutureSeen(reply'[s], Broken(s)') = IF s \in {r} THEN "owed" ELSE FrontFuture[s]
        BY <2>1, <2>5, <2>6, <2>7, Views
      <4> QED BY <4>1, Views
    <3>2. {r} \in SUBSET {s \in Callers : FrontCall[s] # "idle" /\ FrontFuture[s] = "pending"}
      BY <2>3, <2>4
    <3>3. FrontServing!Owe
      BY <1>0, <2>3, <3>1, <3>2 DEF FrontServing!Owe
    <3> QED BY <3>3 DEF SeenStep, FrontServing!Next
  <2>8. CASE ~Broken(r)'
    <3>1. \A s \in Callers : FutureSeen(reply'[s], Broken(s)') = FutureSeen(reply[s], Broken(s))
      BY <1>0, <2>1, <2>4, <2>5, <2>6, <2>8
    <3>2. FrontFuture' = FrontFuture
      BY <3>1, Views
    <3> QED BY <1>0, <2>3, <3>2 DEF SeenStep
  <2> QED BY <2>7, <2>8
<1>4. CASE CountRouted(r)
  <2>1. caller[r] = "count" /\ caller' = [caller EXCEPT ![r] = "submit"] /\ UNCHANGED <<at, reply, phase>>
    BY <1>4 DEF CountRouted, GotoCaller
  <2>2. FrontCall' = [FrontCall EXCEPT ![r] = "inside"] /\ FrontFuture' = FrontFuture
    <3>1. CallSeen("submit") = "inside"
      BY DEF CallSeen
    <3> QED BY <1>0, <2>1, <3>1, CallMoves
  <2>3. FrontCall' = FrontCall
    <3>1. FrontCall[r] = "inside"
      BY <1>0, <2>1 DEF CallSeen
    <3> QED BY <2>2, <3>1, Views
  <2> QED BY <1>0, <2>2, <2>3 DEF SeenStep
<1> QED BY <1>1, <1>2, <1>3, <1>4 DEF FrontSubmit

\* What a replica does with a request.
LEMMA ReplicaRefines ==
    ASSUME FrontInv, NEW r \in Callers, Replica(r, TRUE, {"answer"})
    PROVE  SeenStep
<1> USE DEF FrontInv
<1>0. /\ caller = [s \in Callers |-> caller[s]] /\ reply = [s \in Callers |-> reply[s]] /\ FrontPhase' = FrontPhase
      /\ FrontCall[r] = CallSeen(caller[r]) /\ FrontFuture[r] = FutureSeen(reply[r], Broken(r))
  <2>1. FrontPhase' = FrontPhase
    BY DEF Replica, ReplicaAccepts, ReplicaRefuses, ReplicaDequeues, ReplicaAnswers,
           ReplicaAbandons, SetReply, FrontPhase
  <2>2. caller = [s \in Callers |-> caller[s]] /\ reply = [s \in Callers |-> reply[s]]
    BY DEF FrontTypes
  <2> QED BY <2>1, <2>2, Views
<1>1. CASE ReplicaAccepts(r)
  <2>1. /\ caller[r] = "submit" /\ caller' = [caller EXCEPT ![r] = "accepted"]
        /\ reply' = [reply EXCEPT ![r] = "queued"] /\ UNCHANGED <<at, phase>>
        /\ phase[at[r]] \in {"open", "closing"}
    BY <1>1 DEF ReplicaAccepts, GotoCaller
  <2>2. at[r] \in Replicas /\ reply[r] = "none" /\ ~Broken(r)
    BY <2>1 DEF CallersProgress, Broken
  <2>3. FrontPhase # "down"
    <3>1. at[r] \in Nat /\ stopping \in Nat /\ at[r] <= ReplicaCount /\ ReplicaCount \in Nat
      BY <2>2, FrontAssumption DEF FrontTypes, Replicas
    <3>2. ~(at[r] < stopping)
      BY <2>1, <2>2 DEF ShutdownInOrder
    <3> QED BY <3>1, <3>2 DEF ShutdownInOrder, FrontPhase
  <2>4. FrontFuture' = FrontFuture
    <3>1. FrontFuture' = [FrontFuture EXCEPT ![r] = FutureSeen("queued", Broken(r))]
      BY <1>0, <2>1, ReplyMoves
    <3>2. FutureSeen("queued", Broken(r)) = FrontFuture[r]
      BY <1>0, <2>2 DEF FutureSeen
    <3> QED BY <3>1, <3>2, Views
  <2>5. FrontCall' = [FrontCall EXCEPT ![r] = "accepted"] /\ FrontCall[r] = "inside"
    <3>1. \A s \in Callers : CallSeen(caller'[s]) = IF s = r THEN "accepted" ELSE CallSeen(caller[s])
      BY <1>0, <2>1 DEF CallSeen
    <3> QED BY <1>0, <2>1, <3>1, Views DEF CallSeen
  <2>6. FrontServing!Accept(r)
    BY <1>0, <2>3, <2>4, <2>5 DEF FrontServing!Accept
  <2> QED BY <2>6 DEF SeenStep, FrontServing!Next
<1>2. CASE ReplicaRefuses(r, TRUE)
  <2>1. caller[r] = "submit" /\ caller' = [caller EXCEPT ![r] = "raised"] /\ UNCHANGED <<at, reply, phase>>
    BY <1>2 DEF ReplicaRefuses, GotoCaller
  <2>2. FrontCall' = [FrontCall EXCEPT ![r] = "raised"] /\ FrontFuture' = FrontFuture
    <3>1. CallSeen("raised") = "raised"
      BY DEF CallSeen
    <3> QED BY <1>0, <2>1, <3>1, CallMoves
  <2>3. FrontServing!Refuse(r)
    BY <1>0, <2>1, <2>2 DEF FrontServing!Refuse, CallSeen
  <2> QED BY <2>3 DEF SeenStep, FrontServing!Next
<1>3. CASE ReplicaDequeues(r) \/ ReplicaAnswers(r, {"answer"}) \/ ReplicaAbandons(r)
  <2>1. /\ reply[r] \in {"queued", "running"} /\ UNCHANGED <<caller, at, phase>>
        /\ \/ reply' = [reply EXCEPT ![r] = "running"]
           \/ reply' = [reply EXCEPT ![r] = "answer"]
           \/ reply' = [reply EXCEPT ![r] = "abandoned"] /\ phase[at[r]] = "closing"
    BY <1>3 DEF ReplicaDequeues, ReplicaAnswers, ReplicaAbandons, SetReply, Unsettled
  <2>2. caller[r] = "accepted" /\ at[r] \in Replicas
    BY <2>1 DEF CallersProgress, FrontTypes
  <2>3. /\ FrontCall' = FrontCall /\ FrontCall[r] = "accepted"
        /\ FrontFuture[r] \in {"pending", "owed"}
    BY <1>0, <2>1, <2>2, Views DEF CallSeen, FutureSeen
  <2>4. CASE reply' = [reply EXCEPT ![r] = "running"]
    <3>1. FrontFuture' = [FrontFuture EXCEPT ![r] = FutureSeen("running", Broken(r))]
      BY <1>0, <2>1, <2>4, ReplyMoves
    <3>2. FutureSeen("running", Broken(r)) = FrontFuture[r]
      BY <1>0, <2>1 DEF FutureSeen
    <3>3. FrontFuture' = FrontFuture
      BY <3>1, <3>2, Views
    <3> QED BY <1>0, <2>3, <3>3 DEF SeenStep
  <2>5. CASE reply' = [reply EXCEPT ![r] = "answer"]
    <3>1. FrontFuture' = [FrontFuture EXCEPT ![r] = FutureSeen("answer", Broken(r))]
      BY <1>0, <2>1, <2>5, ReplyMoves
    <3>2. FutureSeen("answer", Broken(r)) = "answered"
      BY DEF FutureSeen
    <3>3. FrontServing!Settle(r)
      BY <1>0, <2>3, <3>1, <3>2 DEF FrontServing!Settle
    <3> QED BY <3>3 DEF SeenStep, FrontServing!Next
  <2>6. CASE reply' = [reply EXCEPT ![r] = "abandoned"] /\ phase[at[r]] = "closing"
    <3>1. FrontFuture' = [FrontFuture EXCEPT ![r] = FutureSeen("abandoned", Broken(r))]
      BY <1>0, <2>1, <2>6, ReplyMoves
    <3>2. FutureSeen("abandoned", Broken(r)) = "abandoned"
      BY DEF FutureSeen
    <3>3. FrontPhase # "open"
      BY <2>2, <2>6 DEF ShutdownInOrder, FrontPhase
    <3>4. FrontServing!Settle(r)
      BY <1>0, <2>3, <3>1, <3>2, <3>3 DEF FrontServing!Settle
    <3> QED BY <3>4 DEF SeenStep, FrontServing!Next
  <2> QED BY <2>1, <2>4, <2>5, <2>6
<1> QED BY <1>1, <1>2, <1>3 DEF Replica

\* A step of shutdown.
LEMMA ShutdownRefines ==
    ASSUME FrontInv, CallFrontShutdown \/ FrontShutdown
    PROVE  SeenStep
<1> USE DEF FrontInv
<1>0. UNCHANGED <<caller, at, reply>> /\ FrontCall' = FrontCall
  <2>1. UNCHANGED <<caller, at, reply>>
    BY DEF CallFrontShutdown, FrontShutdown, CloseFront, ShutReplica, NextReplica, FrontReturns
  <2> QED BY <2>1, Views
<1>1. CASE CallFrontShutdown \/ ShutReplica
  <2>1. \A r \in Callers : Broken(r)' = Broken(r)
    <3>1. CASE CallFrontShutdown
      BY <1>0, <3>1 DEF CallFrontShutdown, Broken
    <3>2. CASE ShutReplica
      BY <1>0, <3>2 DEF ShutReplica, Broken, FrontTypes
    <3> QED BY <1>1, <3>1, <3>2
  <2>2. FrontPhase' = FrontPhase
    BY <1>1 DEF CallFrontShutdown, ShutReplica, FrontPhase, ShutdownInOrder
  <2> QED BY <1>0, <2>1, <2>2, SameViews DEF SeenStep
<1>2. CASE CloseFront
  <2>1. \A r \in Callers : Broken(r)' = Broken(r)
    BY <1>0, <1>2 DEF CloseFront, Broken
  <2>2. FrontPhase = "open" /\ FrontPhase' = "closing"
    BY <1>2 DEF CloseFront, FrontPhase
  <2>3. FrontServing!BeginShutdown
    BY <1>0, <2>1, <2>2, SameViews DEF FrontServing!BeginShutdown
  <2> QED BY <2>3 DEF SeenStep, FrontServing!Next
<1>3. CASE NextReplica
  <2>1. PICK how \in {"down", "broken"} : phase[stopping] = "closing" /\ phase' = [phase EXCEPT ![stopping] = how]
    BY <1>3 DEF NextReplica, ReplicaDown
  <2>2. stopping \in Replicas /\ 0 \notin Replicas /\ UNCHANGED <<frontClosed, front>>
    BY <1>3, FrontAssumption DEF NextReplica, FrontTypes, Replicas
  <2>3. FrontPhase' = FrontPhase
    BY <2>2 DEF FrontPhase
  <2>4. PICK R : R = {r \in Callers : at[r] = stopping /\ reply[r] \in {"none", "queued", "running"}}
    OBVIOUS
  <2>5. CASE how = "down"
    <3>1. \A r \in Callers : Broken(r)' = Broken(r)
      BY <1>0, <2>1, <2>2, <2>5 DEF Broken, FrontTypes
    <3> QED BY <1>0, <2>3, <3>1, SameViews DEF SeenStep
  <2>6. CASE how = "broken"
    <3>1. \A r \in Callers : Broken(r)' <=> Broken(r) \/ at[r] = stopping
      BY <1>0, <2>1, <2>2, <2>6 DEF Broken, FrontTypes
    <3>2. \A r \in Callers : at[r] = stopping => ~Broken(r)
      BY <2>1 DEF Broken
    <3>3. \A r \in Callers : FutureSeen(reply'[r], Broken(r)') = IF r \in R THEN "owed" ELSE FrontFuture[r]
      BY <1>0, <2>4, <3>1, <3>2, Views DEF FutureSeen
    <3>4. FrontFuture' = [r \in Callers |-> IF r \in R THEN "owed" ELSE FrontFuture[r]]
      BY <3>3, Views
    <3>5. R \in SUBSET {r \in Callers : FrontCall[r] # "idle" /\ FrontFuture[r] = "pending"}
      <4> SUFFICES ASSUME NEW r \in R
                   PROVE  r \in Callers /\ FrontCall[r] # "idle" /\ FrontFuture[r] = "pending"
        OBVIOUS
      <4>1. r \in Callers /\ caller[r] # "idle" /\ ~Broken(r) /\ reply[r] \in {"none", "queued", "running"}
        BY <2>2, <2>4, <3>2 DEF CallersProgress
      <4> QED BY <4>1, Views DEF CallSeen, FutureSeen
    <3>6. FrontServing!Owe
      BY <1>0, <2>3, <3>4, <3>5 DEF FrontServing!Owe
    <3> QED BY <3>6 DEF SeenStep, FrontServing!Next
  <2> QED BY <2>5, <2>6
<1>4. CASE FrontReturns
  <2>1. /\ front = "closing" /\ stopping = ReplicaCount + 1 /\ front' \in {"returned", "raised"}
        /\ UNCHANGED <<frontClosed, phase>>
    BY <1>4, FrontAssumption DEF FrontReturns, FrontTypes
  <2>2. \A i \in Replicas : phase[i] \in {"down", "broken"}
    BY <2>1, FrontAssumption DEF ShutdownInOrder, Replicas
  <2>3. 1 \in Replicas
    BY FrontAssumption DEF Replicas
  <2>4. frontClosed
    BY <2>2, <2>3 DEF ShutdownInOrder
  <2>5. FrontPhase = "closing" /\ FrontPhase' = "down"
    BY <2>1, <2>4 DEF FrontPhase
  <2>6. FrontFuture' = FrontFuture
    BY <1>0, <2>1, SameViews DEF Broken
  <2>7. ASSUME NEW r \in Callers, FrontCall[r] = "accepted" PROVE FrontFuture[r] # "pending"
    <3>1. caller[r] = "accepted"
      BY <2>7, Views DEF CallSeen
    <3>2. at[r] \in Replicas /\ at[r] # 0
      BY <3>1 DEF CallersProgress, Replicas
    <3>3. Broken(r) \/ reply[r] \notin {"none", "queued", "running"}
      BY <2>2, <3>1, <3>2 DEF Broken, DownIsSettled, CallersProgress, Unsettled
    <3> QED BY <3>3, Views DEF FutureSeen
  <2>8. FrontServing!EndShutdown
    BY <1>0, <2>5, <2>6, <2>7 DEF FrontServing!EndShutdown
  <2> QED BY <2>8 DEF SeenStep, FrontServing!Next
<1> QED BY <1>1, <1>2, <1>3, <1>4 DEF FrontShutdown

\* The front as a whole keeps the promise its replicas keep: every behaviour of it is, as
\* callers see it, a behaviour of the ServingEngine protocol.
THEOREM FrontKeepsPromiseTheorem ==
    ASSUME NEW CONSTANT caps
    PROVE  FrontSpec(caps) => FrontKeepsPromise
<1>1. FrontInit(caps) => FrontServing!Init
  <2> SUFFICES ASSUME FrontInit(caps) PROVE FrontServing!Init
    OBVIOUS
  <2>1. FrontPhase = "open"
    BY DEF FrontInit, FrontPhase
  <2>2. \A r \in Callers : CallSeen(caller[r]) = "idle" /\ FutureSeen(reply[r], Broken(r)) = "pending"
    BY DEF FrontInit, CallSeen, FutureSeen, Broken
  <2> QED BY <2>1, <2>2, Views DEF FrontServing!Init
<1>2. FrontInv /\ [FrontNext]_frontVars => [FrontServing!Next]_(FrontServing!engineVars)
  <2> SUFFICES ASSUME FrontInv, [FrontNext]_frontVars
               PROVE  [FrontServing!Next]_(FrontServing!engineVars)
    OBVIOUS
  <2>1. CASE UNCHANGED frontVars
    BY <2>1 DEF frontVars, FrontServing!engineVars, FrontCall, FrontFuture, FrontPhase
  <2>2. CASE FrontNext
    <3>1. SeenStep
      BY <2>2, SubmitRefines, ReplicaRefines, ShutdownRefines DEF FrontNext
    <3> QED BY <3>1 DEF SeenStep, FrontServing!engineVars
  <2> QED BY <2>1, <2>2
<1> QED BY <1>1, <1>2, FrontInvariance, PTL DEF FrontSpec, FrontKeepsPromise, FrontServing!Spec

=============================================================================
